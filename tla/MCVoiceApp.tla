---------------------------- MODULE MCVoiceApp -----------------------------
EXTENDS VoiceApp, TLC
Symmetric == Permutations(Tokens) \cup Permutations(Questions)

\* Values no step reads any more: the result of a finished playback, and the
\* recorder's callbacks between two captures.
Live ==
    LET idle == pc["rec"] = "none"
    IN  <<playing, abort, speakerOpen, audioEnabled, speakerJammed,
          recording, recorderTask, completing, micOpen,
          IF idle THEN NoToken ELSE callbacks, IF idle THEN NoToken ELSE capture,
          stream, [t \in Tokens |-> failed[t] /\ task[t] = "streaming"],
          wavVars, opVars, uiVars, pc, held, task, answer, soundOn, queue, touches, failures>>
=============================================================================
