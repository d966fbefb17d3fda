----------------------------- MODULE AudioPath -----------------------------
(***************************************************************************)
(* The device's audio hardware as audio_player.c and audio_recorder.c      *)
(* share it: one speaker codec, one microphone codec, two mutexes that are *)
(* never held together, and a few flags read across them without a lock.   *)
(*                                                                         *)
(* Every action is one critical section of the code, so that whatever may  *)
(* happen between an unlock and the next lock may happen between two       *)
(* actions.  The callers are as permissive as the firmware: any number of  *)
(* streaming tasks run the sequence of voice_client_play_speech, and the   *)
(* user interface may start or stop a recording, or stop the playback, at  *)
(* any moment.                                                             *)
(***************************************************************************)
CONSTANTS
    Streams,        \* tasks that may be inside voice_client_play_speech
    Contexts,       \* values of audio_recorder_callbacks_t.context
    NoContext,      \* no recording was started yet
    CloseCanFail    \* whether esp_codec_dev_close may return an error

ASSUME CloseCanFailAssumption == CloseCanFail \in BOOLEAN
ASSUME NoContextAssumption == NoContext \notin Contexts

VARIABLES
    \* audio_player.c
    playing,        \* s_playing
    abort,          \* s_abort
    speakerOpen,    \* s_codec_open of the player
    audioEnabled,   \* s_audio_enabled of the player
    \* audio_recorder.c
    recording,      \* s_recording
    recorderTask,   \* s_task # NULL
    completing,     \* s_completing
    micOpen,        \* s_codec_open of the recorder
    callbacks,      \* s_callbacks.context
    \* history and control
    capture,        \* the context the newest recorder task was started with
    speakerJammed,  \* some close of the speaker has failed
    stream,         \* where each streaming task is in the player's functions
    failed          \* whether its result is an error so far

playerVars == <<playing, abort, speakerOpen, audioEnabled, speakerJammed>>
recorderVars == <<recording, recorderTask, completing, micOpen, callbacks, capture>>
streamVars == <<stream, failed>>
vars == <<playerVars, recorderVars, streamVars>>

(***************************************************************************)
(* "claimed"   stream_begin set s_playing and has not paused the recorder  *)
(* "refused"   the recorder refused the pause; s_playing is to be cleared  *)
(* "paused"    the recorder is paused; the codec is to be opened           *)
(* "open"      stream_begin returned ESP_OK: the task writes PCM           *)
(* "finished"  stream_finish released the codec, and is to pause again     *)
(* "stopping"  the download failed: audio_player_stop is to be called      *)
(***************************************************************************)
StreamStates == {"idle", "claimed", "refused", "paused", "open", "finished", "stopping"}

\* The values load_volume leaves in s_audio_enabled: any byte of NVS, # 0.
StoredAudioEnabled == BOOLEAN

Init ==
    /\ playing = FALSE /\ abort = FALSE /\ speakerOpen = FALSE /\ speakerJammed = FALSE
    /\ audioEnabled \in StoredAudioEnabled
    /\ recording = FALSE /\ recorderTask = FALSE /\ completing = FALSE
    /\ micOpen = FALSE /\ callbacks = NoContext /\ capture = NoContext
    /\ stream = [s \in Streams |-> "idle"]
    /\ failed = [s \in Streams |-> FALSE]

-----------------------------------------------------------------------------
(* Effects shared by several callers.                                      *)

\* Outcomes of esp_codec_dev_close: TRUE when the codec was closed.
CloseResults == IF CloseCanFail THEN BOOLEAN ELSE {TRUE}

\* audio_player_stop, and a mutant that raises s_abort over nothing
PlayerStopAlways ==
    /\ abort' = TRUE
    /\ playing' = FALSE
    /\ UNCHANGED <<speakerOpen, audioEnabled, speakerJammed>>

PlayerStop ==
    /\ abort' = (playing \/ speakerOpen)
    /\ playing' = FALSE
    /\ UNCHANGED <<speakerOpen, audioEnabled, speakerJammed>>

\* audio_recorder_pause; ok is whether it returns ESP_OK.  The mutant does not
\* look for a capture.
RecorderPauseUnchecked(ok) ==
    /\ \E closed \in CloseResults :
          /\ ok = (micOpen => closed)
          /\ micOpen' = (micOpen /\ ~closed)
    /\ UNCHANGED <<recording, recorderTask, completing, callbacks, capture>>

RecorderPause(ok) ==
    /\ IF recording \/ recorderTask
       THEN ~ok /\ UNCHANGED micOpen
       ELSE \E closed \in CloseResults :
                /\ ok = (micOpen => closed)
                /\ micOpen' = (micOpen /\ ~closed)
    /\ UNCHANGED <<recording, recorderTask, completing, callbacks, capture>>

Moves(s, from, to) == stream[s] = from /\ stream' = [stream EXCEPT ![s] = to]

Failing(s, bad) == failed' = [failed EXCEPT ![s] = bad]

-----------------------------------------------------------------------------
(* audio_player_stream_begin: three critical sections.                     *)

BeginClaim(s) ==
    /\ ~playing /\ ~abort /\ audioEnabled
    /\ Moves(s, "idle", "claimed")
    /\ playing' = TRUE
    /\ Failing(s, FALSE)
    /\ UNCHANGED <<abort, speakerOpen, audioEnabled, speakerJammed, recorderVars>>

\* The first test fails, and voice_client_play_speech goes on to stop.
BeginReject(s) ==
    /\ playing \/ abort \/ ~audioEnabled
    /\ Moves(s, "idle", "stopping")
    /\ Failing(s, TRUE)
    /\ UNCHANGED <<playerVars, recorderVars>>

\* The download fails before it has delivered an acceptable WAV header.
DownloadFails(s) ==
    /\ Moves(s, "idle", "stopping")
    /\ Failing(s, TRUE)
    /\ UNCHANGED <<playerVars, recorderVars>>

BeginPause(s) ==
    /\ \E ok \in BOOLEAN :
          /\ RecorderPause(ok)
          /\ Moves(s, "claimed", IF ok THEN "paused" ELSE "refused")
    /\ UNCHANGED <<playerVars, failed>>

BeginUnclaim(s) ==
    /\ Moves(s, "refused", "stopping")
    /\ playing' = FALSE
    /\ Failing(s, TRUE)
    /\ UNCHANGED <<abort, speakerOpen, audioEnabled, speakerJammed, recorderVars>>

BeginOpen(s) ==
    /\ ~abort
    /\ Moves(s, "paused", "open")
    /\ speakerOpen' = TRUE
    /\ UNCHANGED <<playing, abort, audioEnabled, speakerJammed, recorderVars, failed>>

\* The playback was stopped meanwhile, or the codec does not open.
BeginAbandon(s) ==
    /\ Moves(s, "paused", "stopping")
    /\ playing' = FALSE
    /\ Failing(s, TRUE)
    /\ UNCHANGED <<abort, speakerOpen, audioEnabled, speakerJammed, recorderVars>>

-----------------------------------------------------------------------------
(* audio_player_stream_write, audio_player_stream_finish and the end of    *)
(* voice_client_play_speech.                                               *)

\* What audio_player_stream_write requires of a task that begun its stream.
CanWrite(s) == stream[s] = "open" /\ ~abort /\ speakerOpen /\ playing

\* A write is refused, the codec fails or the download breaks.
StreamBreaks(s) ==
    /\ stream[s] = "open" /\ ~failed[s]
    /\ Failing(s, TRUE)
    /\ UNCHANGED <<playerVars, recorderVars, stream>>

\* The first part of stream_finish; closed is the outcome of closing the
\* codec.  The mutant forgets to lower s_abort.
StreamFinishAborted(s) ==
    /\ \E closed \in CloseResults :
          /\ speakerOpen' = (speakerOpen /\ ~closed)
          /\ speakerJammed' = (speakerJammed \/ (speakerOpen /\ ~closed))
          /\ Failing(s, failed[s] \/ (speakerOpen /\ ~closed))
    /\ Moves(s, "open", "finished")
    /\ playing' = FALSE
    /\ UNCHANGED <<abort, audioEnabled, recorderVars>>

StreamFinish(s) ==
    /\ \E closed \in CloseResults :
          /\ speakerOpen' = (speakerOpen /\ ~closed)
          /\ speakerJammed' = (speakerJammed \/ (speakerOpen /\ ~closed))
          /\ Failing(s, failed[s] \/ (speakerOpen /\ ~closed))
    /\ Moves(s, "open", "finished")
    /\ playing' = FALSE
    /\ abort' = FALSE
    /\ UNCHANGED <<audioEnabled, recorderVars>>

\* stream_finish pauses the recorder, whose refusal is an error of the stream.
StreamFinishPause(s) ==
    /\ \E ok \in BOOLEAN :
          /\ RecorderPause(ok)
          /\ Failing(s, failed[s] \/ ~ok)
          /\ Moves(s, "finished", IF failed[s] \/ ~ok THEN "stopping" ELSE "idle")
    /\ UNCHANGED playerVars

\* A failed download calls audio_player_stop, whoever is playing by then.
StreamStop(s) ==
    /\ Moves(s, "stopping", "idle")
    /\ PlayerStop
    /\ UNCHANGED <<recorderVars, failed>>

StreamStep(s) ==
    \/ DownloadFails(s) \/ BeginClaim(s) \/ BeginReject(s)
    \/ BeginPause(s) \/ BeginUnclaim(s) \/ BeginOpen(s) \/ BeginAbandon(s)
    \/ StreamBreaks(s) \/ StreamFinish(s) \/ StreamFinishPause(s) \/ StreamStop(s)

-----------------------------------------------------------------------------
(* audio_recorder_start, _stop and the recorder task.                      *)

\* audio_recorder_start's test, and mutants without one of its parts
CanStartEarly == ~recording /\ ~recorderTask /\ ~playing
CanStartOverPlayback == ~recording /\ ~recorderTask /\ ~completing
CanStart == ~recording /\ ~recorderTask /\ ~completing /\ ~playing

\* A mutant keeps the pointer to the caller's callbacks, not a copy of them.
RecorderStartByPointer(context) ==
    /\ CanStart
    /\ micOpen' = TRUE
    /\ callbacks' = "dangling"
    /\ recording' = TRUE
    /\ recorderTask' = TRUE
    /\ capture' = context
    /\ UNCHANGED <<completing, playerVars>>

RecorderStart(context) ==
    /\ CanStart
    /\ micOpen' = TRUE
    /\ callbacks' = context
    /\ recording' = TRUE
    /\ recorderTask' = TRUE
    /\ capture' = context
    /\ UNCHANGED <<completing, playerVars>>

\* The microphone opens but the task cannot be created, and start undoes it.
RecorderStartFails(context) ==
    /\ CanStart
    /\ callbacks' = context
    /\ \E closed \in CloseResults : micOpen' = ~closed
    /\ UNCHANGED <<recording, recorderTask, completing, capture, playerVars>>

RecorderStop ==
    /\ recording' = FALSE
    /\ UNCHANGED <<recorderTask, completing, micOpen, callbacks, capture, playerVars>>

\* The capture loop ends (stopped, full, or a read failed) and
\* prepare_completion releases the microphone.
PrepareCompletion ==
    /\ recorderTask
    /\ recording' = FALSE
    /\ completing' = TRUE
    /\ recorderTask' = FALSE
    /\ \E closed \in CloseResults : micOpen' = (micOpen /\ ~closed)
    /\ UNCHANGED <<callbacks, capture, playerVars>>

\* on_complete has returned.
FinishCompletion ==
    /\ completing
    /\ completing' = FALSE
    /\ UNCHANGED <<recording, recorderTask, micOpen, callbacks, capture, playerVars>>

\* audio_player_set_audio_enabled, once NVS has stored the setting
SetAudioEnabled(enabled) ==
    /\ audioEnabled' = enabled
    /\ UNCHANGED <<playing, abort, speakerOpen, speakerJammed, recorderVars>>

UserStep ==
    \/ \E c \in Contexts : RecorderStart(c) \/ RecorderStartFails(c)
    \/ RecorderStop
    \/ \E enabled \in BOOLEAN : SetAudioEnabled(enabled)
    \/ PlayerStop /\ UNCHANGED recorderVars

RecorderTaskStep == PrepareCompletion \/ FinishCompletion

Next ==
    \/ \E s \in Streams : StreamStep(s)
    \/ (UserStep \/ RecorderTaskStep) /\ UNCHANGED streamVars

(***************************************************************************)
(* Tasks that entered the player or the recorder always run on: no mutex   *)
(* is held across a wait, downloads have a timeout and a capture ends when *)
(* its buffer is full.  Nobody has to start anything.                      *)
(***************************************************************************)
Progress(s) ==
    \/ BeginPause(s) \/ BeginUnclaim(s) \/ BeginOpen(s) \/ BeginAbandon(s)
    \/ StreamFinish(s) \/ StreamFinishPause(s) \/ StreamStop(s)

Spec == Init /\ [][Next]_vars

FairSpec ==
    /\ Spec
    /\ \A s \in Streams : WF_vars(Progress(s))
    /\ WF_vars(RecorderTaskStep /\ UNCHANGED streamVars)

-----------------------------------------------------------------------------
TypeOK ==
    /\ playing \in BOOLEAN /\ abort \in BOOLEAN /\ speakerOpen \in BOOLEAN
    /\ audioEnabled \in BOOLEAN /\ speakerJammed \in BOOLEAN
    /\ recording \in BOOLEAN /\ recorderTask \in BOOLEAN
    /\ completing \in BOOLEAN /\ micOpen \in BOOLEAN
    /\ callbacks \in Contexts \cup {NoContext}
    /\ capture \in Contexts \cup {NoContext}
    /\ stream \in [Streams -> StreamStates]
    /\ failed \in [Streams -> BOOLEAN]

\* A stream that is to come back to the player, and clear s_playing or s_abort.
Engaged(s) == stream[s] \in {"claimed", "refused", "paused", "open"}

\* s_playing is raised only for a stream that lowers it on its way out.
PlayingHasOwner == playing => \E s \in Streams : Engaged(s)

\* A running capture never loses its microphone: the pauses that playback
\* makes before and after a stream leave the codec alone while a recorder
\* task lives (audio_recorder_pause refuses).
MicrophoneHeld == recorderTask => micOpen

\* The recorder task reports to the operation that started it: s_callbacks is
\* global, and no later start overwrites it while the capture runs or while
\* its completion callback does.
CallbackIsCaptures == recorderTask \/ completing => callbacks = capture

\* A capture keeps what it was started with: its microphone and its callback.
CaptureKeepsItsOwn == TypeOK /\ MicrophoneHeld /\ CallbackIsCaptures

\* While a capture runs, s_playing is only ever the claim of a stream that is
\* about to be refused: no stream passes from its claim to writing.  So PCM
\* of a stream can reach the speaker under a capture only while another
\* stream's claim is being refused.
CaptureExcludesPlayback ==
    recorderTask /\ playing => \E s \in Streams : stream[s] \in {"claimed", "refused"}

\* A raised s_abort has someone to lower it: it refuses every later
\* stream_begin, so outliving the streams it was meant for it would silence
\* the device until a reboot.  A speaker that failed to close is the one
\* exception.
AbortHasOwner ==
    abort => speakerJammed \/ \E s \in Streams : Engaged(s) \/ stream[s] = "stopping"

\* The speaker codec is open only for a stream that will finish it.
SpeakerHasOwner ==
    speakerOpen => speakerJammed \/ \E s \in Streams : stream[s] = "open"

\* A cancellation is transient: playback becomes possible again once the
\* running streams have come back, but for a speaker that failed to close.
AbortIsTransient == abort ~> ~abort \/ speakerJammed

\* What is raised or open has a stream that will lower or close it: s_playing,
\* s_abort and the speaker codec, which tasks set and clear without a lock.
PlayerIsOwned == PlayingHasOwner /\ AbortHasOwner /\ SpeakerHasOwner
=============================================================================
