-------------------------- MODULE AudioPath_proofs --------------------------
(***************************************************************************)
(* The safety invariants of AudioPath hold for any number of streaming     *)
(* tasks and recording contexts, whether or not a codec may fail to close. *)
(*                                                                         *)
(* The argument is one inductive invariant.  The flags s_playing, s_abort  *)
(* and the player's s_codec_open are written by every task, so that none   *)
(* of them says whose it is; what the proof adds is that each of them,     *)
(* while raised, has a task inside audio_player.c that lowers it on its    *)
(* way out.                                                                *)
(***************************************************************************)
EXTENDS AudioPath, TLAPS

\* What the capture relies on, and what the raised flags of the player do.
CaptureInv == MicrophoneHeld /\ CallbackIsCaptures /\ CaptureExcludesPlayback
PlayerInv == PlayingHasOwner /\ SpeakerHasOwner /\ AbortHasOwner

IInv == TypeOK /\ CaptureInv /\ PlayerInv

-----------------------------------------------------------------------------
\* Closing a codec has a Boolean outcome, whether or not it may fail.
LEMMA CloseResultsType == CloseResults \subseteq BOOLEAN
  BY CloseCanFailAssumption DEF CloseResults

\* The pause that playback makes leaves a running capture its microphone, and
\* succeeds only when there is no capture.
LEMMA PauseSparesCapture ==
  ASSUME TypeOK, NEW ok \in BOOLEAN, RecorderPause(ok)
  PROVE  /\ micOpen' \in BOOLEAN
         /\ recorderTask => micOpen' = micOpen /\ ~ok
         /\ UNCHANGED <<recording, recorderTask, completing, callbacks, capture>>
  BY CloseResultsType DEF TypeOK, RecorderPause

\* Every assignment of every action stays within the types.
LEMMA TypeStep ==
  ASSUME TypeOK, [Next]_vars
  PROVE  TypeOK'
<1> USE CloseResultsType DEF TypeOK, StreamStates, playerVars, recorderVars, streamVars,
        Moves, Failing
<1>1. ASSUME NEW s \in Streams, StreamStep(s)
      PROVE  TypeOK'
  <2>1. CASE DownloadFails(s)
    BY <2>1 DEF DownloadFails
  <2>2. CASE BeginClaim(s)
    BY <2>2 DEF BeginClaim
  <2>3. CASE BeginReject(s)
    BY <2>3 DEF BeginReject
  <2>4. CASE BeginPause(s)
    <3>1. PICK ok \in BOOLEAN :
              /\ RecorderPause(ok)
              /\ Moves(s, "claimed", IF ok THEN "paused" ELSE "refused")
      BY <2>4 DEF BeginPause
    <3>2. micOpen' \in BOOLEAN /\ UNCHANGED <<recording, recorderTask, completing, callbacks, capture>>
      BY <3>1, PauseSparesCapture
    <3> QED BY <2>4, <3>1, <3>2 DEF BeginPause
  <2>5. CASE BeginUnclaim(s)
    BY <2>5 DEF BeginUnclaim
  <2>6. CASE BeginOpen(s)
    BY <2>6 DEF BeginOpen
  <2>7. CASE BeginAbandon(s)
    BY <2>7 DEF BeginAbandon
  <2>8. CASE StreamBreaks(s)
    BY <2>8 DEF StreamBreaks
  <2>9. CASE StreamFinish(s)
    BY <2>9 DEF StreamFinish
  <2>10. CASE StreamFinishPause(s)
    <3>1. PICK ok \in BOOLEAN :
              /\ RecorderPause(ok)
              /\ Failing(s, failed[s] \/ ~ok)
              /\ Moves(s, "finished", IF failed[s] \/ ~ok THEN "stopping" ELSE "idle")
      BY <2>10 DEF StreamFinishPause
    <3>2. micOpen' \in BOOLEAN /\ UNCHANGED <<recording, recorderTask, completing, callbacks, capture>>
      BY <3>1, PauseSparesCapture
    <3> QED BY <2>10, <3>1, <3>2 DEF StreamFinishPause
  <2>11. CASE StreamStop(s)
    BY <2>11 DEF StreamStop, PlayerStop
  <2> QED
    BY <1>1, <2>1, <2>2, <2>3, <2>4, <2>5, <2>6, <2>7, <2>8, <2>9, <2>10, <2>11
    DEF StreamStep
<1>2. ASSUME UserStep, UNCHANGED streamVars
      PROVE  TypeOK'
  <2>1. ASSUME NEW c \in Contexts, RecorderStart(c)
        PROVE  TypeOK'
    BY <1>2, <2>1 DEF RecorderStart
  <2>2. ASSUME NEW c \in Contexts, RecorderStartFails(c)
        PROVE  TypeOK'
    BY <1>2, <2>2 DEF RecorderStartFails
  <2>3. CASE RecorderStop
    BY <1>2, <2>3 DEF RecorderStop
  <2>4. ASSUME NEW enabled \in BOOLEAN, SetAudioEnabled(enabled)
        PROVE  TypeOK'
    BY <1>2, <2>4 DEF SetAudioEnabled
  <2>5. CASE PlayerStop /\ UNCHANGED recorderVars
    BY <1>2, <2>5 DEF PlayerStop
  <2> QED BY <1>2, <2>1, <2>2, <2>3, <2>4, <2>5 DEF UserStep
<1>3. ASSUME RecorderTaskStep, UNCHANGED streamVars
      PROVE  TypeOK'
  <2>1. CASE PrepareCompletion
    BY <1>3, <2>1 DEF PrepareCompletion
  <2>2. CASE FinishCompletion
    BY <1>3, <2>2 DEF FinishCompletion
  <2> QED BY <1>3, <2>1, <2>2 DEF RecorderTaskStep
<1>4. CASE UNCHANGED vars
  BY <1>4 DEF vars
<1> QED BY <1>1, <1>2, <1>3, <1>4 DEF Next

\* Every variable of AudioPath always has its type.
THEOREM TypeCorrect == Spec => []TypeOK
<1>1. Init => TypeOK
  BY DEF Init, StoredAudioEnabled, TypeOK, StreamStates
<1>2. TypeOK /\ [Next]_vars => TypeOK'
  BY TypeStep
<1> QED BY <1>1, <1>2, PTL DEF Spec
-----------------------------------------------------------------------------
\* Only the stream that moves is elsewhere afterwards.
LEMMA MoveOne ==
  ASSUME TypeOK, NEW s \in Streams, NEW from, NEW to, Moves(s, from, to)
  PROVE  /\ stream[s] = from /\ stream'[s] = to
         /\ \A u \in Streams \ {s} : stream'[u] = stream[u]
  BY DEF Moves, TypeOK

\* A step of a stream keeps the capture's invariants: it never touches what a
\* recorder task depends on, and where it leaves s_playing raised under a
\* capture it is still a claim to be refused.
LEMMA CaptureStreamStep ==
  ASSUME IInv, NEW s \in Streams, StreamStep(s)
  PROVE  CaptureInv'
<1> USE DEF IInv, CaptureInv, MicrophoneHeld, CallbackIsCaptures, CaptureExcludesPlayback,
        playerVars, recorderVars
<1>1. CASE DownloadFails(s) \/ BeginReject(s)
  <2>1. Moves(s, "idle", "stopping") /\ UNCHANGED <<playerVars, recorderVars>>
    BY <1>1 DEF DownloadFails, BeginReject
  <2> QED BY <2>1, MoveOne
<1>2. CASE BeginClaim(s)
  BY <1>2, MoveOne DEF BeginClaim
<1>3. CASE BeginPause(s)
  <2>1. PICK ok \in BOOLEAN :
            /\ RecorderPause(ok)
            /\ Moves(s, "claimed", IF ok THEN "paused" ELSE "refused")
    BY <1>3 DEF BeginPause
  <2>2. /\ recorderTask => micOpen' = micOpen /\ ~ok
        /\ UNCHANGED <<recording, recorderTask, completing, callbacks, capture>>
    BY <2>1, PauseSparesCapture
  <2>3. recorderTask => stream'[s] = "refused"
    BY <2>1, <2>2, MoveOne
  <2> QED BY <2>2, <2>3, <1>3 DEF BeginPause
<1>4. CASE BeginUnclaim(s) \/ BeginAbandon(s)
  <2>1. ~playing' /\ UNCHANGED recorderVars
    BY <1>4 DEF BeginUnclaim, BeginAbandon
  <2> QED BY <2>1
<1>5. CASE BeginOpen(s)
  BY <1>5, MoveOne DEF BeginOpen
<1>6. CASE StreamBreaks(s)
  BY <1>6 DEF StreamBreaks
<1>7. CASE StreamFinish(s)
  BY <1>7 DEF StreamFinish
<1>8. CASE StreamFinishPause(s)
  <2>1. PICK ok \in BOOLEAN :
            /\ RecorderPause(ok)
            /\ Moves(s, "finished", IF failed[s] \/ ~ok THEN "stopping" ELSE "idle")
    BY <1>8 DEF StreamFinishPause
  <2>2. /\ recorderTask => micOpen' = micOpen
        /\ UNCHANGED <<recording, recorderTask, completing, callbacks, capture>>
    BY <2>1, PauseSparesCapture
  <2>3. \A u \in Streams : stream[u] # "finished" => stream'[u] = stream[u]
    BY <2>1, MoveOne
  <2> QED BY <2>2, <2>3, <1>8 DEF StreamFinishPause
<1>9. CASE StreamStop(s)
  BY <1>9 DEF StreamStop, PlayerStop
<1> QED
  BY <1>1, <1>2, <1>3, <1>4, <1>5, <1>6, <1>7, <1>8, <1>9 DEF StreamStep

\* A step of a stream keeps the player's: a stream that gives up its claim
\* lowers s_playing, one that gives up the codec lowers s_abort, and
\* audio_player_stop raises s_abort only over another stream's claim.
LEMMA PlayerStreamStep ==
  ASSUME IInv, NEW s \in Streams, StreamStep(s)
  PROVE  PlayerInv'
<1> USE DEF IInv, PlayerInv, PlayingHasOwner, SpeakerHasOwner, AbortHasOwner, Engaged,
        playerVars
<1>1. CASE DownloadFails(s) \/ BeginReject(s)
  <2>1. Moves(s, "idle", "stopping") /\ UNCHANGED <<playerVars, recorderVars>>
    BY <1>1 DEF DownloadFails, BeginReject
  <2> QED BY <2>1, MoveOne
<1>2. CASE BeginClaim(s)
  BY <1>2, MoveOne DEF BeginClaim
<1>3. CASE BeginPause(s)
  <2>1. PICK to \in {"paused", "refused"} : Moves(s, "claimed", to)
    BY <1>3 DEF BeginPause
  <2> QED BY <1>3, <2>1, MoveOne DEF BeginPause
<1>4. CASE BeginUnclaim(s)
  BY <1>4, MoveOne DEF BeginUnclaim
<1>5. CASE BeginAbandon(s)
  BY <1>5, MoveOne DEF BeginAbandon
<1>6. CASE BeginOpen(s)
  BY <1>6, MoveOne DEF BeginOpen
<1>7. CASE StreamBreaks(s)
  BY <1>7 DEF StreamBreaks
<1>8. CASE StreamFinish(s)
  <2>1. SpeakerHasOwner'
    BY <1>8, MoveOne, CloseResultsType DEF StreamFinish, TypeOK
  <2> QED BY <1>8, <2>1 DEF StreamFinish
<1>9. CASE StreamFinishPause(s)
  <2>1. PICK to \in {"stopping", "idle"} : Moves(s, "finished", to)
    BY <1>9 DEF StreamFinishPause
  <2> QED BY <1>9, <2>1, MoveOne DEF StreamFinishPause
<1>10. CASE StreamStop(s)
  BY <1>10, MoveOne DEF StreamStop, PlayerStop
<1> QED
  BY <1>1, <1>2, <1>3, <1>4, <1>5, <1>6, <1>7, <1>8, <1>9, <1>10 DEF StreamStep

\* The user's steps: a recording starts only where no capture runs or reports
\* and nothing plays, and a stop raises s_abort only for a stream to lower it.
LEMMA UserStepKeeps ==
  ASSUME IInv, UserStep, UNCHANGED streamVars
  PROVE  CaptureInv' /\ PlayerInv'
<1> USE DEF IInv, CaptureInv, MicrophoneHeld, CallbackIsCaptures, CaptureExcludesPlayback,
        PlayerInv, PlayingHasOwner, SpeakerHasOwner, AbortHasOwner, Engaged,
        playerVars, recorderVars, streamVars
<1>1. ASSUME NEW c \in Contexts, RecorderStart(c)
      PROVE  CaptureInv' /\ PlayerInv'
  BY <1>1 DEF RecorderStart, CanStart
<1>2. ASSUME NEW c \in Contexts, RecorderStartFails(c)
      PROVE  CaptureInv' /\ PlayerInv'
  BY <1>2 DEF RecorderStartFails, CanStart
<1>3. CASE RecorderStop
  BY <1>3 DEF RecorderStop
<1>4. ASSUME NEW enabled \in BOOLEAN, SetAudioEnabled(enabled)
      PROVE  CaptureInv' /\ PlayerInv'
  BY <1>4 DEF SetAudioEnabled
<1>5. CASE PlayerStop /\ UNCHANGED recorderVars
  BY <1>5 DEF PlayerStop
<1> QED BY <1>1, <1>2, <1>3, <1>4, <1>5 DEF UserStep

\* The recorder task releases the microphone only as it ends.
LEMMA RecorderTaskStepKeeps ==
  ASSUME IInv, RecorderTaskStep, UNCHANGED streamVars
  PROVE  CaptureInv' /\ PlayerInv'
<1> USE DEF IInv, CaptureInv, MicrophoneHeld, CallbackIsCaptures, CaptureExcludesPlayback,
        PlayerInv, PlayingHasOwner, SpeakerHasOwner, AbortHasOwner, Engaged,
        playerVars, streamVars
<1>1. CASE PrepareCompletion
  BY <1>1 DEF PrepareCompletion
<1>2. CASE FinishCompletion
  BY <1>2 DEF FinishCompletion
<1> QED BY <1>1, <1>2 DEF RecorderTaskStep

LEMMA InvariantStep == IInv /\ [Next]_vars => IInv'
<1> SUFFICES ASSUME IInv, [Next]_vars
             PROVE  IInv'
  OBVIOUS
<1>1. TypeOK'
  BY TypeStep DEF IInv
<1>2. ASSUME NEW s \in Streams, StreamStep(s)
      PROVE  CaptureInv' /\ PlayerInv'
  BY <1>2, CaptureStreamStep, PlayerStreamStep
<1>3. ASSUME UserStep \/ RecorderTaskStep, UNCHANGED streamVars
      PROVE  CaptureInv' /\ PlayerInv'
  BY <1>3, UserStepKeeps, RecorderTaskStepKeeps
<1>4. CASE UNCHANGED vars
  BY <1>1, <1>4 DEF IInv, CaptureInv, MicrophoneHeld, CallbackIsCaptures, CaptureExcludesPlayback,
     PlayerInv, PlayingHasOwner, SpeakerHasOwner, AbortHasOwner, Engaged,
     vars, playerVars, recorderVars, streamVars
<1> QED BY <1>1, <1>2, <1>3, <1>4 DEF Next, IInv

\* The strengthened invariant holds in every reachable state.
THEOREM Invariant == Spec => []IInv
<1>1. Init => IInv
  BY DEF Init, StoredAudioEnabled, IInv, TypeOK, StreamStates, CaptureInv, MicrophoneHeld, CallbackIsCaptures,
     CaptureExcludesPlayback, PlayerInv, PlayingHasOwner, SpeakerHasOwner, AbortHasOwner
<1> QED BY <1>1, InvariantStep, PTL DEF Spec

-----------------------------------------------------------------------------
\* A capture keeps its microphone whatever playback starts or ends around it.
THEOREM CaptureHoldsMicrophone == Spec => []MicrophoneHeld
<1>1. IInv => MicrophoneHeld
  BY DEF IInv, CaptureInv
<1> QED BY <1>1, Invariant, PTL

\* A recording is reported to the operation that started it.
THEOREM CompletionGoesToItsCapture == Spec => []CallbackIsCaptures
<1>1. IInv => CallbackIsCaptures
  BY DEF IInv, CaptureInv
<1> QED BY <1>1, Invariant, PTL

\* No playback takes the microphone of a running capture, and no later start its
\* callback.
THEOREM CapturesKeepTheirOwn == Spec => []CaptureKeepsItsOwn
  BY TypeCorrect, CaptureHoldsMicrophone, CompletionGoesToItsCapture, PTL DEF CaptureKeepsItsOwn

\* Under a capture, s_playing is only a claim that is being refused.
THEOREM CaptureAndPlaybackExclude == Spec => []CaptureExcludesPlayback
<1>1. IInv => CaptureExcludesPlayback
  BY DEF IInv, CaptureInv
<1> QED BY <1>1, Invariant, PTL

\* No cancellation outlives the streams that can take it back, and no codec
\* stays open behind the last of them, unless the codec refused to close.
THEOREM PlayerFlagsHaveOwners == Spec => []PlayerIsOwned
<1>1. IInv => PlayerIsOwned
  BY DEF IInv, PlayerInv, PlayerIsOwned
<1> QED BY <1>1, Invariant, PTL
=============================================================================
