------------------------------ MODULE VoiceApp ------------------------------
(***************************************************************************)
(* The device application, app_main.c, over the audio hardware of          *)
(* AudioPath and the screens of voice_ui.c.                                *)
(*                                                                         *)
(* Four kinds of threads run: the LVGL task turns touches into queued      *)
(* actions, the ui_actions task executes them one after the other, the     *)
(* recorder task reports a capture, and every upload or audio retry has a  *)
(* task of its own.  They share the operation tokens, the pending WAV and  *)
(* the screen.  A step is one critical section under s_state_lock, one     *)
(* call into the audio modules or one screen update; what the code reads   *)
(* in one of them and uses after it is read in one step and used in a      *)
(* later one.                                                              *)
(*                                                                         *)
(* A recorded question stands for its WAV buffer and for the request id    *)
(* that recording_complete draws for it.                                   *)
(***************************************************************************)
EXTENDS Sequences, Naturals, FiniteSets

CONSTANTS
    Tokens, NoToken,        \* heap blocks for operation_token_t
    Questions, NoQuestion,  \* recordings
    QueueDepth,             \* UI_ACTION_QUEUE_DEPTH
    Buttons,                \* the buttons the user touches, of cancel, retry and toggle
    MaxTouches,             \* bound on the touches of a behaviour
    MaxFailures,            \* bound on the failed calloc and xTaskCreate calls
    CloseCanFail            \* whether a codec close may fail

ASSUME ConstantsAssumption ==
    /\ NoToken \notin Tokens /\ NoQuestion \notin Questions
    /\ QueueDepth \in Nat \ {0} /\ MaxTouches \in Nat /\ MaxFailures \in Nat
    /\ Buttons \subseteq {"cancel", "retry", "toggle"}
    /\ CloseCanFail \in BOOLEAN

VARIABLES
    playing, abort, speakerOpen, audioEnabled, speakerJammed,
    recording, recorderTask, completing, micOpen, callbacks, capture,
    stream, failed,
    tokens,         \* the heap of operation tokens
    recordOp,       \* s_record_operation
    uploadOp,       \* s_upload_operation
    uploading,      \* s_uploading
    pendingWav,     \* s_pending_wav
    pendingId,      \* s_pending_request_id
    answer,         \* s_last_result: the question it answers
    wavs,           \* WAV buffers allocated and not freed
    soundOn,        \* s_audio_enabled of app_main.c
    screen,         \* the last voice_ui_show_ call
    gesture,        \* s_record_gesture_active
    queue,          \* s_ui_actions
    pc, held,       \* control and local token of the ui_actions and recorder tasks
    task,           \* control of each upload or audio retry task
    touches, failures   \* touches and failed allocations so far

Audio == INSTANCE AudioPath WITH Streams <- Tokens, Contexts <- Tokens, NoContext <- NoToken

playerVars == <<playing, abort, speakerOpen, audioEnabled, speakerJammed>>
recorderVars == <<recording, recorderTask, completing, micOpen, callbacks, capture>>
streamVars == <<stream, failed>>
audioVars == <<playerVars, recorderVars, streamVars>>
wavVars == <<pendingWav, pendingId, wavs>>
uploadVars == <<uploadOp, uploading>>
opVars == <<tokens, recordOp, uploadVars>>
uiVars == <<screen, gesture>>
vars == <<audioVars, wavVars, opVars, uiVars, answer, soundOn, queue, pc, held, task,
          touches, failures>>

-----------------------------------------------------------------------------
(* Tokens and screens.                                                     *)

FreeToken == [live |-> FALSE, cancelled |-> FALSE, recording |-> FALSE,
              wav |-> NoQuestion, id |-> NoQuestion]

Allocate(t, rec, wav, id) ==
    /\ ~tokens[t].live
    /\ tokens' = [tokens EXCEPT ![t] = [live |-> TRUE, cancelled |-> FALSE,
                                        recording |-> rec, wav |-> wav, id |-> id]]

Free(t) == tokens' = [tokens EXCEPT ![t] = FreeToken]

TokenIsCurrent(t) == IF tokens[t].recording THEN recordOp = t ELSE uploadOp = t

TokenCancelled(t) == tokens[t].cancelled \/ ~TokenIsCurrent(t)

\* An allocation or the creation of a task fails.
Fails == failures < MaxFailures /\ failures' = failures + 1

\* Screens, and the buttons each leaves within reach (set_interactive and
\* show_answer_panel).
Screens == {"idle", "recording", "working", "playing", "response",
            "audio_error", "error", "error_retry"}
RecordReachable == screen \notin {"working", "playing"}
CancelReachable == screen \in {"recording", "working", "playing"}
RetryReachable == screen \in {"audio_error", "error_retry"}

Show(next) ==
    /\ screen' = next
    /\ gesture' = (gesture /\ next # "idle")

-----------------------------------------------------------------------------
(* The LVGL task: touches queue actions, and a full queue drops them.      *)

Enqueue(action) ==
    queue' = IF Len(queue) < QueueDepth THEN Append(queue, action) ELSE queue

PressRecord ==
    /\ RecordReachable /\ ~gesture
    /\ gesture' = TRUE /\ screen' = "recording"
    /\ Enqueue("record")

ReleaseRecord ==
    /\ gesture
    /\ gesture' = FALSE
    /\ Enqueue("release")
    /\ UNCHANGED screen

PressButton ==
    /\ \/ CancelReachable /\ "cancel" \in Buttons /\ Enqueue("cancel")
       \/ RetryReachable /\ "retry" \in Buttons /\ Enqueue("retry")
       \/ "toggle" \in Buttons /\ Enqueue("toggle")
    /\ UNCHANGED uiVars

Touch ==
    /\ touches < MaxTouches /\ touches' = touches + 1
    /\ PressRecord \/ ReleaseRecord \/ PressButton
    /\ UNCHANGED <<audioVars, wavVars, opVars, answer, soundOn, pc, held, task, failures>>

-----------------------------------------------------------------------------
(* The ui_actions task.                                                    *)

\* The next queued action, after whose first step the task is at label to.
Receive(action, to) ==
    /\ pc["ui"] = "wait" /\ queue # <<>> /\ Head(queue) = action
    /\ queue' = Tail(queue)
    /\ pc' = [pc EXCEPT !["ui"] = to]

Goto(thread, from, to) == pc[thread] = from /\ pc' = [pc EXCEPT ![thread] = to]

Holds(thread, t) == held' = [held EXCEPT ![thread] = t]

\* Where a thread goes when it has nothing more to do here.
Done(thread) == IF thread = "ui" THEN "wait" ELSE "finish"

\* The screen updates that end an action, by the label they are made at.
EndScreen == [show_idle |-> "idle", show_recording |-> "recording",
              show_error |-> "error", show_error_retry |-> "error_retry",
              show_audio_error |-> "audio_error", show_response |-> "response"]

ThreadShow(thread) ==
    /\ \E label \in DOMAIN EndScreen :
          Goto(thread, label, Done(thread)) /\ Show(EndScreen[label])
    /\ UNCHANGED <<audioVars, wavVars, opVars, held, task, soundOn, queue, failures>>

\* do_record_pressed: barge-in while the player plays
RecordPressed ==
    /\ Receive("record", IF playing THEN "barge_cancel" ELSE "busy")
    /\ UNCHANGED <<audioVars, wavVars, opVars, uiVars, held, task, soundOn, failures>>

BargeCancel ==
    /\ Goto("ui", "barge_cancel", "barge_stop")
    /\ IF uploadOp # NoToken
       THEN tokens' = [tokens EXCEPT ![uploadOp].cancelled = TRUE] /\ uploading' = FALSE
       ELSE UNCHANGED <<tokens, uploading>>
    /\ UNCHANGED <<audioVars, wavVars, recordOp, uploadOp, uiVars, held, task, soundOn,
                   queue, failures>>

BargeStopSilently ==
    /\ Goto("ui", "barge_stop", "busy")
    /\ playing' = FALSE
    /\ UNCHANGED <<abort, speakerOpen, audioEnabled, speakerJammed, recorderVars, streamVars,
                   wavVars, opVars, uiVars, held, task, soundOn, queue, failures>>

BargeStop ==
    /\ Goto("ui", "barge_stop", "busy")
    /\ Audio!PlayerStop
    /\ UNCHANGED <<recorderVars, streamVars, wavVars, opVars, uiVars, held, task,
                   soundOn, queue, failures>>

RecordBusy ==
    /\ Goto("ui", "busy", IF recordOp # NoToken \/ uploading THEN "wait" ELSE "clear")
    /\ UNCHANGED <<audioVars, wavVars, opVars, uiVars, held, task, soundOn, queue, failures>>

\* clear_pending, and the token of the new operation
ClearPending ==
    /\ wavs' = wavs \ {pendingWav}
    /\ pendingWav' = NoQuestion /\ pendingId' = NoQuestion
    /\ \/ /\ Goto("ui", "clear", "start")
          /\ \E t \in Tokens :
                Allocate(t, TRUE, NoQuestion, NoQuestion) /\ recordOp' = t /\ Holds("ui", t)
          /\ UNCHANGED failures
       \/ Goto("ui", "clear", "show_error") /\ Fails /\ UNCHANGED <<tokens, recordOp, held>>
    /\ UNCHANGED <<audioVars, uploadVars, uiVars, task, soundOn, queue>>

RecordStart ==
    /\ pc["ui"] = "start"
    /\ Audio!RecorderStart(held["ui"])
    /\ pc' = [pc EXCEPT !["ui"] = "show_recording", !["rec"] = "loop"]
    /\ Holds("ui", NoToken)
    /\ UNCHANGED <<streamVars, wavVars, opVars, uiVars, task, soundOn, queue, failures>>

\* Refused, or the microphone does not open, or its task is not created: the
\* operation is undone, which no other thread has seen.
RecordStartFails ==
    /\ Goto("ui", "start", "show_error")
    /\ \/ UNCHANGED <<playerVars, recorderVars, failures>>
       \/ Fails /\ Audio!RecorderStartFails(held["ui"])
    /\ recordOp' = NoToken
    /\ Free(held["ui"])
    /\ Holds("ui", NoToken)
    /\ UNCHANGED <<streamVars, wavVars, uploadVars, uiVars, task, soundOn, queue>>

\* do_record_released
RecordReleased ==
    /\ Receive("release", "wait")
    /\ Audio!RecorderStop
    /\ UNCHANGED <<streamVars, wavVars, opVars, uiVars, held, task, soundOn, failures>>

\* do_cancel_pressed: the critical section; what it clears besides the token
CancelClearsNothing == uploading
CancelClears == uploading /\ recordOp # NoToken

CancelPressed ==
    /\ LET t == IF recordOp # NoToken THEN recordOp ELSE uploadOp IN
       IF t = NoToken
       THEN Receive("cancel", "wait") /\ UNCHANGED <<tokens, uploading, held>>
       ELSE /\ Receive("cancel", "cancel_stop")
            /\ tokens' = [tokens EXCEPT ![t].cancelled = TRUE]
            /\ uploading' = CancelClears
            /\ Holds("ui", t)
    /\ UNCHANGED <<audioVars, wavVars, recordOp, uploadOp, uiVars, task, soundOn, failures>>

\* After the lock it reads token->recording, whose token the recorder or the
\* upload task may have freed by now: then the value is whatever is there.
CancelStop ==
    /\ Goto("ui", "cancel_stop", "show_idle")
    /\ \E rec \in BOOLEAN :
          /\ tokens[held["ui"]].live => rec = tokens[held["ui"]].recording
          /\ \/ rec /\ Audio!RecorderStop
             \/ ~rec /\ Audio!PlayerStop /\ UNCHANGED recorderVars
    /\ Holds("ui", NoToken)
    /\ UNCHANGED <<streamVars, wavVars, opVars, uiVars, task, soundOn, queue, failures>>

\* do_retry_pressed
RetryPressed ==
    /\ Receive("retry", IF pendingWav # NoQuestion THEN "start_upload" ELSE "start_retry")
    /\ UNCHANGED <<audioVars, wavVars, opVars, uiVars, held, task, soundOn, failures>>

\* A new upload operation of the given thread, whose task starts at label
\* first.  A task that is created merely starts late; one that is not leaves
\* the operation in place until the thread's next step undoes it.
NewUpload(thread, from, wav, first, undo) ==
    /\ uploading' = TRUE
    /\ \E t \in Tokens :
          /\ Allocate(t, FALSE, wav, pendingId)
          /\ uploadOp' = t
          /\ \/ /\ Goto(thread, from, Done(thread))
                /\ task' = [task EXCEPT ![t] = first]
                /\ UNCHANGED <<held, failures>>
             \/ Goto(thread, from, undo) /\ Fails /\ Holds(thread, t) /\ UNCHANGED task

UndoUpload(thread, from, to) ==
    /\ Goto(thread, from, to)
    /\ uploadOp' = NoToken /\ uploading' = FALSE
    /\ Free(held[thread])
    /\ Holds(thread, NoToken)

\* start_audio_retry
StartAudioRetry ==
    LET available == ~uploading /\ pendingId # NoQuestion /\ pendingWav = NoQuestion IN
    /\ \/ /\ ~soundOn \/ ~available
          /\ Goto("ui", "start_retry", "wait")
          /\ UNCHANGED <<tokens, uploadVars, held, task, failures>>
       \/ /\ soundOn /\ Fails
          /\ Goto("ui", "start_retry", "show_audio_error")
          /\ UNCHANGED <<tokens, uploadVars, held, task>>
       \/ /\ soundOn /\ available
          /\ NewUpload("ui", "start_retry", NoQuestion, "play", "undo_retry")
    /\ UNCHANGED <<audioVars, wavVars, recordOp, uiVars, soundOn, queue>>

AudioRetryNotCreated ==
    /\ UndoUpload("ui", "undo_retry", "show_audio_error")
    /\ UNCHANGED <<audioVars, wavVars, recordOp, uiVars, task, soundOn, queue, failures>>

\* do_audio_toggle_pressed; NVS may refuse the write
Toggle ==
    /\ \/ Receive("toggle", "toggle_app") /\ Audio!SetAudioEnabled(~soundOn)
       \/ Receive("toggle", "wait") /\ UNCHANGED <<playerVars, recorderVars>>
    /\ UNCHANGED <<streamVars, wavVars, opVars, uiVars, held, task, soundOn, failures>>

ToggleApp ==
    /\ Goto("ui", "toggle_app", IF soundOn THEN "toggle_stop" ELSE "wait")
    /\ soundOn' = ~soundOn
    /\ UNCHANGED <<audioVars, wavVars, opVars, uiVars, held, task, queue, failures>>

ToggleStop ==
    /\ Goto("ui", "toggle_stop", IF answer # NoQuestion THEN "show_response" ELSE "wait")
    /\ Audio!PlayerStop
    /\ UNCHANGED <<recorderVars, streamVars, wavVars, opVars, uiVars, held, task,
                   soundOn, queue, failures>>

-----------------------------------------------------------------------------
(* start_upload, called by the ui_actions task (retry) and by the recorder *)
(* task (a recording completed).                                           *)

\* The WAV leaves the pending slot for the token.
TakePending == pendingWav' = NoQuestion

StartUpload(thread) ==
    /\ \/ /\ uploading \/ pendingWav = NoQuestion
          /\ Goto(thread, "start_upload", Done(thread))
          /\ UNCHANGED <<tokens, uploadVars, pendingWav, held, task, failures>>
       \/ /\ Fails
          /\ Goto(thread, "start_upload", "show_error_retry")
          /\ UNCHANGED <<tokens, uploadVars, pendingWav, held, task>>
       \/ /\ ~uploading /\ pendingWav # NoQuestion
          /\ NewUpload(thread, "start_upload", pendingWav, "upload", "undo_upload")
          /\ TakePending
    /\ UNCHANGED <<audioVars, pendingId, wavs, recordOp, uiVars, soundOn, queue>>

\* The WAV returns to the pending slot, its id does not.
UploadNotCreated(thread) ==
    /\ UndoUpload(thread, "undo_upload", "show_error_retry")
    /\ pendingWav' = tokens[held[thread]].wav
    /\ UNCHANGED <<audioVars, pendingId, wavs, recordOp, uiVars, task, soundOn, queue,
                   failures>>

-----------------------------------------------------------------------------
(* The recorder task's callbacks, on the operation it was started with.    *)

\* recording_progress: the check, then (ProgressShow) the screen
Progress ==
    /\ Goto("rec", "loop", "progress")
    /\ ~TokenCancelled(callbacks)
    /\ UNCHANGED <<audioVars, wavVars, opVars, uiVars, held, task, failures>>

ProgressShow ==
    /\ Goto("rec", "progress", "loop")
    /\ Show("recording")
    /\ UNCHANGED <<audioVars, wavVars, opVars, held, task, failures>>

\* The capture ends with some PCM (and a microphone that closed) or without.
CaptureEnds ==
    /\ Audio!PrepareCompletion
    /\ \/ Goto("rec", "loop", "discard")
       \/ ~micOpen' /\ Goto("rec", "loop", "captured")
    /\ UNCHANGED <<streamVars, wavVars, opVars, uiVars, held, task, failures>>

\* recording_complete decides on the token once ...
Captured ==
    /\ Goto("rec", "captured", IF TokenCancelled(callbacks) THEN "discard" ELSE "wrap")
    /\ UNCHANGED <<audioVars, wavVars, opVars, uiVars, held, task, failures>>

Discard ==
    /\ IF recordOp = callbacks
       THEN Goto("rec", "discard", "discard_show") /\ recordOp' = NoToken /\ UNCHANGED tokens
       ELSE Goto("rec", "discard", "finish") /\ Free(callbacks) /\ UNCHANGED recordOp
    /\ UNCHANGED <<audioVars, wavVars, uploadVars, uiVars, held, task, failures>>

DiscardShow ==
    /\ Goto("rec", "discard_show", "finish")
    /\ Show("idle")
    /\ Free(callbacks)
    /\ UNCHANGED <<audioVars, wavVars, recordOp, uploadVars, held, task, failures>>

\* ... and after copying the PCM into a WAV makes that pending, under a new id.
FreshQuestion(q) ==
    /\ q \notin wavs \cup {pendingId, answer}
    /\ \A t \in Tokens : tokens[t].id # q

Wrap ==
    /\ \/ /\ Goto("rec", "wrap", "start_upload")
          /\ \E q \in Questions :
                /\ FreshQuestion(q)
                /\ pendingWav' = q /\ pendingId' = q
                /\ wavs' = (wavs \ {pendingWav}) \cup {q}
          /\ UNCHANGED failures
       \/ Goto("rec", "wrap", "show_error") /\ Fails /\ UNCHANGED wavVars
    /\ recordOp' = NoToken
    /\ Free(callbacks)
    /\ UNCHANGED <<audioVars, uploadVars, uiVars, held, task>>

RecorderFinish ==
    /\ Goto("rec", "finish", "none")
    /\ Audio!FinishCompletion
    /\ UNCHANGED <<streamVars, wavVars, opVars, uiVars, held, task, failures>>

-----------------------------------------------------------------------------
(* upload_task and audio_retry_task.                                       *)

At(t, from, to) == task[t] = from /\ task' = [task EXCEPT ![t] = to]

TaskOnly == UNCHANGED <<audioVars, wavVars, tokens, uploadVars, uiVars, answer, failures>>

\* Memory and Wi-Fi, or an error screen unless the operation was cancelled.
UploadPrepare(t) ==
    /\ \/ At(t, "upload", "send")
       \/ At(t, "upload", IF TokenCancelled(t) THEN "keep" ELSE "show_upload_error")
    /\ TaskOnly

\* Screen updates of a task: the screen, and where the task goes on.
TaskScreen ==
    [send              |-> <<"working", "run">>,
     run_status        |-> <<"working", "run">>,
     show_upload_error |-> <<"error_retry", "keep">>,
     play_status       |-> <<"playing", "http">>,
     show_audio_error  |-> <<"audio_error", "drop">>,
     show_text         |-> <<"response", "drop">>]

TaskShow(t) ==
    /\ \E label \in DOMAIN TaskScreen :
          At(t, label, TaskScreen[label][2]) /\ Show(TaskScreen[label][1])
    /\ UNCHANGED <<audioVars, wavVars, tokens, uploadVars, answer, failures>>

\* voice_client_run: remote_status_changed checks the token and shows the
\* status afterwards; the call ends with an answer or an error.
RunStatus(t) == ~TokenCancelled(t) /\ At(t, "run", "run_status") /\ TaskOnly

RunAnswered(t) == At(t, "run", IF TokenCancelled(t) THEN "drop" ELSE "save") /\ TaskOnly

RunFails(t) ==
    At(t, "run", IF TokenCancelled(t) THEN "drop" ELSE "show_upload_error") /\ TaskOnly

\* s_last_result and its screen, whatever has become of the token
SaveResult(t) ==
    /\ At(t, "save", "speech")
    /\ answer' = tokens[t].id
    /\ Show("response")
    /\ UNCHANGED <<audioVars, wavVars, tokens, uploadVars, failures>>

Speech(t) ==
    /\ At(t, "speech", IF soundOn /\ ~TokenCancelled(t) THEN "play" ELSE "drop")
    /\ TaskOnly

\* voice_client_play_speech: the checks on entry and of the status callback
PlaySpeech(t) ==
    At(t, "play", IF TokenCancelled(t) THEN "unplayed" ELSE "play_status") /\ TaskOnly

\* The request fails before a header; without a client not even stop is called.
HttpFails(t) ==
    /\ \/ At(t, "http", "unplayed") /\ Fails /\ UNCHANGED audioVars
       \/ At(t, "http", "streaming") /\ Audio!DownloadFails(t) /\ UNCHANGED failures
    /\ UNCHANGED <<wavVars, tokens, uploadVars, uiVars, answer>>

\* audio_event_handler passes its check and has the header.
HeaderArrives(t) == ~TokenCancelled(t) /\ At(t, "http", "begin") /\ TaskOnly

BeginStream(t) ==
    /\ At(t, "begin", "streaming")
    /\ Audio!BeginClaim(t) \/ Audio!BeginReject(t)
    /\ UNCHANGED <<wavVars, tokens, uploadVars, uiVars, answer, failures>>

Streaming(t) ==
    /\ task[t] = "streaming" /\ stream[t] # "idle"
    /\ Audio!StreamStep(t)
    /\ UNCHANGED <<wavVars, tokens, uploadVars, uiVars, task, answer, failures>>

PlayReturns(t) ==
    /\ stream[t] = "idle"
    /\ At(t, "streaming", IF failed[t] THEN "unplayed" ELSE "played")
    /\ TaskOnly

\* What is shown after the speech: an upload task shows errors only.
IsRetry(t) == tokens[t].wav = NoQuestion

AfterSpeech(t) ==
    /\ \E bad \in BOOLEAN :
          At(t, IF bad THEN "unplayed" ELSE "played",
             CASE TokenCancelled(t) -> "drop"
               [] ~TokenCancelled(t) /\ bad /\ soundOn -> "show_audio_error"
               [] OTHER -> IF IsRetry(t) THEN "show_text" ELSE "drop")
    /\ TaskOnly

\* finish_upload: whether the WAV is kept for a retry, and how
KeepsOverNewer(t) == task[t] = "keep" /\ uploadOp = t /\ tokens[t].wav # NoQuestion
Keeps(t) == KeepsOverNewer(t) /\ pendingWav = NoQuestion

Keep(t) == pendingWav' = tokens[t].wav /\ pendingId' = tokens[t].id /\ UNCHANGED wavs

FinishUpload(t) ==
    /\ At(t, "keep", "none") \/ At(t, "drop", "none")
    /\ \/ Keeps(t) /\ Keep(t)
       \/ ~Keeps(t) /\ wavs' = wavs \ {tokens[t].wav} /\ UNCHANGED <<pendingWav, pendingId>>
    /\ IF uploadOp = t
       THEN uploadOp' = NoToken /\ uploading' = FALSE
       ELSE UNCHANGED uploadVars
    /\ Free(t)
    /\ UNCHANGED <<audioVars, uiVars, answer, failures>>

-----------------------------------------------------------------------------
Init ==
    /\ Audio!Init
    /\ tokens = [t \in Tokens |-> FreeToken]
    /\ recordOp = NoToken /\ uploadOp = NoToken /\ uploading = FALSE
    /\ pendingWav = NoQuestion /\ pendingId = NoQuestion /\ answer = NoQuestion
    /\ wavs = {}
    /\ soundOn = audioEnabled
    /\ screen = "idle" /\ gesture = FALSE /\ queue = <<>>
    /\ pc = [ui |-> "wait", rec |-> "none"]
    /\ held = [ui |-> NoToken, rec |-> NoToken]
    /\ task = [t \in Tokens |-> "none"]
    /\ touches = 0 /\ failures = 0

UiStep ==
    /\ \/ ThreadShow("ui")
       \/ RecordPressed \/ BargeCancel \/ BargeStop \/ RecordBusy \/ ClearPending
       \/ RecordStart \/ RecordStartFails \/ RecordReleased
       \/ CancelPressed \/ CancelStop
       \/ RetryPressed \/ StartAudioRetry \/ AudioRetryNotCreated
       \/ StartUpload("ui") \/ UploadNotCreated("ui")
       \/ Toggle \/ ToggleApp \/ ToggleStop
    /\ UNCHANGED <<answer, touches>>

RecorderStep ==
    /\ \/ Progress \/ ProgressShow \/ CaptureEnds \/ Captured \/ Discard \/ DiscardShow
       \/ Wrap \/ StartUpload("rec") \/ UploadNotCreated("rec")
       \/ ThreadShow("rec") \/ RecorderFinish
    /\ UNCHANGED <<answer, soundOn, queue, touches>>

TaskStep(t) ==
    /\ \/ UploadPrepare(t) \/ TaskShow(t) \/ RunStatus(t) \/ RunAnswered(t) \/ RunFails(t)
       \/ SaveResult(t) \/ Speech(t) \/ PlaySpeech(t) \/ HttpFails(t) \/ HeaderArrives(t)
       \/ BeginStream(t) \/ Streaming(t) \/ PlayReturns(t) \/ AfterSpeech(t)
       \/ FinishUpload(t)
    /\ UNCHANGED <<recordOp, soundOn, queue, pc, held, touches>>

Next == Touch \/ UiStep \/ RecorderStep \/ \E t \in Tokens : TaskStep(t)

Spec == Init /\ [][Next]_vars

-----------------------------------------------------------------------------
UiLabels == {"wait", "barge_cancel", "barge_stop", "busy", "clear", "start", "cancel_stop",
             "start_upload", "undo_upload", "start_retry", "undo_retry",
             "toggle_app", "toggle_stop"} \cup DOMAIN EndScreen
RecLabels == {"none", "loop", "progress", "captured", "discard", "discard_show", "wrap",
              "start_upload", "undo_upload", "finish"} \cup DOMAIN EndScreen
TaskLabels == {"none", "upload", "keep", "drop", "run", "save", "speech", "play", "http",
               "begin", "streaming", "played", "unplayed"} \cup DOMAIN TaskScreen

TypeOK ==
    /\ Audio!TypeOK
    /\ tokens \in [Tokens -> [live : BOOLEAN, cancelled : BOOLEAN, recording : BOOLEAN,
                              wav : Questions \cup {NoQuestion},
                              id : Questions \cup {NoQuestion}]]
    /\ recordOp \in Tokens \cup {NoToken} /\ uploadOp \in Tokens \cup {NoToken}
    /\ uploading \in BOOLEAN /\ soundOn \in BOOLEAN /\ gesture \in BOOLEAN
    /\ pendingWav \in Questions \cup {NoQuestion}
    /\ pendingId \in Questions \cup {NoQuestion}
    /\ answer \in Questions \cup {NoQuestion}
    /\ wavs \in SUBSET Questions
    /\ screen \in Screens
    /\ queue \in Seq({"record", "release", "cancel", "retry", "toggle"})
    /\ Len(queue) <= QueueDepth
    /\ pc \in [{"ui", "rec"} -> UiLabels \cup RecLabels]
    /\ pc["ui"] \in UiLabels /\ pc["rec"] \in RecLabels
    /\ held \in [{"ui", "rec"} -> Tokens \cup {NoToken}]
    /\ task \in [Tokens -> TaskLabels]
    /\ touches \in 0..MaxTouches /\ failures \in 0..MaxFailures

\* Who may free a WAV buffer: the pending slot, and the live upload tokens.
Owners(q) == {t \in Tokens : tokens[t].live /\ tokens[t].wav = q}

\* No WAV is freed twice or used after it was freed: an allocated one has one
\* owner at most, a freed one none.
NoWavIsShared ==
    \A q \in Questions :
        /\ Cardinality(Owners(q)) + (IF pendingWav = q THEN 1 ELSE 0) <= 1
        /\ q \notin wavs => Owners(q) = {} /\ pendingWav # q

\* Every allocated WAV (up to 960 kB of PSRAM) has somebody to free it, across
\* cancellation, retry, barge-in and a new recording, as long as no upload task
\* had to be given up (UploadNotCreated).
NoWavLeaks == failures = 0 => \A q \in wavs : Owners(q) # {} \/ pendingWav = q

\* The operation globals never point to a freed token, and the flag that
\* blocks new operations is never left raised without one.
OperationsAreLive ==
    /\ recordOp # NoToken => tokens[recordOp].live /\ tokens[recordOp].recording
    /\ uploadOp # NoToken => tokens[uploadOp].live /\ ~tokens[uploadOp].recording
    /\ uploading => uploadOp # NoToken /\ ~tokens[uploadOp].cancelled

\* A WAV is only ever kept and uploaded under the id drawn for it, so that a
\* retry is the same job for the bridge, as long as no upload task had to be
\* given up (UploadNotCreated puts the WAV back without its id).
WavMatchesId ==
    failures = 0 =>
        /\ pendingWav # NoQuestion => pendingId = pendingWav
        /\ \A t \in Tokens : tokens[t].wav # NoQuestion => tokens[t].id = tokens[t].wav

\* The state of the application hangs together: types, and operation globals
\* that name operations still alive.
AppConsistent == TypeOK /\ OperationsAreLive

\* A recording is kept once, whole and under its own id, from the capture to the
\* last retry, whichever of upload, cancel, retry and barge-in comes in between.
WavsAreKept == NoWavIsShared /\ NoWavLeaks /\ WavMatchesId

\* The application uses the audio modules as AudioPath says they may be used:
\* every behaviour of the threads is one of AudioPath, whose invariants are
\* therefore the application's too.
UsesAudioPath == Audio!Init /\ [][Audio!Next]_audioVars

-----------------------------------------------------------------------------
(* What README.md says of the device, and the code does not keep.          *)

Quiescent ==
    /\ pc = [ui |-> "wait", rec |-> "none"] /\ queue = <<>> /\ ~gesture
    /\ \A t \in Tokens : task[t] = "none"

\* "CANCELAR ... returns to a recording-ready idle screen": with every thread
\* at rest, a screen that offers CANCELAR has an operation to cancel.
CancelIsEffective ==
    Quiescent /\ screen \in {"working", "playing"} => recordOp # NoToken \/ uploadOp # NoToken

\* "Hold the circular control to record. Release it to create and upload": a
\* capture nobody holds the control for has its stop on the way.
Queued(actions) == \E i \in DOMAIN queue : queue[i] \in actions
\* The code does not keep it: see Findings in README.md.
ReleaseEndsRecording ==
    recording /\ recordOp # NoToken /\ ~tokens[recordOp].cancelled
        => gesture \/ Queued({"release"})

\* "[CANCELAR] aborts the active operation": no upload starts between a cancel
\* and its idle screen.
CancelAborts ==
    [][\A t \in Tokens : pc["ui"] = "show_idle" => ~(task[t] = "none" /\ task'[t] = "upload")]_vars

\* "ignores late callbacks": a task whose operation was cancelled does not
\* stop the playback of one that was not.
LateTasksKeepQuiet ==
    [][\A t \in Tokens : TokenCancelled(t) /\ Audio!StreamStop(t)
          => \A u \in Tokens : TokenCancelled(u) \/ ~Audio!CanWrite(u)]_vars

\* README.md:138-140: "CANCELAR ... aborts the active operation, releases its
\* resources, ignores late callbacks, and returns to a recording-ready idle
\* screen."
CancelKeepsItsWord == []CancelIsEffective /\ CancelAborts /\ LateTasksKeepQuiet
=============================================================================
