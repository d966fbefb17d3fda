--------------------------- MODULE VoiceApp_proofs ---------------------------
(***************************************************************************)
(* Theorems about the application, for any tokens, recordings, queue depth *)
(* and number of touches and failures.                                     *)
(*                                                                         *)
(* Tokens are heap blocks that four kinds of threads pass around without   *)
(* counting references.  The argument is who may free one: the thread that *)
(* starts or undoes its operation, the recorder task that reports it, or   *)
(* its own task, and never two of them (HolderInv).  Since a token is what *)
(* carries a WAV to its upload, the buffers follow (BufferInv), and since  *)
(* the audio modules are entered with such tokens only, so does the        *)
(* refinement of AudioPath.                                                *)
(***************************************************************************)
EXTENDS VoiceApp, SequenceTheorems, FiniteSetTheorems, TLAPS

Actions == {"record", "release", "cancel", "retry", "toggle"}
Labels == UiLabels \cup RecLabels

\* The types of the application's own variables.
AppTypes ==
    /\ tokens \in [Tokens -> [live : BOOLEAN, cancelled : BOOLEAN, recording : BOOLEAN,
                              wav : Questions \cup {NoQuestion},
                              id : Questions \cup {NoQuestion}]]
    /\ recordOp \in Tokens \cup {NoToken} /\ uploadOp \in Tokens \cup {NoToken}
    /\ uploading \in BOOLEAN /\ soundOn \in BOOLEAN /\ gesture \in BOOLEAN
    /\ pendingWav \in Questions \cup {NoQuestion}
    /\ pendingId \in Questions \cup {NoQuestion}
    /\ answer \in Questions \cup {NoQuestion}
    /\ wavs \in SUBSET Questions
    /\ screen \in Screens
    /\ queue \in Seq(Actions) /\ Len(queue) <= QueueDepth
    /\ pc \in [{"ui", "rec"} -> Labels]
    /\ pc["ui"] \in UiLabels /\ pc["rec"] \in RecLabels
    /\ held \in [{"ui", "rec"} -> Tokens \cup {NoToken}]
    /\ task \in [Tokens -> TaskLabels]
    /\ touches \in 0..MaxTouches /\ failures \in 0..MaxFailures

\* The type invariant is that of the audio modules and these.
LEMMA TypesSplit == TypeOK <=> Audio!TypeOK /\ AppTypes
  BY DEF TypeOK, AppTypes, Actions, Labels

EndLabels == {"show_idle", "show_recording", "show_error", "show_error_retry",
              "show_audio_error", "show_response"}
ShowLabels == {"send", "run_status", "show_upload_error", "play_status",
               "show_audio_error", "show_text"}

\* The screens that end an action, and those of a task.
LEMMA ScreenTables ==
    /\ DOMAIN EndScreen = EndLabels
    /\ \A label \in EndLabels : EndScreen[label] \in Screens
    /\ DOMAIN TaskScreen = ShowLabels
    /\ \A label \in ShowLabels :
          /\ TaskScreen[label][1] \in Screens
          /\ TaskScreen[label][2] \in {"run", "keep", "http", "drop"}
  <1>1. /\ DOMAIN EndScreen = EndLabels
        /\ \A label \in EndLabels : EndScreen[label] \in Screens
    BY DEF EndScreen, EndLabels, Screens
  <1>2. /\ DOMAIN TaskScreen = ShowLabels
        /\ \A label \in ShowLabels :
              /\ TaskScreen[label][1] \in Screens
              /\ TaskScreen[label][2] \in {"run", "keep", "http", "drop"}
    BY DEF TaskScreen, ShowLabels, Screens
  <1> QED
    BY <1>1, <1>2

\* The queue of actions keeps its type and its bound.
LEMMA EnqueueTypes ==
  ASSUME AppTypes, NEW action \in Actions, Enqueue(action)
  PROVE  queue' \in Seq(Actions) /\ Len(queue') <= QueueDepth
  <1>1. CASE Len(queue) < QueueDepth
    <2>1. queue' = Append(queue, action)
      BY <1>1 DEF Enqueue
    <2>2. Append(queue, action) \in Seq(Actions) /\ Len(Append(queue, action)) = Len(queue) + 1
      BY DEF AppTypes
    <2> QED
      BY <1>1, <2>1, <2>2, ConstantsAssumption DEF AppTypes
  <1>2. CASE ~ (Len(queue) < QueueDepth)
    BY <1>2 DEF Enqueue, AppTypes
  <1> QED
    BY <1>1, <1>2

\* So does taking an action from it.
LEMMA ReceiveTypes ==
  ASSUME AppTypes, NEW action, NEW to, Receive(action, to)
  PROVE  queue' \in Seq(Actions) /\ Len(queue') <= QueueDepth
  <1>1. queue \in Seq(Actions) /\ queue # <<>> /\ queue' = Tail(queue) /\ Len(queue) <= QueueDepth
    BY DEF Receive, AppTypes
  <1>2. Tail(queue) \in Seq(Actions) /\ Len(Tail(queue)) = Len(queue) - 1
    BY <1>1
  <1>3. Len(queue) \in Nat
    BY <1>1
  <1> QED
    BY <1>1, <1>2, <1>3, ConstantsAssumption

\* A thread that goes from one label to another leaves the other where it is.
LEMMA GotoMoves ==
  ASSUME AppTypes, NEW thread \in {"ui", "rec"}, NEW from, NEW to, Goto(thread, from, to),
         thread = "ui" => to \in UiLabels, thread = "rec" => to \in RecLabels
  PROVE  /\ pc[thread] = from /\ pc'[thread] = to
         /\ pc' \in [{"ui", "rec"} -> Labels] /\ pc'["ui"] \in UiLabels /\ pc'["rec"] \in RecLabels
         /\ \A other \in {"ui", "rec"} \ {thread} : pc'[other] = pc[other]
  <1>1. pc' = [pc EXCEPT ![thread] = to] /\ pc[thread] = from
    BY DEF Goto
  <1>2. to \in Labels
    BY DEF Labels
  <1> QED
    BY <1>1, <1>2 DEF AppTypes

\* So does the ui_actions task when it takes an action.
LEMMA ReceiveMoves ==
  ASSUME AppTypes, NEW action, NEW to \in UiLabels, Receive(action, to)
  PROVE  /\ pc["ui"] = "wait" /\ pc'["ui"] = to /\ pc'["rec"] = pc["rec"]
         /\ pc' \in [{"ui", "rec"} -> Labels] /\ pc'["ui"] \in UiLabels /\ pc'["rec"] \in RecLabels
  <1>1. pc' = [pc EXCEPT !["ui"] = to] /\ pc["ui"] = "wait"
    BY DEF Receive
  <1>2. to \in Labels
    BY DEF Labels
  <1> QED
    BY <1>1, <1>2 DEF AppTypes

\* Likewise of the tasks.
LEMMA TaskMoves ==
  ASSUME AppTypes, NEW t \in Tokens, NEW from, NEW to \in TaskLabels, At(t, from, to)
  PROVE  /\ task[t] = from /\ task'[t] = to
         /\ task' \in [Tokens -> TaskLabels]
         /\ \A u \in Tokens \ {t} : task'[u] = task[u]
  BY DEF AppTypes, At

\* Failures are counted up to their bound.
LEMMA FailsTypes ==
  ASSUME AppTypes, Fails
  PROVE  failures' \in 0..MaxFailures /\ failures' # 0 /\ failures' = failures + 1
  BY ConstantsAssumption DEF AppTypes, Fails

\* A screen update shows a screen.
LEMMA ShowTypes ==
  ASSUME AppTypes, NEW next \in Screens, Show(next)
  PROVE  screen' \in Screens /\ gesture' \in BOOLEAN
  BY DEF AppTypes, Show

\* The labels, written out.
LEMMA LabelSets ==
    /\ UiLabels = {"wait", "barge_cancel", "barge_stop", "busy", "clear", "start", "cancel_stop",
                   "start_upload", "undo_upload", "start_retry", "undo_retry",
                   "toggle_app", "toggle_stop"} \cup EndLabels
    /\ RecLabels = {"none", "loop", "progress", "captured", "discard", "discard_show", "wrap",
                    "start_upload", "undo_upload", "finish"} \cup EndLabels
    /\ TaskLabels = {"none", "upload", "keep", "drop", "run", "save", "speech", "play", "http",
                     "begin", "streaming", "played", "unplayed"} \cup ShowLabels
  BY ScreenTables DEF UiLabels, RecLabels, TaskLabels

\* A thread's screen update.
LEMMA ThreadShowMoves ==
  ASSUME AppTypes, NEW thread \in {"ui", "rec"}, ThreadShow(thread)
  PROVE  /\ \E label \in EndLabels : Goto(thread, label, Done(thread))
         /\ Done("ui") = "wait" /\ Done("rec") = "finish"
         /\ screen' \in Screens /\ gesture' \in BOOLEAN
  <1>1. PICK label \in EndLabels : Goto(thread, label, Done(thread)) /\ Show(EndScreen[label])
    BY ScreenTables DEF ThreadShow
  <1>2. screen' \in Screens /\ gesture' \in BOOLEAN
    BY <1>1, ScreenTables, ShowTypes
  <1> QED
    BY <1>1, <1>2 DEF Done

-----------------------------------------------------------------------------
(***************************************************************************)
(* The operations.                                                         *)
(***************************************************************************)
TokenTypes == [live : BOOLEAN, cancelled : BOOLEAN, recording : BOOLEAN,
               wav : Questions \cup {NoQuestion}, id : Questions \cup {NoQuestion}]

\* What a step that writes one token leaves in it, and alone.
Writes(t, value) ==
    /\ tokens'[t] = value
    /\ \A u \in Tokens \ {t} : tokens'[u] = tokens[u]

\* Allocation takes a block that is free.
LEMMA AllocateWrites ==
  ASSUME AppTypes, NEW t \in Tokens, NEW rec \in BOOLEAN,
         NEW wav \in Questions \cup {NoQuestion}, NEW id \in Questions \cup {NoQuestion},
         Allocate(t, rec, wav, id)
  PROVE  /\ ~tokens[t].live
         /\ tokens' \in [Tokens -> TokenTypes]
         /\ Writes(t, [live |-> TRUE, cancelled |-> FALSE, recording |-> rec,
                       wav |-> wav, id |-> id])
  <1> DEFINE value == [live |-> TRUE, cancelled |-> FALSE, recording |-> rec,
                       wav |-> wav, id |-> id]
  <1>1. value \in TokenTypes
    BY DEF TokenTypes
  <1>2. tokens' = [tokens EXCEPT ![t] = value] /\ ~tokens[t].live
    BY DEF Allocate
  <1>3. tokens \in [Tokens -> TokenTypes]
    BY DEF AppTypes, TokenTypes
  <1> HIDE DEF value
  <1>4. tokens' \in [Tokens -> TokenTypes] /\ Writes(t, value)
    BY <1>1, <1>2, <1>3 DEF Writes
  <1> QED
    BY <1>2, <1>4 DEF value

\* Freeing a token leaves the others alone.
LEMMA FreeWrites ==
  ASSUME AppTypes, NEW t \in Tokens, Free(t)
  PROVE  tokens' \in [Tokens -> TokenTypes] /\ Writes(t, FreeToken)
  <1>1. FreeToken \in TokenTypes
    BY DEF TokenTypes, FreeToken
  <1>2. tokens' = [tokens EXCEPT ![t] = FreeToken]
    BY DEF Free
  <1>3. tokens \in [Tokens -> TokenTypes]
    BY DEF AppTypes, TokenTypes
  <1> QED
    BY <1>1, <1>2, <1>3 DEF Writes

\* A cancelled token is otherwise the same.
LEMMA CancelWrites ==
  ASSUME AppTypes, NEW t \in Tokens, tokens' = [tokens EXCEPT ![t].cancelled = TRUE]
  PROVE  /\ tokens' \in [Tokens -> TokenTypes]
         /\ Writes(t, [tokens[t] EXCEPT !.cancelled = TRUE])
  <1>1. tokens \in [Tokens -> TokenTypes]
    BY DEF AppTypes, TokenTypes
  <1>2. [tokens[t] EXCEPT !.cancelled = TRUE] \in TokenTypes
    BY <1>1 DEF TokenTypes
  <1>3. tokens' = [tokens EXCEPT ![t] = [tokens[t] EXCEPT !.cancelled = TRUE]]
    BY <1>1
  <1> QED
    BY <1>1, <1>2, <1>3 DEF Writes

\* What a thread holds.
LEMMA HoldsTypes ==
  ASSUME AppTypes, NEW thread \in {"ui", "rec"}, NEW t \in Tokens \cup {NoToken}, Holds(thread, t)
  PROVE  /\ held' \in [{"ui", "rec"} -> Tokens \cup {NoToken}] /\ held'[thread] = t
         /\ \A other \in {"ui", "rec"} \ {thread} : held'[other] = held[other]
  BY DEF AppTypes, Holds

\* A new upload has a task, or is to be undone by the thread that made it.
LEMMA NewUploadMakes ==
  ASSUME AppTypes, NEW thread \in {"ui", "rec"}, NEW from, NEW wav \in Questions \cup {NoQuestion},
         NEW first \in TaskLabels, NEW undo,
         thread = "ui" => undo \in UiLabels, thread = "rec" => undo \in RecLabels,
         NewUpload(thread, from, wav, first, undo)
  PROVE  /\ uploading' = TRUE /\ tokens' \in [Tokens -> TokenTypes]
         /\ \E to \in {Done(thread), undo} : Goto(thread, from, to)
         /\ \E t \in Tokens :
              /\ uploadOp' = t /\ ~tokens[t].live
              /\ Writes(t, [live |-> TRUE, cancelled |-> FALSE, recording |-> FALSE,
                            wav |-> wav, id |-> pendingId])
              /\ \/ /\ Goto(thread, from, Done(thread))
                    /\ task' = [task EXCEPT ![t] = first]
                    /\ UNCHANGED <<held, failures>>
                 \/ Goto(thread, from, undo) /\ Fails /\ Holds(thread, t) /\ UNCHANGED task
  <1>1. /\ uploading' = TRUE
        /\ \E t \in Tokens :
              /\ Allocate(t, FALSE, wav, pendingId)
              /\ uploadOp' = t
              /\ \/ /\ Goto(thread, from, Done(thread))
                    /\ task' = [task EXCEPT ![t] = first]
                    /\ UNCHANGED <<held, failures>>
                 \/ Goto(thread, from, undo) /\ Fails /\ Holds(thread, t) /\ UNCHANGED task
    BY DEF NewUpload
  <1>2. pendingId \in Questions \cup {NoQuestion}
    BY DEF AppTypes
  <1> QED
    BY <1>1, <1>2, AllocateWrites

\* Its types.
LEMMA NewUploadTypes ==
  ASSUME AppTypes, NEW thread \in {"ui", "rec"}, NEW from, NEW wav \in Questions \cup {NoQuestion},
         NEW first \in TaskLabels, NEW undo,
         thread = "ui" => undo \in UiLabels, thread = "rec" => undo \in RecLabels,
         NewUpload(thread, from, wav, first, undo)
  PROVE  /\ uploading' \in BOOLEAN /\ uploadOp' \in Tokens \cup {NoToken}
         /\ tokens' \in [Tokens -> TokenTypes]
         /\ pc' \in [{"ui", "rec"} -> Labels] /\ pc'["ui"] \in UiLabels /\ pc'["rec"] \in RecLabels
         /\ held' \in [{"ui", "rec"} -> Tokens \cup {NoToken}]
         /\ task' \in [Tokens -> TaskLabels] /\ failures' \in 0..MaxFailures
  <1>1. /\ uploading' = TRUE /\ tokens' \in [Tokens -> TokenTypes]
        /\ \E to \in {Done(thread), undo} : Goto(thread, from, to)
    BY NewUploadMakes
  <1>2. PICK t \in Tokens :
              /\ uploadOp' = t
              /\ \/ /\ Goto(thread, from, Done(thread))
                    /\ task' = [task EXCEPT ![t] = first]
                    /\ UNCHANGED <<held, failures>>
                 \/ Goto(thread, from, undo) /\ Fails /\ Holds(thread, t) /\ UNCHANGED task
    BY NewUploadMakes
  <1>3. /\ thread = "ui" => Done(thread) \in UiLabels
        /\ thread = "rec" => Done(thread) \in RecLabels
    BY LabelSets DEF Done
  <1>4. pc' \in [{"ui", "rec"} -> Labels] /\ pc'["ui"] \in UiLabels /\ pc'["rec"] \in RecLabels
    BY <1>1, <1>3, GotoMoves
  <1>5. /\ held' \in [{"ui", "rec"} -> Tokens \cup {NoToken}]
        /\ task' \in [Tokens -> TaskLabels] /\ failures' \in 0..MaxFailures
    <2>1. CASE task' = [task EXCEPT ![t] = first] /\ UNCHANGED <<held, failures>>
      BY <2>1 DEF AppTypes
    <2>2. CASE Fails /\ Holds(thread, t) /\ UNCHANGED task
      BY <2>2, FailsTypes, HoldsTypes DEF AppTypes
    <2> QED
      BY <1>2, <2>1, <2>2
  <1> QED
    BY <1>1, <1>2, <1>4, <1>5

\* Undoing it frees what the thread held.
LEMMA UndoUploadFrees ==
  ASSUME AppTypes, NEW thread \in {"ui", "rec"}, NEW from, NEW to, held[thread] \in Tokens,
         thread = "ui" => to \in UiLabels, thread = "rec" => to \in RecLabels,
         UndoUpload(thread, from, to)
  PROVE  /\ tokens' \in [Tokens -> TokenTypes] /\ Writes(held[thread], FreeToken)
         /\ uploadOp' = NoToken /\ uploading' = FALSE
         /\ pc' \in [{"ui", "rec"} -> Labels] /\ pc'["ui"] \in UiLabels /\ pc'["rec"] \in RecLabels
         /\ held' \in [{"ui", "rec"} -> Tokens \cup {NoToken}]
  BY FreeWrites, GotoMoves, HoldsTypes DEF UndoUpload

-----------------------------------------------------------------------------
\* Where the recorder task works for the operation it was started with.
Capturing == {"loop", "progress"}
Reporting == {"captured", "discard", "discard_show", "wrap"}

\* A thread that starts, undoes or reports an operation has its token.
HeldOK ==
    /\ pc["ui"] \in {"start", "undo_upload", "undo_retry"} => held["ui"] \in Tokens
    /\ pc["rec"] = "undo_upload" => held["rec"] \in Tokens
    /\ pc["rec"] \in Capturing \cup Reporting => callbacks \in Tokens

\* The types survive start_upload,
LEMMA StartUploadTypes ==
  ASSUME AppTypes, NEW thread \in {"ui", "rec"}, StartUpload(thread),
         UNCHANGED <<answer, touches>>
  PROVE  AppTypes'
  <1> DEFINE PcTyped == /\ pc' \in [{"ui", "rec"} -> Labels]
                        /\ pc'["ui"] \in UiLabels /\ pc'["rec"] \in RecLabels
  <1> USE LabelSets DEF EndLabels
  <1>1. /\ Done(thread) \in UiLabels \cap {"wait"} \/ Done(thread) \in RecLabels \cap {"finish"}
        /\ thread = "ui" => Done(thread) = "wait"
        /\ thread = "rec" => Done(thread) = "finish"
    BY DEF Done
  <1>2. /\ PcTyped /\ tokens' \in [Tokens -> TokenTypes]
        /\ uploading' \in BOOLEAN /\ uploadOp' \in Tokens \cup {NoToken}
        /\ pendingWav' \in Questions \cup {NoQuestion}
        /\ held' \in [{"ui", "rec"} -> Tokens \cup {NoToken}]
        /\ task' \in [Tokens -> TaskLabels] /\ failures' \in 0..MaxFailures
    <2>1. CASE /\ Goto(thread, "start_upload", Done(thread))
               /\ UNCHANGED <<tokens, uploadVars, pendingWav, held, task, failures>>
      BY <1>1, <2>1, GotoMoves DEF AppTypes, TokenTypes, uploadVars
    <2>2. CASE /\ Fails /\ Goto(thread, "start_upload", "show_error_retry")
               /\ UNCHANGED <<tokens, uploadVars, pendingWav, held, task>>
      BY <2>2, GotoMoves, FailsTypes DEF AppTypes, TokenTypes, uploadVars
    <2>3. CASE NewUpload(thread, "start_upload", pendingWav, "upload", "undo_upload") /\ TakePending
      <3>1. pendingWav \in Questions \cup {NoQuestion} /\ pendingWav' = NoQuestion
        BY <2>3 DEF AppTypes, TakePending
      <3> HIDE DEF PcTyped
      <3> QED
        BY <2>3, <3>1, NewUploadTypes DEF PcTyped
    <2> QED
      BY <2>1, <2>2, <2>3 DEF StartUpload
  <1> HIDE DEF PcTyped
  <1> QED
    BY <1>2 DEF StartUpload, AppTypes, PcTyped, TokenTypes, uiVars

\* and its undoing.
LEMMA UploadNotCreatedTypes ==
  ASSUME AppTypes, HeldOK, NEW thread \in {"ui", "rec"}, UploadNotCreated(thread),
         UNCHANGED <<answer, touches>>
  PROVE  AppTypes'
  <1> USE LabelSets DEF EndLabels
  <1>1. pc[thread] = "undo_upload"
    BY DEF UploadNotCreated, UndoUpload, Goto
  <1>2. held[thread] \in Tokens
    BY <1>1 DEF HeldOK
  <1>3. /\ tokens' \in [Tokens -> TokenTypes] /\ uploadOp' = NoToken /\ uploading' = FALSE
        /\ pc' \in [{"ui", "rec"} -> Labels] /\ pc'["ui"] \in UiLabels /\ pc'["rec"] \in RecLabels
        /\ held' \in [{"ui", "rec"} -> Tokens \cup {NoToken}]
    BY <1>2, UndoUploadFrees DEF UploadNotCreated
  <1>4. pendingWav' \in Questions \cup {NoQuestion}
    BY <1>2 DEF UploadNotCreated, AppTypes
  <1> QED
    BY <1>3, <1>4 DEF UploadNotCreated, AppTypes, TokenTypes, uiVars

\* The types survive the steps of the ui_actions task,
LEMMA UiTypes ==
  ASSUME AppTypes, HeldOK, UiStep
  PROVE  AppTypes'
  <1> DEFINE PcTyped == /\ pc' \in [{"ui", "rec"} -> Labels]
                        /\ pc'["ui"] \in UiLabels /\ pc'["rec"] \in RecLabels
  <1> USE LabelSets DEF EndLabels
  <1>0. UNCHANGED <<answer, touches>>
    BY DEF UiStep
  <1>1. CASE ThreadShow("ui")
    <2>1. PcTyped
      BY <1>1, ThreadShowMoves, GotoMoves
    <2> QED
      BY <1>0, <1>1, <2>1, ThreadShowMoves DEF ThreadShow, AppTypes, wavVars, uploadVars, opVars
  <1>2. CASE RecordPressed
    <2>1. PcTyped /\ queue' \in Seq(Actions) /\ Len(queue') <= QueueDepth
      BY <1>2, ReceiveMoves, ReceiveTypes DEF RecordPressed
    <2> HIDE DEF PcTyped
    <2> QED
      BY <1>0, <1>2, <2>1 DEF RecordPressed, AppTypes, PcTyped, Holds, wavVars, uploadVars, opVars, uiVars
  <1>3. CASE BargeStop
    <2>1. PcTyped
      BY <1>3, GotoMoves DEF BargeStop
    <2> HIDE DEF PcTyped
    <2> QED
      BY <1>0, <1>3, <2>1 DEF BargeStop, AppTypes, PcTyped, Holds, wavVars, uploadVars, opVars, uiVars
  <1>4. CASE RecordBusy
    <2>1. PcTyped
      BY <1>4, GotoMoves DEF RecordBusy
    <2> HIDE DEF PcTyped
    <2> QED
      BY <1>0, <1>4, <2>1 DEF RecordBusy, AppTypes, PcTyped, Holds, wavVars, uploadVars, opVars, uiVars
  <1>5. CASE RecordReleased
    <2>1. PcTyped /\ queue' \in Seq(Actions) /\ Len(queue') <= QueueDepth
      BY <1>5, ReceiveMoves, ReceiveTypes DEF RecordReleased
    <2> HIDE DEF PcTyped
    <2> QED
      BY <1>0, <1>5, <2>1 DEF RecordReleased, AppTypes, PcTyped, Holds, wavVars, uploadVars, opVars, uiVars
  <1>6. CASE CancelStop
    <2>1. PcTyped
      BY <1>6, GotoMoves DEF CancelStop
    <2> HIDE DEF PcTyped
    <2> QED
      BY <1>0, <1>6, <2>1 DEF CancelStop, AppTypes, PcTyped, Holds, wavVars, uploadVars, opVars, uiVars
  <1>7. CASE RetryPressed
    <2>1. PcTyped /\ queue' \in Seq(Actions) /\ Len(queue') <= QueueDepth
      BY <1>7, ReceiveMoves, ReceiveTypes DEF RetryPressed
    <2> HIDE DEF PcTyped
    <2> QED
      BY <1>0, <1>7, <2>1 DEF RetryPressed, AppTypes, PcTyped, Holds, wavVars, uploadVars, opVars, uiVars
  <1>8. CASE Toggle
    <2>1. PcTyped /\ queue' \in Seq(Actions) /\ Len(queue') <= QueueDepth
      BY <1>8, ReceiveMoves, ReceiveTypes DEF Toggle
    <2> HIDE DEF PcTyped
    <2> QED
      BY <1>0, <1>8, <2>1 DEF Toggle, AppTypes, PcTyped, Holds, wavVars, uploadVars, opVars, uiVars
  <1>9. CASE ToggleApp
    <2>1. PcTyped
      BY <1>9, GotoMoves DEF ToggleApp
    <2> HIDE DEF PcTyped
    <2> QED
      BY <1>0, <1>9, <2>1 DEF ToggleApp, AppTypes, PcTyped, Holds, wavVars, uploadVars, opVars, uiVars
  <1>10. CASE ToggleStop
    <2>1. PcTyped
      BY <1>10, GotoMoves DEF ToggleStop
    <2> HIDE DEF PcTyped
    <2> QED
      BY <1>0, <1>10, <2>1 DEF ToggleStop, AppTypes, PcTyped, Holds, wavVars, uploadVars, opVars, uiVars
  <1>11. CASE BargeCancel
    <2>1. PcTyped
      BY <1>11, GotoMoves DEF BargeCancel
    <2>2. tokens' \in [Tokens -> TokenTypes] /\ uploading' \in BOOLEAN
      <3>1. CASE uploadOp # NoToken
        BY <1>11, <3>1, CancelWrites DEF BargeCancel, AppTypes
      <3>2. CASE uploadOp = NoToken
        BY <1>11, <3>2 DEF BargeCancel, AppTypes, TokenTypes
      <3> QED
        BY <3>1, <3>2
    <2> HIDE DEF PcTyped
    <2> QED
      BY <1>0, <1>11, <2>1, <2>2 DEF BargeCancel, AppTypes, PcTyped, TokenTypes, wavVars, uiVars
  <1>12. CASE ClearPending
    <2>1. PcTyped
      BY <1>12, GotoMoves DEF ClearPending
    <2>2. /\ tokens' \in [Tokens -> TokenTypes] /\ recordOp' \in Tokens \cup {NoToken}
          /\ held' \in [{"ui", "rec"} -> Tokens \cup {NoToken}]
          /\ failures' \in 0..MaxFailures
      <3>1. CASE Fails /\ UNCHANGED <<tokens, recordOp, held>>
        BY <3>1, FailsTypes DEF AppTypes, TokenTypes
      <3>2. ASSUME NEW t \in Tokens, Allocate(t, TRUE, NoQuestion, NoQuestion),
                   recordOp' = t, Holds("ui", t), UNCHANGED failures
            PROVE  /\ tokens' \in [Tokens -> TokenTypes] /\ recordOp' \in Tokens \cup {NoToken}
                   /\ held' \in [{"ui", "rec"} -> Tokens \cup {NoToken}]
                   /\ failures' \in 0..MaxFailures
        BY <3>2, AllocateWrites DEF AppTypes, Holds
      <3> QED
        BY <1>12, <3>1, <3>2 DEF ClearPending
    <2> HIDE DEF PcTyped
    <2> QED
      BY <1>0, <1>12, <2>1, <2>2 DEF ClearPending, AppTypes, PcTyped, TokenTypes, uploadVars, uiVars
  <1>13. CASE RecordStart
    <2>1. PcTyped /\ held' \in [{"ui", "rec"} -> Tokens \cup {NoToken}]
      <3>1. pc' = [pc EXCEPT !["ui"] = "show_recording", !["rec"] = "loop"]
        BY <1>13 DEF RecordStart
      <3>2. "show_recording" \in UiLabels /\ "loop" \in RecLabels
        OBVIOUS
      <3>3. PcTyped
        BY <3>1, <3>2 DEF AppTypes, Labels
      <3> QED
        BY <1>13, <3>3, HoldsTypes DEF RecordStart
    <2> HIDE DEF PcTyped
    <2> QED
      BY <1>0, <1>13, <2>1 DEF RecordStart, AppTypes, PcTyped, wavVars, opVars, uploadVars, uiVars
  <1>14. CASE RecordStartFails
    <2>1. PcTyped /\ held' \in [{"ui", "rec"} -> Tokens \cup {NoToken}]
      BY <1>14, GotoMoves, HoldsTypes DEF RecordStartFails
    <2>2. tokens' \in [Tokens -> TokenTypes] /\ failures' \in 0..MaxFailures
      <3>1. held["ui"] \in Tokens /\ Free(held["ui"])
        BY <1>14 DEF RecordStartFails, Goto, HeldOK
      <3>2. failures' = failures \/ Fails
        BY <1>14 DEF RecordStartFails
      <3> QED
        BY <3>1, <3>2, FreeWrites, FailsTypes DEF AppTypes
    <2> HIDE DEF PcTyped
    <2> QED
      BY <1>0, <1>14, <2>1, <2>2
      DEF RecordStartFails, AppTypes, PcTyped, TokenTypes, wavVars, uploadVars, uiVars
  <1>15. CASE CancelPressed
    <2> DEFINE t == IF recordOp # NoToken THEN recordOp ELSE uploadOp
    <2>1. t \in Tokens \cup {NoToken}
      BY DEF AppTypes
    <2>2. CASE t = NoToken
      <3>1. Receive("cancel", "wait") /\ UNCHANGED <<tokens, uploading, held>>
        BY <1>15, <2>2 DEF CancelPressed
      <3>2. PcTyped /\ queue' \in Seq(Actions) /\ Len(queue') <= QueueDepth
        BY <3>1, ReceiveMoves, ReceiveTypes
      <3> HIDE DEF PcTyped
      <3> QED
        BY <1>0, <1>15, <3>1, <3>2 DEF CancelPressed, AppTypes, PcTyped, wavVars, uiVars
    <2>3. CASE t # NoToken
      <3>1. /\ Receive("cancel", "cancel_stop")
            /\ tokens' = [tokens EXCEPT ![t].cancelled = TRUE]
            /\ uploading' = CancelClears
            /\ Holds("ui", t)
        BY <1>15, <2>3 DEF CancelPressed
      <3>2. PcTyped /\ queue' \in Seq(Actions) /\ Len(queue') <= QueueDepth
        BY <3>1, ReceiveMoves, ReceiveTypes
      <3>3. /\ tokens' \in [Tokens -> TokenTypes]
            /\ held' \in [{"ui", "rec"} -> Tokens \cup {NoToken}]
        BY <2>1, <2>3, <3>1, CancelWrites, HoldsTypes
      <3>4. uploading' \in BOOLEAN
        BY <3>1 DEF CancelClears
      <3> HIDE DEF PcTyped
      <3> QED
        BY <1>0, <1>15, <3>2, <3>3, <3>4 DEF CancelPressed, AppTypes, PcTyped, TokenTypes, wavVars, uiVars
    <2> QED
      BY <2>2, <2>3
  <1>16. CASE StartAudioRetry
    <2>1. /\ PcTyped /\ tokens' \in [Tokens -> TokenTypes]
          /\ uploading' \in BOOLEAN /\ uploadOp' \in Tokens \cup {NoToken}
          /\ held' \in [{"ui", "rec"} -> Tokens \cup {NoToken}]
          /\ task' \in [Tokens -> TaskLabels] /\ failures' \in 0..MaxFailures
      <3>1. CASE /\ Goto("ui", "start_retry", "wait")
                 /\ UNCHANGED <<tokens, uploadVars, held, task, failures>>
        BY <3>1, GotoMoves DEF AppTypes, TokenTypes, uploadVars
      <3>2. CASE /\ Fails /\ Goto("ui", "start_retry", "show_audio_error")
                 /\ UNCHANGED <<tokens, uploadVars, held, task>>
        BY <3>2, GotoMoves, FailsTypes DEF AppTypes, TokenTypes, uploadVars
      <3>3. CASE NewUpload("ui", "start_retry", NoQuestion, "play", "undo_retry")
        BY <3>3, NewUploadTypes
      <3> QED
        BY <1>16, <3>1, <3>2, <3>3 DEF StartAudioRetry
    <2> HIDE DEF PcTyped
    <2> QED
      BY <1>0, <1>16, <2>1 DEF StartAudioRetry, AppTypes, PcTyped, TokenTypes, wavVars, uiVars
  <1>17. CASE AudioRetryNotCreated
    <2>1. held["ui"] \in Tokens
      BY <1>17 DEF AudioRetryNotCreated, UndoUpload, Goto, HeldOK
    <2>2. /\ PcTyped /\ tokens' \in [Tokens -> TokenTypes] /\ uploadOp' = NoToken
          /\ uploading' = FALSE /\ held' \in [{"ui", "rec"} -> Tokens \cup {NoToken}]
      BY <1>17, <2>1, UndoUploadFrees DEF AudioRetryNotCreated
    <2> HIDE DEF PcTyped
    <2> QED
      BY <1>0, <1>17, <2>2 DEF AudioRetryNotCreated, AppTypes, PcTyped, TokenTypes, wavVars, uiVars
  <1>18. CASE StartUpload("ui")
    BY <1>0, <1>18, StartUploadTypes
  <1>19. CASE UploadNotCreated("ui")
    BY <1>0, <1>19, UploadNotCreatedTypes
  <1> QED
    BY <1>1, <1>2, <1>3, <1>4, <1>5, <1>6, <1>7, <1>8, <1>9, <1>10, <1>11, <1>12, <1>13, <1>14,
       <1>15, <1>16, <1>17, <1>18, <1>19 DEF UiStep

\* those of the recorder task,
LEMMA RecorderTypes ==
  ASSUME AppTypes, HeldOK, RecorderStep
  PROVE  AppTypes'
  <1> DEFINE PcTyped == /\ pc' \in [{"ui", "rec"} -> Labels]
                        /\ pc'["ui"] \in UiLabels /\ pc'["rec"] \in RecLabels
  <1> USE LabelSets DEF EndLabels
  <1>0. UNCHANGED <<answer, soundOn, queue, touches>>
    BY DEF RecorderStep
  <1>1. CASE ThreadShow("rec")
    <2>1. PcTyped
      BY <1>1, ThreadShowMoves, GotoMoves
    <2> HIDE DEF PcTyped
    <2> QED
      BY <1>0, <1>1, <2>1, ThreadShowMoves DEF PcTyped, ThreadShow, AppTypes, wavVars, uploadVars, opVars
  <1>2. CASE Progress
    <2>1. PcTyped
      BY <1>2, GotoMoves DEF Progress
    <2> HIDE DEF PcTyped
    <2> QED
      BY <1>0, <1>2, <2>1 DEF Progress, AppTypes, PcTyped, wavVars, uploadVars, opVars, uiVars
  <1>3. CASE ProgressShow
    <2>1. PcTyped /\ screen' \in Screens /\ gesture' \in BOOLEAN
      BY <1>3, GotoMoves, ShowTypes DEF ProgressShow, Screens
    <2> HIDE DEF PcTyped
    <2> QED
      BY <1>0, <1>3, <2>1 DEF ProgressShow, AppTypes, PcTyped, wavVars, uploadVars, opVars
  <1>4. CASE CaptureEnds
    <2>1. PcTyped
      BY <1>4, GotoMoves DEF CaptureEnds
    <2> HIDE DEF PcTyped
    <2> QED
      BY <1>0, <1>4, <2>1 DEF CaptureEnds, AppTypes, PcTyped, wavVars, uploadVars, opVars, uiVars
  <1>5. CASE Captured
    <2>1. PcTyped
      BY <1>5, GotoMoves DEF Captured
    <2> HIDE DEF PcTyped
    <2> QED
      BY <1>0, <1>5, <2>1 DEF Captured, AppTypes, PcTyped, wavVars, uploadVars, opVars, uiVars
  <1>6. CASE RecorderFinish
    <2>1. PcTyped
      BY <1>6, GotoMoves DEF RecorderFinish
    <2> HIDE DEF PcTyped
    <2> QED
      BY <1>0, <1>6, <2>1 DEF RecorderFinish, AppTypes, PcTyped, wavVars, uploadVars, opVars, uiVars
  <1>7. CASE Discard
    <2>1. PcTyped
      BY <1>7, GotoMoves DEF Discard
    <2>2. tokens' \in [Tokens -> TokenTypes] /\ recordOp' \in Tokens \cup {NoToken}
      <3>1. callbacks \in Tokens
        BY <1>7 DEF Discard, Goto, HeldOK, Reporting
      <3> QED
        BY <1>7, <3>1, FreeWrites DEF Discard, AppTypes, TokenTypes
    <2> HIDE DEF PcTyped
    <2> QED
      BY <1>0, <1>7, <2>1, <2>2 DEF Discard, AppTypes, PcTyped, TokenTypes, wavVars, uploadVars, uiVars
  <1>8. CASE DiscardShow
    <2>1. PcTyped /\ screen' \in Screens /\ gesture' \in BOOLEAN
      BY <1>8, GotoMoves, ShowTypes DEF DiscardShow, Screens
    <2>2. tokens' \in [Tokens -> TokenTypes]
      <3>1. callbacks \in Tokens
        BY <1>8 DEF DiscardShow, Goto, HeldOK, Reporting
      <3> QED
        BY <1>8, <3>1, FreeWrites DEF DiscardShow
    <2> HIDE DEF PcTyped
    <2> QED
      BY <1>0, <1>8, <2>1, <2>2 DEF DiscardShow, AppTypes, PcTyped, TokenTypes, wavVars, uploadVars
  <1>9. CASE Wrap
    <2>1. /\ PcTyped /\ pendingWav' \in Questions \cup {NoQuestion}
          /\ pendingId' \in Questions \cup {NoQuestion} /\ wavs' \in SUBSET Questions
          /\ failures' \in 0..MaxFailures
      <3>1. CASE /\ Goto("rec", "wrap", "start_upload")
                 /\ \E q \in Questions :
                       /\ FreshQuestion(q)
                       /\ pendingWav' = q /\ pendingId' = q
                       /\ wavs' = (wavs \ {pendingWav}) \cup {q}
                 /\ UNCHANGED failures
        BY <3>1, GotoMoves DEF AppTypes
      <3>2. CASE Goto("rec", "wrap", "show_error") /\ Fails /\ UNCHANGED wavVars
        BY <3>2, GotoMoves, FailsTypes DEF AppTypes, wavVars
      <3> QED
        BY <1>9, <3>1, <3>2 DEF Wrap
    <2>2. tokens' \in [Tokens -> TokenTypes]
      <3>1. callbacks \in Tokens
        BY <1>9 DEF Wrap, Goto, HeldOK, Reporting
      <3> QED
        BY <1>9, <3>1, FreeWrites DEF Wrap
    <2> HIDE DEF PcTyped
    <2> QED
      BY <1>0, <1>9, <2>1, <2>2 DEF Wrap, AppTypes, PcTyped, TokenTypes, uploadVars, uiVars
  <1>10. CASE StartUpload("rec")
    BY <1>0, <1>10, StartUploadTypes
  <1>11. CASE UploadNotCreated("rec")
    BY <1>0, <1>11, UploadNotCreatedTypes
  <1> QED
    BY <1>1, <1>2, <1>3, <1>4, <1>5, <1>6, <1>7, <1>8, <1>9, <1>10, <1>11 DEF RecorderStep

\* touches,
LEMMA TouchTypes ==
  ASSUME AppTypes, Touch
  PROVE  AppTypes'
  <1>1. touches' \in 0..MaxTouches
    BY ConstantsAssumption DEF Touch, AppTypes
  <1>2. /\ queue' \in Seq(Actions) /\ Len(queue') <= QueueDepth
        /\ screen' \in Screens /\ gesture' \in BOOLEAN
    <2>1. CASE PressRecord
      BY <2>1, EnqueueTypes DEF PressRecord, Actions, Screens
    <2>2. CASE ReleaseRecord
      BY <2>2, EnqueueTypes DEF ReleaseRecord, Actions, AppTypes
    <2>3. CASE PressButton
      BY <2>3, EnqueueTypes DEF PressButton, Actions, AppTypes, uiVars
    <2> QED
      BY <2>1, <2>2, <2>3 DEF Touch
  <1> QED
    BY <1>1, <1>2 DEF Touch, AppTypes, wavVars, opVars, uploadVars

\* and the steps of an upload or audio retry task.
LEMMA TaskTypes ==
  ASSUME AppTypes, NEW t \in Tokens, TaskStep(t)
  PROVE  AppTypes'
  <1> DEFINE TaskTyped == task' \in [Tokens -> TaskLabels]
  <1> USE LabelSets DEF ShowLabels
  <1>0. UNCHANGED <<recordOp, soundOn, queue, pc, held, touches>>
    BY DEF TaskStep
  <1>1. CASE TaskShow(t)
    <2>1. PICK label \in ShowLabels : /\ At(t, label, TaskScreen[label][2])
                                      /\ Show(TaskScreen[label][1])
      BY <1>1, ScreenTables DEF TaskShow
    <2>2. TaskTyped
      BY <2>1, ScreenTables, TaskMoves
    <2>3. screen' \in Screens /\ gesture' \in BOOLEAN
      BY <2>1, ScreenTables, ShowTypes
    <2> HIDE DEF TaskTyped
    <2> QED
      BY <1>0, <1>1, <2>2, <2>3 DEF TaskTyped, TaskShow, AppTypes, wavVars, uploadVars
  <1>2. CASE UploadPrepare(t)
    <2>1. TaskTyped /\ TaskOnly
      BY <1>2, TaskMoves DEF UploadPrepare
    <2> HIDE DEF TaskTyped
    <2> QED
      BY <1>0, <2>1 DEF TaskTyped, TaskOnly, AppTypes, wavVars, uploadVars, uiVars
  <1>3. CASE RunStatus(t)
    <2>1. TaskTyped /\ TaskOnly
      BY <1>3, TaskMoves DEF RunStatus
    <2> HIDE DEF TaskTyped
    <2> QED
      BY <1>0, <2>1 DEF TaskTyped, TaskOnly, AppTypes, wavVars, uploadVars, uiVars
  <1>4. CASE RunAnswered(t)
    <2>1. TaskTyped /\ TaskOnly
      BY <1>4, TaskMoves DEF RunAnswered
    <2> HIDE DEF TaskTyped
    <2> QED
      BY <1>0, <2>1 DEF TaskTyped, TaskOnly, AppTypes, wavVars, uploadVars, uiVars
  <1>5. CASE RunFails(t)
    <2>1. TaskTyped /\ TaskOnly
      BY <1>5, TaskMoves DEF RunFails
    <2> HIDE DEF TaskTyped
    <2> QED
      BY <1>0, <2>1 DEF TaskTyped, TaskOnly, AppTypes, wavVars, uploadVars, uiVars
  <1>6. CASE Speech(t)
    <2>1. TaskTyped /\ TaskOnly
      BY <1>6, TaskMoves DEF Speech
    <2> HIDE DEF TaskTyped
    <2> QED
      BY <1>0, <2>1 DEF TaskTyped, TaskOnly, AppTypes, wavVars, uploadVars, uiVars
  <1>7. CASE PlaySpeech(t)
    <2>1. TaskTyped /\ TaskOnly
      BY <1>7, TaskMoves DEF PlaySpeech
    <2> HIDE DEF TaskTyped
    <2> QED
      BY <1>0, <2>1 DEF TaskTyped, TaskOnly, AppTypes, wavVars, uploadVars, uiVars
  <1>8. CASE HeaderArrives(t)
    <2>1. TaskTyped /\ TaskOnly
      BY <1>8, TaskMoves DEF HeaderArrives
    <2> HIDE DEF TaskTyped
    <2> QED
      BY <1>0, <2>1 DEF TaskTyped, TaskOnly, AppTypes, wavVars, uploadVars, uiVars
  <1>9. CASE PlayReturns(t)
    <2>1. TaskTyped /\ TaskOnly
      BY <1>9, TaskMoves DEF PlayReturns
    <2> HIDE DEF TaskTyped
    <2> QED
      BY <1>0, <2>1 DEF TaskTyped, TaskOnly, AppTypes, wavVars, uploadVars, uiVars
  <1>10. CASE AfterSpeech(t)
    <2>1. PICK bad \in BOOLEAN : \E to \in {"drop", "show_audio_error", "show_text"} :
              At(t, IF bad THEN "unplayed" ELSE "played", to)
      BY <1>10 DEF AfterSpeech
    <2>2. TaskTyped /\ TaskOnly
      BY <1>10, <2>1, TaskMoves DEF AfterSpeech
    <2> HIDE DEF TaskTyped
    <2> QED
      BY <1>0, <2>2 DEF TaskTyped, TaskOnly, AppTypes, wavVars, uploadVars, uiVars
  <1>11. CASE SaveResult(t)
    <2>1. TaskTyped /\ screen' \in Screens /\ gesture' \in BOOLEAN
      BY <1>11, TaskMoves, ShowTypes DEF SaveResult, Screens
    <2> HIDE DEF TaskTyped
    <2> QED
      BY <1>0, <1>11, <2>1 DEF TaskTyped, SaveResult, AppTypes, wavVars, uploadVars
  <1>12. CASE HttpFails(t)
    <2>1. TaskTyped /\ failures' \in 0..MaxFailures
      BY <1>12, TaskMoves, FailsTypes DEF HttpFails, AppTypes
    <2> HIDE DEF TaskTyped
    <2> QED
      BY <1>0, <1>12, <2>1 DEF TaskTyped, HttpFails, AppTypes, wavVars, uploadVars, uiVars
  <1>13. CASE BeginStream(t)
    <2>1. TaskTyped
      BY <1>13, TaskMoves DEF BeginStream
    <2> HIDE DEF TaskTyped
    <2> QED
      BY <1>0, <1>13, <2>1 DEF TaskTyped, BeginStream, AppTypes, wavVars, uploadVars, uiVars
  <1>14. CASE Streaming(t)
    BY <1>0, <1>14 DEF Streaming, AppTypes, wavVars, uploadVars, uiVars
  <1>15. CASE FinishUpload(t)
    <2>1. TaskTyped
      BY <1>15, TaskMoves DEF FinishUpload
    <2>2. /\ pendingWav' \in Questions \cup {NoQuestion}
          /\ pendingId' \in Questions \cup {NoQuestion} /\ wavs' \in SUBSET Questions
      BY <1>15 DEF FinishUpload, Keep, AppTypes
    <2>3. uploadOp' \in Tokens \cup {NoToken} /\ uploading' \in BOOLEAN
      BY <1>15 DEF FinishUpload, AppTypes, uploadVars
    <2>4. tokens' \in [Tokens -> TokenTypes]
      BY <1>15, FreeWrites DEF FinishUpload
    <2> HIDE DEF TaskTyped
    <2> QED
      BY <1>0, <1>15, <2>1, <2>2, <2>3, <2>4 DEF TaskTyped, FinishUpload, AppTypes, TokenTypes, uiVars
  <1> QED
    BY <1>1, <1>2, <1>3, <1>4, <1>5, <1>6, <1>7, <1>8, <1>9, <1>10, <1>11, <1>12, <1>13, <1>14,
       <1>15 DEF TaskStep

-----------------------------------------------------------------------------
(***************************************************************************)
(* Every step of a thread is a step of the audio modules, or leaves them   *)
(* alone.                                                                  *)
(***************************************************************************)
LEMMA AudioStep ==
  ASSUME AppTypes, HeldOK, [Next]_vars
  PROVE  [Audio!Next]_audioVars
  <1> USE DEF audioVars, playerVars, recorderVars, streamVars
  <1>1. CASE Touch
    BY <1>1 DEF Touch
  <1>2. CASE UiStep
    <2>1. CASE \/ ThreadShow("ui") \/ RecordPressed \/ BargeCancel \/ RecordBusy \/ ClearPending
               \/ CancelPressed \/ RetryPressed \/ StartAudioRetry \/ AudioRetryNotCreated
               \/ StartUpload("ui") \/ UploadNotCreated("ui") \/ ToggleApp
      BY <2>1 DEF ThreadShow, RecordPressed, BargeCancel, RecordBusy, ClearPending,
                  CancelPressed, RetryPressed, StartAudioRetry, AudioRetryNotCreated,
                  StartUpload, UploadNotCreated, ToggleApp
    <2>2. CASE BargeStop \/ ToggleStop
      <3>1. Audio!PlayerStop /\ UNCHANGED <<recorderVars, streamVars>>
        BY <2>2 DEF BargeStop, ToggleStop
      <3> QED
        BY <3>1 DEF Audio!Next, Audio!UserStep, Audio!recorderVars, Audio!streamVars
    <2>3. CASE RecordStart
      <3>1. held["ui"] \in Tokens
        BY <2>3 DEF RecordStart, HeldOK
      <3>2. Audio!RecorderStart(held["ui"]) /\ UNCHANGED streamVars
        BY <2>3 DEF RecordStart
      <3> QED
        BY <3>1, <3>2 DEF Audio!Next, Audio!UserStep, Audio!streamVars
    <2>4. CASE RecordStartFails
      <3>1. held["ui"] \in Tokens
        BY <2>4 DEF RecordStartFails, Goto, HeldOK
      <3>2. \/ UNCHANGED <<playerVars, recorderVars, streamVars>>
            \/ Audio!RecorderStartFails(held["ui"]) /\ UNCHANGED streamVars
        BY <2>4 DEF RecordStartFails
      <3>3. CASE UNCHANGED <<playerVars, recorderVars, streamVars>>
        BY <3>3
      <3>4. CASE Audio!RecorderStartFails(held["ui"]) /\ UNCHANGED streamVars
        BY <3>1, <3>4 DEF Audio!Next, Audio!UserStep, Audio!streamVars
      <3> QED
        BY <3>2, <3>3, <3>4
    <2>5. CASE RecordReleased
      BY <2>5 DEF RecordReleased, Audio!Next, Audio!UserStep, Audio!streamVars
    <2>6. CASE CancelStop
      <3>1. /\ UNCHANGED streamVars
            /\ Audio!RecorderStop \/ (Audio!PlayerStop /\ UNCHANGED recorderVars)
        BY <2>6 DEF CancelStop
      <3> QED
        BY <3>1 DEF Audio!Next, Audio!UserStep, Audio!recorderVars, Audio!streamVars
    <2>7. CASE Toggle
      <3>1. /\ UNCHANGED streamVars
            /\ Audio!SetAudioEnabled(~soundOn) \/ UNCHANGED <<playerVars, recorderVars>>
        BY <2>7 DEF Toggle
      <3>2. (~soundOn) \in BOOLEAN
        BY Zenon
      <3> QED
        BY <3>1, <3>2 DEF Audio!Next, Audio!UserStep, Audio!streamVars
    <2> QED
      BY <1>2, <2>1, <2>2, <2>3, <2>4, <2>5, <2>6, <2>7 DEF UiStep
  <1>3. CASE RecorderStep
    <2>1. CASE \/ Progress \/ ProgressShow \/ Captured \/ Discard \/ DiscardShow \/ Wrap
               \/ StartUpload("rec") \/ UploadNotCreated("rec") \/ ThreadShow("rec")
      BY <2>1 DEF Progress, ProgressShow, Captured, Discard, DiscardShow, Wrap,
                  StartUpload, UploadNotCreated, ThreadShow
    <2>2. CASE CaptureEnds \/ RecorderFinish
      <3>1. Audio!RecorderTaskStep /\ UNCHANGED streamVars
        BY <2>2 DEF CaptureEnds, RecorderFinish, Audio!RecorderTaskStep
      <3> QED
        BY <3>1 DEF Audio!Next, Audio!streamVars
    <2> QED
      BY <1>3, <2>1, <2>2 DEF RecorderStep
  <1>4. ASSUME NEW t \in Tokens, TaskStep(t)
        PROVE  [Audio!Next]_audioVars
    <2>1. CASE \/ UploadPrepare(t) \/ TaskShow(t) \/ RunStatus(t) \/ RunAnswered(t) \/ RunFails(t)
               \/ SaveResult(t) \/ Speech(t) \/ PlaySpeech(t) \/ HeaderArrives(t)
               \/ PlayReturns(t) \/ AfterSpeech(t) \/ FinishUpload(t)
      BY <2>1 DEF UploadPrepare, TaskShow, RunStatus, RunAnswered, RunFails, SaveResult,
                  Speech, PlaySpeech, HeaderArrives, PlayReturns, AfterSpeech, FinishUpload,
                  TaskOnly
    <2>2. CASE HttpFails(t) \/ BeginStream(t) \/ Streaming(t)
      <3>1. Audio!StreamStep(t) \/ UNCHANGED audioVars
        BY <2>2 DEF HttpFails, BeginStream, Streaming, Audio!StreamStep
      <3> QED
        BY <3>1 DEF Audio!Next
    <2> QED
      BY <1>4, <2>1, <2>2 DEF TaskStep
  <1>5. CASE UNCHANGED vars
    BY <1>5 DEF vars
  <1> QED
    BY <1>1, <1>2, <1>3, <1>4, <1>5 DEF Next

-----------------------------------------------------------------------------
(***************************************************************************)
(* Whose token it is.  A token is held by the thread that starts or undoes *)
(* its operation, by the recorder task of its capture, or by its own task; *)
(* nobody else frees it, and no two of them hold the same one.             *)
(***************************************************************************)
Records(t) == t \in Tokens /\ tokens[t].live /\ tokens[t].recording
Uploads(t) == t \in Tokens /\ tokens[t].live /\ ~tokens[t].recording

Starting == pc["ui"] = "start"
Undoing == pc["ui"] \in {"undo_upload", "undo_retry"}
RecUndoing == pc["rec"] = "undo_upload"
Recorder == pc["rec"] \in Capturing \cup Reporting

HolderInv ==
    /\ Starting => Records(held["ui"])
    /\ Undoing => Uploads(held["ui"]) /\ task[held["ui"]] = "none"
    /\ RecUndoing => Uploads(held["rec"]) /\ task[held["rec"]] = "none"
    /\ Undoing /\ RecUndoing => held["ui"] # held["rec"]
    /\ Recorder => Records(callbacks)
    /\ Recorder /\ Starting => held["ui"] # callbacks
    /\ pc["rec"] = "discard_show" => recordOp # callbacks
    /\ \A t \in Tokens : task[t] # "none" => Uploads(t)

\* Where the recorder task is, by the flags of audio_recorder.c: no capture is
\* started before the previous one has been reported.
RecorderInv ==
    /\ pc["rec"] \in Capturing => recorderTask
    /\ pc["rec"] \notin Capturing \cup {"none"} => completing

\* The buffers: a free or recording token has none, no two tokens have the
\* same, and what a token or the pending slot has is allocated.
BufferInv ==
    /\ \A t \in Tokens : ~tokens[t].live \/ tokens[t].recording => tokens[t].wav = NoQuestion
    /\ \A t, u \in Tokens : tokens[t].wav # NoQuestion /\ tokens[t].wav = tokens[u].wav => t = u
    /\ \A t \in Tokens : tokens[t].wav # NoQuestion =>
          tokens[t].wav \in wavs /\ tokens[t].wav # pendingWav
    /\ pendingWav # NoQuestion => pendingWav \in wavs

\* An operation is undone only after a failure.
FailureInv == Undoing \/ RecUndoing => failures # 0

OwnerInv == HolderInv /\ BufferInv /\ FailureInv /\ OperationsAreLive /\ NoWavLeaks /\ WavMatchesId

\* A holder has a token.
LEMMA HeldFollows ==
  ASSUME HolderInv
  PROVE  HeldOK
  BY DEF HolderInv, HeldOK, Records, Uploads, Starting, Undoing, RecUndoing, Recorder

\* Steps after which whoever holds a token already held it.
NoNewHolder ==
    /\ Recorder' => Recorder /\ UNCHANGED callbacks
    /\ \A t \in Tokens : task'[t] # "none" => task[t] # "none"
    /\ Starting' => Starting /\ UNCHANGED held["ui"]
    /\ Undoing' => Undoing /\ UNCHANGED held["ui"]
    /\ RecUndoing' => RecUndoing /\ UNCHANGED held["rec"]
    /\ pc'["rec"] = "discard_show" => pc["rec"] = "discard_show"
    /\ failures # 0 => failures' # 0

\* Steps that free, allocate, move or cancel nothing.
Quiet == UNCHANGED <<opVars, wavVars>> /\ NoNewHolder

\* Such a step changes no ownership.
LEMMA QuietStep ==
  ASSUME OwnerInv, Quiet
  PROVE  OwnerInv'
  <1> USE DEF Quiet, NoNewHolder, OwnerInv, opVars, wavVars, uploadVars
  <1>1. HolderInv'
    BY DEF HolderInv, Records, Uploads, Recorder, Reporting
  <1>2. BufferInv'
    BY DEF BufferInv
  <1>3. FailureInv'
    BY DEF FailureInv
  <1>4. OperationsAreLive'
    BY DEF OperationsAreLive
  <1>5. NoWavLeaks' /\ WavMatchesId'
    BY DEF NoWavLeaks, WavMatchesId, Owners
  <1> QED
    BY <1>1, <1>2, <1>3, <1>4, <1>5

\* The player's functions leave the recorder's task and callbacks alone.
LEMMA StreamSparesRecorder ==
  ASSUME NEW t \in Tokens, Audio!StreamStep(t)
  PROVE  UNCHANGED <<recorderTask, completing, callbacks>>
  BY DEF Audio!StreamStep, Audio!DownloadFails, Audio!BeginClaim, Audio!BeginReject,
         Audio!BeginPause, Audio!BeginUnclaim, Audio!BeginOpen, Audio!BeginAbandon,
         Audio!StreamBreaks, Audio!StreamFinish, Audio!StreamFinishPause, Audio!StreamStop,
         Audio!RecorderPause, Audio!recorderVars

\* Most steps of the ui_actions task are quiet,
LEMMA UiQuiet ==
  ASSUME AppTypes,
         \/ ThreadShow("ui") \/ RecordPressed \/ BargeStop \/ RecordBusy \/ RecordReleased
         \/ CancelStop \/ RetryPressed \/ Toggle \/ ToggleApp \/ ToggleStop
  PROVE  Quiet /\ UNCHANGED <<recorderTask, completing, pc["rec"]>>
  <1> USE LabelSets DEF EndLabels, Quiet, NoNewHolder, Recorder, Starting, Undoing, RecUndoing, audioVars,
                        recorderVars, opVars, wavVars, uploadVars
  <1>1. CASE ThreadShow("ui")
    <2>1. pc'["ui"] = "wait" /\ pc'["rec"] = pc["rec"]
      BY <1>1, ThreadShowMoves, GotoMoves
    <2> QED
      BY <1>1, <2>1 DEF ThreadShow
  <1>2. CASE RecordPressed
    <2>1. pc'["ui"] \in {"barge_cancel", "busy"} /\ pc'["rec"] = pc["rec"]
      BY <1>2, ReceiveMoves DEF RecordPressed
    <2>2. UNCHANGED <<callbacks, recorderTask, completing>>
      BY <1>2 DEF RecordPressed, Audio!RecorderStop, Audio!SetAudioEnabled, Audio!recorderVars
    <2> QED
      BY <1>2, <2>1, <2>2 DEF RecordPressed, Holds
  <1>3. CASE BargeStop
    <2>1. pc'["ui"] \in {"busy"} /\ pc'["rec"] = pc["rec"]
      BY <1>3, GotoMoves DEF BargeStop
    <2>2. UNCHANGED <<callbacks, recorderTask, completing>>
      BY <1>3 DEF BargeStop, Audio!RecorderStop, Audio!SetAudioEnabled, Audio!recorderVars
    <2> QED
      BY <1>3, <2>1, <2>2 DEF BargeStop, Holds
  <1>4. CASE RecordBusy
    <2>1. pc'["ui"] \in {"wait", "clear"} /\ pc'["rec"] = pc["rec"]
      BY <1>4, GotoMoves DEF RecordBusy
    <2>2. UNCHANGED <<callbacks, recorderTask, completing>>
      BY <1>4 DEF RecordBusy, Audio!RecorderStop, Audio!SetAudioEnabled, Audio!recorderVars
    <2> QED
      BY <1>4, <2>1, <2>2 DEF RecordBusy, Holds
  <1>5. CASE RecordReleased
    <2>1. pc'["ui"] \in {"wait"} /\ pc'["rec"] = pc["rec"]
      BY <1>5, ReceiveMoves DEF RecordReleased
    <2>2. UNCHANGED <<callbacks, recorderTask, completing>>
      BY <1>5 DEF RecordReleased, Audio!RecorderStop, Audio!SetAudioEnabled, Audio!recorderVars
    <2> QED
      BY <1>5, <2>1, <2>2 DEF RecordReleased, Holds
  <1>6. CASE CancelStop
    <2>1. pc'["ui"] \in {"show_idle"} /\ pc'["rec"] = pc["rec"]
      BY <1>6, GotoMoves DEF CancelStop
    <2>2. UNCHANGED <<callbacks, recorderTask, completing>>
      BY <1>6 DEF CancelStop, Audio!RecorderStop, Audio!SetAudioEnabled, Audio!recorderVars
    <2> QED
      BY <1>6, <2>1, <2>2 DEF CancelStop, Holds
  <1>7. CASE RetryPressed
    <2>1. pc'["ui"] \in {"start_upload", "start_retry"} /\ pc'["rec"] = pc["rec"]
      BY <1>7, ReceiveMoves DEF RetryPressed
    <2>2. UNCHANGED <<callbacks, recorderTask, completing>>
      BY <1>7 DEF RetryPressed, Audio!RecorderStop, Audio!SetAudioEnabled, Audio!recorderVars
    <2> QED
      BY <1>7, <2>1, <2>2 DEF RetryPressed, Holds
  <1>8. CASE Toggle
    <2>1. pc'["ui"] \in {"toggle_app", "wait"} /\ pc'["rec"] = pc["rec"]
      BY <1>8, ReceiveMoves DEF Toggle
    <2>2. UNCHANGED <<callbacks, recorderTask, completing>>
      BY <1>8 DEF Toggle, Audio!RecorderStop, Audio!SetAudioEnabled, Audio!recorderVars
    <2> QED
      BY <1>8, <2>1, <2>2 DEF Toggle, Holds
  <1>9. CASE ToggleApp
    <2>1. pc'["ui"] \in {"toggle_stop", "wait"} /\ pc'["rec"] = pc["rec"]
      BY <1>9, GotoMoves DEF ToggleApp
    <2>2. UNCHANGED <<callbacks, recorderTask, completing>>
      BY <1>9 DEF ToggleApp, Audio!RecorderStop, Audio!SetAudioEnabled, Audio!recorderVars
    <2> QED
      BY <1>9, <2>1, <2>2 DEF ToggleApp, Holds
  <1>10. CASE ToggleStop
    <2>1. pc'["ui"] \in {"show_response", "wait"} /\ pc'["rec"] = pc["rec"]
      BY <1>10, GotoMoves DEF ToggleStop
    <2>2. UNCHANGED <<callbacks, recorderTask, completing>>
      BY <1>10 DEF ToggleStop, Audio!RecorderStop, Audio!SetAudioEnabled, Audio!recorderVars
    <2> QED
      BY <1>10, <2>1, <2>2 DEF ToggleStop, Holds
  <1> QED
    BY <1>1, <1>2, <1>3, <1>4, <1>5, <1>6, <1>7, <1>8, <1>9, <1>10

\* those of the recorder task that report nothing,
LEMMA RecorderQuiet ==
  ASSUME AppTypes, RecorderInv,
         \/ ThreadShow("rec") \/ Progress \/ ProgressShow \/ CaptureEnds \/ Captured
         \/ RecorderFinish
  PROVE  Quiet /\ RecorderInv'
  <1> USE LabelSets DEF EndLabels, Quiet, NoNewHolder, Recorder, Starting, Undoing, RecUndoing, Capturing,
                        Reporting, RecorderInv, audioVars, recorderVars, opVars, wavVars, uploadVars
  <1>1. CASE ThreadShow("rec")
    <2>1. pc["rec"] \in EndLabels /\ pc'["rec"] = "finish" /\ pc'["ui"] = pc["ui"]
      BY <1>1, ThreadShowMoves, GotoMoves
    <2> QED
      BY <1>1, <2>1 DEF ThreadShow
  <1>2. CASE Progress
    <2>1. pc["rec"] = "loop" /\ pc'["rec"] \in {"progress"} /\ pc'["ui"] = pc["ui"]
      BY <1>2, GotoMoves DEF Progress
    <2> QED
      BY <1>2, <2>1 DEF Progress, Audio!PrepareCompletion, Audio!FinishCompletion, Audio!playerVars
  <1>3. CASE ProgressShow
    <2>1. pc["rec"] = "progress" /\ pc'["rec"] \in {"loop"} /\ pc'["ui"] = pc["ui"]
      BY <1>3, GotoMoves DEF ProgressShow
    <2> QED
      BY <1>3, <2>1 DEF ProgressShow, Audio!PrepareCompletion, Audio!FinishCompletion, Audio!playerVars
  <1>4. CASE CaptureEnds
    <2>1. pc["rec"] = "loop" /\ pc'["rec"] \in {"discard", "captured"} /\ pc'["ui"] = pc["ui"]
      BY <1>4, GotoMoves DEF CaptureEnds
    <2> QED
      BY <1>4, <2>1 DEF CaptureEnds, Audio!PrepareCompletion, Audio!FinishCompletion, Audio!playerVars
  <1>5. CASE Captured
    <2>1. pc["rec"] = "captured" /\ pc'["rec"] \in {"discard", "wrap"} /\ pc'["ui"] = pc["ui"]
      BY <1>5, GotoMoves DEF Captured
    <2> QED
      BY <1>5, <2>1 DEF Captured, Audio!PrepareCompletion, Audio!FinishCompletion, Audio!playerVars
  <1>6. CASE RecorderFinish
    <2>1. pc["rec"] = "finish" /\ pc'["rec"] \in {"none"} /\ pc'["ui"] = pc["ui"]
      BY <1>6, GotoMoves DEF RecorderFinish
    <2> QED
      BY <1>6, <2>1 DEF RecorderFinish, Audio!PrepareCompletion, Audio!FinishCompletion, Audio!playerVars
  <1> QED
    BY <1>1, <1>2, <1>3, <1>4, <1>5, <1>6

\* and all of a task but its last.
LEMMA TaskQuiet ==
  ASSUME AppTypes, NEW t \in Tokens, TaskStep(t), ~ FinishUpload(t)
  PROVE  Quiet /\ UNCHANGED <<recorderTask, completing, pc["rec"]>>
  <1>1. UNCHANGED <<recordOp, pc, held>>
    BY DEF TaskStep
  <1>2. /\ UNCHANGED <<tokens, uploadVars, wavVars>>
        /\ failures # 0 => failures' # 0
        /\ Audio!StreamStep(t) \/ UNCHANGED audioVars
        /\ UNCHANGED task \/ \E from, to : from # "none" /\ At(t, from, to)
    <2>1. CASE TaskShow(t)
      BY <2>1, ScreenTables DEF TaskShow, ShowLabels
    <2>2. CASE \/ UploadPrepare(t) \/ RunStatus(t) \/ RunAnswered(t) \/ RunFails(t) \/ Speech(t)
               \/ PlaySpeech(t) \/ HeaderArrives(t) \/ PlayReturns(t) \/ SaveResult(t)
      BY <2>2 DEF UploadPrepare, RunStatus, RunAnswered, RunFails, Speech, PlaySpeech,
                  HeaderArrives, PlayReturns, SaveResult, TaskOnly
    <2>3. CASE AfterSpeech(t)
      <3>1. PICK bad \in BOOLEAN : \E to : At(t, IF bad THEN "unplayed" ELSE "played", to)
        BY <2>3 DEF AfterSpeech
      <3> QED
        BY <2>3, <3>1 DEF AfterSpeech, TaskOnly
    <2>4. CASE HttpFails(t)
      BY <2>4, FailsTypes DEF HttpFails, Audio!StreamStep
    <2>5. CASE BeginStream(t) \/ Streaming(t)
      BY <2>5 DEF BeginStream, Streaming, Audio!StreamStep
    <2> QED
      BY <2>1, <2>2, <2>3, <2>4, <2>5 DEF TaskStep
  <1>3. UNCHANGED <<recorderTask, completing, callbacks>>
    BY <1>2, StreamSparesRecorder DEF audioVars, recorderVars
  <1>4. \A u \in Tokens : task'[u] # "none" => task[u] # "none"
    BY <1>2 DEF At, AppTypes
  <1> QED
    BY <1>1, <1>2, <1>3, <1>4 DEF Quiet, NoNewHolder, Recorder, Starting, Undoing, RecUndoing, opVars

\* A cancelled operation is as live and as owned as before.
LEMMA CancelStep ==
  ASSUME AppTypes, OwnerInv, NEW t \in Tokens,
         Writes(t, [tokens[t] EXCEPT !.cancelled = TRUE]),
         UNCHANGED <<recordOp, uploadOp, wavVars>>, uploading' => uploading /\ t # uploadOp,
         NoNewHolder
  PROVE  OwnerInv'
  <1> USE DEF OwnerInv, wavVars
  <1>1. /\ \A u \in Tokens : /\ tokens'[u].live <=> tokens[u].live
                             /\ tokens'[u].recording <=> tokens[u].recording
                             /\ tokens'[u].wav = tokens[u].wav /\ tokens'[u].id = tokens[u].id
        /\ \A u \in Tokens \ {t} : tokens'[u] = tokens[u]
    <2>1. tokens[t] \in TokenTypes
      BY DEF AppTypes, TokenTypes
    <2>2. LET v == [tokens[t] EXCEPT !.cancelled = TRUE] IN
          v.live = tokens[t].live /\ v.recording = tokens[t].recording
          /\ v.wav = tokens[t].wav /\ v.id = tokens[t].id
      BY <2>1 DEF TokenTypes
    <2> QED
      BY <2>2 DEF Writes
  <1>2. HolderInv'
    BY <1>1 DEF HolderInv, NoNewHolder, Records, Uploads, Recorder, Reporting
  <1>3. BufferInv' /\ FailureInv'
    BY <1>1 DEF BufferInv, FailureInv, NoNewHolder
  <1>4. OperationsAreLive'
    BY <1>1 DEF OperationsAreLive, AppTypes
  <1>5. NoWavLeaks' /\ WavMatchesId'
    BY <1>1 DEF NoWavLeaks, WavMatchesId, Owners, NoNewHolder
  <1> QED
    BY <1>2, <1>3, <1>4, <1>5

\* Barge-in and CANCELAR cancel an operation, and clear the flag with it.
LEMMA CancelsKeep ==
  ASSUME AppTypes, OwnerInv, BargeCancel \/ CancelPressed
  PROVE  OwnerInv' /\ UNCHANGED <<recorderTask, completing, pc["rec"]>>
  <1> USE LabelSets DEF EndLabels, Quiet, NoNewHolder, Recorder, Starting, Undoing, RecUndoing,
                        audioVars, recorderVars, opVars, wavVars, uploadVars
  <1>1. CASE BargeCancel
    <2>1. pc'["ui"] = "barge_stop" /\ pc'["rec"] = pc["rec"]
      BY <1>1, GotoMoves DEF BargeCancel
    <2>2. NoNewHolder /\ UNCHANGED <<recorderTask, completing>>
      BY <1>1, <2>1 DEF BargeCancel
    <2>3. CASE uploadOp # NoToken
      <3>1. uploadOp \in Tokens
        BY <2>3 DEF AppTypes
      <3>2. Writes(uploadOp, [tokens[uploadOp] EXCEPT !.cancelled = TRUE]) /\ uploading' = FALSE
        BY <1>1, <2>3, <3>1, CancelWrites DEF BargeCancel
      <3>3. UNCHANGED <<recordOp, uploadOp, wavVars>>
        BY <1>1 DEF BargeCancel
      <3> HIDE DEF NoNewHolder
      <3> QED
        BY <2>1, <2>2, <3>1, <3>2, <3>3, CancelStep
    <2>4. CASE uploadOp = NoToken
      <3>1. Quiet
        BY <1>1, <2>2, <2>4 DEF BargeCancel
      <3> QED
        BY <2>1, <2>2, <3>1, QuietStep
    <2> QED
      BY <2>3, <2>4
  <1>2. CASE CancelPressed
    <2> DEFINE t == IF recordOp # NoToken THEN recordOp ELSE uploadOp
    <2>1. t \in Tokens \cup {NoToken}
      BY DEF AppTypes
    <2>2. UNCHANGED <<audioVars, wavVars, recordOp, uploadOp, task, failures>>
      BY <1>2 DEF CancelPressed
    <2>3. CASE t = NoToken
      <3>1. Receive("cancel", "wait") /\ UNCHANGED <<tokens, uploading, held>>
        BY <1>2, <2>3 DEF CancelPressed
      <3>2. pc'["ui"] = "wait" /\ pc'["rec"] = pc["rec"]
        BY <3>1, ReceiveMoves
      <3>3. Quiet
        BY <2>2, <3>1, <3>2
      <3> QED
        BY <2>2, <3>2, <3>3, QuietStep
    <2>4. CASE t # NoToken
      <3>1. /\ Receive("cancel", "cancel_stop")
            /\ tokens' = [tokens EXCEPT ![t].cancelled = TRUE]
            /\ uploading' = CancelClears
            /\ Holds("ui", t)
        BY <1>2, <2>4 DEF CancelPressed
      <3>2. pc'["ui"] = "cancel_stop" /\ pc'["rec"] = pc["rec"]
        BY <3>1, ReceiveMoves
      <3>3. held'["rec"] = held["rec"]
        BY <2>1, <3>1, HoldsTypes
      <3>4. NoNewHolder
        BY <2>2, <3>2, <3>3
      <3>5. t \in Tokens /\ Writes(t, [tokens[t] EXCEPT !.cancelled = TRUE])
        BY <2>1, <2>4, <3>1, CancelWrites
      <3>6. uploading' => uploading /\ t # uploadOp
        <4>1. recordOp # NoToken => t = recordOp /\ tokens[recordOp].recording
          BY DEF OwnerInv, OperationsAreLive
        <4>2. uploading => uploadOp # NoToken /\ ~tokens[uploadOp].recording
          BY DEF OwnerInv, OperationsAreLive
        <4> HIDE DEF t
        <4> QED
          BY <3>1, <4>1, <4>2 DEF CancelClears
      <3> HIDE DEF NoNewHolder, t
      <3> QED
        BY <2>2, <3>2, <3>4, <3>5, <3>6, CancelStep
    <2> QED
      BY <2>3, <2>4
  <1> QED
    BY <1>1, <1>2

\* Nobody holds a free block.
LEMMA FreeIsUnheld ==
  ASSUME OwnerInv, NEW t \in Tokens, ~tokens[t].live
  PROVE  /\ task[t] = "none" /\ recordOp # t /\ uploadOp # t /\ tokens[t].wav = NoQuestion
         /\ Starting \/ Undoing => held["ui"] # t
         /\ RecUndoing => held["rec"] # t
         /\ Recorder => callbacks # t
  BY ConstantsAssumption DEF OwnerInv, HolderInv, BufferInv, OperationsAreLive, Records, Uploads

\* A new recording drops the pending one and takes a block of its own.
LEMMA ClearPendingKeeps ==
  ASSUME AppTypes, OwnerInv, ClearPending
  PROVE  OwnerInv' /\ UNCHANGED <<recorderTask, completing, pc["rec"]>>
  <1> USE LabelSets DEF EndLabels, Recorder, Starting, Undoing, RecUndoing,
                        audioVars, recorderVars, wavVars, uploadVars
  <1>1. /\ wavs' = wavs \ {pendingWav} /\ pendingWav' = NoQuestion /\ pendingId' = NoQuestion
        /\ UNCHANGED <<recorderTask, completing, callbacks, uploadOp, uploading, task>>
    BY DEF ClearPending
  <1>2. NoQuestion \notin Questions /\ NoToken \notin Tokens
    BY ConstantsAssumption
  <1>3. CASE Goto("ui", "clear", "show_error") /\ Fails /\ UNCHANGED <<tokens, recordOp, held>>
    <2>1. pc'["ui"] = "show_error" /\ pc'["rec"] = pc["rec"]
      BY <1>3, GotoMoves
    <2>2. failures' # 0
      BY <1>3, FailsTypes
    <2>3. NoNewHolder
      BY <1>1, <1>3, <2>1, <2>2 DEF NoNewHolder
    <2>4. HolderInv' /\ OperationsAreLive' /\ FailureInv'
      BY <1>1, <1>3, <2>1, <2>2
      DEF OwnerInv, HolderInv, OperationsAreLive, FailureInv, Records, Uploads, Reporting
    <2>5. BufferInv' /\ NoWavLeaks' /\ WavMatchesId'
      BY <1>1, <1>3, <2>2 DEF OwnerInv, BufferInv, NoWavLeaks, WavMatchesId
    <2> QED
      BY <1>1, <2>1, <2>4, <2>5 DEF OwnerInv
  <1>4. ASSUME NEW t \in Tokens, Goto("ui", "clear", "start"),
               Allocate(t, TRUE, NoQuestion, NoQuestion), recordOp' = t, Holds("ui", t),
               UNCHANGED failures
        PROVE  OwnerInv' /\ UNCHANGED pc["rec"]
    <2>1. pc'["ui"] = "start" /\ pc'["rec"] = pc["rec"] /\ pc["ui"] = "clear"
      BY <1>4, GotoMoves
    <2>2. held'["ui"] = t /\ held'["rec"] = held["rec"]
      BY <1>4, HoldsTypes
    <2>3. /\ ~tokens[t].live
          /\ tokens'[t].live /\ tokens'[t].recording
          /\ tokens'[t].wav = NoQuestion /\ tokens'[t].id = NoQuestion
          /\ \A u \in Tokens \ {t} : tokens'[u] = tokens[u]
      <3>1. ~tokens[t].live /\ tokens' = [tokens EXCEPT ![t] =
                [live |-> TRUE, cancelled |-> FALSE, recording |-> TRUE,
                 wav |-> NoQuestion, id |-> NoQuestion]]
        BY <1>4 DEF Allocate
      <3> QED
        BY <3>1 DEF AppTypes
    <2>4. /\ task[t] = "none" /\ uploadOp # t /\ tokens[t].wav = NoQuestion
          /\ RecUndoing => held["rec"] # t
          /\ Recorder => callbacks # t
      BY <2>3, FreeIsUnheld
    <2>5. HolderInv'
      BY <1>1, <1>4, <2>1, <2>2, <2>3, <2>4 DEF OwnerInv, HolderInv, Records, Uploads, Reporting
    <2>6. OperationsAreLive' /\ FailureInv'
      BY <1>1, <1>4, <2>1, <2>2, <2>3, <2>4
      DEF OwnerInv, OperationsAreLive, FailureInv, AppTypes
    <2>7. BufferInv'
      BY <1>1, <1>2, <2>3, <2>4 DEF OwnerInv, BufferInv
    <2>8. NoWavLeaks'
      <3>1. \A u \in Tokens : tokens[u].live /\ tokens[u].wav # NoQuestion =>
                tokens'[u].live /\ tokens'[u].wav = tokens[u].wav
        BY <2>3, <2>4
      <3> QED
        BY <1>1, <1>2, <1>4, <3>1 DEF OwnerInv, NoWavLeaks, Owners, AppTypes
    <2>9. WavMatchesId'
      BY <1>1, <1>4, <2>3 DEF OwnerInv, WavMatchesId
    <2> QED
      BY <2>1, <2>5, <2>6, <2>7, <2>8, <2>9 DEF OwnerInv
  <1> QED
    BY <1>1, <1>3, <1>4 DEF ClearPending

\* A capture is started only when no other is running or reporting.
LEMMA RecordStartKeeps ==
  ASSUME AppTypes, OwnerInv, RecorderInv, RecordStart
  PROVE  OwnerInv' /\ RecorderInv'
  <1> USE LabelSets DEF EndLabels, Recorder, Starting, Undoing, RecUndoing, Capturing, Reporting
  <1>1. /\ pc["ui"] = "start" /\ Audio!RecorderStart(held["ui"])
        /\ pc' = [pc EXCEPT !["ui"] = "show_recording", !["rec"] = "loop"]
        /\ UNCHANGED <<wavVars, opVars, task, failures>>
    BY DEF RecordStart
  <1>2. ~recorderTask /\ ~completing /\ recorderTask' /\ callbacks' = held["ui"]
    BY <1>1 DEF Audio!RecorderStart, Audio!CanStart
  <1>3. pc["rec"] = "none" /\ pc'["ui"] = "show_recording" /\ pc'["rec"] = "loop"
    BY <1>1, <1>2 DEF RecorderInv, AppTypes
  <1>4. HolderInv'
    BY <1>1, <1>2, <1>3 DEF OwnerInv, HolderInv, Records, Uploads, opVars
  <1>5. /\ BufferInv' /\ FailureInv' /\ OperationsAreLive' /\ NoWavLeaks' /\ WavMatchesId'
    BY <1>1, <1>3 DEF OwnerInv, BufferInv, FailureInv, OperationsAreLive, NoWavLeaks,
                      WavMatchesId, Owners, opVars, wavVars, uploadVars
  <1>6. RecorderInv'
    BY <1>2, <1>3 DEF RecorderInv
  <1> QED
    BY <1>4, <1>5, <1>6 DEF OwnerInv

\* Freeing the token of a recording, once nothing points to it any more.
LEMMA FreeRecordingHolders ==
  ASSUME AppTypes, OwnerInv, NEW t \in Tokens, Records(t), Writes(t, FreeToken),
         recordOp' \in {recordOp, NoToken}, recordOp' # t, UNCHANGED uploadVars, NoNewHolder,
         Starting' => held["ui"] # t, Recorder' => callbacks # t
  PROVE  HolderInv' /\ FailureInv' /\ OperationsAreLive'
  <1> USE ConstantsAssumption DEF OwnerInv
  <1>1. tokens'[t] = FreeToken /\ \A u \in Tokens \ {t} : tokens'[u] = tokens[u]
    BY DEF Writes
  <1>2. HolderInv'
    BY <1>1 DEF HolderInv, NoNewHolder, Records, Uploads, Recorder, Reporting
  <1>3. OperationsAreLive'
    BY <1>1 DEF OperationsAreLive, AppTypes, Records, uploadVars
  <1> QED
    BY <1>2, <1>3 DEF FailureInv, NoNewHolder

\* It has no WAV to lose.
LEMMA FreeRecordingBuffers ==
  ASSUME AppTypes, OwnerInv, NEW t \in Tokens, Records(t), Writes(t, FreeToken),
         UNCHANGED wavVars, NoNewHolder
  PROVE  BufferInv' /\ NoWavLeaks' /\ WavMatchesId'
  <1> USE DEF OwnerInv, wavVars
  <1>1. /\ tokens'[t] = FreeToken /\ \A u \in Tokens \ {t} : tokens'[u] = tokens[u]
        /\ tokens[t].wav = NoQuestion /\ FreeToken.wav = NoQuestion
    BY DEF Writes, Records, BufferInv, FreeToken
  <1>2. BufferInv'
    BY <1>1 DEF BufferInv
  <1>3. NoWavLeaks'
    <2>1. \A u \in Tokens : tokens[u].live /\ tokens[u].wav # NoQuestion =>
                tokens'[u].live /\ tokens'[u].wav = tokens[u].wav
      BY <1>1
    <2> QED
      BY <2>1, ConstantsAssumption DEF NoWavLeaks, Owners, AppTypes, NoNewHolder
  <1>4. WavMatchesId'
    BY <1>1 DEF WavMatchesId, NoNewHolder
  <1> QED
    BY <1>2, <1>3, <1>4

\* A capture that does not start is undone by the thread that made it.
LEMMA RecordStartFailsKeeps ==
  ASSUME AppTypes, OwnerInv, RecorderInv, RecordStartFails
  PROVE  OwnerInv' /\ RecorderInv'
  <1> USE LabelSets DEF EndLabels, Recorder, Starting, Undoing, RecUndoing, Capturing, Reporting
  <1> DEFINE t == held["ui"]
  <1>1. /\ pc["ui"] = "start" /\ pc'["ui"] = "show_error" /\ pc'["rec"] = pc["rec"]
        /\ recordOp' = NoToken /\ Free(t)
        /\ UNCHANGED <<wavVars, uploadVars, task>>
    BY GotoMoves DEF RecordStartFails
  <1>2. Records(t) /\ t \in Tokens /\ Writes(t, FreeToken)
    BY <1>1, FreeWrites DEF OwnerInv, HolderInv, Records
  <1>3. held'["rec"] = held["rec"]
    BY HoldsTypes DEF RecordStartFails
  <1>4. /\ UNCHANGED <<recorderTask, completing>>
        /\ pc["rec"] # "none" => UNCHANGED callbacks
        /\ failures # 0 => failures' # 0
    <2>1. CASE UNCHANGED <<recorderVars, failures>>
      BY <2>1 DEF recorderVars
    <2>2. CASE Fails /\ Audio!RecorderStartFails(t)
      BY <2>2, FailsTypes DEF Audio!RecorderStartFails, Audio!CanStart, RecorderInv
    <2> QED
      BY <2>1, <2>2 DEF RecordStartFails
  <1>5. NoNewHolder /\ (Recorder' => callbacks # t)
    BY <1>1, <1>3, <1>4 DEF NoNewHolder, OwnerInv, HolderInv
  <1>6. HolderInv' /\ FailureInv' /\ OperationsAreLive'
    <2>1. recordOp' # t /\ ~ Starting'
      BY <1>1, <1>2, ConstantsAssumption
    <2> HIDE DEF t, Recorder, Starting
    <2> QED
      BY <1>1, <1>2, <1>5, <2>1, FreeRecordingHolders
  <1>7. BufferInv' /\ NoWavLeaks' /\ WavMatchesId'
    BY <1>1, <1>2, <1>5, FreeRecordingBuffers
  <1>8. RecorderInv'
    BY <1>1, <1>4 DEF RecorderInv
  <1> QED
    BY <1>6, <1>7, <1>8 DEF OwnerInv

\* A discarded recording frees its token after it has left the global.
LEMMA DiscardKeeps ==
  ASSUME AppTypes, OwnerInv, RecorderInv, Discard \/ DiscardShow
  PROVE  OwnerInv' /\ RecorderInv'
  <1> USE LabelSets DEF EndLabels, Recorder, Starting, Undoing, RecUndoing, Capturing, Reporting
  <1>1. /\ UNCHANGED <<audioVars, wavVars, uploadVars, held, task, failures>>
        /\ pc["rec"] \in {"discard", "discard_show"}
        /\ pc'["ui"] = pc["ui"] /\ pc'["rec"] \in {"discard_show", "finish"}
    BY GotoMoves DEF Discard, DiscardShow
  <1>2. Records(callbacks) /\ callbacks \in Tokens /\ callbacks # NoToken
    BY <1>1, ConstantsAssumption DEF OwnerInv, HolderInv, Records
  <1>3. UNCHANGED <<recorderTask, completing, callbacks>>
    BY <1>1 DEF audioVars, recorderVars
  <1>4. RecorderInv'
    BY <1>1, <1>3 DEF RecorderInv
  <1>5. CASE recordOp' = NoToken /\ UNCHANGED tokens /\ pc'["rec"] = "discard_show"
    <2>1. HolderInv'
      BY <1>1, <1>2, <1>3, <1>5 DEF OwnerInv, HolderInv, Records, Uploads
    <2>2. /\ BufferInv' /\ FailureInv' /\ OperationsAreLive' /\ NoWavLeaks' /\ WavMatchesId'
      BY <1>1, <1>5 DEF OwnerInv, BufferInv, FailureInv, OperationsAreLive, NoWavLeaks,
                        WavMatchesId, Owners, wavVars, uploadVars
    <2> QED
      BY <1>4, <2>1, <2>2 DEF OwnerInv
  <1>6. CASE recordOp' = recordOp /\ recordOp # callbacks /\ Free(callbacks) /\ pc'["rec"] = "finish"
    <2>1. Writes(callbacks, FreeToken)
      BY <1>2, <1>6, FreeWrites
    <2>2. NoNewHolder /\ ~ Recorder' /\ (Starting' => held["ui"] # callbacks)
      BY <1>1, <1>3, <1>6 DEF NoNewHolder, OwnerInv, HolderInv
    <2> HIDE DEF Recorder, Starting
    <2>3. HolderInv' /\ FailureInv' /\ OperationsAreLive'
      BY <1>1, <1>2, <1>6, <2>1, <2>2, FreeRecordingHolders
    <2>4. BufferInv' /\ NoWavLeaks' /\ WavMatchesId'
      BY <1>1, <1>2, <2>1, <2>2, FreeRecordingBuffers
    <2> QED
      BY <1>4, <2>3, <2>4 DEF OwnerInv
  <1>7. CASE Discard
    <2>1. CASE recordOp = callbacks
      <3>1. recordOp' = NoToken /\ UNCHANGED tokens /\ pc'["rec"] = "discard_show"
        BY <1>7, <2>1, GotoMoves DEF Discard
      <3> QED
        BY <1>5, <3>1
    <2>2. CASE recordOp # callbacks
      <3>1. recordOp' = recordOp /\ Free(callbacks) /\ pc'["rec"] = "finish"
        BY <1>7, <2>2, GotoMoves DEF Discard
      <3> QED
        BY <1>6, <2>2, <3>1
    <2> QED
      BY <2>1, <2>2
  <1>8. CASE DiscardShow
    <2>1. recordOp' = recordOp /\ Free(callbacks) /\ pc'["rec"] = "finish" /\ pc["rec"] = "discard_show"
      BY <1>8, GotoMoves DEF DiscardShow
    <2>2. recordOp # callbacks
      BY <2>1 DEF OwnerInv, HolderInv
    <2> QED
      BY <1>6, <2>1, <2>2
  <1> QED
    BY <1>7, <1>8

\* The WAV of a recording gets the pending slot, under an id of its own.
LEMMA WrapKeeps ==
  ASSUME AppTypes, OwnerInv, RecorderInv, Wrap
  PROVE  OwnerInv' /\ RecorderInv'
  <1> USE LabelSets DEF EndLabels, Recorder, Starting, Undoing, RecUndoing, Capturing, Reporting
  <1>1. /\ recordOp' = NoToken /\ Free(callbacks)
        /\ UNCHANGED <<audioVars, uploadVars, held, task>>
        /\ pc["rec"] = "wrap"
        /\ pc'["ui"] = pc["ui"] /\ pc'["rec"] \in {"start_upload", "show_error"}
    BY GotoMoves DEF Wrap
  <1>2. Records(callbacks) /\ callbacks \in Tokens /\ callbacks # NoToken
    BY <1>1, ConstantsAssumption DEF OwnerInv, HolderInv, Records
  <1>3. UNCHANGED <<recorderTask, completing, callbacks>>
    BY <1>1 DEF audioVars, recorderVars
  <1>4. RecorderInv'
    BY <1>1, <1>3 DEF RecorderInv
  <1>5. Writes(callbacks, FreeToken)
    BY <1>1, <1>2, FreeWrites
  <1>6. failures # 0 => failures' # 0
    BY FailsTypes DEF Wrap
  <1>7. NoNewHolder /\ ~ Recorder' /\ (Starting' => held["ui"] # callbacks)
    BY <1>1, <1>3, <1>6 DEF NoNewHolder, OwnerInv, HolderInv
  <1>8. HolderInv' /\ FailureInv' /\ OperationsAreLive'
    <2> HIDE DEF Recorder, Starting
    <2> QED
      BY <1>1, <1>2, <1>5, <1>7, FreeRecordingHolders
  <1>9. CASE UNCHANGED wavVars
    BY <1>2, <1>4, <1>5, <1>7, <1>8, <1>9, FreeRecordingBuffers DEF OwnerInv
  <1>10. ASSUME NEW q \in Questions, FreshQuestion(q), pendingWav' = q, pendingId' = q,
                wavs' = (wavs \ {pendingWav}) \cup {q}, UNCHANGED failures
         PROVE  BufferInv' /\ NoWavLeaks' /\ WavMatchesId'
    <2>1. /\ tokens'[callbacks] = FreeToken
          /\ \A u \in Tokens \ {callbacks} : tokens'[u] = tokens[u]
          /\ tokens[callbacks].wav = NoQuestion /\ FreeToken.wav = NoQuestion
      BY <1>2, <1>5 DEF Writes, Records, OwnerInv, BufferInv, FreeToken
    <2>2. q \notin wavs /\ q # NoQuestion
      BY <1>10, ConstantsAssumption DEF FreshQuestion
    <2>3. BufferInv'
      BY <1>2, <1>10, <2>1, <2>2 DEF OwnerInv, BufferInv
    <2>4. NoWavLeaks'
      <3>1. \A u \in Tokens : tokens[u].live /\ tokens[u].wav # NoQuestion =>
                tokens'[u].live /\ tokens'[u].wav = tokens[u].wav
        BY <2>1
      <3> QED
        BY <1>10, <3>1, ConstantsAssumption DEF OwnerInv, NoWavLeaks, Owners, AppTypes
    <2>5. WavMatchesId'
      BY <1>10, <2>1 DEF OwnerInv, WavMatchesId
    <2> QED
      BY <2>3, <2>4, <2>5
  <1> QED
    BY <1>4, <1>8, <1>9, <1>10 DEF Wrap, OwnerInv

\* A new upload takes the pending WAV, or none, into a block of its own.
LEMMA NewUploadKeeps ==
  ASSUME AppTypes, OwnerInv, NEW thread \in {"ui", "rec"}, NEW from \in {"start_upload", "start_retry"},
         NEW wav, NEW first \in TaskLabels \ {"none"}, NEW undo \in {"undo_upload", "undo_retry"},
         thread = "rec" => undo = "undo_upload",
         NewUpload(thread, from, wav, first, undo),
         \/ wav = NoQuestion /\ pendingWav' = pendingWav
         \/ wav = pendingWav /\ wav # NoQuestion /\ pendingWav' = NoQuestion,
         UNCHANGED <<recordOp, pendingId, wavs, callbacks>>
  PROVE  OwnerInv' /\ pc[thread] = from /\ pc'[thread] \in {Done(thread), undo}
         /\ \A other \in {"ui", "rec"} \ {thread} : pc'[other] = pc[other]
  <1> USE LabelSets DEF EndLabels, Recorder, Starting, Undoing, RecUndoing, Capturing, Reporting
  <1>1. wav \in Questions \cup {NoQuestion}
    BY DEF AppTypes
  <1>2. /\ uploading' = TRUE
        /\ \E t \in Tokens :
              /\ uploadOp' = t /\ ~tokens[t].live
              /\ Writes(t, [live |-> TRUE, cancelled |-> FALSE, recording |-> FALSE,
                            wav |-> wav, id |-> pendingId])
              /\ \/ /\ Goto(thread, from, Done(thread))
                    /\ task' = [task EXCEPT ![t] = first]
                    /\ UNCHANGED <<held, failures>>
                 \/ Goto(thread, from, undo) /\ Fails /\ Holds(thread, t) /\ UNCHANGED task
    BY <1>1, NewUploadMakes
  <1>3. PICK t \in Tokens :
              /\ uploadOp' = t /\ ~tokens[t].live
              /\ Writes(t, [live |-> TRUE, cancelled |-> FALSE, recording |-> FALSE,
                            wav |-> wav, id |-> pendingId])
              /\ \/ /\ Goto(thread, from, Done(thread))
                    /\ task' = [task EXCEPT ![t] = first]
                    /\ UNCHANGED <<held, failures>>
                 \/ Goto(thread, from, undo) /\ Fails /\ Holds(thread, t) /\ UNCHANGED task
    BY <1>2
  <1>4. /\ tokens'[t].live /\ ~tokens'[t].recording /\ ~tokens'[t].cancelled
        /\ tokens'[t].wav = wav /\ tokens'[t].id = pendingId
        /\ \A u \in Tokens \ {t} : tokens'[u] = tokens[u]
    BY <1>3 DEF Writes
  <1>5. /\ task[t] = "none" /\ recordOp # t /\ tokens[t].wav = NoQuestion
        /\ Starting \/ Undoing => held["ui"] # t
        /\ RecUndoing => held["rec"] # t
        /\ Recorder => callbacks # t
    BY <1>3, FreeIsUnheld
  <1>6. /\ pc[thread] = from
        /\ \A other \in {"ui", "rec"} \ {thread} : pc'[other] = pc[other]
        /\ \/ /\ pc'[thread] = Done(thread) /\ UNCHANGED <<held, failures>>
              /\ task'[t] = first /\ \A u \in Tokens \ {t} : task'[u] = task[u]
           \/ /\ pc'[thread] = undo /\ failures' # 0 /\ UNCHANGED task
              /\ held'[thread] = t
              /\ \A other \in {"ui", "rec"} \ {thread} : held'[other] = held[other]
    <2>1. CASE /\ Goto(thread, from, Done(thread))
               /\ task' = [task EXCEPT ![t] = first]
               /\ UNCHANGED <<held, failures>>
      <3>1. /\ thread = "ui" => Done(thread) \in UiLabels
            /\ thread = "rec" => Done(thread) \in RecLabels
        BY DEF Done
      <3> QED
        BY <2>1, <3>1, GotoMoves DEF AppTypes
    <2>2. CASE Goto(thread, from, undo) /\ Fails /\ Holds(thread, t) /\ UNCHANGED task
      BY <2>2, GotoMoves, HoldsTypes, FailsTypes
    <2> QED
      BY <1>3, <2>1, <2>2
  <1>7. thread = "ui" \/ thread = "rec"
    OBVIOUS
  <1>8. HolderInv'
    <2>1. CASE thread = "ui"
      BY <1>3, <1>4, <1>5, <1>6, <2>1 DEF Done, OwnerInv, HolderInv, Records, Uploads
    <2>2. CASE thread = "rec"
      BY <1>3, <1>4, <1>5, <1>6, <2>2 DEF Done, OwnerInv, HolderInv, Records, Uploads
    <2> QED
      BY <1>7, <2>1, <2>2
  <1>9. FailureInv'
    <2>1. CASE thread = "ui"
      BY <1>6, <2>1 DEF Done, OwnerInv, FailureInv
    <2>2. CASE thread = "rec"
      BY <1>6, <2>2 DEF Done, OwnerInv, FailureInv
    <2> QED
      BY <1>7, <2>1, <2>2
  <1>10. OperationsAreLive'
    BY <1>2, <1>3, <1>4, <1>5, ConstantsAssumption DEF OwnerInv, OperationsAreLive, AppTypes
  <1>11. BufferInv'
    BY <1>3, <1>4, <1>5 DEF OwnerInv, BufferInv
  <1>12. NoWavLeaks'
    <2>1. \A u \in Tokens : tokens[u].live /\ tokens[u].wav # NoQuestion =>
                tokens'[u].live /\ tokens'[u].wav = tokens[u].wav
      BY <1>3, <1>4
    <2>2. failures' = 0 => failures = 0
      BY <1>6
    <2> QED
      BY <1>4, <2>1, <2>2, ConstantsAssumption DEF OwnerInv, NoWavLeaks, Owners, AppTypes
  <1>13. WavMatchesId'
    BY <1>4, <1>6 DEF OwnerInv, WavMatchesId
  <1>14. pc'[thread] \in {Done(thread), undo}
    BY <1>6
  <1> QED
    BY <1>6, <1>8, <1>9, <1>10, <1>11, <1>12, <1>13, <1>14 DEF OwnerInv

\* Starting an upload or an audio retry, or failing to.
LEMMA StartsKeep ==
  ASSUME AppTypes, OwnerInv, RecorderInv,
         \/ StartAudioRetry
         \/ \E thread \in {"ui", "rec"} : StartUpload(thread)
  PROVE  OwnerInv' /\ RecorderInv'
  <1> USE LabelSets DEF EndLabels, Recorder, Starting, Undoing, RecUndoing, Capturing, Reporting,
                        audioVars, recorderVars
  <1>0. UNCHANGED <<recordOp, pendingId, wavs, callbacks, recorderTask, completing>>
    BY DEF StartAudioRetry, StartUpload, wavVars
  <1>1. ASSUME NEW thread \in {"ui", "rec"}, NEW from \in {"start_upload", "start_retry"},
               NEW to \in {Done(thread), "show_audio_error", "show_error_retry"},
               Goto(thread, from, to), UNCHANGED <<tokens, uploadVars, pendingWav, held, task>>,
               UNCHANGED failures \/ Fails
        PROVE  OwnerInv' /\ RecorderInv'
    <2>1. /\ thread = "ui" => Done(thread) = "wait"
          /\ thread = "rec" => Done(thread) = "finish"
      BY DEF Done
    <2>2. /\ pc[thread] = from /\ pc'[thread] = to
          /\ \A other \in {"ui", "rec"} \ {thread} : pc'[other] = pc[other]
      BY <1>1, <2>1, GotoMoves
    <2>3. failures # 0 => failures' # 0
      BY <1>1, FailsTypes
    <2>4. thread = "ui" \/ thread = "rec"
      BY <1>1
    <2>5. Quiet
      <3>1. CASE thread = "ui"
        BY <1>0, <1>1, <2>1, <2>2, <2>3, <3>1 DEF Quiet, NoNewHolder, opVars, uploadVars, wavVars
      <3>2. CASE thread = "rec"
        BY <1>0, <1>1, <2>1, <2>2, <2>3, <3>2 DEF Quiet, NoNewHolder, opVars, uploadVars, wavVars
      <3> QED
        BY <2>4, <3>1, <3>2
    <2>6. RecorderInv'
      BY <1>0, <2>1, <2>2, <2>4 DEF RecorderInv
    <2> QED
      BY <2>5, <2>6, QuietStep
  <1>2. CASE StartAudioRetry
    <2>1. UNCHANGED pendingWav
      BY <1>2 DEF StartAudioRetry, wavVars
    <2>2. CASE /\ Goto("ui", "start_retry", "wait")
               /\ UNCHANGED <<tokens, uploadVars, held, task, failures>>
      BY <1>1, <2>1, <2>2 DEF Done
    <2>3. CASE /\ Fails /\ Goto("ui", "start_retry", "show_audio_error")
               /\ UNCHANGED <<tokens, uploadVars, held, task>>
      BY <1>1, <2>1, <2>3
    <2>4. CASE NewUpload("ui", "start_retry", NoQuestion, "play", "undo_retry")
      <3>1. OwnerInv' /\ pc'["rec"] = pc["rec"]
        BY <1>0, <2>1, <2>4, NewUploadKeeps
      <3> QED
        BY <1>0, <3>1 DEF RecorderInv
    <2> QED
      BY <1>2, <2>2, <2>3, <2>4 DEF StartAudioRetry
  <1>3. ASSUME NEW thread \in {"ui", "rec"}, StartUpload(thread)
        PROVE  OwnerInv' /\ RecorderInv'
    <2>1. CASE /\ Goto(thread, "start_upload", Done(thread))
               /\ UNCHANGED <<tokens, uploadVars, pendingWav, held, task, failures>>
      BY <1>1, <2>1
    <2>2. CASE /\ Fails /\ Goto(thread, "start_upload", "show_error_retry")
               /\ UNCHANGED <<tokens, uploadVars, pendingWav, held, task>>
      BY <1>1, <2>2
    <2>3. CASE /\ pendingWav # NoQuestion /\ TakePending
               /\ NewUpload(thread, "start_upload", pendingWav, "upload", "undo_upload")
      <3>1. pendingWav' = NoQuestion
        BY <2>3 DEF TakePending
      <3>2. /\ OwnerInv' /\ pc[thread] = "start_upload" /\ pc'[thread] \in {Done(thread), "undo_upload"}
            /\ \A other \in {"ui", "rec"} \ {thread} : pc'[other] = pc[other]
        BY <1>0, <2>3, <3>1, NewUploadKeeps
      <3>3. RecorderInv'
        <4>1. CASE thread = "ui"
          BY <1>0, <3>2, <4>1 DEF RecorderInv
        <4>2. CASE thread = "rec"
          BY <1>0, <3>2, <4>2 DEF RecorderInv, Done
        <4> QED
          BY <4>1, <4>2
      <3> QED
        BY <3>2, <3>3
    <2> QED
      BY <1>3, <2>1, <2>2, <2>3 DEF StartUpload
  <1> QED
    BY <1>2, <1>3

\* Undoing an upload that got no task: only the thread that made it holds it.
LEMMA UndoKeeps ==
  ASSUME AppTypes, OwnerInv, RecorderInv, NEW thread \in {"ui", "rec"},
         NEW from \in {"undo_upload", "undo_retry"}, thread = "rec" => from = "undo_upload",
         NEW to \in {"show_audio_error", "show_error_retry"}, UndoUpload(thread, from, to),
         pendingWav' \in {pendingWav, tokens[held[thread]].wav},
         UNCHANGED <<pendingId, wavs, recordOp, task, failures, callbacks, recorderTask, completing>>
  PROVE  OwnerInv' /\ RecorderInv'
  <1> USE LabelSets DEF EndLabels, Recorder, Starting, Undoing, RecUndoing, Capturing, Reporting
  <1> DEFINE t == held[thread]
  <1>1. thread = "ui" \/ thread = "rec"
    OBVIOUS
  <1>2. /\ pc[thread] = from /\ pc'[thread] = to
        /\ \A other \in {"ui", "rec"} \ {thread} : pc'[other] = pc[other]
        /\ \A other \in {"ui", "rec"} \ {thread} : held'[other] = held[other]
    BY GotoMoves, HoldsTypes DEF UndoUpload
  <1>3. Uploads(t) /\ t \in Tokens /\ task[t] = "none" /\ failures # 0
    <2>1. CASE thread = "ui"
      BY <1>2, <2>1 DEF OwnerInv, HolderInv, FailureInv, Uploads
    <2>2. CASE thread = "rec"
      BY <1>2, <2>2 DEF OwnerInv, HolderInv, FailureInv, Uploads
    <2> QED
      BY <1>1, <2>1, <2>2
  <1>4. /\ tokens'[t] = FreeToken /\ \A u \in Tokens \ {t} : tokens'[u] = tokens[u]
        /\ FreeToken.wav = NoQuestion /\ ~FreeToken.live
        /\ uploadOp' = NoToken /\ uploading' = FALSE
    BY <1>3, FreeWrites DEF UndoUpload, Writes, FreeToken
  <1>5. RecorderInv'
    <2>1. CASE thread = "ui"
      BY <1>2, <2>1 DEF RecorderInv
    <2>2. CASE thread = "rec"
      BY <1>2, <2>2 DEF RecorderInv
    <2> QED
      BY <1>1, <2>1, <2>2
  <1>6. HolderInv'
    <2>1. CASE thread = "ui"
      BY <1>2, <1>3, <1>4, <2>1 DEF OwnerInv, HolderInv, Records, Uploads
    <2>2. CASE thread = "rec"
      BY <1>2, <1>3, <1>4, <2>2 DEF OwnerInv, HolderInv, Records, Uploads
    <2> QED
      BY <1>1, <2>1, <2>2
  <1> HIDE DEF t
  <1>7. OperationsAreLive'
    BY <1>3, <1>4 DEF OwnerInv, OperationsAreLive, AppTypes, Uploads
  <1>8. pendingWav' = pendingWav \/ pendingWav' = tokens[t].wav
    BY DEF t
  <1>9. BufferInv'
    BY <1>3, <1>4, <1>8 DEF OwnerInv, BufferInv
  <1>10. FailureInv' /\ NoWavLeaks' /\ WavMatchesId'
    BY <1>3 DEF FailureInv, NoWavLeaks, WavMatchesId
  <1> QED
    BY <1>5, <1>6, <1>7, <1>9, <1>10 DEF OwnerInv

\* finish_upload frees the task's own token, and keeps or frees its WAV.
LEMMA FinishKeeps ==
  ASSUME AppTypes, OwnerInv, NEW t \in Tokens, TaskStep(t), FinishUpload(t)
  PROVE  OwnerInv' /\ UNCHANGED <<recorderTask, completing, pc["rec"]>>
  <1> USE DEF Recorder, Starting, Undoing, RecUndoing, Capturing, Reporting
  <1>1. /\ UNCHANGED <<recordOp, pc, held, failures, callbacks, recorderTask, completing>>
        /\ task[t] # "none" /\ task' = [task EXCEPT ![t] = "none"] /\ Free(t)
    BY DEF TaskStep, FinishUpload, At, audioVars, recorderVars
  <1>2. /\ task'[t] = "none" /\ \A u \in Tokens \ {t} : task'[u] = task[u]
        /\ tokens'[t] = FreeToken /\ \A u \in Tokens \ {t} : tokens'[u] = tokens[u]
        /\ FreeToken.wav = NoQuestion /\ FreeToken.id = NoQuestion /\ ~FreeToken.live
    BY <1>1, FreeWrites DEF AppTypes, Writes, FreeToken
  <1>3. Uploads(t)
    BY <1>1 DEF OwnerInv, HolderInv
  <1>4. /\ uploadOp' # t /\ uploadOp' \in {uploadOp, NoToken}
        /\ uploading' => uploading /\ uploadOp' = uploadOp
    BY ConstantsAssumption DEF FinishUpload, uploadVars
  <1>5. HolderInv' /\ FailureInv'
    BY <1>1, <1>2, <1>3 DEF OwnerInv, HolderInv, FailureInv, Records, Uploads
  <1>6. OperationsAreLive'
    BY <1>1, <1>2, <1>3, <1>4 DEF OwnerInv, OperationsAreLive, Uploads, AppTypes
  <1>7. BufferInv' /\ NoWavLeaks' /\ WavMatchesId'
    <2>1. CASE Keeps(t) /\ Keep(t)
      <3>1. /\ tokens[t].wav # NoQuestion /\ pendingWav = NoQuestion
            /\ pendingWav' = tokens[t].wav /\ pendingId' = tokens[t].id /\ wavs' = wavs
        BY <2>1 DEF Keeps, KeepsOverNewer, Keep
      <3>2. BufferInv'
        BY <1>2, <3>1 DEF OwnerInv, BufferInv
      <3>3. NoWavLeaks'
        BY <1>1, <1>2, <3>1, ConstantsAssumption DEF OwnerInv, NoWavLeaks, Owners, AppTypes
      <3>4. WavMatchesId'
        BY <1>1, <1>2, <3>1 DEF OwnerInv, WavMatchesId
      <3> QED
        BY <3>2, <3>3, <3>4
    <2>2. CASE wavs' = wavs \ {tokens[t].wav} /\ UNCHANGED <<pendingWav, pendingId>>
      <3>1. BufferInv'
        BY <1>2, <2>2 DEF OwnerInv, BufferInv
      <3>2. NoWavLeaks'
        BY <1>1, <1>2, <2>2, ConstantsAssumption DEF OwnerInv, NoWavLeaks, Owners, AppTypes
      <3>3. WavMatchesId'
        BY <1>1, <1>2, <2>2 DEF OwnerInv, WavMatchesId
      <3> QED
        BY <3>1, <3>2, <3>3
    <2> QED
      BY <2>1, <2>2 DEF FinishUpload
  <1> QED
    BY <1>1, <1>5, <1>6, <1>7 DEF OwnerInv

-----------------------------------------------------------------------------
(***************************************************************************)
(* The invariant, and the theorems.                                        *)
(***************************************************************************)
AppInv == TypeOK /\ OwnerInv /\ RecorderInv

\* The invariant holds initially, and the audio modules start as AudioPath does.
LEMMA InitInv == Init => Audio!Init /\ AppInv
  <1> SUFFICES ASSUME Init PROVE Audio!Init /\ AppInv
    OBVIOUS
  <1>1. Audio!Init /\ Audio!TypeOK
    BY DEF Init, Audio!Init, Audio!TypeOK, Audio!StoredAudioEnabled, Audio!StreamStates
  <1>2. pc = [ui |-> "wait", rec |-> "none"] /\ held = [ui |-> NoToken, rec |-> NoToken]
    BY DEF Init
  <1>3. AppTypes
    <2>1. /\ pc \in [{"ui", "rec"} -> Labels] /\ pc["ui"] \in UiLabels /\ pc["rec"] \in RecLabels
          /\ held \in [{"ui", "rec"} -> Tokens \cup {NoToken}]
      BY <1>2, LabelSets DEF Labels
    <2>2. queue \in Seq(Actions) /\ Len(queue) <= QueueDepth
      BY ConstantsAssumption DEF Init
    <2>3. tokens \in [Tokens -> TokenTypes] /\ task \in [Tokens -> TaskLabels]
      BY LabelSets DEF Init, TokenTypes, FreeToken
    <2>4. soundOn \in BOOLEAN
      BY <1>1 DEF Init, Audio!TypeOK
    <2>5. /\ recordOp = NoToken /\ uploadOp = NoToken /\ uploading = FALSE /\ gesture = FALSE
          /\ pendingWav = NoQuestion /\ pendingId = NoQuestion /\ answer = NoQuestion
          /\ wavs = {} /\ screen = "idle"
      BY DEF Init
    <2>6. touches \in 0..MaxTouches /\ failures \in 0..MaxFailures
      BY ConstantsAssumption DEF Init
    <2> QED
      BY <2>1, <2>2, <2>3, <2>4, <2>5, <2>6 DEF AppTypes, TokenTypes, Screens
  <1>4. \A t \in Tokens : /\ task[t] = "none" /\ ~tokens[t].live
                          /\ tokens[t].wav = NoQuestion /\ tokens[t].id = NoQuestion
    BY DEF Init, FreeToken
  <1>5. OwnerInv /\ RecorderInv
    BY <1>2, <1>4 DEF Init, OwnerInv, HolderInv, BufferInv, FailureInv, OperationsAreLive,
              NoWavLeaks, WavMatchesId, RecorderInv, Starting, Undoing, RecUndoing, Recorder,
              Capturing, Reporting
  <1> QED
    BY <1>1, <1>3, <1>5, TypesSplit DEF AppInv

\* Every step keeps the owners.
LEMMA OwnerStep ==
  ASSUME AppTypes, OwnerInv, RecorderInv, [Next]_vars
  PROVE  OwnerInv' /\ RecorderInv'
  <1>1. CASE Touch
    <2>1. Quiet /\ UNCHANGED <<recorderTask, completing, pc>>
      BY <1>1 DEF Touch, Quiet, NoNewHolder, Recorder, Starting, Undoing, RecUndoing,
                  audioVars, recorderVars
    <2> QED
      BY <2>1, QuietStep DEF RecorderInv
  <1>2. CASE UiStep
    <2>1. CASE \/ ThreadShow("ui") \/ RecordPressed \/ BargeStop \/ RecordBusy \/ RecordReleased
               \/ CancelStop \/ RetryPressed \/ Toggle \/ ToggleApp \/ ToggleStop
      BY <2>1, UiQuiet, QuietStep DEF RecorderInv
    <2>2. CASE BargeCancel \/ CancelPressed
      BY <2>2, CancelsKeep DEF RecorderInv
    <2>3. CASE ClearPending
      BY <2>3, ClearPendingKeeps DEF RecorderInv
    <2>4. CASE RecordStart
      BY <2>4, RecordStartKeeps
    <2>5. CASE RecordStartFails
      BY <2>5, RecordStartFailsKeeps
    <2>6. CASE StartAudioRetry \/ StartUpload("ui")
      BY <2>6, StartsKeep
    <2>7. CASE AudioRetryNotCreated
      <3>1. /\ UndoUpload("ui", "undo_retry", "show_audio_error") /\ pendingWav' = pendingWav
            /\ UNCHANGED <<pendingId, wavs, recordOp, task, failures, callbacks,
                           recorderTask, completing>>
        BY <2>7 DEF AudioRetryNotCreated, wavVars, audioVars, recorderVars
      <3> QED
        BY <3>1, UndoKeeps
    <2>8. CASE UploadNotCreated("ui")
      <3>1. /\ UndoUpload("ui", "undo_upload", "show_error_retry")
            /\ pendingWav' = tokens[held["ui"]].wav
            /\ UNCHANGED <<pendingId, wavs, recordOp, task, failures, callbacks,
                           recorderTask, completing>>
        BY <2>8 DEF UploadNotCreated, audioVars, recorderVars
      <3> QED
        BY <3>1, UndoKeeps
    <2> QED
      BY <1>2, <2>1, <2>2, <2>3, <2>4, <2>5, <2>6, <2>7, <2>8 DEF UiStep
  <1>3. CASE RecorderStep
    <2>1. CASE \/ ThreadShow("rec") \/ Progress \/ ProgressShow \/ CaptureEnds \/ Captured
               \/ RecorderFinish
      BY <2>1, RecorderQuiet, QuietStep
    <2>2. CASE Discard \/ DiscardShow
      BY <2>2, DiscardKeeps
    <2>3. CASE Wrap
      BY <2>3, WrapKeeps
    <2>4. CASE StartUpload("rec")
      BY <2>4, StartsKeep
    <2>5. CASE UploadNotCreated("rec")
      <3>1. /\ UndoUpload("rec", "undo_upload", "show_error_retry")
            /\ pendingWav' = tokens[held["rec"]].wav
            /\ UNCHANGED <<pendingId, wavs, recordOp, task, failures, callbacks,
                           recorderTask, completing>>
        BY <2>5 DEF UploadNotCreated, audioVars, recorderVars
      <3> QED
        BY <3>1, UndoKeeps
    <2> QED
      BY <1>3, <2>1, <2>2, <2>3, <2>4, <2>5 DEF RecorderStep
  <1>4. ASSUME NEW t \in Tokens, TaskStep(t)
        PROVE  OwnerInv' /\ RecorderInv'
    <2>1. CASE FinishUpload(t)
      BY <1>4, <2>1, FinishKeeps DEF RecorderInv
    <2>2. CASE ~ FinishUpload(t)
      BY <1>4, <2>2, TaskQuiet, QuietStep DEF RecorderInv
    <2> QED
      BY <2>1, <2>2
  <1>5. CASE UNCHANGED vars
    <2>1. Quiet /\ UNCHANGED <<recorderTask, completing, pc>>
      BY <1>5 DEF vars, Quiet, NoNewHolder, Recorder, Starting, Undoing, RecUndoing,
                  audioVars, recorderVars, opVars, uploadVars, wavVars
    <2> QED
      BY <2>1, QuietStep DEF RecorderInv
  <1> QED
    BY <1>1, <1>2, <1>3, <1>4, <1>5 DEF Next

-----------------------------------------------------------------------------
(***************************************************************************)
(* AudioPath's own theorems, for the tasks and tokens of the application.  *)
(***************************************************************************)
AudioThm == INSTANCE AudioPath_proofs
              WITH Streams <- Tokens, Contexts <- Tokens, NoContext <- NoToken

\* Both instances of AudioPath are the same specification.
LEMMA SameAudio ==
    /\ Audio!TypeOK <=> AudioThm!TypeOK
    /\ Audio!Init <=> AudioThm!Init
    /\ [Audio!Next]_audioVars => [AudioThm!Next]_AudioThm!vars
  <1>1. Audio!TypeOK <=> AudioThm!TypeOK
    BY DEF Audio!TypeOK, AudioThm!TypeOK, Audio!StreamStates, AudioThm!StreamStates
  <1>2. Audio!Init <=> AudioThm!Init
    BY DEF Audio!Init, AudioThm!Init, Audio!StoredAudioEnabled, AudioThm!StoredAudioEnabled
  <1>3. [Audio!Next]_audioVars => [AudioThm!Next]_AudioThm!vars
    BY Zenon DEF AudioThm!vars, audioVars, playerVars, recorderVars, streamVars,
       Audio!Next, AudioThm!Next, Audio!StreamStep, AudioThm!StreamStep,
       Audio!DownloadFails, AudioThm!DownloadFails, Audio!UserStep,
       AudioThm!UserStep, Audio!RecorderTaskStep, AudioThm!RecorderTaskStep,
       Audio!BeginClaim, AudioThm!BeginClaim, Audio!BeginReject,
       AudioThm!BeginReject, Audio!BeginPause, AudioThm!BeginPause,
       Audio!BeginUnclaim, AudioThm!BeginUnclaim, Audio!BeginOpen,
       AudioThm!BeginOpen, Audio!BeginAbandon, AudioThm!BeginAbandon,
       Audio!StreamBreaks, AudioThm!StreamBreaks, Audio!StreamFinish,
       AudioThm!StreamFinish, Audio!StreamFinishPause, AudioThm!StreamFinishPause,
       Audio!StreamStop, AudioThm!StreamStop, Audio!Moves, AudioThm!Moves,
       Audio!Failing, AudioThm!Failing, Audio!RecorderPause,
       AudioThm!RecorderPause, Audio!PlayerStop, AudioThm!PlayerStop,
       Audio!CloseResults, AudioThm!CloseResults, Audio!CanStart,
       AudioThm!CanStart, Audio!RecorderStart, AudioThm!RecorderStart,
       Audio!RecorderStartFails, AudioThm!RecorderStartFails, Audio!RecorderStop,
       AudioThm!RecorderStop, Audio!PrepareCompletion, AudioThm!PrepareCompletion,
       Audio!FinishCompletion, AudioThm!FinishCompletion, Audio!SetAudioEnabled,
       AudioThm!SetAudioEnabled, Audio!playerVars, AudioThm!playerVars,
       Audio!recorderVars, AudioThm!recorderVars, Audio!streamVars,
       AudioThm!streamVars
  <1> QED
    BY <1>1, <1>2, <1>3

\* Every step keeps the invariant, and is a step of the audio modules.
LEMMA AppStep ==
  ASSUME AppInv, [Next]_vars
  PROVE  AppInv' /\ [Audio!Next]_audioVars
  <1>1. Audio!TypeOK /\ AppTypes /\ OwnerInv /\ RecorderInv
    BY TypesSplit DEF AppInv
  <1>2. HeldOK
    BY <1>1, HeldFollows DEF OwnerInv
  <1>3. [Audio!Next]_audioVars
    BY <1>1, <1>2, AudioStep
  <1>4. Audio!TypeOK'
    <2>1. AudioThm!TypeOK'
      <3>1. AudioThm!TypeOK /\ [AudioThm!Next]_AudioThm!vars
        BY <1>1, <1>3, SameAudio
      <3> QED
        BY <3>1, AudioThm!TypeStep, ConstantsAssumption
    <2> QED
      BY <2>1 DEF Audio!TypeOK, AudioThm!TypeOK, Audio!StreamStates, AudioThm!StreamStates
  <1>5. AppTypes'
    <2>1. CASE UNCHANGED vars
      BY <1>1, <2>1 DEF AppTypes, vars, wavVars, opVars, uploadVars, uiVars
    <2>2. CASE Next
      BY <1>1, <1>2, <2>2, TouchTypes, UiTypes, RecorderTypes, TaskTypes DEF Next
    <2> QED
      BY <2>1, <2>2
  <1>6. OwnerInv' /\ RecorderInv'
    BY <1>1, OwnerStep
  <1> QED
    BY <1>3, <1>4, <1>5, <1>6, TypesSplit DEF AppInv, TypeOK, AppTypes, Actions, Labels

\* The invariant holds always.
LEMMA AlwaysAppInv == Spec => []AppInv
  <1>1. Init => AppInv
    BY InitInv
  <1>2. AppInv /\ [Next]_vars => AppInv'
    BY AppStep
  <1> QED
    BY <1>1, <1>2, PTL DEF Spec

\* The types hold, the operation globals never point to a freed token, and the
\* flag that blocks new operations is never left raised without one: through
\* any interleaving of touches, captures, uploads, cancels and failures.
THEOREM OperationsHangTogether == Spec => []AppConsistent
  <1>1. AppInv => AppConsistent
    BY DEF AppInv, OwnerInv, AppConsistent
  <1> QED
    BY <1>1, AlwaysAppInv, PTL

\* A WAV buffer has one owner at most, none once it is freed, and one until it
\* is freed; it is kept and retried under the id drawn for it.
THEOREM RecordingsAreKept == Spec => []WavsAreKept
  <1>1. ASSUME AppInv, NEW q \in Questions
        PROVE  /\ Cardinality(Owners(q)) + (IF pendingWav = q THEN 1 ELSE 0) <= 1
               /\ q \notin wavs => Owners(q) = {} /\ pendingWav # q
    <2>1. BufferInv /\ q # NoQuestion
      BY <1>1, ConstantsAssumption DEF AppInv, OwnerInv
    <2>2. CASE Owners(q) = {}
      BY <2>1, <2>2, FS_EmptySet DEF BufferInv
    <2>3. ASSUME NEW t \in Owners(q)
          PROVE  Owners(q) = {t} /\ pendingWav # q /\ q \in wavs
      BY <2>1, <2>3 DEF Owners, BufferInv
    <2>4. CASE Owners(q) # {}
      <3>1. PICK t : Owners(q) = {t} /\ pendingWav # q /\ q \in wavs
        BY <2>3, <2>4
      <3>2. Cardinality(Owners(q)) = 1
        BY <3>1, FS_Singleton
      <3> QED
        BY <3>1, <3>2
    <2> QED
      BY <2>2, <2>4
  <1>2. AppInv => WavsAreKept
    BY <1>1 DEF AppInv, OwnerInv, WavsAreKept, NoWavIsShared
  <1> QED
    BY <1>2, AlwaysAppInv, PTL

\* Every behaviour of the application is one of AudioPath: the threads call the
\* audio modules in the orders AudioPath allows, and in no other.
THEOREM AppUsesAudioPath == Spec => UsesAudioPath
  <1>1. Init => Audio!Init
    BY InitInv
  <1>2. AppInv /\ [Next]_vars => [Audio!Next]_audioVars
    BY AppStep
  <1> QED
    BY <1>1, <1>2, AlwaysAppInv, PTL DEF Spec, UsesAudioPath

\* Hence the invariants of AudioPath are the application's: a capture keeps its
\* microphone and its callbacks, and what the player raises has an owner.
THEOREM AppInheritsAudio ==
    Spec => [](Audio!MicrophoneHeld /\ Audio!CallbackIsCaptures /\ Audio!PlayerIsOwned)
  <1>1. UsesAudioPath => AudioThm!Spec
    <2>1. /\ Audio!Init => AudioThm!Init
          /\ [Audio!Next]_audioVars => [AudioThm!Next]_AudioThm!vars
      BY SameAudio
    <2> QED
      BY <2>1, PTL DEF UsesAudioPath, AudioThm!Spec
  <1>2. AudioThm!Spec => [](AudioThm!MicrophoneHeld /\ AudioThm!CallbackIsCaptures
                            /\ AudioThm!PlayerIsOwned)
    <2>1. AudioThm!Spec => []AudioThm!MicrophoneHeld
      BY AudioThm!CaptureHoldsMicrophone, ConstantsAssumption
    <2>2. AudioThm!Spec => []AudioThm!CallbackIsCaptures
      BY AudioThm!CompletionGoesToItsCapture, ConstantsAssumption
    <2>3. AudioThm!Spec => []AudioThm!PlayerIsOwned
      BY AudioThm!PlayerFlagsHaveOwners, ConstantsAssumption
    <2> QED
      BY <2>1, <2>2, <2>3, PTL
  <1>3. AudioThm!MicrophoneHeld /\ AudioThm!CallbackIsCaptures /\ AudioThm!PlayerIsOwned
        => Audio!MicrophoneHeld /\ Audio!CallbackIsCaptures /\ Audio!PlayerIsOwned
    BY DEF Audio!MicrophoneHeld, AudioThm!MicrophoneHeld, Audio!CallbackIsCaptures,
           AudioThm!CallbackIsCaptures, Audio!PlayerIsOwned, AudioThm!PlayerIsOwned,
           Audio!PlayingHasOwner, AudioThm!PlayingHasOwner, Audio!AbortHasOwner,
           AudioThm!AbortHasOwner, Audio!SpeakerHasOwner, AudioThm!SpeakerHasOwner,
           Audio!Engaged, AudioThm!Engaged
  <1> QED
    BY <1>1, <1>2, <1>3, AppUsesAudioPath, PTL
=============================================================================
