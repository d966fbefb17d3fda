------------------------- MODULE VoiceBridge_proofs -------------------------
(***************************************************************************)
(* Theorems about VoiceBridge, for any sets of request ids and handlers,   *)
(* any number of restarts and whatever goes wrong.                         *)
(*                                                                         *)
(* What makes the properties inductive is StageInv: the control point of a *)
(* processing task determines the status of its row until the task ends,   *)
(* so that a task alone writes its row while the job is active.            *)
(***************************************************************************)
EXTENDS VoiceBridge, TLAPS

\* The row of a task: task[i] says how far the job has come.
StageOf(label) ==
    CASE label = "start" -> "queued"
      [] label \in {"read", "stt"} -> "transcribing"
      [] label = "hermes" -> "asking_hermes"
      [] OTHER -> "synthesizing"

Working == TaskLabels \ {"none", "unlink", "leave"}

\* What the columns of one row have to do with each other.
RowOK(r) ==
    /\ r.speech <=> r.tts = "ready"
    /\ r.tts \in {"ready", "expired"} => r.status = "completed"
    /\ r.audio => r.status \in Active
    /\ r.status \in {"synthesizing", "completed"} => r.answer
    /\ r.answer => r.status \in {"synthesizing", "completed", "failed"}

\* Every row a job can have.
Row == [status : Active \cup Final \cup {"none"},
        tts : {"pending", "ready", "failed", "expired"},
        answer : BOOLEAN, audio : BOOLEAN, speech : BOOLEAN, old : BOOLEAN]

StageInv ==
    \A i \in Ids :
        /\ RowOK(jobs[i])
        /\ task[i] \in Working => jobs[i].status = StageOf(task[i])
        /\ task[i] # "none" => Running

\* No job is active between a restart and the first request, and while nothing
\* goes wrong the task of an active job has not come to its end.
ActiveInv ==
    /\ phase = "recovering" => \A i \in Ids : jobs[i].status \notin Active
    /\ phase = "serving" /\ trouble = {}
          => \A i \in Ids : jobs[i].status \in Active => task[i] \in Working

\* Speech on its way to being announced exists; doomed speech is announced no more.
SpeechInv ==
    /\ ReadySpeechExists
    /\ \A i \in Ids : task[i] = "store" => speech[i]
    /\ \A i \in doomed : jobs[i].tts = "expired"

IInv == TypeOK /\ StageInv /\ ActiveInv /\ SpeechInv

-----------------------------------------------------------------------------
(* Rows.                                                                   *)

LEMMA NoJobRow ==
    /\ NoJob \in Row
    /\ NoJob.tts = "pending" /\ NoJob.status = "none"
    /\ ~NoJob.answer /\ ~NoJob.audio /\ ~NoJob.speech
  BY DEF NoJob, Row, Active, Final

LEMMA RowsHaveType == ASSUME TypeOK, NEW i \in Ids PROVE jobs[i] \in Row
  BY DEF TypeOK, Row

\* The conjuncts of IInv beyond TypeOK look at the rows, the tasks and the
\* speech only.
LEMMA Untouched ==
    ASSUME IInv, UNCHANGED <<phase, trouble, jobs, task, speech, doomed>>
    PROVE  StageInv' /\ ActiveInv' /\ SpeechInv'
  BY DEF IInv, StageInv, ActiveInv, SpeechInv, ReadySpeechExists, Running

\* A new row and a new control point for one job.
LEMMA JobChange ==
    ASSUME IInv, NEW i \in Ids, NEW row \in Row, NEW label \in TaskLabels,
           jobs' = [jobs EXCEPT ![i] = row], task' = [task EXCEPT ![i] = label],
           UNCHANGED <<phase, trouble, stale, restarts, crashed, abandoned, doomed>>,
           Running, i \notin doomed, RowOK(row),
           label \in Working => row.status = StageOf(label),
           phase = "serving" /\ trouble = {} /\ row.status \in Active => label \in Working,
           speech' \in [Ids -> BOOLEAN], \A j \in Ids \ {i} : speech'[j] = speech[j],
           row.tts = "ready" \/ label = "store" => speech'[i],
           audio' \in [Ids -> {"absent", "partial", "whole"}],
           post' \in [Handlers -> {"idle", "body", "writing", "written", "unlink"}],
           posted' \in [Handlers -> Ids \cup {NoId}],
           \A h \in Handlers : post'[h] # "idle" => posted'[h] \in Ids
    PROVE  IInv'
<1>1. jobs \in [Ids -> Row] /\ task \in [Ids -> TaskLabels]
  BY DEF IInv, TypeOK, Row
<1>2. jobs' \in [Ids -> Row] /\ task' \in [Ids -> TaskLabels]
  BY <1>1
<1>3. \A j \in Ids : /\ jobs'[j] = IF j = i THEN row ELSE jobs[j]
                     /\ task'[j] = IF j = i THEN label ELSE task[j]
  BY <1>1
<1>4. \A j \in Ids : RowOK(jobs'[j])
  BY <1>3 DEF IInv, StageInv
<1>5. TypeOK'
  BY <1>2, <1>4 DEF IInv, TypeOK, Row, RowOK, Active
<1>6. StageInv'
  <2>1. Running'
    BY DEF Running
  <2>2. ASSUME NEW j \in Ids, task'[j] \in Working PROVE jobs'[j].status = StageOf(task'[j])
    BY <1>3, <2>2 DEF IInv, StageInv
  <2>3. QED
    BY <1>4, <2>1, <2>2 DEF StageInv
<1>7. ActiveInv'
  BY <1>3 DEF IInv, ActiveInv, Running
<1>8. SpeechInv'
  BY <1>3 DEF IInv, SpeechInv, ReadySpeechExists, TypeOK
<1>9. QED
  BY <1>5, <1>6, <1>7, <1>8 DEF IInv

-----------------------------------------------------------------------------
(* POST handlers.                                                          *)

LEMMA PostStepKeeps == ASSUME IInv, NEW h \in Handlers, PostStep(h) PROVE IInv'
<1> USE DEF PostMoves, PostEnds, AudioBecomes, processVars, fileVars
<1>1. CASE \E i \in Ids : PostArrives(h, i)
  <2>1. TypeOK'
    BY <1>1 DEF IInv, TypeOK, PostArrives
  <2>2. QED
    BY <1>1, <2>1, Untouched DEF PostArrives, IInv
<1>2. CASE PostRejected(h) \/ WriteBegins(h) \/ WriteEnds(h) \/ WriteFails(h) \/ PostUnlinks(h)
  <2>1. audio' \in [Ids -> {"absent", "partial", "whole"}]
    BY <1>2 DEF IInv, TypeOK, PostRejected, WriteBegins, WriteEnds, WriteFails, PostUnlinks,
                Written, AudioUnlinked
  <2>2. TypeOK'
    BY <1>2, <2>1 DEF IInv, TypeOK, PostRejected, WriteBegins, WriteEnds, WriteFails, PostUnlinks
  <2>3. QED
    BY <1>2, <2>2, Untouched
    DEF PostRejected, WriteBegins, WriteEnds, WriteFails, PostUnlinks, IInv
<1>3. CASE PostCreates(h)
  <2> DEFINE i == posted[h]
             row == [NoJob EXCEPT !.status = "queued", !.audio = TRUE]
  <2>1. i \in Ids
    BY <1>3 DEF PostCreates, IInv, TypeOK
  <2>2. CASE UNCHANGED <<jobs, task>>
    <3>1. TypeOK'
      BY <1>3, <2>2 DEF PostCreates, IInv, TypeOK
    <3>2. QED
      BY <1>3, <2>2, <3>1, Untouched DEF PostCreates, IInv
  <2>3. CASE Created(i) /\ jobs' = [jobs EXCEPT ![i] = row] /\ task' = [task EXCEPT ![i] = "start"]
    <3>1. /\ row \in Row /\ row.status = "queued" /\ row.tts = "pending"
          /\ ~row.answer /\ ~row.speech
      BY NoJobRow DEF Row, Active
    <3>2. RowOK(row)
      BY <3>1 DEF RowOK, Active
    <3>3. i \notin doomed
      BY <2>1, <2>3 DEF Created, IInv, SpeechInv, StageInv, RowOK
    <3>4. "start" \in TaskLabels /\ "start" \in Working /\ StageOf("start") = "queued"
      BY DEF TaskLabels, Working, StageOf
    <3>5. /\ UNCHANGED <<phase, trouble, stale, restarts, crashed, abandoned, doomed, speech, audio>>
          /\ Running
      BY <1>3 DEF PostCreates
    <3>6. /\ post' \in [Handlers -> {"idle", "body", "writing", "written", "unlink"}]
          /\ posted' \in [Handlers -> Ids \cup {NoId}]
          /\ \A g \in Handlers : post'[g] # "idle" => posted'[g] \in Ids
      BY <1>3 DEF PostCreates, IInv, TypeOK
    <3> HIDE DEF i, row
    <3>7. QED
      BY <2>1, <2>3, <3>1, <3>2, <3>3, <3>4, <3>5, <3>6, JobChange DEF IInv, TypeOK
  <2>4. QED
    BY <1>3, <2>2, <2>3 DEF PostCreates
<1>4. QED
  BY <1>1, <1>2, <1>3 DEF PostStep

-----------------------------------------------------------------------------
(* Processing tasks.                                                       *)

\* The row a failing task writes.
LEMMA FailedRowIsRow ==
    ASSUME NEW i \in Ids, jobs[i] \in Row, RowOK(jobs[i]), jobs[i].status \in Active
    PROVE  LET row == [FailedRow(i) EXCEPT !.old = FALSE]
           IN  row \in Row /\ RowOK(row) /\ row.status = "failed" /\ row.tts = "failed"
  BY DEF FailedRow, Row, RowOK, Active, Final

\* A task that is still at work has an active row, whose speech is not doomed.
LEMMA WorkingIsActive ==
    ASSUME IInv, NEW i \in Ids, task[i] \in Working
    PROVE  /\ jobs[i] \in Row /\ RowOK(jobs[i])
           /\ jobs[i].status \in Active /\ jobs[i].status = StageOf(task[i])
           /\ jobs[i].tts \notin {"ready", "expired"} /\ i \notin doomed
<1>1. jobs[i] \in Row /\ RowOK(jobs[i]) /\ jobs[i].status = StageOf(task[i])
  BY RowsHaveType DEF IInv, StageInv
<1>2. jobs[i].status \in Active
  BY <1>1 DEF StageOf, Active
<1>3. QED
  BY <1>1, <1>2 DEF IInv, SpeechInv, RowOK, Active

LEMMA JobFailsKeeps ==
    ASSUME IInv, NEW i \in Ids, NEW from \in Working, JobFails(i, from),
           UNCHANGED <<processVars, audio, postVars, doomed>>,
           speech' \in [Ids -> BOOLEAN], \A j \in Ids \ {i} : speech'[j] = speech[j]
    PROVE  IInv'
<1> DEFINE row == [FailedRow(i) EXCEPT !.old = FALSE]
<1>1. task[i] \in Working /\ Running /\ task' = [task EXCEPT ![i] = "unlink"]
  BY DEF JobFails, TaskMoves
<1>2. "unlink" \in TaskLabels /\ "unlink" \notin Working
  BY DEF TaskLabels, Working
<1>3. CASE jobs' = [jobs EXCEPT ![i] = row]
  <2>1. row \in Row /\ RowOK(row) /\ row.status = "failed" /\ row.tts = "failed"
    BY <1>1, WorkingIsActive, FailedRowIsRow
  <2> HIDE DEF row
  <2>2. QED
    BY <1>1, <1>2, <1>3, <2>1, WorkingIsActive, JobChange
    DEF IInv, TypeOK, processVars, postVars, Active
<1>4. CASE "io" \in trouble /\ UNCHANGED jobs
  <2>1. jobs' = [jobs EXCEPT ![i] = jobs[i]]
    BY <1>4 DEF IInv, TypeOK
  <2>2. QED
    BY <1>1, <1>2, <1>4, <2>1, WorkingIsActive, JobChange
    DEF IInv, TypeOK, processVars, postVars
<1>5. QED
  BY <1>3, <1>4 DEF JobFails, Update

\* A step of a task at work that succeeds, and does not touch the audio.
LEMMA TaskAdvances ==
    ASSUME IInv, NEW i \in Ids, NEW from \in Working, NEW to \in TaskLabels, NEW row \in Row,
           TaskMoves(i, from, to), jobs' = [jobs EXCEPT ![i] = row], RowOK(row),
           to \in Working => row.status = StageOf(to),
           row.status \in Active => to \in Working,
           UNCHANGED <<processVars, audio, postVars, doomed>>,
           speech' \in [Ids -> BOOLEAN], \A j \in Ids \ {i} : speech'[j] = speech[j],
           row.tts = "ready" \/ to = "store" => speech'[i]
    PROVE  IInv'
<1>1. task[i] \in Working /\ Running /\ task' = [task EXCEPT ![i] = to]
  BY DEF TaskMoves
<1>2. QED
  BY <1>1, WorkingIsActive, JobChange DEF IInv, TypeOK, processVars, postVars

LEMMA Labels ==
    /\ Working = {"start", "read", "stt", "hermes", "tts", "normalize", "store"}
    /\ Working \subseteq TaskLabels /\ "unlink" \in TaskLabels
    /\ StageOf("start") = "queued" /\ StageOf("read") = "transcribing"
    /\ StageOf("stt") = "transcribing" /\ StageOf("hermes") = "asking_hermes"
    /\ StageOf("tts") = "synthesizing" /\ StageOf("normalize") = "synthesizing"
    /\ StageOf("store") = "synthesizing"
  BY DEF Working, TaskLabels, StageOf

LEMMA TaskStepKeeps == ASSUME IInv, NEW i \in Ids, TaskStep(i) PROVE IInv'
<1> DEFINE r == jobs[i]
<1>a. /\ jobs \in [Ids -> Row] /\ speech \in [Ids -> BOOLEAN]
      /\ audio \in [Ids -> {"absent", "partial", "whole"}]
  BY DEF IInv, TypeOK, Row
<1>b. r \in Row /\ RowOK(r) /\ jobs' = jobs => jobs' = [jobs EXCEPT ![i] = r]
  BY <1>a
<1>c. task[i] \in Working => r \in Row /\ RowOK(r) /\ r.status \in Active
                             /\ r.tts \in {"pending", "failed"} /\ r.status = StageOf(task[i])
  BY WorkingIsActive DEF Row
<1>1. CASE TaskBegins(i)
  <2>1. CASE JobFails(i, "start")
    BY <1>1, <1>a, <2>1, Labels, JobFailsKeeps DEF TaskBegins, TaskOnly, fileVars
  <2>2. CASE TaskMoves(i, "start", "read") /\ Update(i, [r EXCEPT !.status = "transcribing"])
    <3> DEFINE row == [[r EXCEPT !.status = "transcribing"] EXCEPT !.old = FALSE]
    <3>1. task[i] \in Working /\ r.status = "queued"
      BY <1>c, <2>2, Labels DEF TaskMoves
    <3>2. row \in Row /\ row.status = "transcribing" /\ RowOK(row) /\ row.tts # "ready"
      BY <1>c, <3>1 DEF Row, RowOK, Active
    <3>3. jobs' = [jobs EXCEPT ![i] = row]
      BY <2>2 DEF Update
    <3> HIDE DEF row
    <3>4. QED
      BY <1>1, <1>a, <2>2, <3>2, <3>3, Labels, TaskAdvances DEF TaskBegins, TaskOnly, fileVars
  <2>3. QED
    BY <1>1, <2>1, <2>2 DEF TaskBegins
<1>2. CASE TaskReads(i)
  <2>1. CASE JobFails(i, "read")
    BY <1>2, <1>a, <2>1, Labels, JobFailsKeeps DEF TaskReads, TaskOnly, fileVars
  <2>2. CASE TaskMoves(i, "read", "stt") /\ UNCHANGED jobs
    <3>1. task[i] \in Working /\ r.status = "transcribing"
      BY <1>c, <2>2, Labels DEF TaskMoves
    <3>2. jobs' = [jobs EXCEPT ![i] = r] /\ r \in Row /\ RowOK(r) /\ r.tts # "ready"
      BY <1>a, <1>c, <2>2, <3>1
    <3>3. QED
      BY <1>2, <1>a, <2>2, <3>1, <3>2, Labels, TaskAdvances DEF TaskReads, TaskOnly, fileVars
  <2>3. QED
    BY <1>2, <2>1, <2>2 DEF TaskReads
<1>3. CASE Transcribed(i)
  <2>1. CASE JobFails(i, "stt")
    BY <1>3, <1>a, <2>1, Labels, JobFailsKeeps DEF Transcribed, TaskOnly, fileVars
  <2>2. CASE TaskMoves(i, "stt", "hermes") /\ Update(i, [r EXCEPT !.status = "asking_hermes"])
    <3> DEFINE row == [[r EXCEPT !.status = "asking_hermes"] EXCEPT !.old = FALSE]
    <3>1. task[i] \in Working /\ r.status = "transcribing"
      BY <1>c, <2>2, Labels DEF TaskMoves
    <3>2. row \in Row /\ row.status = "asking_hermes" /\ RowOK(row) /\ row.tts # "ready"
      BY <1>c, <3>1 DEF Row, RowOK, Active
    <3>3. jobs' = [jobs EXCEPT ![i] = row]
      BY <2>2 DEF Update
    <3> HIDE DEF row
    <3>4. QED
      BY <1>3, <1>a, <2>2, <3>2, <3>3, Labels, TaskAdvances DEF Transcribed, TaskOnly, fileVars
  <2>3. QED
    BY <1>3, <2>1, <2>2 DEF Transcribed
<1>4. CASE Answered(i)
  <2>1. CASE JobFails(i, "hermes")
    BY <1>4, <1>a, <2>1, Labels, JobFailsKeeps DEF Answered, TaskOnly, fileVars
  <2>2. CASE /\ TaskMoves(i, "hermes", "tts")
             /\ Update(i, [r EXCEPT !.status = "synthesizing", !.answer = TRUE])
    <3> DEFINE row == [[r EXCEPT !.status = "synthesizing", !.answer = TRUE] EXCEPT !.old = FALSE]
    <3>1. task[i] \in Working
      BY <2>2, Labels DEF TaskMoves
    <3>2. row \in Row /\ row.status = "synthesizing" /\ RowOK(row) /\ row.tts # "ready"
      BY <1>c, <3>1 DEF Row, RowOK, Active
    <3>3. jobs' = [jobs EXCEPT ![i] = row]
      BY <2>2 DEF Update
    <3> HIDE DEF row
    <3>4. QED
      BY <1>4, <1>a, <2>2, <3>2, <3>3, Labels, TaskAdvances DEF Answered, TaskOnly, fileVars
  <2>3. CASE "reply" \in trouble /\ TaskMoves(i, "hermes", "unlink") /\ UNCHANGED jobs
    <3>1. task[i] \in Working /\ Running /\ task' = [task EXCEPT ![i] = "unlink"]
      BY <2>3, Labels DEF TaskMoves
    <3>2. jobs' = [jobs EXCEPT ![i] = r]
      BY <1>a, <2>3
    <3>3. QED
      BY <1>4, <1>a, <2>3, <3>1, <3>2, Labels, WorkingIsActive, JobChange
      DEF Answered, TaskOnly, fileVars, processVars, postVars, IInv, TypeOK
  <2>4. QED
    BY <1>4, <2>1, <2>2, <2>3 DEF Answered
<1>5. CASE Synthesized(i)
  <2>1. task[i] \in Working /\ r.status = "synthesizing"
    BY <1>5, <1>c, Labels DEF Synthesized, TaskMoves
  <2>2. jobs' = [jobs EXCEPT ![i] = r] /\ r \in Row /\ RowOK(r) /\ r.tts # "ready"
    BY <1>5, <1>a, <1>c, <2>1 DEF Synthesized
  <2>3. QED
    BY <1>5, <1>a, <2>1, <2>2, Labels, TaskAdvances DEF Synthesized, TaskOnly, fileVars
<1>6. CASE Normalized(i)
  <2>1. task[i] \in Working /\ r.status = "synthesizing"
    BY <1>6, <1>c, Labels DEF Normalized, TaskMoves
  <2>2. jobs' = [jobs EXCEPT ![i] = r] /\ r \in Row /\ RowOK(r)
    BY <1>6, <1>a, <1>c, <2>1 DEF Normalized
  <2>3. /\ speech' \in [Ids -> BOOLEAN] /\ speech'[i]
        /\ \A j \in Ids \ {i} : speech'[j] = speech[j]
    BY <1>6, <1>a DEF Normalized
  <2>4. QED
    BY <1>6, <2>1, <2>2, <2>3, Labels, TaskAdvances DEF Normalized
<1>7. CASE Stored(i)
  <2>1. CASE JobFails(i, "store")
    BY <1>7, <1>a, <2>1, Labels, JobFailsKeeps DEF Stored, TaskOnly, fileVars
  <2>2. CASE /\ TaskMoves(i, "store", "unlink")
             /\ Update(i, [r EXCEPT !.status = "completed", !.tts = "ready",
                                    !.audio = FALSE, !.speech = TRUE])
    <3> DEFINE row == [[r EXCEPT !.status = "completed", !.tts = "ready",
                                 !.audio = FALSE, !.speech = TRUE] EXCEPT !.old = FALSE]
    <3>1. task[i] \in Working /\ r.status = "synthesizing" /\ speech[i]
      BY <1>c, <2>2, Labels DEF TaskMoves, IInv, SpeechInv
    <3>2. row \in Row /\ row.status = "completed" /\ RowOK(row)
      BY <1>c, <3>1 DEF Row, RowOK, Active, Final
    <3>3. jobs' = [jobs EXCEPT ![i] = row]
      BY <2>2 DEF Update
    <3>4. "completed" \notin Active
      BY DEF Active
    <3> HIDE DEF row
    <3>5. QED
      BY <1>7, <1>a, <2>2, <3>1, <3>2, <3>3, <3>4, Labels, TaskAdvances
      DEF Stored, TaskOnly, fileVars
  <2>3. QED
    BY <1>7, <2>1, <2>2 DEF Stored
<1>8. CASE SpeechFails(i)
  <2>1. PICK from \in {"tts", "normalize"} : Mute(i, from)
    BY <1>8 DEF SpeechFails
  <2>2. speech' \in [Ids -> BOOLEAN] /\ \A j \in Ids \ {i} : speech'[j] = speech[j]
    BY <1>a, <2>1 DEF Mute, SpeechUnlinked
  <2>3. CASE JobFails(i, from)
    BY <2>1, <2>2, <2>3, Labels, JobFailsKeeps DEF Mute
  <2>4. CASE /\ TaskMoves(i, from, "unlink")
             /\ Update(i, [r EXCEPT !.status = "completed", !.tts = "failed",
                                    !.audio = FALSE, !.speech = FALSE])
    <3> DEFINE row == [[r EXCEPT !.status = "completed", !.tts = "failed",
                                 !.audio = FALSE, !.speech = FALSE] EXCEPT !.old = FALSE]
    <3>1. task[i] \in Working /\ r.status = "synthesizing"
      BY <1>c, <2>4, Labels DEF TaskMoves
    <3>2. row \in Row /\ row.status = "completed" /\ RowOK(row) /\ row.tts = "failed"
      BY <1>c, <3>1 DEF Row, RowOK, Active, Final
    <3>3. jobs' = [jobs EXCEPT ![i] = row]
      BY <2>4 DEF Update
    <3>4. "completed" \notin Active
      BY DEF Active
    <3> HIDE DEF row
    <3>5. QED
      BY <2>1, <2>2, <2>4, <3>2, <3>3, <3>4, Labels, TaskAdvances DEF Mute
  <2>5. QED
    BY <2>1, <2>3, <2>4 DEF Mute
<1>9. CASE TaskUnlinks(i)
  <2>1. /\ UNCHANGED <<processVars, jobs, speech, postVars, doomed>>
        /\ task[i] \in {"unlink", "leave"} /\ task' = [task EXCEPT ![i] = "none"]
        /\ audio' \in [Ids -> {"absent", "partial", "whole"}]
    BY <1>9, <1>a DEF TaskUnlinks, TaskMoves, AudioUnlinked, AudioBecomes
  <2>2. task \in [Ids -> TaskLabels] /\ "none" \in TaskLabels /\ "none" \notin Working
    BY DEF IInv, TypeOK, TaskLabels, Working
  <2>3. \A j \in Ids : task'[j] = task[j] \/ (j = i /\ task'[j] = "none")
    BY <2>1, <2>2
  <2>4. TypeOK'
    BY <2>1, <2>2 DEF IInv, TypeOK, processVars, postVars
  <2>5. "unlink" \notin Working /\ "leave" \notin Working
    BY DEF Working
  <2>6. StageInv'
    BY <2>1, <2>2, <2>3 DEF IInv, StageInv, Running, processVars
  <2>7. ActiveInv'
    BY <2>1, <2>2, <2>3, <2>5 DEF IInv, ActiveInv, processVars
  <2>8. SpeechInv'
    BY <2>1, <2>3 DEF IInv, SpeechInv, ReadySpeechExists
  <2>9. QED
    BY <2>4, <2>6, <2>7, <2>8 DEF IInv
<1>10. QED
  BY <1>1, <1>2, <1>3, <1>4, <1>5, <1>6, <1>7, <1>8, <1>9 DEF TaskStep

-----------------------------------------------------------------------------
(* Expiry, and the end and start of the process.                           *)

LEMMA ExpiryKeeps ==
    ASSUME IInv, Expire \/ \E i \in Ids : Ages(i) \/ ExpireUnlinks(i)
    PROVE  IInv'
<1>a. /\ jobs \in [Ids -> Row] /\ speech \in [Ids -> BOOLEAN]
      /\ \A j \in Ids : jobs[j] \in Row /\ RowOK(jobs[j])
  BY RowsHaveType DEF IInv, TypeOK, StageInv, Row
<1>1. ASSUME NEW i \in Ids, Ages(i) PROVE IInv'
  <2> DEFINE row == [jobs[i] EXCEPT !.old = TRUE]
  <2>1. /\ row \in Row /\ RowOK(row) /\ row.status = jobs[i].status
        /\ row.tts = jobs[i].tts /\ row.speech = jobs[i].speech
        /\ row.answer = jobs[i].answer /\ row.audio = jobs[i].audio
    BY <1>a DEF Row, RowOK
  <2>2. jobs' = [jobs EXCEPT ![i] = row]
    BY <1>1, <1>a DEF Ages
  <2> HIDE DEF row
  <2>3. /\ jobs' \in [Ids -> Row]
        /\ \A j \in Ids : /\ RowOK(jobs'[j]) /\ jobs'[j].status = jobs[j].status
                           /\ jobs'[j].tts = jobs[j].tts
    BY <1>a, <2>1, <2>2
  <2>4. UNCHANGED <<processVars, fileVars, postVars, task, doomed>>
    BY <1>1 DEF Ages
  <2>5. TypeOK'
    BY <2>3, <2>4 DEF IInv, TypeOK, Row, RowOK, Active, processVars, fileVars, postVars
  <2>6. StageInv'
    BY <2>3, <2>4 DEF IInv, StageInv, Running, processVars
  <2>7. ActiveInv'
    BY <2>3, <2>4 DEF IInv, ActiveInv, processVars
  <2>8. SpeechInv'
    BY <2>3, <2>4 DEF IInv, TypeOK, SpeechInv, ReadySpeechExists, fileVars
  <2>9. QED
    BY <2>5, <2>6, <2>7, <2>8 DEF IInv
<1>2. CASE Expire
  <2> DEFINE expired(j) == [jobs[j] EXCEPT !.tts = "expired", !.speech = FALSE]
  <2>1. UNCHANGED <<processVars, fileVars, postVars, task>> /\ doomed' = doomed \cup Expired
    BY <1>2 DEF Expire
  <2>2. jobs' = [j \in Ids |-> IF j \in Expired THEN expired(j) ELSE jobs[j]]
    BY <1>2 DEF Expire
  <2>3. \A j \in Expired : j \in Ids /\ jobs[j].tts = "ready"
    BY DEF Expired
  <2>4. ASSUME NEW j \in Expired
        PROVE  /\ expired(j) \in Row /\ RowOK(expired(j))
               /\ expired(j).status = jobs[j].status /\ expired(j).tts = "expired"
    BY <1>a, <2>3 DEF Row, RowOK
  <2> HIDE DEF expired
  <2>5. /\ jobs' \in [Ids -> Row]
        /\ \A j \in Ids : /\ RowOK(jobs'[j]) /\ jobs'[j].status = jobs[j].status
                           /\ jobs'[j].tts = IF j \in Expired THEN "expired" ELSE jobs[j].tts
    BY <1>a, <2>2, <2>4
  <2>6. TypeOK'
    BY <2>1, <2>3, <2>5 DEF IInv, TypeOK, Row, RowOK, Active, processVars, fileVars, postVars
  <2>7. StageInv' /\ ActiveInv'
    BY <2>1, <2>5 DEF IInv, StageInv, ActiveInv, Running, processVars
  <2>8. SpeechInv'
    BY <2>1, <2>3, <2>5 DEF IInv, TypeOK, SpeechInv, ReadySpeechExists, fileVars
  <2>9. QED
    BY <2>6, <2>7, <2>8 DEF IInv
<1>3. ASSUME NEW i \in Ids, ExpireUnlinks(i) PROVE IInv'
  <2>1. /\ UNCHANGED <<processVars, jobs, audio, postVars, task>>
        /\ i \in doomed /\ doomed' = doomed \ {i}
        /\ speech' \in [Ids -> BOOLEAN] /\ \A j \in Ids \ {i} : speech'[j] = speech[j]
    BY <1>3, <1>a DEF ExpireUnlinks, SpeechUnlinked
  <2>2. jobs[i].tts = "expired" /\ task[i] # "store"
    <3>1. jobs[i].tts = "expired" /\ jobs[i].status = "completed"
      BY <1>a, <2>1 DEF IInv, SpeechInv, RowOK
    <3>2. QED
      BY <3>1, Labels DEF IInv, StageInv
  <2>3. TypeOK'
    BY <2>1 DEF IInv, TypeOK, processVars, postVars
  <2>4. StageInv' /\ ActiveInv'
    BY <2>1 DEF IInv, StageInv, ActiveInv, Running, processVars
  <2>5. SpeechInv'
    BY <2>1, <2>2 DEF IInv, TypeOK, SpeechInv, ReadySpeechExists
  <2>6. QED
    BY <2>3, <2>4, <2>5 DEF IInv
<1>4. QED
  BY <1>1, <1>2, <1>3

\* A restart may find a task nowhere, and leaves no active job behind.
LEMMA LifecycleKeeps ==
    ASSUME IInv, Crash \/ Shutdown \/ Restarting \/ \E i \in Ids : TaskCancelled(i)
    PROVE  IInv'
<1> USE DEF Ends, AudioBecomes
<1>a. /\ jobs \in [Ids -> Row] /\ speech \in [Ids -> BOOLEAN] /\ task \in [Ids -> TaskLabels]
      /\ audio \in [Ids -> {"absent", "partial", "whole"}]
      /\ \A j \in Ids : jobs[j] \in Row /\ RowOK(jobs[j])
  BY RowsHaveType DEF IInv, TypeOK, StageInv, Row
<1>b. restarts < MaxRestarts => restarts + 1 \in 0..MaxRestarts
  BY ConstantsAssumption DEF IInv, TypeOK
<1>c. /\ "none" \in TaskLabels /\ "leave" \in TaskLabels
      /\ "none" \notin Working /\ "unlink" \notin Working /\ "leave" \notin Working
  BY DEF TaskLabels, Working
<1>1. CASE Crash
  <2>1. TypeOK'
    BY <1>1, <1>b, <1>c DEF Crash, IInv, TypeOK, fileVars
  <2>2. StageInv' /\ ActiveInv' /\ SpeechInv'
    BY <1>1, <1>a, <1>c DEF Crash, IInv, StageInv, ActiveInv, SpeechInv, ReadySpeechExists, fileVars
  <2>3. QED
    BY <2>1, <2>2 DEF IInv
<1>2. CASE Shutdown
  <2>1. TypeOK'
    BY <1>2, <1>b DEF Shutdown, IInv, TypeOK, fileVars, postVars
  <2>2. StageInv' /\ ActiveInv' /\ SpeechInv'
    BY <1>2 DEF Shutdown, IInv, StageInv, ActiveInv, SpeechInv, ReadySpeechExists, Running, fileVars
  <2>3. QED
    BY <2>1, <2>2 DEF IInv
<1>3. ASSUME NEW i \in Ids, TaskCancelled(i) PROVE IInv'
  <2>1. PICK to \in {"none", "leave"} : task' = [task EXCEPT ![i] = to]
    BY <1>3 DEF TaskCancelled, UnlinkCancelled, TaskMoves
  <2>2. task[i] # "none" /\ Running
    BY <1>3 DEF TaskCancelled, UnlinkCancelled, TaskMoves
  <2>3. /\ UNCHANGED <<phase, stale, restarts, crashed, trouble, jobs, postVars, doomed>>
        /\ phase = "stopping"
        /\ speech' \in [Ids -> BOOLEAN] /\ \A j \in Ids : speech[j] => speech'[j]
        /\ audio' \in [Ids -> {"absent", "partial", "whole"}]
    BY <1>3, <1>a DEF TaskCancelled, UnlinkCancelled, AudioUnlinked
  <2>4. abandoned' \in SUBSET Ids
    BY <1>3 DEF TaskCancelled, UnlinkCancelled, IInv, TypeOK
  <2>5. \A j \in Ids : task'[j] = IF j = i THEN to ELSE task[j]
    BY <1>a, <2>1
  <2>6. TypeOK'
    BY <1>a, <1>c, <2>1, <2>3, <2>4 DEF IInv, TypeOK, postVars
  <2>7. StageInv' /\ ActiveInv' /\ SpeechInv'
    BY <1>c, <2>2, <2>3, <2>5 DEF IInv, StageInv, ActiveInv, SpeechInv, ReadySpeechExists, Running
  <2>8. QED
    BY <2>6, <2>7 DEF IInv
<1>4. CASE Stopped
  <2>1. TypeOK'
    BY <1>4 DEF Stopped, IInv, TypeOK, fileVars, postVars
  <2>2. StageInv' /\ ActiveInv' /\ SpeechInv'
    BY <1>4, <1>c DEF Stopped, IInv, StageInv, ActiveInv, SpeechInv, ReadySpeechExists, fileVars
  <2>3. QED
    BY <2>1, <2>2 DEF IInv
<1>5. CASE Recover
  <2> DEFINE found == {i \in Ids : jobs[i].status \in Interrupted}
             failedRow(i) == [FailedRow(i) EXCEPT !.speech = FALSE, !.old = FALSE]
  <2>1. /\ UNCHANGED <<restarts, crashed, abandoned, trouble, fileVars, postVars, task, doomed>>
        /\ phase' = "recovering" /\ stale' \in SUBSET Ids /\ phase = "down"
        /\ jobs' = [i \in Ids |-> IF i \in found THEN failedRow(i) ELSE jobs[i]]
    BY <1>5 DEF Recover
  <2>2. ASSUME NEW j \in found
        PROVE  /\ j \in Ids /\ failedRow(j) \in Row /\ RowOK(failedRow(j))
               /\ failedRow(j).status = "failed" /\ failedRow(j).tts = "failed"
               /\ jobs[j].status \in Active
    BY <1>a DEF FailedRow, Row, RowOK, Active, Final, Interrupted
  <2>3. \A j \in Ids : jobs[j].status \in Active => j \in found
    BY DEF Interrupted
  <2> HIDE DEF found, failedRow
  <2>4. \A j \in Ids : /\ jobs'[j] \in Row /\ RowOK(jobs'[j]) /\ jobs'[j].status \notin Active
                       /\ \/ jobs'[j] = jobs[j]
                          \/ jobs[j].status \in Active /\ jobs'[j].tts = "failed"
    BY <1>a, <2>1, <2>2, <2>3 DEF Active
  <2>5. \A j \in Ids : task[j] = "none"
    BY <2>1 DEF IInv, StageInv, Running
  <2>6. TypeOK'
    BY <2>1, <2>4 DEF IInv, TypeOK, Row, RowOK, fileVars, postVars
  <2>7. StageInv' /\ ActiveInv'
    BY <1>c, <2>1, <2>4, <2>5 DEF StageInv, ActiveInv
  <2>8. SpeechInv'
    <3>1. \A j \in doomed : jobs'[j] = jobs[j]
      BY <1>a, <2>4 DEF IInv, TypeOK, SpeechInv, RowOK, Active
    <3>2. ReadySpeechExists'
      BY <2>1, <2>4 DEF IInv, SpeechInv, ReadySpeechExists, fileVars
    <3>3. \A j \in Ids : task'[j] # "store"
      BY <2>1, <2>5
    <3>4. \A j \in doomed' : jobs'[j].tts = "expired"
      BY <2>1, <3>1 DEF IInv, SpeechInv
    <3>5. QED
      BY <3>2, <3>3, <3>4 DEF SpeechInv
  <2>9. QED
    BY <2>6, <2>7, <2>8 DEF IInv
<1>6. ASSUME NEW i \in Ids, RecoverUnlinks(i) PROVE IInv'
  <2>1. TypeOK'
    BY <1>6, <1>a DEF RecoverUnlinks, IInv, TypeOK, postVars
  <2>2. QED
    BY <1>6, <2>1, Untouched DEF RecoverUnlinks, IInv
<1>7. CASE Serve
  <2>1. TypeOK'
    BY <1>7 DEF Serve, IInv, TypeOK, fileVars, postVars
  <2>2. StageInv' /\ ActiveInv' /\ SpeechInv'
    BY <1>7 DEF Serve, IInv, StageInv, ActiveInv, SpeechInv, ReadySpeechExists, Running, fileVars
  <2>3. QED
    BY <2>1, <2>2 DEF IInv
<1>8. QED
  BY <1>1, <1>2, <1>3, <1>4, <1>5, <1>6, <1>7 DEF Restarting

-----------------------------------------------------------------------------
LEMMA InvariantInit == Init => IInv
<1>1. NoJob.status \notin Active
  BY NoJobRow DEF Active
<1>2. RowOK(NoJob)
  BY NoJobRow DEF RowOK
<1>3. "none" \in TaskLabels /\ "none" \notin Working
  BY DEF TaskLabels, Working
<1>4. SUFFICES ASSUME Init PROVE IInv
  OBVIOUS
<1>5. \A i \in Ids : jobs[i] = NoJob /\ task[i] = "none"
  BY <1>4 DEF Init
<1>6. TypeOK
  <2>1. jobs \in [Ids -> Row]
    BY <1>4, NoJobRow DEF Init
  <2>2. \A i \in Ids : /\ jobs[i].speech <=> jobs[i].tts = "ready"
                       /\ jobs[i].status = "completed" => jobs[i].answer /\ ~jobs[i].audio
    BY <1>2, <1>5 DEF RowOK, Active
  <2>3. /\ task \in [Ids -> TaskLabels] /\ speech \in [Ids -> BOOLEAN]
        /\ audio \in [Ids -> {"absent", "partial", "whole"}]
        /\ post \in [Handlers -> {"idle", "body", "writing", "written", "unlink"}]
        /\ posted \in [Handlers -> Ids \cup {NoId}]
        /\ \A h \in Handlers : post[h] = "idle"
    BY <1>3, <1>4 DEF Init
  <2>4. restarts \in 0..MaxRestarts
    BY <1>4, ConstantsAssumption DEF Init
  <2>5. QED
    BY <1>4, <2>1, <2>2, <2>3, <2>4 DEF Init, TypeOK, Row
<1>7. StageInv /\ ActiveInv
  BY <1>1, <1>2, <1>3, <1>5 DEF StageInv, ActiveInv
<1>8. SpeechInv
  BY <1>4, <1>5, NoJobRow DEF Init, SpeechInv, ReadySpeechExists
<1>9. QED
  BY <1>6, <1>7, <1>8 DEF IInv

LEMMA InvariantStep == IInv /\ [Next]_vars => IInv'
<1> SUFFICES ASSUME IInv, [Next]_vars PROVE IInv'
  OBVIOUS
<1>1. CASE UNCHANGED vars
  <2>1. TypeOK'
    BY <1>1 DEF IInv, TypeOK, vars, processVars, fileVars, postVars
  <2>2. QED
    BY <1>1, <2>1, Untouched DEF IInv, vars, processVars, fileVars, postVars
<1>2. CASE Next
  BY <1>2, PostStepKeeps, TaskStepKeeps, ExpiryKeeps, LifecycleKeeps DEF Next
<1>3. QED
  BY <1>1, <1>2

\* IInv holds in every state of the bridge.
THEOREM Invariant == Spec => []IInv
  BY InvariantInit, InvariantStep, PTL DEF Spec

\* The bridge's tables, files and control points stay within their types.
THEOREM TypeCorrect == Spec => []TypeOK
<1>1. IInv => TypeOK
  BY DEF IInv
<1>2. QED
  BY <1>1, Invariant, PTL

\* While the bridge serves and nothing goes wrong, every active job of the
\* database has a task that is still at work: recover_interrupted leaves none
\* behind whenever the process was stopped.
THEOREM JobsHaveTasks == Spec => []ActiveJobsRun
<1>1. IInv => ActiveJobsRun
  BY Labels DEF IInv, ActiveInv, ActiveJobsRun
<1>2. QED
  BY <1>1, Invariant, PTL

\* The database is coherent wherever the process stops, and whatever is active
\* in it when the bridge serves is being worked on.
THEOREM RowsAreAlwaysWorked == Spec => []RowsAreWorked
  BY TypeCorrect, JobsHaveTasks, PTL DEF RowsAreWorked

\* A job announces its speech as ready only while the file is there, whatever
\* fails: it is renamed into place before, and unlinked after, the commit.
THEOREM AnnouncedSpeechExists == Spec => []ReadySpeechExists
<1>1. IInv => ReadySpeechExists
  BY DEF IInv, SpeechInv
<1>2. QED
  BY <1>1, Invariant, PTL

-----------------------------------------------------------------------------
(* What a step does to the status and the answer of a job.                 *)

\* A processing task takes its own job one stage further, or to its end.
LEMMA TaskStepStatus ==
    ASSUME IInv, NEW i \in Ids, TaskStep(i)
    PROVE  /\ \A j \in Ids \ {i} : jobs'[j] = jobs[j]
           /\ jobs' \in [Ids -> Row]
           /\ \/ jobs'[i].status = jobs[i].status
              \/ jobs[i].status = "queued" /\ jobs'[i].status = "transcribing"
              \/ jobs[i].status = "transcribing" /\ jobs'[i].status = "asking_hermes"
              \/ jobs[i].status = "asking_hermes" /\ jobs'[i].status = "synthesizing"
              \/ jobs[i].status = "synthesizing" /\ jobs'[i].status = "completed"
              \/ /\ jobs[i].status \in Active /\ jobs'[i].status = "failed"
                 /\ "io" \in trouble \/ jobs[i].status # "synthesizing"
           /\ jobs[i].answer => jobs'[i].answer
<1>a. jobs \in [Ids -> Row]
  BY DEF IInv, TypeOK, Row
<1>b. IInv'
  BY TaskStepKeeps
<1>c. jobs' \in [Ids -> Row]
  BY <1>b DEF IInv, TypeOK, Row
<1>d. \A j \in Ids \ {i} : jobs'[j] = jobs[j]
  BY <1>a DEF TaskStep, TaskBegins, TaskReads, Transcribed, Answered, Synthesized, Normalized,
              Stored, SpeechFails, Mute, TaskUnlinks, JobFails, Update
<1>e. ASSUME NEW from \in Working, JobFails(i, from)
      PROVE  /\ \/ jobs'[i].status = jobs[i].status
                \/ jobs[i].status \in Active /\ jobs'[i].status = "failed"
             /\ jobs[i].answer => jobs'[i].answer
             /\ jobs[i].status = StageOf(from)
  <2>1. task[i] = from /\ jobs[i].status \in Active /\ jobs[i] \in Row
        /\ jobs[i].status = StageOf(from)
    BY <1>e, WorkingIsActive DEF JobFails, TaskMoves
  <2>2. CASE Update(i, FailedRow(i))
    BY <1>a, <2>1, <2>2 DEF Update, FailedRow, Row
  <2>3. QED
    BY <1>e, <2>1, <2>2 DEF JobFails
<1> DEFINE Effect ==
       /\ \/ jobs'[i].status = jobs[i].status
          \/ jobs[i].status = "queued" /\ jobs'[i].status = "transcribing"
          \/ jobs[i].status = "transcribing" /\ jobs'[i].status = "asking_hermes"
          \/ jobs[i].status = "asking_hermes" /\ jobs'[i].status = "synthesizing"
          \/ jobs[i].status = "synthesizing" /\ jobs'[i].status = "completed"
          \/ /\ jobs[i].status \in Active /\ jobs'[i].status = "failed"
             /\ "io" \in trouble \/ jobs[i].status # "synthesizing"
       /\ jobs[i].answer => jobs'[i].answer
<1>f. task[i] \in Working => jobs[i] \in Row /\ jobs[i].status = StageOf(task[i])
  BY WorkingIsActive
<1>1. ASSUME TaskBegins(i) PROVE Effect
  <2>1. CASE JobFails(i, "start")
    BY <1>e, <2>1, Labels
  <2>2. CASE TaskMoves(i, "start", "read") /\ Update(i, [jobs[i] EXCEPT !.status = "transcribing"])
    BY <1>a, <1>f, <2>2, Labels DEF TaskMoves, Update, Row
  <2>3. QED
    BY <1>1, <2>1, <2>2 DEF TaskBegins
<1>2. ASSUME TaskReads(i) PROVE Effect
  BY <1>2, <1>e, Labels DEF TaskReads
<1>3. ASSUME Transcribed(i) PROVE Effect
  <2>1. CASE JobFails(i, "stt")
    BY <1>e, <2>1, Labels
  <2>2. CASE TaskMoves(i, "stt", "hermes") /\ Update(i, [jobs[i] EXCEPT !.status = "asking_hermes"])
    BY <1>a, <1>f, <2>2, Labels DEF TaskMoves, Update, Row
  <2>3. QED
    BY <1>3, <2>1, <2>2 DEF Transcribed
<1>4. ASSUME Answered(i) PROVE Effect
  <2>1. CASE JobFails(i, "hermes")
    BY <1>e, <2>1, Labels
  <2>2. CASE /\ TaskMoves(i, "hermes", "tts")
             /\ Update(i, [jobs[i] EXCEPT !.status = "synthesizing", !.answer = TRUE])
    BY <1>a, <1>f, <2>2, Labels DEF TaskMoves, Update, Row
  <2>3. QED
    BY <1>4, <2>1, <2>2 DEF Answered
<1>5. ASSUME Stored(i) PROVE Effect
  <2>1. CASE JobFails(i, "store") /\ "io" \in trouble
    BY <1>e, <2>1, Labels
  <2>2. CASE /\ TaskMoves(i, "store", "unlink")
             /\ Update(i, [jobs[i] EXCEPT !.status = "completed", !.tts = "ready",
                                          !.audio = FALSE, !.speech = TRUE])
    BY <1>a, <1>f, <2>2, Labels DEF TaskMoves, Update, Row
  <2>3. QED
    BY <1>5, <2>1, <2>2 DEF Stored
<1>6. ASSUME SpeechFails(i) PROVE Effect
  <2>1. PICK from \in {"tts", "normalize"} : Mute(i, from)
    BY <1>6 DEF SpeechFails
  <2>2. CASE JobFails(i, from) /\ "io" \in trouble
    BY <1>e, <2>2, Labels
  <2>3. CASE /\ TaskMoves(i, from, "unlink")
             /\ Update(i, [jobs[i] EXCEPT !.status = "completed", !.tts = "failed",
                                          !.audio = FALSE, !.speech = FALSE])
    BY <1>a, <1>f, <2>3, Labels DEF TaskMoves, Update, Row
  <2>4. QED
    BY <2>1, <2>2, <2>3 DEF Mute
<1>7. ASSUME Synthesized(i) \/ Normalized(i) \/ TaskUnlinks(i) PROVE Effect
  BY <1>7 DEF Synthesized, Normalized, TaskUnlinks
<1>8. Effect
  BY <1>1, <1>2, <1>3, <1>4, <1>5, <1>6, <1>7 DEF TaskStep
<1>9. QED
  BY <1>c, <1>d, <1>8

\* Steps that are not a task's change the status of no job, but for a creation
\* and a recovery, and keep all answers.
LEMMA OtherStepStatus ==
    ASSUME IInv, Next, ~\E i \in Ids : TaskStep(i)
    PROVE  \/ \A j \in Ids : /\ jobs'[j].status = jobs[j].status
                             /\ jobs'[j].answer = jobs[j].answer
           \/ \E i \in Ids : /\ jobs[i].status = "none" /\ jobs'[i].status = "queued"
                             /\ \A j \in Ids \ {i} : jobs'[j] = jobs[j]
           \/ /\ phase = "down"
              /\ \A j \in Ids :
                    /\ jobs'[j].status = IF jobs[j].status \in Active THEN "failed"
                                         ELSE jobs[j].status
                    /\ jobs'[j].answer = jobs[j].answer
<1>a. jobs \in [Ids -> Row]
  BY DEF IInv, TypeOK, Row
<1>1. CASE \E h \in Handlers : PostStep(h)
  <2>1. PICK h \in Handlers : PostStep(h)
    BY <1>1
  <2>2. CASE PostCreates(h)
    <3> DEFINE i == posted[h]
               row == [NoJob EXCEPT !.status = "queued", !.audio = TRUE]
    <3>1. i \in Ids
      BY <2>2 DEF PostCreates, PostMoves, PostEnds, IInv, TypeOK
    <3>2. row.status = "queued"
      BY NoJobRow DEF Row
    <3> HIDE DEF row
    <3>3. \/ UNCHANGED jobs
          \/ Created(i) /\ jobs' = [jobs EXCEPT ![i] = row]
      BY <2>2 DEF PostCreates, row
    <3>4. QED
      BY <1>a, <3>1, <3>2, <3>3 DEF Created
  <2>3. CASE UNCHANGED jobs
    BY <2>3
  <2>4. QED
    BY <2>1, <2>2, <2>3
    DEF PostStep, PostArrives, PostRejected, WriteBegins, WriteEnds, WriteFails, PostUnlinks
<1>2. CASE Recover
  <2> DEFINE found == {i \in Ids : jobs[i].status \in Interrupted}
             failedRow(i) == [FailedRow(i) EXCEPT !.speech = FALSE, !.old = FALSE]
  <2>1. phase = "down" /\ jobs' = [i \in Ids |-> IF i \in found THEN failedRow(i) ELSE jobs[i]]
    BY <1>2 DEF Recover
  <2>2. ASSUME NEW j \in Ids
        PROVE failedRow(j).status = "failed" /\ failedRow(j).answer = jobs[j].answer
    BY <1>a DEF FailedRow, Row
  <2>3. \A j \in Ids : j \in found <=> jobs[j].status \in Active
    BY DEF Interrupted
  <2> HIDE DEF found, failedRow
  <2>4. QED
    BY <2>1, <2>2, <2>3
<1>3. CASE Expire
  <2> DEFINE expired(j) == [jobs[j] EXCEPT !.tts = "expired", !.speech = FALSE]
  <2>1. jobs' = [j \in Ids |-> IF j \in Expired THEN expired(j) ELSE jobs[j]]
    BY <1>3 DEF Expire
  <2>2. ASSUME NEW j \in Ids
        PROVE expired(j).status = jobs[j].status /\ expired(j).answer = jobs[j].answer
    BY <1>a DEF Row
  <2> HIDE DEF expired
  <2>3. QED
    BY <2>1, <2>2
<1>4. ASSUME NEW i \in Ids, Ages(i)
      PROVE  \A j \in Ids : jobs'[j].status = jobs[j].status /\ jobs'[j].answer = jobs[j].answer
  <2>1. jobs' = [jobs EXCEPT ![i] = [jobs[i] EXCEPT !.old = TRUE]]
    BY <1>4, <1>a DEF Ages
  <2>2. QED
    BY <1>a, <2>1 DEF Row
<1>5. CASE \/ Crash \/ Shutdown \/ Stopped \/ Serve
           \/ \E i \in Ids : TaskCancelled(i) \/ ExpireUnlinks(i) \/ RecoverUnlinks(i)
  BY <1>5 DEF Crash, Shutdown, Stopped, Serve, TaskCancelled, ExpireUnlinks, RecoverUnlinks
<1>6. QED
  BY <1>1, <1>2, <1>3, <1>4, <1>5 DEF Next, Restarting

\* Without storage errors no step but a restart fails a job whose answer is
\* stored, and none takes the answer away.
THEOREM AnswersSurvive == Spec => AnswerSurvives
<1> DEFINE Survives == "io" \notin trouble =>
                          \A i \in Ids : jobs[i].answer /\ jobs[i].status # "failed"
                              => jobs'[i].answer /\ (jobs'[i].status = "failed" => phase = "down")
<1>1. ASSUME IInv, [Next]_vars PROVE Survives \/ UNCHANGED vars
  <2>1. ASSUME NEW i \in Ids, jobs[i].answer, jobs[i].status # "failed"
        PROVE  jobs[i].status \in {"synthesizing", "completed"}
    BY <1>1, <2>1 DEF IInv, StageInv, RowOK
  <2>2. "completed" \notin Active /\ "synthesizing" # "completed"
    BY DEF Active
  <2>3. ASSUME NEW j \in Ids, TaskStep(j) PROVE Survives
    BY <1>1, <2>1, <2>2, <2>3, TaskStepStatus
  <2>4. ASSUME Next, ~\E i \in Ids : TaskStep(i) PROVE Survives
    BY <1>1, <2>1, <2>4, OtherStepStatus
  <2>5. QED
    BY <1>1, <2>3, <2>4 DEF Next
<1>2. QED
  BY <1>1, Invariant, PTL DEF Spec, AnswerSurvives

-----------------------------------------------------------------------------
(* The bridge implements its contract.                                     *)

\* The status of every job as JobContract has it.
Status == [i \in Ids |-> jobs[i].status]

LEMMA StatusChange ==
    ASSUME NEW i \in Ids, \A j \in Ids \ {i} : jobs'[j].status = jobs[j].status
    PROVE  Status' = [Status EXCEPT ![i] = jobs'[i].status]
  BY DEF Status

\* Every step of the bridge is a step of the contract or leaves the statuses.
LEMMA ContractStep == IInv /\ [Next]_vars => [Contract!Next]_Status
<1> USE DEF Contract!Becomes, Contract!Stages, Contract!Active, Status
<1> SUFFICES ASSUME IInv, [Next]_vars PROVE [Contract!Next]_Status
  OBVIOUS
<1>1. ASSUME NEW i \in Ids, TaskStep(i) PROVE [Contract!Next]_Status
  <2> DEFINE old == jobs[i].status
             new == jobs'[i].status
  <2>1. Status' = [Status EXCEPT ![i] = new]
    BY <1>1, TaskStepStatus
  <2>2. CASE new = old
    BY <2>1, <2>2
  <2>3. CASE \/ old = "queued" /\ new = "transcribing"
             \/ old = "transcribing" /\ new = "asking_hermes"
             \/ old = "asking_hermes" /\ new = "synthesizing"
    <3>1. PICK n \in 1..3 : old = Contract!Stages[n] /\ new = Contract!Stages[n + 1]
      <4>1. /\ Contract!Stages[1] = "queued" /\ Contract!Stages[2] = "transcribing"
            /\ Contract!Stages[3] = "asking_hermes" /\ Contract!Stages[4] = "synthesizing"
        OBVIOUS
      <4>2. 1 + 1 = 2 /\ 2 + 1 = 3 /\ 3 + 1 = 4 /\ 1 \in 1..3 /\ 2 \in 1..3 /\ 3 \in 1..3
        OBVIOUS
      <4> HIDE DEF Contract!Stages
      <4>3. QED
        BY <2>3, <4>1, <4>2
    <3> HIDE DEF Contract!Stages
    <3>2. Status[i] = old
      OBVIOUS
    <3>3. Contract!Advance(i)
      BY <2>1, <3>1, <3>2 DEF Contract!Advance
    <3>4. QED
      BY <3>3 DEF Contract!Next
  <2>4. CASE old = "synthesizing" /\ new = "completed"
    <3>1. Contract!Complete(i)
      BY <2>1, <2>4 DEF Contract!Complete
    <3>2. QED
      BY <3>1 DEF Contract!Next
  <2>5. CASE old \in Active /\ new = "failed"
    <3>1. Contract!Fail(i)
      BY <2>1, <2>5 DEF Contract!Fail, Active
    <3>2. QED
      BY <3>1 DEF Contract!Next
  <2>6. QED
    BY <1>1, <2>2, <2>3, <2>4, <2>5, TaskStepStatus
<1>2. ASSUME Next, ~\E i \in Ids : TaskStep(i) PROVE [Contract!Next]_Status
  <2>1. CASE \A j \in Ids : jobs'[j].status = jobs[j].status
    BY <2>1
  <2>2. ASSUME NEW i \in Ids, jobs[i].status = "none", jobs'[i].status = "queued",
               \A j \in Ids \ {i} : jobs'[j] = jobs[j]
        PROVE  [Contract!Next]_Status
    <3>1. Contract!Accept(i)
      BY <2>2, StatusChange DEF Contract!Accept
    <3>2. QED
      BY <3>1 DEF Contract!Next
  <2>3. CASE \A j \in Ids : jobs'[j].status = IF jobs[j].status \in Active THEN "failed"
                                            ELSE jobs[j].status
    <3>1. Contract!Interrupt
      BY <2>3 DEF Contract!Interrupt, Active
    <3>2. QED
      BY <3>1 DEF Contract!Next
  <2>4. QED
    BY <1>2, <2>1, <2>2, <2>3, OtherStepStatus
<1>3. CASE UNCHANGED vars
  BY <1>3 DEF vars
<1>4. QED
  BY <1>1, <1>2, <1>3

\* The bridge implements JobContract: the status a device reads only moves
\* forward, and a final one is final, whatever fails and crashes.
THEOREM ImplementsContract == Spec => KeepsContract
<1>1. Init => Contract!Init
  BY NoJobRow DEF Init, Contract!Init
<1>2. IInv /\ [Next]_vars => [Contract!Next]_[i \in Ids |-> jobs[i].status]
  BY ContractStep DEF Status
<1>3. QED
  BY <1>1, <1>2, Invariant, PTL DEF Spec, KeepsContract, Contract!Spec

-----------------------------------------------------------------------------
(* No recording and no speech is left behind while nothing crashes.        *)

\* A task at work has the row that lets the next start find its recording, only
\* a recovery has paths to unlink, and before the first restart the bridge serves.
RecoveryInv ==
    /\ \A i \in Ids : task[i] \in Working => jobs[i].audio
    /\ phase # "recovering" => stale = {}
    /\ restarts = 0 => phase = "serving"

FileInv == RecoveryInv /\ FilesHaveOwners

\* The step of a task: it goes on with its work, has put the speech in place, has
\* ended its work, or has unlinked the recording.
GoesOn(i) ==
    /\ task[i] \in Working \ {"store"} /\ task'[i] \in Working
    /\ jobs'[i].audio = jobs[i].audio /\ UNCHANGED <<audio, speech>>

PutsSpeech(i) ==
    /\ task[i] \in Working /\ task'[i] = "store"
    /\ UNCHANGED <<jobs, audio>>

EndsWork(i) ==
    /\ task[i] \in Working /\ task'[i] = "unlink"
    /\ UNCHANGED audio
    /\ speech'[i] => speech[i]
    /\ "io" \notin trouble /\ task[i] = "store" => jobs'[i].speech

Unlinks(i) ==
    /\ task[i] \in {"unlink", "leave"} /\ task'[i] = "none"
    /\ UNCHANGED <<jobs, speech>>
    /\ "io" \notin trouble => audio'[i] = "absent"

LEMMA TaskStepFiles ==
    ASSUME IInv, NEW i \in Ids, TaskStep(i)
    PROVE  /\ UNCHANGED <<processVars, postVars, doomed>>
           /\ \A j \in Ids \ {i} : /\ jobs'[j] = jobs[j] /\ task'[j] = task[j]
                                   /\ audio'[j] = audio[j] /\ speech'[j] = speech[j]
           /\ GoesOn(i) \/ PutsSpeech(i) \/ EndsWork(i) \/ Unlinks(i)
<1> DEFINE Kinds == GoesOn(i) \/ PutsSpeech(i) \/ EndsWork(i) \/ Unlinks(i)
<1>a. /\ jobs \in [Ids -> Row] /\ speech \in [Ids -> BOOLEAN] /\ task \in [Ids -> TaskLabels]
      /\ audio \in [Ids -> {"absent", "partial", "whole"}] /\ jobs[i] \in Row
  BY DEF IInv, TypeOK, Row
<1>b. UNCHANGED <<processVars, postVars, doomed>>
  BY DEF TaskStep, TaskBegins, TaskReads, Transcribed, Answered, Synthesized, Normalized, Stored,
         SpeechFails, Mute, TaskUnlinks, TaskOnly
<1>c. \A j \in Ids \ {i} : /\ jobs'[j] = jobs[j] /\ task'[j] = task[j]
                           /\ audio'[j] = audio[j] /\ speech'[j] = speech[j]
  <2>1. \A j \in Ids \ {i} : jobs'[j] = jobs[j]
    BY TaskStepStatus
  <2>2. \A j \in Ids \ {i} : audio'[j] = audio[j] /\ speech'[j] = speech[j]
    BY <1>a DEF TaskStep, TaskBegins, TaskReads, Transcribed, Answered, Synthesized, Normalized,
                Stored, SpeechFails, Mute, TaskUnlinks, TaskOnly, fileVars, SpeechUnlinked,
                AudioUnlinked, AudioBecomes
  <2>3. \A j \in Ids \ {i} : task'[j] = task[j]
    BY <1>a DEF TaskStep, TaskBegins, TaskReads, Transcribed, Answered, Synthesized, Normalized,
                Stored, SpeechFails, Mute, TaskUnlinks, TaskMoves, JobFails
  <2>4. QED
    BY <2>1, <2>2, <2>3
<1>d. ASSUME NEW from \in Working, JobFails(i, from), UNCHANGED audio, speech'[i] => speech[i],
             from # "store" \/ "io" \in trouble
      PROVE  EndsWork(i)
  BY <1>a, <1>d DEF JobFails, TaskMoves, EndsWork
<1>e. ASSUME NEW from \in Working \ {"store"}, NEW to \in Working, TaskMoves(i, from, to),
             jobs'[i].audio = jobs[i].audio, UNCHANGED <<audio, speech>>
      PROVE  GoesOn(i)
  BY <1>a, <1>e DEF TaskMoves, GoesOn
<1>1. ASSUME TaskBegins(i) PROVE Kinds
  <2>1. UNCHANGED <<audio, speech>>
    BY <1>1 DEF TaskBegins, TaskOnly, fileVars
  <2>2. CASE TaskMoves(i, "start", "read") /\ Update(i, [jobs[i] EXCEPT !.status = "transcribing"])
    <3>1. jobs'[i].audio = jobs[i].audio
      BY <1>a, <2>2 DEF Update, Row
    <3>2. QED
      BY <1>e, <2>1, <2>2, <3>1, Labels
  <2>3. CASE JobFails(i, "start")
    BY <1>d, <2>1, <2>3, Labels
  <2>4. QED
    BY <1>1, <2>2, <2>3 DEF TaskBegins
<1>2. ASSUME TaskReads(i) PROVE Kinds
  <2>1. UNCHANGED <<audio, speech>>
    BY <1>2 DEF TaskReads, TaskOnly, fileVars
  <2>2. CASE TaskMoves(i, "read", "stt") /\ UNCHANGED jobs
    BY <1>e, <2>1, <2>2, Labels
  <2>3. CASE JobFails(i, "read")
    BY <1>d, <2>1, <2>3, Labels
  <2>4. QED
    BY <1>2, <2>2, <2>3 DEF TaskReads
<1>3. ASSUME Transcribed(i) PROVE Kinds
  <2>1. UNCHANGED <<audio, speech>>
    BY <1>3 DEF Transcribed, TaskOnly, fileVars
  <2>2. CASE TaskMoves(i, "stt", "hermes") /\ Update(i, [jobs[i] EXCEPT !.status = "asking_hermes"])
    <3>1. jobs'[i].audio = jobs[i].audio
      BY <1>a, <2>2 DEF Update, Row
    <3>2. QED
      BY <1>e, <2>1, <2>2, <3>1, Labels
  <2>3. CASE JobFails(i, "stt")
    BY <1>d, <2>1, <2>3, Labels
  <2>4. QED
    BY <1>3, <2>2, <2>3 DEF Transcribed
<1>4. ASSUME Answered(i) PROVE Kinds
  <2>1. UNCHANGED <<audio, speech>>
    BY <1>4 DEF Answered, TaskOnly, fileVars
  <2>2. CASE /\ TaskMoves(i, "hermes", "tts")
             /\ Update(i, [jobs[i] EXCEPT !.status = "synthesizing", !.answer = TRUE])
    <3>1. jobs'[i].audio = jobs[i].audio
      BY <1>a, <2>2 DEF Update, Row
    <3>2. QED
      BY <1>e, <2>1, <2>2, <3>1, Labels
  <2>3. CASE JobFails(i, "hermes")
    BY <1>d, <2>1, <2>3, Labels
  <2>4. CASE TaskMoves(i, "hermes", "unlink")
    BY <1>a, <2>1, <2>4, Labels DEF TaskMoves, EndsWork
  <2>5. QED
    BY <1>4, <2>2, <2>3, <2>4 DEF Answered
<1>5. ASSUME Synthesized(i) PROVE Kinds
  BY <1>5, <1>e, Labels DEF Synthesized, TaskOnly, fileVars
<1>6. ASSUME Normalized(i) PROVE Kinds
  BY <1>6, <1>a, Labels DEF Normalized, TaskMoves, PutsSpeech
<1>7. ASSUME Stored(i) PROVE Kinds
  <2>1. UNCHANGED <<audio, speech>>
    BY <1>7 DEF Stored, TaskOnly, fileVars
  <2>2. CASE /\ TaskMoves(i, "store", "unlink")
             /\ Update(i, [jobs[i] EXCEPT !.status = "completed", !.tts = "ready",
                                          !.audio = FALSE, !.speech = TRUE])
    <3>1. jobs'[i].speech
      BY <1>a, <2>2 DEF Update, Row
    <3>2. QED
      BY <1>a, <2>1, <2>2, <3>1, Labels DEF TaskMoves, EndsWork
  <2>3. CASE "io" \in trouble /\ JobFails(i, "store")
    BY <1>d, <2>1, <2>3, Labels
  <2>4. QED
    BY <1>7, <2>2, <2>3 DEF Stored
<1>8. ASSUME SpeechFails(i) PROVE Kinds
  <2>1. PICK from \in {"tts", "normalize"} : Mute(i, from)
    BY <1>8 DEF SpeechFails
  <2>2. UNCHANGED audio /\ (speech'[i] => speech[i])
    BY <1>a, <2>1 DEF Mute, SpeechUnlinked
  <2>3. CASE TaskMoves(i, from, "unlink")
    BY <1>a, <2>2, <2>3, Labels DEF TaskMoves, EndsWork
  <2>4. CASE JobFails(i, from)
    BY <1>d, <2>2, <2>4, Labels
  <2>5. QED
    BY <2>1, <2>3, <2>4 DEF Mute
<1>9. ASSUME TaskUnlinks(i) PROVE Kinds
  BY <1>9, <1>a DEF TaskUnlinks, TaskMoves, AudioUnlinked, AudioBecomes, Unlinks
<1>10. Kinds
  BY <1>1, <1>2, <1>3, <1>4, <1>5, <1>6, <1>7, <1>8, <1>9 DEF TaskStep
<1> HIDE DEF Kinds
<1>11. QED
  BY <1>b, <1>c, <1>10 DEF Kinds

LEMMA TaskStepOwns ==
    ASSUME IInv, FileInv, NEW i \in Ids, TaskStep(i)
    PROVE  FileInv'
<1>1. /\ UNCHANGED <<processVars, postVars, doomed>>
      /\ \A j \in Ids \ {i} : /\ jobs'[j] = jobs[j] /\ task'[j] = task[j]
                              /\ audio'[j] = audio[j] /\ speech'[j] = speech[j]
      /\ GoesOn(i) \/ PutsSpeech(i) \/ EndsWork(i) \/ Unlinks(i)
  BY TaskStepFiles
<1>2. \A label \in Working : label \notin {"none", "unlink", "leave"}
  BY DEF Working
<1>3. task[i] \in Working => ~jobs[i].speech /\ i \notin doomed
  BY WorkingIsActive DEF RowOK
<1>4. RecoveryInv'
  BY <1>1, <1>2 DEF FileInv, RecoveryInv, GoesOn, PutsSpeech, EndsWork, Unlinks, processVars
<1>5. AudioHasOwner'
  <2>1. "io" \notin trouble /\ task'[i] = "none" => audio'[i] = "absent"
    BY <1>1, <1>2 DEF GoesOn, PutsSpeech, EndsWork, Unlinks
  <2>2. QED
    BY <1>1, <2>1 DEF FileInv, FilesHaveOwners, AudioHasOwner, processVars, postVars
<1>6. SpeechHasOwner'
  <2>1. ASSUME restarts = 0, "io" \notin trouble, speech'[i]
        PROVE  jobs'[i].speech \/ task'[i] = "store" \/ i \in doomed
    BY <1>1, <1>3, <2>1
    DEF FileInv, FilesHaveOwners, SpeechHasOwner, GoesOn, PutsSpeech, EndsWork, Unlinks
  <2>2. QED
    BY <1>1, <2>1 DEF FileInv, FilesHaveOwners, SpeechHasOwner, processVars
<1>7. QED
  BY <1>4, <1>5, <1>6 DEF FileInv, FilesHaveOwners

\* A handler is the owner of the file it writes, until it hands it to a task or
\* unlinks it.
LEMMA PostStepOwns ==
    ASSUME IInv, FileInv, NEW h \in Handlers, PostStep(h)
    PROVE  FileInv'
<1> DEFINE Uses(g, i) == posted[g] = i /\ post[g] \in {"writing", "written", "unlink"}
<1>a. /\ jobs \in [Ids -> Row] /\ task \in [Ids -> TaskLabels]
      /\ audio \in [Ids -> {"absent", "partial", "whole"}]
      /\ post \in [Handlers -> {"idle", "body", "writing", "written", "unlink"}]
      /\ posted \in [Handlers -> Ids \cup {NoId}]
      /\ post[h] # "idle" => posted[h] \in Ids
  BY DEF IInv, TypeOK, Row
<1>b. UNCHANGED <<processVars, speech, doomed>>
  BY DEF PostStep, PostArrives, PostRejected, WriteBegins, WriteEnds, WriteFails, PostCreates,
         PostUnlinks, fileVars
<1>1. CASE \/ \E i \in Ids : PostArrives(h, i)
           \/ PostRejected(h) \/ WriteBegins(h) \/ WriteEnds(h) \/ WriteFails(h)
           \/ PostUnlinks(h)
  <2>1. UNCHANGED <<jobs, task>>
    BY <1>1 DEF PostArrives, PostRejected, WriteBegins, WriteEnds, WriteFails, PostUnlinks
  <2>2. "io" \notin trouble =>
           \A i \in Ids : audio'[i] # "absent" =>
              \/ \E g \in Handlers : Uses(g, i)'
              \/ audio[i] # "absent" /\ ~\E g \in Handlers : Uses(g, i)
    <3>1. \A g \in Handlers \ {h} : post'[g] = post[g] /\ posted'[g] = posted[g]
      BY <1>1, <1>a DEF PostArrives, PostRejected, WriteBegins, WriteEnds, WriteFails, PostUnlinks,
                        PostMoves, PostEnds
    <3>2. \A i \in Ids, g \in Handlers \ {h} : Uses(g, i) => Uses(g, i)'
      BY <3>1
    <3>3. CASE (\E i \in Ids : PostArrives(h, i)) \/ PostRejected(h)
      <4>1. UNCHANGED audio /\ post[h] \in {"idle", "body"}
        BY <3>3 DEF PostArrives, PostRejected, PostMoves, PostEnds, fileVars
      <4>2. \A i \in Ids : ~Uses(h, i)
        BY <4>1
      <4>3. QED
        BY <3>2, <4>1, <4>2
    <3>4. CASE WriteBegins(h) \/ WriteEnds(h)
      <4>1. /\ Uses(h, posted[h])' /\ posted'[h] = posted[h] /\ posted[h] \in Ids
            /\ \A i \in Ids \ {posted[h]} : audio'[i] = audio[i]
        BY <3>4, <1>a DEF WriteBegins, WriteEnds, PostMoves, AudioBecomes
      <4>2. \A i \in Ids \ {posted[h]} : ~Uses(h, i)
        OBVIOUS
      <4>3. QED
        BY <3>2, <4>1, <4>2
    <3>5. CASE WriteFails(h)
      BY <3>5 DEF WriteFails
    <3>6. CASE PostUnlinks(h)
      <4>1. /\ posted[h] \in Ids /\ \A i \in Ids \ {posted[h]} : audio'[i] = audio[i]
            /\ "io" \notin trouble => audio'[posted[h]] = "absent"
        BY <3>6, <1>a DEF PostUnlinks, PostMoves, PostEnds, AudioUnlinked, AudioBecomes
      <4>2. \A i \in Ids \ {posted[h]} : ~Uses(h, i)
        OBVIOUS
      <4>3. QED
        BY <3>2, <4>1, <4>2
    <3>7. QED
      BY <1>1, <3>3, <3>4, <3>5, <3>6
  <2>3. AudioHasOwner'
    BY <1>b, <2>1, <2>2 DEF FileInv, FilesHaveOwners, AudioHasOwner, processVars
  <2>4. SpeechHasOwner' /\ RecoveryInv'
    BY <1>b, <2>1 DEF FileInv, FilesHaveOwners, SpeechHasOwner, RecoveryInv, processVars
  <2>5. QED
    BY <2>3, <2>4 DEF FileInv, FilesHaveOwners
<1>2. CASE PostCreates(h)
  <2> DEFINE n == posted[h]
             row == [NoJob EXCEPT !.status = "queued", !.audio = TRUE]
  <2>1. n \in Ids /\ UNCHANGED audio
    BY <1>2, <1>a DEF PostCreates, PostMoves, PostEnds, fileVars
  <2>2. row.audio /\ "start" # "none"
    BY NoJobRow DEF Row
  <2>3. jobs[n].status = "none" => ~jobs[n].speech /\ task[n] # "store"
    <3>1. "none" \notin Active
      BY DEF Active
    <3>2. QED
      BY <2>1, <3>1, Labels, WorkingIsActive DEF IInv, StageInv, RowOK
  <2> HIDE DEF row
  <2>4. CASE /\ PostEnds(h, "written") /\ Created(n)
             /\ jobs' = [jobs EXCEPT ![n] = row] /\ task' = [task EXCEPT ![n] = "start"]
    <3>1. \A i \in Ids : /\ jobs'[i] = IF i = n THEN row ELSE jobs[i]
                         /\ task'[i] = IF i = n THEN "start" ELSE task[i]
      BY <1>a, <2>4
    <3>2. \A g \in Handlers \ {h} : post'[g] = post[g] /\ posted'[g] = posted[g]
      BY <1>a, <2>4 DEF PostEnds, PostMoves
    <3>3. \A i \in Ids \ {n} : ~Uses(h, i)
      OBVIOUS
    <3>4. AudioHasOwner'
      <4>1. SUFFICES ASSUME ~crashed, "io" \notin trouble, NEW i \in Ids, i # n,
                            audio[i] # "absent"
                     PROVE  \/ \E g \in Handlers : Uses(g, i)'
                            \/ task[i] # "none" \/ i \in stale
                            \/ phase \in {"stopping", "down"} /\ jobs[i].status \in Active
                               /\ jobs[i].audio
                            \/ i \in abandoned /\ ~jobs[i].audio
        BY <1>b, <2>1, <2>2, <3>1 DEF AudioHasOwner, processVars
      <4>2. CASE \E g \in Handlers : Uses(g, i)
        BY <3>2, <3>3, <4>1, <4>2
      <4>3. QED
        BY <4>1, <4>2 DEF FileInv, FilesHaveOwners, AudioHasOwner
    <3>5. SpeechHasOwner' /\ RecoveryInv'
      BY <1>b, <2>2, <2>3, <2>4, <3>1
      DEF FileInv, FilesHaveOwners, SpeechHasOwner, RecoveryInv, Created, processVars
    <3>6. QED
      BY <3>4, <3>5 DEF FileInv, FilesHaveOwners
  <2>5. CASE /\ UNCHANGED <<jobs, task>>
             /\ \/ PostMoves(h, "written", "unlink") /\ UNCHANGED posted
                \/ "io" \in trouble
    <3>1. "io" \notin trouble => \A i \in Ids, g \in Handlers : Uses(g, i) => Uses(g, i)'
      BY <1>a, <2>5 DEF PostMoves
    <3>2. AudioHasOwner'
      BY <1>b, <2>1, <2>5, <3>1 DEF FileInv, FilesHaveOwners, AudioHasOwner, processVars
    <3>3. SpeechHasOwner' /\ RecoveryInv'
      BY <1>b, <2>5 DEF FileInv, FilesHaveOwners, SpeechHasOwner, RecoveryInv, processVars
    <3>4. QED
      BY <3>2, <3>3 DEF FileInv, FilesHaveOwners
  <2>6. QED
    BY <1>2, <2>4, <2>5 DEF PostCreates, row
<1>3. QED
  BY <1>1, <1>2 DEF PostStep

\* Expiry, and the end and start of the process
LEMMA OtherStepOwns ==
    ASSUME IInv, FileInv, Next, ~\E i \in Ids : TaskStep(i), ~\E h \in Handlers : PostStep(h)
    PROVE  FileInv'
<1> USE DEF FileInv, FilesHaveOwners
<1>a. /\ jobs \in [Ids -> Row] /\ task \in [Ids -> TaskLabels] /\ speech \in [Ids -> BOOLEAN]
      /\ audio \in [Ids -> {"absent", "partial", "whole"}]
      /\ \A j \in Ids : jobs[j] \in Row /\ RowOK(jobs[j])
      /\ restarts \in Nat
  BY RowsHaveType, ConstantsAssumption DEF IInv, TypeOK, StageInv, Row
<1>b. phase # "serving" => restarts # 0
  BY DEF RecoveryInv
<1>c. "none" \notin Working /\ "unlink" \notin Working /\ "leave" \notin Working
  BY DEF Working
<1>1. ASSUME NEW i \in Ids, Ages(i) PROVE FileInv'
  <2>1. jobs' = [jobs EXCEPT ![i] = [jobs[i] EXCEPT !.old = TRUE]]
    BY <1>1, <1>a DEF Ages
  <2>2. \A j \in Ids : /\ jobs'[j].status = jobs[j].status /\ jobs'[j].audio = jobs[j].audio
                       /\ jobs'[j].speech = jobs[j].speech
    BY <1>a, <2>1 DEF Row
  <2>3. UNCHANGED <<processVars, fileVars, postVars, task, doomed>>
    BY <1>1 DEF Ages
  <2>4. QED
    BY <2>2, <2>3 DEF RecoveryInv, AudioHasOwner, SpeechHasOwner, processVars, fileVars, postVars
<1>2. CASE Expire
  <2> DEFINE expired(j) == [jobs[j] EXCEPT !.tts = "expired", !.speech = FALSE]
  <2>1. UNCHANGED <<processVars, fileVars, postVars, task>> /\ doomed' = doomed \cup Expired
    BY <1>2 DEF Expire
  <2>2. jobs' = [j \in Ids |-> IF j \in Expired THEN expired(j) ELSE jobs[j]]
    BY <1>2 DEF Expire
  <2>3. \A j \in Ids : expired(j).status = jobs[j].status /\ expired(j).audio = jobs[j].audio
    BY <1>a DEF Row
  <2> HIDE DEF expired
  <2>4. \A j \in Ids : /\ jobs'[j].status = jobs[j].status /\ jobs'[j].audio = jobs[j].audio
                       /\ jobs'[j].speech = jobs[j].speech \/ j \in doomed'
    BY <2>1, <2>2, <2>3
  <2>5. QED
    BY <2>1, <2>4 DEF RecoveryInv, AudioHasOwner, SpeechHasOwner, processVars, fileVars, postVars
<1>3. ASSUME NEW i \in Ids, ExpireUnlinks(i) PROVE FileInv'
  <2>1. /\ UNCHANGED <<processVars, jobs, audio, postVars, task>>
        /\ doomed' = doomed \ {i} /\ \A j \in Ids \ {i} : speech'[j] = speech[j]
        /\ "io" \notin trouble => ~speech'[i]
    BY <1>3, <1>a DEF ExpireUnlinks, SpeechUnlinked
  <2>2. QED
    BY <2>1 DEF RecoveryInv, AudioHasOwner, SpeechHasOwner, processVars, postVars
<1>4. CASE Crash
  <2>1. restarts' # 0 /\ crashed' /\ stale' = {} /\ UNCHANGED jobs
        /\ \A j \in Ids : task'[j] = "none"
    BY <1>4, <1>a DEF Crash, Ends
  <2>2. QED
    BY <1>c, <2>1 DEF RecoveryInv, AudioHasOwner, SpeechHasOwner
<1>5. CASE Shutdown
  <2>1. restarts' # 0 /\ phase = "serving" /\ phase' = "stopping"
        /\ UNCHANGED <<stale, crashed, abandoned, trouble, jobs, fileVars, postVars, task, doomed>>
    BY <1>5, <1>a DEF Shutdown, Ends
  <2>2. QED
    BY <2>1 DEF RecoveryInv, AudioHasOwner, SpeechHasOwner, fileVars, postVars
<1>6. ASSUME NEW i \in Ids, TaskCancelled(i) PROVE FileInv'
  <2>1. /\ UNCHANGED <<phase, stale, restarts, crashed, trouble, jobs, postVars, doomed>>
        /\ phase = "stopping" /\ abandoned \subseteq abandoned'
    BY <1>6 DEF TaskCancelled, UnlinkCancelled
  <2>2. /\ \A j \in Ids \ {i} : task'[j] = task[j] /\ audio'[j] = audio[j]
        /\ task'[i] \in {"none", "leave"}
    BY <1>6, <1>a DEF TaskCancelled, UnlinkCancelled, TaskMoves, AudioUnlinked, AudioBecomes
  <2>3. RecoveryInv'
    BY <1>c, <2>1, <2>2 DEF RecoveryInv
  <2>4. "io" \notin trouble /\ task'[i] = "none" /\ audio'[i] # "absent"
           => \/ jobs[i].status \in Active /\ jobs[i].audio
              \/ i \in abandoned' /\ ~jobs[i].audio
    <3>1. CASE task[i] = "start"
      BY <1>6, <3>1, Labels, WorkingIsActive DEF RecoveryInv
    <3>2. CASE UnlinkCancelled(i)
      BY <1>a, <3>2 DEF UnlinkCancelled, AudioUnlinked, AudioBecomes, RowOK
    <3>3. QED
      BY <1>6, <1>a, <3>1, <3>2 DEF TaskCancelled, TaskMoves
  <2>5. AudioHasOwner'
    BY <2>1, <2>2, <2>4 DEF AudioHasOwner, postVars
  <2>6. SpeechHasOwner'
    BY <1>b, <2>1 DEF SpeechHasOwner
  <2>7. QED
    BY <2>3, <2>5, <2>6
<1>7. CASE Stopped
  <2>1. /\ phase = "stopping" /\ phase' = "down" /\ \A j \in Ids : task[j] = "none"
        /\ UNCHANGED <<stale, restarts, crashed, abandoned, trouble, jobs, fileVars, postVars, task, doomed>>
    BY <1>7 DEF Stopped
  <2>2. QED
    BY <1>b, <2>1 DEF RecoveryInv, AudioHasOwner, SpeechHasOwner, fileVars, postVars
<1>8. CASE Recover
  <2> DEFINE found == {i \in Ids : jobs[i].status \in Interrupted}
  <2>1. /\ phase = "down" /\ phase' = "recovering" /\ stale' = {i \in found : jobs[i].audio}
        /\ UNCHANGED <<restarts, crashed, abandoned, trouble, fileVars, postVars, task, doomed>>
    BY <1>8 DEF Recover
  <2>2. stale = {} /\ \A j \in Ids : task[j] = "none"
    BY <2>1 DEF RecoveryInv, IInv, StageInv, Running
  <2>3. RecoveryInv'
    BY <1>b, <1>c, <2>1, <2>2 DEF RecoveryInv
  <2>4. \A j \in Ids : ~jobs[j].audio => ~jobs'[j].audio
    BY <1>8, <1>a DEF Recover, FailedRow, Row
  <2>5. AudioHasOwner'
    BY <2>1, <2>2, <2>4 DEF AudioHasOwner, Interrupted, fileVars, postVars
  <2>6. SpeechHasOwner'
    BY <1>b, <2>1 DEF SpeechHasOwner
  <2>7. QED
    BY <2>3, <2>5, <2>6
<1>9. ASSUME NEW i \in Ids, RecoverUnlinks(i) PROVE FileInv'
  <2>1. /\ phase = "recovering" /\ stale' = stale \ {i}
        /\ audio'[i] = "absent" /\ \A j \in Ids \ {i} : audio'[j] = audio[j]
        /\ UNCHANGED <<phase, restarts, crashed, abandoned, trouble, jobs, speech, postVars, task, doomed>>
    BY <1>9, <1>a DEF RecoverUnlinks, AudioBecomes
  <2>2. QED
    BY <2>1 DEF RecoveryInv, AudioHasOwner, SpeechHasOwner, postVars
<1>10. CASE Serve
  <2>1. /\ phase = "recovering" /\ stale = {} /\ phase' = "serving"
        /\ UNCHANGED <<stale, restarts, crashed, abandoned, trouble, jobs, fileVars, postVars, task, doomed>>
    BY <1>10 DEF Serve
  <2>2. QED
    BY <2>1 DEF RecoveryInv, AudioHasOwner, SpeechHasOwner, fileVars, postVars
<1> HIDE DEF FileInv, FilesHaveOwners
<1>11. QED
  BY <1>1, <1>2, <1>3, <1>4, <1>5, <1>6, <1>7, <1>8, <1>9, <1>10 DEF Next, Restarting

\* While nothing crashes and the storage works, across any number of orderly
\* restarts, no recording is left without a request, a task or a recovery that
\* will unlink it, but one whose unlink a shutdown cancelled after its row had
\* let the path go; no speech without its row or its expiry, until the first
\* restart.
THEOREM FilesAreOwned == Spec => []FilesHaveOwners
<1>1. Init => FileInv
  <2>1. SUFFICES ASSUME Init PROVE FileInv
    OBVIOUS
  <2>2. "none" \notin Working
    BY DEF Working
  <2>3. QED
    BY <2>1, <2>2 DEF Init, FileInv, RecoveryInv, FilesHaveOwners, AudioHasOwner, SpeechHasOwner
<1>2. IInv /\ FileInv /\ [Next]_vars => FileInv'
  <2>1. SUFFICES ASSUME IInv, FileInv, [Next]_vars PROVE FileInv'
    OBVIOUS
  <2>2. CASE UNCHANGED vars
    BY <2>1, <2>2 DEF vars, processVars, fileVars, postVars, FileInv, RecoveryInv,
                      FilesHaveOwners, AudioHasOwner, SpeechHasOwner
  <2>3. CASE Next
    BY <2>1, <2>3, TaskStepOwns, PostStepOwns, OtherStepOwns
  <2>4. QED
    BY <2>1, <2>2, <2>3
<1>3. FileInv => FilesHaveOwners
  BY DEF FileInv
<1>4. QED
  BY <1>1, <1>2, <1>3, Invariant, PTL DEF Spec

=============================================================================
