---------------------------- MODULE VoiceBridge ----------------------------
(***************************************************************************)
(* The bridge server, server/voice_bridge: POST handlers, one processing   *)
(* task per job, the clean-up of expired speech, and the database and the  *)
(* audio and speech files that outlive the process.                        *)
(*                                                                         *)
(* The process is one asyncio event loop with worker threads.  A step runs *)
(* from one await to the next; a file operation given to a thread is a     *)
(* step of its own, and a written file can be found half written.  The     *)
(* process may crash at any moment, or be shut down, and starts again.     *)
(*                                                                         *)
(* A request id stands for the paths derived from it, for one device.      *)
(***************************************************************************)
EXTENDS Naturals

CONSTANTS
    Ids,            \* X-Request-Id values
    NoId,
    Handlers,       \* POST requests that may be in flight together
    MaxRestarts,    \* bound on crashes and shutdowns
    Troubles        \* what may go wrong: "io", SQLite and file writes fail;
                    \* "reply", Hermes answers with null content

ASSUME ConstantsAssumption ==
    /\ NoId \notin Ids
    /\ MaxRestarts \in Nat
    /\ Troubles \subseteq {"io", "reply"}

VARIABLES
    phase,      \* of the process: down, recovering, serving, stopping
    stale,      \* paths that recover_interrupted returned, not yet unlinked
    jobs,       \* the jobs table
    audio,      \* audio_dir: absent, partial or whole
    speech,     \* speech_dir: the normalized files
    post, posted,   \* control of each POST handler, and its request id
    task,       \* control of the processing task of each job
    doomed,     \* expired speech files, not yet unlinked
    restarts, crashed,  \* history: how often the process ended, and crashed
    abandoned,  \* history: recordings whose unlink a shutdown has cancelled
    trouble     \* what goes wrong in this behaviour

processVars == <<phase, stale, restarts, crashed, abandoned, trouble>>
fileVars == <<audio, speech>>
postVars == <<post, posted>>
vars == <<processVars, jobs, fileVars, postVars, task, doomed>>

\* The statuses of models.py
Active == {"queued", "transcribing", "asking_hermes", "synthesizing"}
Final == {"completed", "failed"}

\* A row; audio and speech say whether the paths are set, old whether
\* updated_at lies before the retention cutoff.
NoJob == [status |-> "none", tts |-> "pending", answer |-> FALSE,
          audio |-> FALSE, speech |-> FALSE, old |-> FALSE]

Init ==
    /\ phase = "serving" /\ stale = {} /\ restarts = 0 /\ crashed = FALSE /\ abandoned = {}
    /\ trouble \in SUBSET Troubles
    /\ jobs = [i \in Ids |-> NoJob]
    /\ audio = [i \in Ids |-> "absent"] /\ speech = [i \in Ids |-> FALSE]
    /\ post = [h \in Handlers |-> "idle"] /\ posted = [h \in Handlers |-> NoId]
    /\ task = [i \in Ids |-> "none"]
    /\ doomed = {}

Running == phase \in {"serving", "stopping"}

-----------------------------------------------------------------------------
(* create_voice_job                                                        *)

\* Mutants: a finished job is created anew; a duplicate keeps its file.
CreatedAgain(i) == jobs[i].status \notin Active

DuplicateStays(h) ==
    /\ Running /\ post[h] = "unlink"
    /\ post' = [post EXCEPT ![h] = "idle"] /\ posted' = [posted EXCEPT ![h] = NoId]
    /\ UNCHANGED <<processVars, jobs, fileVars, task, doomed>>

PostMoves(h, from, to) == Running /\ post[h] = from /\ post' = [post EXCEPT ![h] = to]

AudioBecomes(i, new) == audio' = [audio EXCEPT ![i] = new]

\* unlink; an error of its own is logged, or ends the request.
AudioUnlinked(i) ==
    \/ AudioBecomes(i, "absent")
    \/ "io" \in trouble /\ UNCHANGED audio

SpeechUnlinked(i) ==
    \/ speech' = [speech EXCEPT ![i] = FALSE]
    \/ "io" \in trouble /\ UNCHANGED speech

\* The handler looks for the job and, finding none, awaits the body.  A known
\* id is answered with 200 and its status at once.
PostArrives(h, i) ==
    /\ phase = "serving" /\ jobs[i].status = "none"
    /\ PostMoves(h, "idle", "body")
    /\ posted' = [posted EXCEPT ![h] = i]
    /\ UNCHANGED <<processVars, jobs, fileVars, task, doomed>>

PostEnds(h, from) == PostMoves(h, from, "idle") /\ posted' = [posted EXCEPT ![h] = NoId]

\* The body does not arrive, is too large or is no acceptable WAV.
PostRejected(h) ==
    /\ PostEnds(h, "body")
    /\ UNCHANGED <<processVars, jobs, fileVars, task, doomed>>

\* write_bytes, in a thread: the file is truncated, then filled.
WriteBegins(h) ==
    /\ PostMoves(h, "body", "writing")
    /\ AudioBecomes(posted[h], "partial")
    /\ UNCHANGED <<processVars, jobs, speech, posted, task, doomed>>

\* A file that was unlinked meanwhile stays so, and one that another handler
\* has truncated meanwhile may still have a hole.
Written(h) ==
    LET others == {g \in Handlers \ {h} : post[g] = "writing" /\ posted[g] = posted[h]}
    IN  IF audio[posted[h]] = "absent" THEN {"absent"}
        ELSE IF others = {} THEN {"whole"} ELSE {"whole", "partial"}

WriteEnds(h) ==
    /\ PostMoves(h, "writing", "written")
    /\ \E left \in Written(h) : AudioBecomes(posted[h], left)
    /\ UNCHANGED <<processVars, jobs, speech, posted, task, doomed>>

WriteFails(h) ==
    /\ "io" \in trouble
    /\ PostEnds(h, "writing")
    /\ UNCHANGED <<processVars, jobs, fileVars, task, doomed>>

\* create_job: INSERT OR IGNORE tells whether this handler created the job,
\* and starts its task, or has to unlink the file it wrote.
Created(i) == jobs[i].status = "none"

PostCreates(h) ==
    LET i == posted[h] IN
    /\ \/ /\ PostEnds(h, "written")
          /\ Created(i)
          /\ jobs' = [jobs EXCEPT ![i] = [NoJob EXCEPT !.status = "queued", !.audio = TRUE]]
          /\ task' = [task EXCEPT ![i] = "start"]
       \/ /\ PostMoves(h, "written", "unlink")
          /\ ~Created(i)
          /\ UNCHANGED <<posted, jobs, task>>
       \/ /\ PostEnds(h, "written")
          /\ "io" \in trouble
          /\ UNCHANGED <<jobs, task>>
    /\ UNCHANGED <<processVars, fileVars, doomed>>

PostUnlinks(h) ==
    /\ PostEnds(h, "unlink")
    /\ AudioUnlinked(posted[h])
    /\ UNCHANGED <<processVars, jobs, speech, task, doomed>>

PostStep(h) ==
    \/ \E i \in Ids : PostArrives(h, i)
    \/ PostRejected(h) \/ WriteBegins(h) \/ WriteEnds(h) \/ WriteFails(h)
    \/ PostCreates(h) \/ PostUnlinks(h)

-----------------------------------------------------------------------------
(* VoiceService._process                                                   *)

TaskMoves(i, from, to) == Running /\ task[i] = from /\ task' = [task EXCEPT ![i] = to]

TaskOnly == UNCHANGED <<processVars, fileVars, postVars, doomed>>

\* update_job refreshes updated_at.
Update(i, row) == jobs' = [jobs EXCEPT ![i] = [row EXCEPT !.old = FALSE]]

\* The except clause for _JOB_ERRORS, and the finally clause after it; when
\* the update itself raises, only the finally clause runs.
FailedRow(i) == [jobs[i] EXCEPT !.status = "failed", !.tts = "failed", !.audio = FALSE]

JobFails(i, from) ==
    /\ TaskMoves(i, from, "unlink")
    /\ \/ Update(i, FailedRow(i))
       \/ "io" \in trouble /\ UNCHANGED jobs

TaskBegins(i) ==
    /\ \/ /\ TaskMoves(i, "start", "read")
          /\ Update(i, [jobs[i] EXCEPT !.status = "transcribing"])
       \/ "io" \in trouble /\ JobFails(i, "start")
    /\ TaskOnly

\* read_bytes takes what is there, or finds no file.
TaskReads(i) ==
    /\ \/ audio[i] # "absent" /\ TaskMoves(i, "read", "stt") /\ UNCHANGED jobs
       \/ (audio[i] = "absent" \/ "io" \in trouble) /\ JobFails(i, "read")
    /\ TaskOnly

\* A mutant in which the error of the transcription is caught nowhere
TranscribedOrLost(i) ==
    /\ \/ /\ TaskMoves(i, "stt", "hermes")
          /\ Update(i, [jobs[i] EXCEPT !.status = "asking_hermes"])
       \/ TaskMoves(i, "stt", "unlink") /\ UNCHANGED jobs
    /\ TaskOnly

Transcribed(i) ==
    /\ \/ /\ TaskMoves(i, "stt", "hermes")
          /\ Update(i, [jobs[i] EXCEPT !.status = "asking_hermes"])
       \/ JobFails(i, "stt")
    /\ TaskOnly

\* HermesClient.ask maps every error to UpstreamError but the AttributeError of
\* None.strip(), which no clause of _process catches.
Answered(i) ==
    /\ \/ /\ TaskMoves(i, "hermes", "tts")
          /\ Update(i, [jobs[i] EXCEPT !.status = "synthesizing", !.answer = TRUE])
       \/ JobFails(i, "hermes")
       \/ "reply" \in trouble /\ TaskMoves(i, "hermes", "unlink") /\ UNCHANGED jobs
    /\ TaskOnly

\* The except clause for _TTS_ERRORS: no speech, but the answer stands.
Mute(i, from) ==
    /\ \/ /\ TaskMoves(i, from, "unlink")
          /\ Update(i, [jobs[i] EXCEPT !.status = "completed", !.tts = "failed",
                                       !.audio = FALSE, !.speech = FALSE])
       \/ "io" \in trouble /\ JobFails(i, from)
    /\ SpeechUnlinked(i)
    /\ UNCHANGED <<processVars, audio, postVars, doomed>>

Synthesized(i) ==
    /\ TaskMoves(i, "tts", "normalize")
    /\ UNCHANGED jobs
    /\ TaskOnly

\* normalize_speech, in a thread: a rename puts the finished file in place.
Normalized(i) ==
    /\ TaskMoves(i, "normalize", "store")
    /\ speech' = [speech EXCEPT ![i] = TRUE]
    /\ UNCHANGED <<processVars, jobs, audio, postVars, doomed>>

Stored(i) ==
    /\ \/ /\ TaskMoves(i, "store", "unlink")
          /\ Update(i, [jobs[i] EXCEPT !.status = "completed", !.tts = "ready",
                                       !.audio = FALSE, !.speech = TRUE])
       \/ "io" \in trouble /\ JobFails(i, "store")
    /\ TaskOnly

\* The finally clause, of a task that a shutdown can still cancel ("unlink") or
\* has cancelled ("leave").
TaskUnlinks(i) ==
    /\ \E from \in {"unlink", "leave"} : TaskMoves(i, from, "none")
    /\ AudioUnlinked(i)
    /\ UNCHANGED <<processVars, jobs, speech, postVars, doomed>>

\* A failed synthesis or normalization, and a mutant that fails the job.
SpeechFailsJob(i) == JobFails(i, "tts") /\ TaskOnly
SpeechFails(i) == Mute(i, "tts") \/ Mute(i, "normalize")

TaskStep(i) ==
    \/ TaskBegins(i) \/ TaskReads(i) \/ Transcribed(i) \/ Answered(i)
    \/ Synthesized(i) \/ Normalized(i) \/ Stored(i) \/ SpeechFails(i) \/ TaskUnlinks(i)

-----------------------------------------------------------------------------
(* cleanup_expired_speech: at start-up, before each speech request and     *)
(* from a thread every few minutes.                                        *)

Ages(i) ==
    /\ jobs[i].tts = "ready" /\ ~jobs[i].old
    /\ jobs' = [jobs EXCEPT ![i].old = TRUE]
    /\ UNCHANGED <<processVars, fileVars, postVars, task, doomed>>

Expired == {i \in Ids : jobs[i].tts = "ready" /\ jobs[i].old}

\* Mutants: the files go before the commit; the rows keep their paths; the
\* files are forgotten.
ExpireEarly ==
    /\ phase = "serving" /\ Expired \ doomed # {}
    /\ doomed' = doomed \cup Expired
    /\ speech' = [i \in Ids |-> speech[i] /\ i \notin Expired]
    /\ UNCHANGED <<processVars, jobs, audio, postVars, task>>

ExpireKeepsPath ==
    /\ phase = "serving" /\ Expired # {}
    /\ doomed' = doomed \cup Expired
    /\ jobs' = [i \in Ids |-> IF i \in Expired THEN [jobs[i] EXCEPT !.tts = "expired"]
                                             ELSE jobs[i]]
    /\ UNCHANGED <<processVars, fileVars, postVars, task>>

\* One transaction marks the rows; their files are unlinked afterwards.
Expire ==
    /\ phase = "serving" /\ Expired # {}
    /\ doomed' = doomed \cup Expired
    /\ jobs' = [i \in Ids |-> IF i \in Expired
                              THEN [jobs[i] EXCEPT !.tts = "expired", !.speech = FALSE]
                              ELSE jobs[i]]
    /\ UNCHANGED <<processVars, fileVars, postVars, task>>

ExpireUnlinks(i) ==
    /\ Running /\ i \in doomed
    /\ doomed' = doomed \ {i}
    /\ SpeechUnlinked(i)
    /\ UNCHANGED <<processVars, jobs, audio, postVars, task>>

-----------------------------------------------------------------------------
(* The end of the process and lifespan.                                    *)

Ends(how) == restarts < MaxRestarts /\ restarts' = restarts + 1 /\ phase' = how

Crash ==
    /\ phase # "down" /\ Ends("down") /\ crashed' = TRUE
    /\ stale' = {} /\ doomed' = {}
    /\ post' = [h \in Handlers |-> "idle"] /\ posted' = [h \in Handlers |-> NoId]
    /\ task' = [i \in Ids |-> "none"]
    /\ UNCHANGED <<abandoned, trouble, jobs, fileVars>>

\* The server has answered its requests and calls VoiceService.shutdown.
Shutdown ==
    /\ phase = "serving" /\ \A h \in Handlers : post[h] = "idle"
    /\ Ends("stopping")
    /\ UNCHANGED <<stale, crashed, abandoned, trouble, jobs, fileVars, postVars, task, doomed>>

\* The await of the unlink is cancelled: the task ends, and its thread unlinks
\* the recording all the same or, not having begun, never does.
UnlinkCancelled(i) ==
    /\ TaskMoves(i, "unlink", "none")
    /\ \/ AudioUnlinked(i) /\ UNCHANGED abandoned
       \/ UNCHANGED audio /\ abandoned' = abandoned \cup {i}

\* Every task is cancelled once.  One that has not begun ends at once, one at
\* work goes on with its finally clause; a thread that normalizes its speech
\* finishes all the same.
TaskCancelled(i) ==
    /\ phase = "stopping"
    /\ \/ /\ \/ TaskMoves(i, "start", "none")
             \/ \E from \in {"read", "stt", "hermes", "tts", "normalize", "store"} :
                   TaskMoves(i, from, "leave")
          /\ UNCHANGED <<audio, abandoned>>
       \/ UnlinkCancelled(i)
    /\ \/ UNCHANGED speech
       \/ task[i] = "normalize" /\ speech' = [speech EXCEPT ![i] = TRUE]
    /\ UNCHANGED <<phase, stale, restarts, crashed, trouble, jobs, postVars, doomed>>

Stopped ==
    /\ phase = "stopping" /\ doomed = {} /\ \A i \in Ids : task[i] = "none"
    /\ phase' = "down"
    /\ UNCHANGED <<stale, restarts, crashed, abandoned, trouble, jobs, fileVars, postVars, task, doomed>>

\* recover_interrupted: one transaction, whose paths are unlinked afterwards
InterruptedButOne == Active \ {"synthesizing"}  \* a mutant
Interrupted == Active

Recover ==
    LET found == {i \in Ids : jobs[i].status \in Interrupted} IN
    /\ phase = "down" /\ phase' = "recovering"
    /\ stale' = {i \in found : jobs[i].audio}
    /\ jobs' = [i \in Ids |-> IF i \in found
                              THEN [FailedRow(i) EXCEPT !.speech = FALSE, !.old = FALSE]
                              ELSE jobs[i]]
    /\ UNCHANGED <<restarts, crashed, abandoned, trouble, fileVars, postVars, task, doomed>>

RecoverUnlinks(i) ==
    /\ phase = "recovering" /\ i \in stale
    /\ stale' = stale \ {i}
    /\ AudioBecomes(i, "absent")
    /\ UNCHANGED <<phase, restarts, crashed, abandoned, trouble, jobs, speech, postVars, task, doomed>>

Serve ==
    /\ phase = "recovering" /\ stale = {}
    /\ phase' = "serving"
    /\ UNCHANGED <<stale, restarts, crashed, abandoned, trouble, jobs, fileVars, postVars, task, doomed>>

Restarting == Stopped \/ Recover \/ Serve \/ \E i \in Ids : RecoverUnlinks(i)

Next ==
    \/ \E h \in Handlers : PostStep(h)
    \/ \E i \in Ids : TaskStep(i) \/ TaskCancelled(i) \/ Ages(i) \/ ExpireUnlinks(i)
    \/ Expire \/ Crash \/ Shutdown \/ Restarting

Spec == Init /\ [][Next]_vars

(***************************************************************************)
(* The upstream clients have timeouts, the event loop and its threads run  *)
(* on, and the container is restarted when it stops (docker-compose.yml).  *)
(* Nobody has to send a request.                                           *)
(***************************************************************************)
FairSpec ==
    /\ Spec
    /\ \A i \in Ids : WF_vars(TaskStep(i)) /\ WF_vars(TaskCancelled(i))
    /\ \A i \in Ids : WF_vars(ExpireUnlinks(i))
    /\ WF_vars(Expire) /\ WF_vars(Restarting)

-----------------------------------------------------------------------------
TaskLabels == {"none", "start", "read", "stt", "hermes", "tts", "normalize", "store",
               "unlink", "leave"}

TypeOK ==
    /\ phase \in {"down", "recovering", "serving", "stopping"}
    /\ stale \in SUBSET Ids /\ doomed \in SUBSET Ids /\ abandoned \in SUBSET Ids
    /\ restarts \in 0..MaxRestarts /\ crashed \in BOOLEAN
    /\ trouble \in SUBSET Troubles
    /\ jobs \in [Ids -> [status : Active \cup Final \cup {"none"},
                         tts : {"pending", "ready", "failed", "expired"},
                         answer : BOOLEAN, audio : BOOLEAN, speech : BOOLEAN, old : BOOLEAN]]
    /\ audio \in [Ids -> {"absent", "partial", "whole"}]
    /\ speech \in [Ids -> BOOLEAN]
    /\ post \in [Handlers -> {"idle", "body", "writing", "written", "unlink"}]
    /\ posted \in [Handlers -> Ids \cup {NoId}]
    /\ \A h \in Handlers : post[h] # "idle" => posted[h] \in Ids
    /\ \A i \in Ids : jobs[i].speech <=> jobs[i].tts = "ready"
    /\ \A i \in Ids : jobs[i].status = "completed" => jobs[i].answer /\ ~jobs[i].audio
    /\ task \in [Ids -> TaskLabels]

\* No job is left active in the database without a task that will end it,
\* across crashes in the middle of a job, of a shutdown or of a recovery.
ActiveJobsRun ==
    phase = "serving" /\ trouble = {}
        => \A i \in Ids : jobs[i].status \in Active => task[i] # "none"

\* The rows are coherent, and the active ones have a task.
RowsAreWorked == TypeOK /\ ActiveJobsRun

\* Recordings are deleted: while nothing crashes, one that is on disk belongs to
\* a request or a task that will unlink it, or to a row that makes the next
\* start unlink it.  The exception is the one whose unlink a shutdown cancelled
\* when the job was over and its row had let the path go.
AudioHasOwner ==
    ~crashed /\ "io" \notin trouble =>
        \A i \in Ids : audio[i] # "absent" =>
            \/ \E h \in Handlers : posted[h] = i /\ post[h] \in {"writing", "written", "unlink"}
            \/ task[i] # "none" \/ i \in stale
            \/ phase \in {"stopping", "down"} /\ jobs[i].status \in Active /\ jobs[i].audio
            \/ i \in abandoned /\ ~jobs[i].audio

\* "deleted from the bridge after processing": once its job is over, no task or
\* request that uses it is left and the bridge serves, the recording is gone.
\* The code does not keep it: see Findings in README.md.
RecordingsAreDeleted ==
    \A i \in Ids :
        /\ phase = "serving" /\ jobs[i].status \in Final /\ task[i] = "none"
        /\ \A h \in Handlers : posted[h] # i
        => audio[i] = "absent"

\* Speech that is announced as ready can be downloaded: its file exists.
ReadySpeechExists == \A i \in Ids : jobs[i].tts = "ready" => speech[i]

\* Speech files are deleted: while the process runs on, one that is on disk is
\* announced, about to be, or about to be unlinked.
SpeechHasOwner ==
    restarts = 0 /\ "io" \notin trouble =>
        \A i \in Ids : speech[i] => jobs[i].speech \/ task[i] = "store" \/ i \in doomed

\* No recording and no speech is left on disk without anybody to unlink it, but
\* after a crash, a failed unlink or one that a shutdown cancelled.
FilesHaveOwners == AudioHasOwner /\ SpeechHasOwner

\* "a Kokoro failure never discards the Hermes text answer": a job that has its
\* answer is failed only by a restart.
AnswerSurvives ==
    []["io" \notin trouble =>
          \A i \in Ids : jobs[i].answer /\ jobs[i].status # "failed"
              => jobs'[i].answer /\ (jobs'[i].status = "failed" => phase = "down")]_vars

\* Every behaviour of the bridge is one of JobContract.
Contract == INSTANCE JobContract WITH status <- [i \in Ids |-> jobs[i].status]
KeepsContract == Contract!Spec

\* Every accepted job ends, as completed or failed, when storage works and the
\* replies of Hermes are well formed, however often the process is restarted.
JobsEnd ==
    \A i \in Ids : trouble = {} /\ jobs[i].status \in Active ~> jobs[i].status \in Final

\* service.py:127 fails a job when something upstream fails: a malformed reply
\* ends its job too.
\* The code does not keep it: see Findings in README.md.
RepliesEndJobs ==
    \A i \in Ids : trouble = {"reply"} /\ jobs[i].status \in Active ~> jobs[i].status \in Final

\* "an existing idempotency key returns its current state": a second POST of an
\* id has no other effect, so that a job reads the recording it was created with.
\* The code does not keep it: see Findings in README.md.
DuplicatesAreHarmless ==
    [][\A i \in Ids : task[i] = "read" /\ task'[i] # "read" /\ phase' = "serving"
          => audio[i] = "whole"]_vars
=============================================================================
