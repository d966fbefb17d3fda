---------------------------- MODULE JobContract ----------------------------
(***************************************************************************)
(* What the voice bridge promises about a job: the status a device sees    *)
(* only moves forward through the stages of JobStatus, a job that has      *)
(* completed or failed keeps its outcome for ever (request ids are         *)
(* idempotency keys), and only a restart of the bridge fails jobs together.*)
(***************************************************************************)
EXTENDS Naturals

CONSTANT Ids            \* X-Request-Id values

VARIABLE status         \* JobStatus of each id, "none" before it is accepted

Stages == <<"queued", "transcribing", "asking_hermes", "synthesizing">>
Active == {Stages[n] : n \in 1..4}
Final == {"completed", "failed"}
Statuses == Active \cup Final \cup {"none"}

Init == status = [i \in Ids |-> "none"]

Becomes(i, new) == status' = [status EXCEPT ![i] = new]

Accept(i) == status[i] = "none" /\ Becomes(i, "queued")

Advance(i) == \E n \in 1..3 : status[i] = Stages[n] /\ Becomes(i, Stages[n + 1])

Complete(i) == status[i] = "synthesizing" /\ Becomes(i, "completed")

Fail(i) == status[i] \in Active /\ Becomes(i, "failed")

Interrupt ==
    status' = [i \in Ids |-> IF status[i] \in Active THEN "failed" ELSE status[i]]

Next == Interrupt \/ \E i \in Ids : Accept(i) \/ Advance(i) \/ Complete(i) \/ Fail(i)

Spec == Init /\ [][Next]_status
=============================================================================
