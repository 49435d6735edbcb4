------------------------------ MODULE JobPromise ------------------------------
(***************************************************************************)
(* What the device's job queue (NetQueue) promises for one idempotency     *)
(* key, without its files and processes.  A key is queued by its first     *)
(* enqueue; a run with no known result is held until an operator releases  *)
(* it; a job that is done never runs again.  The promise ends when the     *)
(* key's ledger entry is overwritten by a stale copy or pruned: lost.      *)
(***************************************************************************)
CONSTANT Keys

VARIABLE job   \* each key's job

JobStates == {"none", "queued", "running", "done", "held", "lost"}

Moves ==
  {<<"none", "queued">>,      \* enqueue
   <<"queued", "running">>,   \* the drain claims the job
   <<"running", "done">>,
   <<"running", "queued">>,   \* the run failed, or an operator released it
   <<"running", "held">>,     \* a timeout or a power cut
   <<"held", "queued">>}      \* an operator's retry

Move(k, old, new) ==
  /\ <<old, new>> \in Moves
  /\ job[k] = old
  /\ job' = [job EXCEPT ![k] = new]

Init == job = [k \in Keys |-> "none"]

\* One save of the ledger may lose several keys.
Next ==
  /\ job' \in [Keys -> JobStates]
  /\ \A k \in Keys : \/ job'[k] \in {job[k], "lost"}
                     \/ <<job[k], job'[k]>> \in Moves

Spec == Init /\ [][Next]_job
=============================================================================
