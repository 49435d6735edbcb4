------------------------------ MODULE NetQueue ------------------------------
(***************************************************************************)
(* The durable job queue of a device, updater/lghs-netqueue.               *)
(*                                                                         *)
(* Three kinds of process run this program: `enqueue`, called by the root  *)
(* command executor with the controller's command ID as idempotency key;   *)
(* `retry`, called by an administrator; and `drain`, a systemd oneshot of  *)
(* which one instance runs at a time.  They share two things on disk, and  *)
(* no lock: one job file per key (jobs/<id>.json) and one ledger of all    *)
(* keys (idempotency.json).  Every change of the ledger loads the WHOLE    *)
(* file, edits it in memory and replaces the file, so each is a load step  *)
(* and a save step with other processes, or a power cut, in between.       *)
(*                                                                         *)
(* Not modelled: jobs without a key (they never touch the ledger), a job   *)
(* the drain finds invalid (enqueue has validated every keyed job), and a  *)
(* key reused with another payload (the executor's key is a command ID).   *)
(***************************************************************************)
EXTENDS FiniteSetsExt, Integers

CONSTANTS Keys,        \* idempotency keys
          NoKey,       \* the key of a process that serves none
          Room,        \* entries that fit into the ledger beside those of
                       \* other keys: at most IDEMPOTENCY_LIMIT, and 0 when it
                       \* is full of entries that are never completed
          MaxCrashes,  \* bound: power cuts and reboots in a behaviour
          MaxRetries   \* bound: retries an operator asks for in a behaviour

ASSUME NetQueueAssumption ==
  /\ NoKey \notin Keys
  /\ Room \subseteq Nat /\ Room # {}
  /\ MaxCrashes \in Nat
  /\ MaxRetries \in Nat

Executor == "executor"    \* runs enqueue
Operator == "operator"    \* runs retry
Drain    == "drain"
Procs    == {Executor, Operator, Drain}

LedgerStates == {"none", "reserved", "pending", "executing", "uncertain",
                 "completed"}
JobStates    == {"absent", "due", "deferred"}
Outcomes     == {"ok", "failed", "timeout"}
\* What the last run of a key's child did: the effect it left is known after
\* "applied" and "failed", and unknown after a timeout or a power cut.
Effects      == {"none", "running", "applied", "failed", "unknown"}
Pcs          == {"idle", "reserve", "write-job", "restore", "confirm",
                 "refuse", "recreate", "save", "reschedule", "next", "hold",
                 "claim", "run", "running", "ran", "record", "finish"}
Ledgers      == [Keys -> LedgerStates]

VARIABLES ledger,     \* idempotency.json: the state of each key's entry
          jobs,       \* the job file of each key
          proc,       \* pc, key, loaded ledger and edited copy of each process
          todo,       \* the jobs the running drain has loaded and not visited
          outcome,    \* the child's exit status, as drain sees it
          crashes,
          retries,
          effect,     \* history: what the last run of each key did
          accepted,   \* history: keys an enqueue has reported queued
          retried,    \* history: keys an operator asked to run once more
          stale,      \* history: keys whose entry a stale copy replaced
          evicted,    \* history: keys whose entry was pruned at the limit
          repeated    \* history: keys claimed again with no known failure
                      \* and without an operator's retry

history == <<effect, accepted, retried, repeated>>
bounds == <<crashes, retries>>
vars == <<ledger, jobs, proc, todo, outcome, crashes, retries, effect,
          accepted, retried, stale, evicted, repeated>>

NoEntries == [k \in Keys |-> "none"]
Resumed(pc, k) == [pc |-> pc, key |-> k, base |-> NoEntries, copy |-> NoEntries]
Holding(pc, k, base, copy) ==
  [pc |-> pc, key |-> k, base |-> base, copy |-> copy]
Idle == Resumed("idle", NoKey)

Init ==
  /\ ledger = NoEntries
  /\ jobs = [k \in Keys |-> "absent"]
  /\ proc = [p \in Procs |-> Idle]
  /\ todo = {}
  /\ outcome = "ok"
  /\ crashes = 0
  /\ retries = 0
  /\ effect = [k \in Keys |-> "none"]
  /\ accepted = {}
  /\ retried = {}
  /\ stale = {}
  /\ evicted = {}
  /\ repeated = {}

-----------------------------------------------------------------------------
(* Reading and writing the ledger.                                         *)

At(p, pc) == proc[p].pc = pc
Goto(p, pc) == proc' = [proc EXCEPT ![p].pc = pc]
Stop(p) == proc' = [proc EXCEPT ![p] = Idle]

\* load_ledger(), and the entry of k set to s in the copy held in memory.
Load(p, k, s, pc) ==
  proc' = [proc EXCEPT ![p] = Holding(pc, k, ledger, [ledger EXCEPT ![k] = s])]

\* save_ledger() drops completed entries while there is not enough room.
\* Which of them are the oldest is left open.
Dropped(l, room) ==
  LET entries == {k \in Keys : l[k] # "none"}
      done == {k \in Keys : l[k] = "completed"}
      surplus == Cardinality(entries) - room
  IN IF surplus <= 0 THEN {{}}
     ELSE IF surplus >= Cardinality(done) THEN {done}
     ELSE kSubset(surplus, done)

Pruned(l) ==
  {[k \in Keys |-> IF k \in old THEN "none" ELSE l[k]] :
     old \in UNION {Dropped(l, room) : room \in Room}}

\* save_ledger(): the file becomes p's copy, whatever others saved since p
\* loaded it.  The keys that lose a newer entry are recorded in stale.
Save(p, next) ==
  \E new \in Pruned(proc[p].copy) :
    /\ ledger' = new
    /\ proc' = [proc EXCEPT ![p] = IF next = "write-job"
                                   THEN Holding(next, @.key, new, new)
                                   ELSE IF next = "idle" THEN Idle
                                   ELSE Resumed(next, @.key)]
    /\ stale' = stale \cup {k \in Keys : ledger[k] # proc[p].base[k]}
    /\ evicted' = evicted \cup {k \in Keys : new[k] # proc[p].copy[k]}

LedgerUnchanged == UNCHANGED <<ledger, stale, evicted>>

-----------------------------------------------------------------------------
(* enqueue(kind, params, key), run by the executor.                        *)

\* No entry: reserve the key, then write the job file, then confirm.
EnqueueNew(k) ==
  /\ At(Executor, "idle")
  /\ ledger[k] = "none"
  /\ Load(Executor, k, "reserved", "reserve")
  /\ LedgerUnchanged
  /\ UNCHANGED <<jobs, todo, outcome, bounds, history>>

Reserve ==
  /\ At(Executor, "reserve")
  /\ Save(Executor, "write-job")
  /\ UNCHANGED <<jobs, todo, outcome, bounds, history>>

\* The job file is written and the entry set to pending in memory.
WriteJob ==
  /\ At(Executor, "write-job")
  /\ LET k == proc[Executor].key IN
       /\ jobs' = [jobs EXCEPT ![k] = "due"]
       /\ proc' = [proc EXCEPT ![Executor] =
             Holding("confirm", k, @.base, [@.copy EXCEPT ![k] = "pending"])]
  /\ LedgerUnchanged
  /\ UNCHANGED <<todo, outcome, bounds, history>>

\* The entry exists and nothing has run: a missing job file is restored.
EnqueueAgain(k) ==
  /\ At(Executor, "idle")
  /\ ledger[k] \in {"reserved", "pending"}
  /\ Load(Executor, k, "pending", "restore")
  /\ LedgerUnchanged
  /\ UNCHANGED <<jobs, todo, outcome, bounds, history>>

NothingRestored(j) == j

Restored(j) == IF j = "absent" THEN "due" ELSE j

RestoreJob ==
  /\ At(Executor, "restore")
  /\ jobs' = [jobs EXCEPT ![proc[Executor].key] = Restored(@)]
  /\ Goto(Executor, "confirm")
  /\ LedgerUnchanged
  /\ UNCHANGED <<todo, outcome, bounds, history>>

\* The last save of either path: enqueue prints the job's ID and exits 0.
Confirm ==
  /\ At(Executor, "confirm")
  /\ Save(Executor, "idle")
  /\ accepted' = accepted \cup {proc[Executor].key}
  /\ UNCHANGED <<jobs, todo, outcome, bounds, effect, retried, repeated>>

\* The job has completed: its file is dropped and the call succeeds.
EnqueueCompleted(k) ==
  /\ At(Executor, "idle")
  /\ ledger[k] = "completed"
  /\ jobs' = [jobs EXCEPT ![k] = "absent"]
  /\ accepted' = accepted \cup {k}
  /\ LedgerUnchanged
  /\ UNCHANGED <<proc, todo, outcome, bounds, effect, retried, repeated>>

\* The job may have run: the entry becomes uncertain and the call fails.
EnqueueUncertain(k) ==
  /\ At(Executor, "idle")
  /\ ledger[k] \in {"executing", "uncertain"}
  /\ Load(Executor, k, "uncertain", "refuse")
  /\ LedgerUnchanged
  /\ UNCHANGED <<jobs, todo, outcome, bounds, history>>

Refuse ==
  /\ At(Executor, "refuse")
  /\ Save(Executor, "idle")
  /\ UNCHANGED <<jobs, todo, outcome, bounds, history>>

\* The executor waits 20 seconds for enqueue and then kills it; systemd kills
\* it with the executor.
KillEnqueue ==
  /\ ~ At(Executor, "idle")
  /\ Stop(Executor)
  /\ LedgerUnchanged
  /\ UNCHANGED <<jobs, todo, outcome, bounds, history>>

-----------------------------------------------------------------------------
(* retry_idempotent(key), run by an administrator.                         *)

RetryLoad(k) ==
  /\ At(Operator, "idle")
  /\ ledger[k] \notin {"none", "completed"}
  /\ retries < MaxRetries
  /\ retries' = retries + 1
  /\ Load(Operator, k, "pending", "recreate")
  /\ LedgerUnchanged
  /\ UNCHANGED <<jobs, todo, outcome, crashes, history>>

RecreateJob ==
  /\ At(Operator, "recreate")
  /\ jobs' = [jobs EXCEPT ![proc[Operator].key] = Restored(@)]
  /\ Goto(Operator, "save")
  /\ LedgerUnchanged
  /\ UNCHANGED <<todo, outcome, bounds, history>>

RetrySave ==
  /\ At(Operator, "save")
  /\ Save(Operator, "reschedule")
  /\ retried' = retried \cup {proc[Operator].key}
  /\ UNCHANGED <<jobs, todo, outcome, bounds, effect, accepted, repeated>>

\* The job is made due at once, unless its file has gone in the meantime.
RetryReschedule ==
  /\ At(Operator, "reschedule")
  /\ jobs' = [jobs EXCEPT ![proc[Operator].key] =
                IF @ = "absent" THEN @ ELSE "due"]
  /\ Stop(Operator)
  /\ LedgerUnchanged
  /\ UNCHANGED <<todo, outcome, bounds, history>>

-----------------------------------------------------------------------------
(* drain().                                                                *)

\* load_jobs(); jobs whose next_try_epoch lies ahead are skipped.
DrainStart ==
  /\ At(Drain, "idle")
  /\ todo' = {k \in Keys : jobs[k] = "due"}
  /\ todo' # {}
  /\ Goto(Drain, "next")
  /\ LedgerUnchanged
  /\ UNCHANGED <<jobs, outcome, bounds, history>>

DrainEnd ==
  /\ At(Drain, "next")
  /\ todo = {}
  /\ Stop(Drain)
  /\ LedgerUnchanged
  /\ UNCHANGED <<jobs, todo, outcome, bounds, history>>

\* ledger_before_run(): a job with no entry is kept and skipped, ...
SkipUnknown(k) ==
  /\ At(Drain, "next")
  /\ k \in todo
  /\ ledger[k] = "none"
  /\ todo' = todo \ {k}
  /\ LedgerUnchanged
  /\ UNCHANGED <<jobs, proc, outcome, bounds, history>>

\* ... a completed one is dropped, ...
SkipCompleted(k) ==
  /\ At(Drain, "next")
  /\ k \in todo
  /\ ledger[k] = "completed"
  /\ todo' = todo \ {k}
  /\ jobs' = [jobs EXCEPT ![k] = "absent"]
  /\ LedgerUnchanged
  /\ UNCHANGED <<proc, outcome, bounds, history>>

\* ... one that may already have run is marked uncertain and held, ...
HoldLoad(k) ==
  /\ At(Drain, "next")
  /\ k \in todo
  /\ ledger[k] \in {"executing", "uncertain"}
  /\ todo' = todo \ {k}
  /\ Load(Drain, k, "uncertain", "hold")
  /\ LedgerUnchanged
  /\ UNCHANGED <<jobs, outcome, bounds, history>>

HoldSave ==
  /\ At(Drain, "hold")
  /\ Save(Drain, "next")
  /\ UNCHANGED <<jobs, todo, outcome, bounds, history>>

ClaimableAfterCrash == {"reserved", "pending", "executing"}
OnlyReservedClaimable == {"reserved"}

Claimable == {"reserved", "pending"}

\* ... and any other is claimed: saved as executing before the child starts.
\* The history decides here whether this run was asked for.
ClaimLoad(k) ==
  /\ At(Drain, "next")
  /\ k \in todo
  /\ ledger[k] \in Claimable
  /\ todo' = todo \ {k}
  /\ Load(Drain, k, "executing", "claim")
  /\ LedgerUnchanged
  /\ UNCHANGED <<jobs, outcome, bounds, history>>

ClaimSave ==
  /\ At(Drain, "claim")
  /\ Save(Drain, "run")
  /\ LET k == proc[Drain].key IN
       /\ repeated' = IF effect[k] \in {"none", "failed"} \/ k \in retried
                      THEN repeated ELSE repeated \cup {k}
       /\ retried' = retried \ {k}
  /\ UNCHANGED <<jobs, todo, outcome, bounds, effect, accepted>>

\* run_job() starts the child.
RunStart ==
  /\ At(Drain, "run")
  /\ effect' = [effect EXCEPT ![proc[Drain].key] = "running"]
  /\ Goto(Drain, "running")
  /\ LedgerUnchanged
  /\ UNCHANGED <<jobs, todo, outcome, bounds, accepted, retried, repeated>>

\* What is known of the child's effect once it has exited.
Left(o) == CASE o = "ok" -> "applied"
             [] o = "failed" -> "failed"
             [] o = "timeout" -> "unknown"

\* The child exits, or is abandoned after 3600 seconds.
RunEnd(o) ==
  /\ At(Drain, "running")
  /\ outcome' = o
  /\ effect' = [effect EXCEPT ![proc[Drain].key] = Left(o)]
  /\ Goto(Drain, "ran")
  /\ LedgerUnchanged
  /\ UNCHANGED <<jobs, todo, bounds, accepted, retried, repeated>>

TimeoutIsFailure(o) == IF o = "ok" THEN "completed" ELSE "pending"
RecordedAsJobState(o) == IF o = "ok" THEN "completed" ELSE "deferred"

\* The state ledger_after_run() gives the entry.
Recorded(o) == CASE o = "ok" -> "completed"
                 [] o = "failed" -> "pending"
                 [] o = "timeout" -> "uncertain"

\* ledger_after_run(): nothing is recorded for an entry that has gone.
RecordLoad ==
  /\ At(Drain, "ran")
  /\ LET k == proc[Drain].key IN
       IF ledger[k] = "none"
       THEN Goto(Drain, "finish")
       ELSE Load(Drain, k, Recorded(outcome), "record")
  /\ LedgerUnchanged
  /\ UNCHANGED <<jobs, todo, outcome, bounds, history>>

RecordSave ==
  /\ At(Drain, "record")
  /\ Save(Drain, "finish")
  /\ UNCHANGED <<jobs, todo, outcome, bounds, history>>

\* The job file is removed, left in place, or rewritten with a later try.
DrainFinish ==
  /\ At(Drain, "finish")
  /\ jobs' = [jobs EXCEPT ![proc[Drain].key] =
                CASE outcome = "ok" -> "absent"
                  [] outcome = "failed" -> "deferred"
                  [] outcome = "timeout" -> @]
  /\ proc' = [proc EXCEPT ![Drain] = Resumed("next", NoKey)]
  /\ outcome' = "ok"
  /\ LedgerUnchanged
  /\ UNCHANGED <<todo, bounds, history>>

\* A completed os-update that asked for it reboots: the drain drops its job
\* file and returns, whatever else it had loaded.
DrainReboot ==
  /\ At(Drain, "finish")
  /\ outcome = "ok"
  /\ crashes < MaxCrashes
  /\ crashes' = crashes + 1
  /\ jobs' = [jobs EXCEPT ![proc[Drain].key] = "absent"]
  /\ todo' = {}
  /\ Stop(Drain)
  /\ LedgerUnchanged
  /\ UNCHANGED <<outcome, retries, history>>

-----------------------------------------------------------------------------
(* The environment.                                                        *)

\* next_try_epoch passes.
BackoffEnds(k) ==
  /\ jobs[k] = "deferred"
  /\ jobs' = [jobs EXCEPT ![k] = "due"]
  /\ LedgerUnchanged
  /\ UNCHANGED <<proc, todo, outcome, bounds, history>>

\* A power cut or a reboot: every process stops where it is.  The two files
\* survive (each is replaced atomically), a child that ran did something.
Crash ==
  /\ crashes < MaxCrashes
  /\ crashes' = crashes + 1
  /\ proc' = [p \in Procs |-> Idle]
  /\ todo' = {}
  /\ effect' = [k \in Keys |-> IF effect[k] = "running" THEN "unknown"
                                ELSE effect[k]]
  /\ LedgerUnchanged
  /\ UNCHANGED <<jobs, outcome, retries, accepted, retried, repeated>>

Enqueue ==
  \/ \E k \in Keys : EnqueueNew(k) \/ EnqueueAgain(k) \/ EnqueueCompleted(k)
                     \/ EnqueueUncertain(k)
  \/ Reserve \/ WriteJob \/ RestoreJob \/ Confirm \/ Refuse \/ KillEnqueue

Retry ==
  \/ \E k \in Keys : RetryLoad(k)
  \/ RecreateJob \/ RetrySave \/ RetryReschedule

DrainStep ==
  \/ DrainStart \/ DrainEnd
  \/ \E k \in Keys : SkipUnknown(k) \/ SkipCompleted(k) \/ HoldLoad(k)
                     \/ ClaimLoad(k)
  \/ HoldSave \/ ClaimSave \/ RunStart
  \/ \E o \in Outcomes : RunEnd(o)
  \/ RecordLoad \/ RecordSave \/ DrainFinish \/ DrainReboot

Next ==
  \/ Enqueue
  \/ Retry
  \/ DrainStep
  \/ \E k \in Keys : BackoffEnds(k)
  \/ Crash

Spec == Init /\ [][Next]_vars

\* systemd starts the drain every 60 seconds, its steps do not stop by
\* themselves, and time passes.  Nothing obliges an executor or an operator.
FairSpec ==
  Spec /\ WF_vars(DrainStep) /\ \A k \in Keys : WF_vars(BackoffEnds(k))

-----------------------------------------------------------------------------
(* Properties.                                                             *)

\* The two files and the processes' memories hold what the program can write.
TypeOK ==
  /\ ledger \in Ledgers
  /\ jobs \in [Keys -> JobStates]
  /\ proc \in [Procs -> [pc : Pcs, key : Keys \cup {NoKey}, base : Ledgers,
                          copy : Ledgers]]
  /\ todo \in SUBSET Keys
  /\ outcome \in Outcomes
  /\ crashes \in Nat
  /\ retries \in Nat
  /\ effect \in [Keys -> Effects]
  /\ accepted \in SUBSET Keys
  /\ retried \in SUBSET Keys
  /\ stale \in SUBSET Keys
  /\ evicted \in SUBSET Keys
  /\ repeated \in SUBSET Keys

\* The keys whose entry has only ever been changed by a step that had seen it.
Kept == Keys \ (stale \cup evicted)

\* Power cuts, timeouts, killed enqueues and redelivered commands never make
\* the drain run a job again whose last run may have had its effect: a blind
\* repetition needs an entry lost to a stale save or to the ledger's limit.
RepeatNeedsLostEntry == repeated \cap Kept = {}

\* A job whose enqueue succeeded is not lost: its entry says completed, or
\* its entry and its job file are both still there.
AcceptedIsKept ==
  \A k \in accepted \cap Kept :
    \/ ledger[k] = "completed"
    \/ ledger[k] \in {"pending", "executing", "uncertain"} /\ jobs[k] # "absent"

\* A job whose enqueue succeeded is eventually run, or held as uncertain for
\* an operator, unless its entry was lost.
AcceptedIsHandled ==
  \A k \in Keys :
    k \in accepted ~> \/ effect[k] # "none"
                      \/ ledger[k] = "uncertain"
                      \/ k \notin Kept

\* The queue keeps JobPromise: seen through job, every step of its processes,
\* or of a power cut, is a step the promise allows.
job ==
  [k \in Keys |->
     IF k \notin Kept THEN "lost"
     ELSE IF proc[Drain].key = k
             /\ proc[Drain].pc \in {"run", "running", "ran", "record"}
     THEN "running"
     ELSE CASE ledger[k] = "none" -> "none"
            [] ledger[k] \in {"reserved", "pending"} -> "queued"
            [] ledger[k] \in {"executing", "uncertain"} -> "held"
            [] ledger[k] = "completed" -> "done"]

Promise == INSTANCE JobPromise
KeepsPromise == Promise!Spec

\* What the documents say of every job, lost entries or not: "Uncertain prior
\* execution is held for explicit recovery rather than blindly repeated."
NeverBlindlyRepeated == repeated = {}
=============================================================================
