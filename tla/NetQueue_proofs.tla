--------------------------- MODULE NetQueue_proofs ---------------------------
(* Proofs about NetQueue, for every set of keys and every limit.           *)
EXTENDS NetQueue, TLAPS

(***************************************************************************)
(* A process that is neither idle nor between two jobs has a key: without  *)
(* this the types are not inductive, since keys enter accepted and retried *)
(* from proc.                                                              *)
(***************************************************************************)
ProcStates ==
  {q \in [pc : Pcs, key : Keys \cup {NoKey}, base : Ledgers, copy : Ledgers] :
     q.pc \in {"idle", "next"} \/ q.key \in Keys}

TypeInv == TypeOK /\ proc \in [Procs -> ProcStates]

(***************************************************************************)
(* What save_ledger() may drop: completed entries only.                    *)
(***************************************************************************)
LEMMA PrunedLemma ==
  ASSUME NEW l \in Ledgers, NEW new \in Pruned(l)
  PROVE  /\ new \in Ledgers
         /\ \A k \in Keys : \/ new[k] = l[k]
                            \/ l[k] = "completed" /\ new[k] = "none"
<1> DEFINE done == {k \in Keys : l[k] = "completed"}
<1>1. PICK old \in UNION {Dropped(l, room) : room \in Room} :
        new = [k \in Keys |-> IF k \in old THEN "none" ELSE l[k]]
  BY DEF Pruned
<1>2. \A n, s : s \in kSubset(n, done) => s \subseteq done
  BY DEF kSubset
<1>3. \A room \in Room : \A s \in Dropped(l, room) : s \subseteq done
  BY <1>2 DEF Dropped
<1>4. old \subseteq done
  BY <1>1, <1>3
<1>5. QED BY <1>1, <1>4 DEF Ledgers, LedgerStates

LEMMA LoadType ==
  ASSUME TypeInv, NEW p \in Procs, NEW k \in Keys, NEW s \in LedgerStates,
         NEW pc \in Pcs, Load(p, k, s, pc)
  PROVE  proc' \in [Procs -> ProcStates]
<1>1. [ledger EXCEPT ![k] = s] \in Ledgers
  BY DEF TypeInv, TypeOK, Ledgers
<1>2. Holding(pc, k, ledger, [ledger EXCEPT ![k] = s]) \in ProcStates
  BY <1>1 DEF Holding, ProcStates, TypeInv, TypeOK
<1>3. QED BY <1>2 DEF Load, TypeInv

LEMMA SaveType ==
  ASSUME TypeInv, NEW p \in Procs, NEW next \in Pcs, Save(p, next),
         proc[p].key \in Keys
  PROVE  /\ proc' \in [Procs -> ProcStates]
         /\ ledger' \in Ledgers
         /\ stale' \in SUBSET Keys
         /\ evicted' \in SUBSET Keys
<1>1. PICK new \in Pruned(proc[p].copy) :
        /\ ledger' = new
        /\ proc' = [proc EXCEPT ![p] = IF next = "write-job"
                                       THEN Holding(next, @.key, new, new)
                                       ELSE IF next = "idle" THEN Idle
                                       ELSE Resumed(next, @.key)]
        /\ stale' = stale \cup {k \in Keys : ledger[k] # proc[p].base[k]}
        /\ evicted' = evicted \cup {k \in Keys : new[k] # proc[p].copy[k]}
  BY DEF Save
<1>2. proc \in [Procs -> ProcStates]
  BY DEF TypeInv
<1>3. proc[p].copy \in Ledgers /\ proc[p].key \in Keys \cup {NoKey}
  BY <1>2 DEF ProcStates
<1>4. new \in Ledgers
  BY <1>1, <1>3, PrunedLemma
<1>5. NoEntries \in Ledgers
  BY DEF NoEntries, Ledgers, LedgerStates
<1>6. /\ Holding(next, proc[p].key, new, new) \in ProcStates
      /\ Idle \in ProcStates
      /\ Resumed(next, proc[p].key) \in ProcStates
  BY <1>3, <1>4, <1>5 DEF Holding, Idle, Resumed, ProcStates, Pcs
<1>7. proc' \in [Procs -> ProcStates]
  BY <1>1, <1>2, <1>6
<1>8. QED BY <1>1, <1>4, <1>7 DEF TypeInv, TypeOK

(***************************************************************************)
(* Every step preserves the types and the keys of busy processes.          *)
(***************************************************************************)
LEMMA TypeStep == TypeInv /\ [Next]_vars => TypeInv'
<1> SUFFICES ASSUME TypeInv, [Next]_vars PROVE TypeInv'
  OBVIOUS
<1> USE DEF LedgerUnchanged, bounds, history
<1>a. Executor \in Procs /\ Operator \in Procs /\ Drain \in Procs
  BY DEF Procs
<1>b. proc \in [Procs -> ProcStates] /\ TypeOK
  BY DEF TypeInv
<1>c. Idle \in ProcStates
  BY DEF Idle, Resumed, NoEntries, Ledgers, LedgerStates, ProcStates, Pcs
<1>d. ASSUME NEW p \in Procs, NEW pc \in Pcs,
             \/ Stop(p)
             \/ /\ Goto(p, pc)
                /\ pc = "next" \/ proc[p].pc \notin {"idle", "next"}
      PROVE  proc' \in [Procs -> ProcStates]
  BY <1>b, <1>c, <1>d DEF Goto, Stop, ProcStates
<1>e. {"none", "reserved", "pending", "executing", "uncertain", "completed"}
         = LedgerStates
  BY DEF LedgerStates
<1>f. ASSUME proc' \in [Procs -> ProcStates], LedgerUnchanged
      PROVE  /\ proc' \in [Procs -> [pc : Pcs, key : Keys \cup {NoKey},
                                     base : Ledgers, copy : Ledgers]]
             /\ ledger' \in Ledgers
             /\ stale' \in SUBSET Keys
             /\ evicted' \in SUBSET Keys
  BY <1>b, <1>f DEF ProcStates, TypeInv, TypeOK
<1>g. ASSUME NEW p \in Procs, proc[p].pc \notin {"idle", "next"}
      PROVE  proc[p].key \in Keys
  BY <1>b, <1>g DEF ProcStates
<1>1. ASSUME NEW k \in Keys, EnqueueNew(k) PROVE TypeInv'
  <2>1. proc' \in [Procs -> ProcStates]
    BY <1>1, <1>a, <1>e, LoadType DEF EnqueueNew, Pcs
  <2>2. QED BY <1>1, <2>1, <1>b, <1>f DEF EnqueueNew, TypeInv, TypeOK
<1>2. CASE Reserve
  <2>1. "write-job" \in Pcs BY DEF Pcs
  <2>2. proc[Executor].key \in Keys
    BY <1>2, <1>a, <1>g DEF Reserve, At
  <2>3. QED BY <1>2, <2>1, <2>2, <1>a, <1>b, SaveType
    DEF Reserve, TypeInv, TypeOK, ProcStates
<1>3. CASE WriteJob
  <2>1. proc' \in [Procs -> ProcStates]
    <3>1. proc[Executor].key \in Keys
      BY <1>3, <1>a, <1>g DEF WriteJob, At
    <3>2. [proc[Executor].copy EXCEPT ![proc[Executor].key] = "pending"]
            \in Ledgers
      BY <1>a, <1>b, <1>e DEF ProcStates, Ledgers
    <3>3. QED BY <1>3, <3>1, <3>2, <1>a, <1>b
        DEF WriteJob, Holding, ProcStates, Pcs
  <2>2. QED BY <1>3, <2>1, <1>b, <1>f DEF WriteJob, TypeInv, TypeOK, JobStates
<1>4. ASSUME NEW k \in Keys, EnqueueAgain(k) PROVE TypeInv'
  <2>1. proc' \in [Procs -> ProcStates]
    BY <1>4, <1>a, <1>e, LoadType DEF EnqueueAgain, Pcs
  <2>2. QED BY <1>4, <2>1, <1>b, <1>f DEF EnqueueAgain, TypeInv, TypeOK
<1>5. CASE RestoreJob
  <2>1. proc' \in [Procs -> ProcStates]
    BY <1>5, <1>a, <1>d DEF RestoreJob, At, Pcs
  <2>2. QED BY <1>5, <2>1, <1>b, <1>f
      DEF RestoreJob, TypeInv, TypeOK, Restored, JobStates
<1>6. CASE Confirm
  <2>1. "idle" \in Pcs BY DEF Pcs
  <2>2. proc[Executor].key \in Keys
    BY <1>6, <1>a, <1>g DEF Confirm, At
  <2>3. QED BY <1>6, <2>1, <2>2, <1>a, <1>b, SaveType
    DEF Confirm, TypeInv, TypeOK, ProcStates
<1>7. ASSUME NEW k \in Keys, EnqueueCompleted(k) PROVE TypeInv'
  BY <1>7 DEF EnqueueCompleted, TypeInv, TypeOK, JobStates
<1>8. ASSUME NEW k \in Keys, EnqueueUncertain(k) PROVE TypeInv'
  <2>1. proc' \in [Procs -> ProcStates]
    BY <1>8, <1>a, <1>e, LoadType DEF EnqueueUncertain, Pcs
  <2>2. QED BY <1>8, <2>1, <1>b, <1>f DEF EnqueueUncertain, TypeInv, TypeOK
<1>9. CASE Refuse
  <2>1. "idle" \in Pcs BY DEF Pcs
  <2>2. proc[Executor].key \in Keys
    BY <1>9, <1>a, <1>g DEF Refuse, At
  <2>3. QED BY <1>9, <2>1, <2>2, <1>a, <1>b, SaveType
    DEF Refuse, TypeInv, TypeOK, ProcStates
<1>10. CASE KillEnqueue
  <2>1. proc' \in [Procs -> ProcStates]
    BY <1>10, <1>a, <1>d DEF KillEnqueue, At, Pcs
  <2>2. QED BY <1>10, <2>1, <1>b, <1>f DEF KillEnqueue, TypeInv, TypeOK
<1>11. ASSUME NEW k \in Keys, RetryLoad(k) PROVE TypeInv'
  <2>1. proc' \in [Procs -> ProcStates]
    BY <1>11, <1>a, <1>e, LoadType DEF RetryLoad, Pcs
  <2>2. QED BY <1>11, <2>1, <1>b, <1>f DEF RetryLoad, TypeInv, TypeOK
<1>12. CASE RecreateJob
  <2>1. proc' \in [Procs -> ProcStates]
    BY <1>12, <1>a, <1>d DEF RecreateJob, At, Pcs
  <2>2. QED BY <1>12, <2>1, <1>b, <1>f
      DEF RecreateJob, TypeInv, TypeOK, Restored, JobStates
<1>13. CASE RetrySave
  <2>1. "reschedule" \in Pcs BY DEF Pcs
  <2>2. proc[Operator].key \in Keys
    BY <1>13, <1>a, <1>g DEF RetrySave, At
  <2>3. QED BY <1>13, <2>1, <2>2, <1>a, <1>b, SaveType
    DEF RetrySave, TypeInv, TypeOK, ProcStates
<1>14. CASE RetryReschedule
  <2>1. proc' \in [Procs -> ProcStates]
    BY <1>14, <1>a, <1>d DEF RetryReschedule, At, Pcs
  <2>2. QED BY <1>14, <2>1, <1>b, <1>f
      DEF RetryReschedule, TypeInv, TypeOK, JobStates
<1>15. CASE DrainStart
  <2>1. proc' \in [Procs -> ProcStates]
    BY <1>15, <1>a, <1>d DEF DrainStart, At, Pcs
  <2>2. QED BY <1>15, <2>1, <1>b, <1>f DEF DrainStart, TypeInv, TypeOK
<1>16. CASE DrainEnd
  <2>1. proc' \in [Procs -> ProcStates]
    BY <1>16, <1>a, <1>d DEF DrainEnd, At, Pcs
  <2>2. QED BY <1>16, <2>1, <1>b, <1>f DEF DrainEnd, TypeInv, TypeOK
<1>17. ASSUME NEW k \in Keys, SkipUnknown(k) PROVE TypeInv'
  BY <1>17 DEF SkipUnknown, TypeInv, TypeOK
<1>18. ASSUME NEW k \in Keys, SkipCompleted(k) PROVE TypeInv'
  BY <1>18 DEF SkipCompleted, TypeInv, TypeOK, JobStates
<1>19. ASSUME NEW k \in Keys, HoldLoad(k) PROVE TypeInv'
  <2>1. proc' \in [Procs -> ProcStates]
    BY <1>19, <1>a, <1>e, LoadType DEF HoldLoad, Pcs
  <2>2. QED BY <1>19, <2>1, <1>b, <1>f DEF HoldLoad, TypeInv, TypeOK
<1>20. CASE HoldSave
  <2>1. "next" \in Pcs BY DEF Pcs
  <2>2. proc[Drain].key \in Keys
    BY <1>20, <1>a, <1>g DEF HoldSave, At
  <2>3. QED BY <1>20, <2>1, <2>2, <1>a, <1>b, SaveType
    DEF HoldSave, TypeInv, TypeOK, ProcStates
<1>21. ASSUME NEW k \in Keys, ClaimLoad(k) PROVE TypeInv'
  <2>1. proc' \in [Procs -> ProcStates]
    BY <1>21, <1>a, <1>e, LoadType DEF ClaimLoad, Pcs
  <2>2. QED BY <1>21, <2>1, <1>b, <1>f DEF ClaimLoad, TypeInv, TypeOK
<1>22. CASE ClaimSave
  <2>1. "run" \in Pcs BY DEF Pcs
  <2>2. proc[Drain].key \in Keys
    BY <1>22, <1>a, <1>g DEF ClaimSave, At
  <2>3. QED BY <1>22, <2>1, <2>2, <1>a, <1>b, SaveType
    DEF ClaimSave, TypeInv, TypeOK, ProcStates
<1>23. CASE RunStart
  <2>1. proc' \in [Procs -> ProcStates]
    BY <1>23, <1>a, <1>d DEF RunStart, At, Pcs
  <2>2. QED BY <1>23, <2>1, <1>b, <1>f DEF RunStart, TypeInv, TypeOK, Effects
<1>24. ASSUME NEW o \in Outcomes, RunEnd(o) PROVE TypeInv'
  <2>1. proc' \in [Procs -> ProcStates]
    BY <1>24, <1>a, <1>d DEF RunEnd, At, Pcs
  <2>2. QED BY <1>24, <2>1, <1>b, <1>f
      DEF RunEnd, TypeInv, TypeOK, Left, Effects, Outcomes
<1>25. CASE RecordLoad
  <2>1. proc' \in [Procs -> ProcStates]
    <3>1. CASE ledger[proc[Drain].key] = "none"
      BY <1>25, <3>1, <1>a, <1>d DEF RecordLoad, At, Pcs
    <3>2. CASE ledger[proc[Drain].key] # "none"
      <4>1. Recorded(outcome) \in LedgerStates
        BY DEF Recorded, LedgerStates, TypeInv, TypeOK, Outcomes
      <4>2. proc[Drain].key \in Keys
        BY <1>25, <1>a, <1>g DEF RecordLoad, At
      <4>3. QED BY <1>25, <3>2, <4>1, <4>2, <1>a, LoadType DEF RecordLoad, Pcs
    <3>3. QED BY <3>1, <3>2
  <2>2. QED BY <1>25, <2>1, <1>b, <1>f DEF RecordLoad, TypeInv, TypeOK
<1>26. CASE RecordSave
  <2>1. "finish" \in Pcs BY DEF Pcs
  <2>2. proc[Drain].key \in Keys
    BY <1>26, <1>a, <1>g DEF RecordSave, At
  <2>3. QED BY <1>26, <2>1, <2>2, <1>a, <1>b, SaveType
    DEF RecordSave, TypeInv, TypeOK, ProcStates
<1>27. CASE DrainFinish
  <2>1. Resumed("next", NoKey) \in ProcStates
    BY DEF Resumed, NoEntries, Ledgers, LedgerStates, ProcStates, Pcs
  <2>2. proc' \in [Procs -> ProcStates]
    BY <1>27, <2>1, <1>a, <1>b DEF DrainFinish
  <2>3. QED BY <1>27, <2>2, <1>b, <1>f
      DEF DrainFinish, TypeInv, TypeOK, JobStates, Outcomes
<1>28. CASE DrainReboot
  <2>1. proc' \in [Procs -> ProcStates]
    BY <1>28, <1>a, <1>d DEF DrainReboot, At, Pcs
  <2>2. crashes' \in Nat
    BY <1>28, <1>b DEF DrainReboot, TypeOK
  <2>3. jobs' \in [Keys -> JobStates]
    BY <1>28, <1>b DEF DrainReboot, TypeOK, JobStates
  <2>4. QED BY <1>28, <2>1, <2>2, <2>3, <1>b, <1>f
      DEF DrainReboot, TypeInv, TypeOK
<1>29. ASSUME NEW k \in Keys, BackoffEnds(k) PROVE TypeInv'
  BY <1>29 DEF BackoffEnds, TypeInv, TypeOK, JobStates
<1>30. CASE Crash
  <2>1. proc' \in [Procs -> ProcStates]
    BY <1>30, <1>c DEF Crash
  <2>2. QED BY <1>30, <2>1, <1>b, <1>f DEF Crash, TypeInv, TypeOK, Effects
<1>31. CASE UNCHANGED vars
  BY <1>31 DEF vars, TypeInv, TypeOK
<1> QED
  BY <1>1, <1>2, <1>3, <1>4, <1>5, <1>6, <1>7, <1>8, <1>9, <1>10, <1>11, <1>12,
       <1>13, <1>14, <1>15, <1>16, <1>17, <1>18, <1>19, <1>20, <1>21, <1>22,
       <1>23, <1>24, <1>25, <1>26, <1>27, <1>28, <1>29, <1>30, <1>31
     DEF Next, Enqueue, Retry, DrainStep

LEMMA TypeInit == Init => TypeInv
BY NetQueueAssumption
   DEF Init, TypeInv, ProcStates, TypeOK, NoEntries, Ledgers, LedgerStates,
         JobStates, Idle,
       Resumed, Pcs, Outcomes, Effects

(***************************************************************************)
(* Every reachable state has the types NetQueue!TypeOK gives its variables.*)
(***************************************************************************)
THEOREM TypeCorrect == Spec => []TypeOK
<1>1. TypeInv => TypeOK
  BY DEF TypeInv
<1>2. QED BY <1>1, TypeInit, TypeStep, PTL DEF Spec

-----------------------------------------------------------------------------
(***************************************************************************)
(* The inductive invariant.                                                *)
(***************************************************************************)
Unclaimed == {"none", "reserved", "pending"}
\* The effects a run may have left that nobody may repeat unasked.
Unrepeatable == {"running", "applied", "unknown"}

\* A process edits its own key's entry and no other.
CopyInv ==
  \A p \in Procs, j \in Keys :
    j # proc[p].key => proc[p].copy[j] = proc[p].base[j]

\* What each process has seen in its key's entry, and what it will write.
EditInv ==
  /\ LET q == proc[Executor] k == q.key IN
       /\ q.pc = "reserve" => q.base[k] = "none" /\ q.copy[k] = "reserved"
       /\ q.pc = "write-job" => q.base[k] = "reserved"
       /\ q.pc \in {"restore", "confirm"} =>
            q.base[k] \in {"reserved", "pending"} /\ q.copy[k] = "pending"
       /\ q.pc = "refuse" =>
            q.base[k] \in {"executing", "uncertain"} /\ q.copy[k] = "uncertain"
  /\ LET q == proc[Operator] k == q.key IN
       q.pc \in {"recreate", "save"} =>
         q.base[k] \notin {"none", "completed"} /\ q.copy[k] = "pending"
  /\ LET q == proc[Drain] k == q.key IN
       /\ q.pc = "hold" =>
            q.base[k] \in {"executing", "uncertain"} /\ q.copy[k] = "uncertain"
       /\ q.pc = "claim" =>
            q.base[k] \in {"reserved", "pending"} /\ q.copy[k] = "executing"
       /\ q.pc = "record" => q.copy[k] = Recorded(outcome)

\* While the drain runs a key whose entry was never lost, that entry stays
\* claimed, and the history follows the child.
RunInv ==
  LET q == proc[Drain] k == q.key IN
    /\ q.pc = "running" => effect[k] = "running"
    /\ q.pc \in {"ran", "record"} => effect[k] = Left(outcome)
    /\ q.pc \in {"run", "running", "ran", "record"} /\ k \in Kept =>
         ledger[k] \notin {"none", "completed"}
    /\ q.pc = "run" /\ k \in Kept /\ k \notin retried =>
         ledger[k] \notin Unclaimed
    /\ q.pc = "finish" /\ outcome = "ok" /\ k \in Kept =>
         ledger[k] = "completed"

\* An entry the drain could claim is one whose job may run.
SafeInv ==
  \A k \in Kept :
    effect[k] \in Unrepeatable /\ k \notin retried => ledger[k] \notin Unclaimed

\* Wherever a process relies on a job file, the file is there or the entry
\* is, for ever, completed.
JobThere(k) == k \in Kept => jobs[k] # "absent" \/ ledger[k] = "completed"

JobInv ==
  /\ \A k \in todo : JobThere(k)
  /\ proc[Drain].pc \notin {"idle", "next"} => JobThere(proc[Drain].key)
  /\ proc[Executor].pc = "confirm" => JobThere(proc[Executor].key)
  /\ proc[Operator].pc = "save" => JobThere(proc[Operator].key)
  /\ \A k \in Kept : ledger[k] \in {"pending", "executing", "uncertain"} =>
                       JobThere(k)

AcceptedInv ==
  \A k \in accepted \cap Kept : ledger[k] \notin {"none", "reserved"}

IInv == /\ TypeInv
        /\ CopyInv
        /\ EditInv
        /\ RunInv
        /\ SafeInv
        /\ JobInv
        /\ AcceptedInv
        /\ RepeatNeedsLostEntry

-----------------------------------------------------------------------------
(* The inductive invariant is preserved.                                   *)
LEMMA LoadStep ==
  ASSUME TypeInv, CopyInv, NEW p \in Procs, NEW k \in Keys,
         NEW s \in LedgerStates, NEW pc \in Pcs, Load(p, k, s, pc)
  PROVE  /\ CopyInv'
         /\ proc'[p].pc = pc /\ proc'[p].key = k
         /\ proc'[p].base = ledger /\ proc'[p].copy[k] = s
         /\ \A q \in Procs : q # p => proc'[q] = proc[q]
<1>1. /\ proc'[p] = Holding(pc, k, ledger, [ledger EXCEPT ![k] = s])
      /\ \A q \in Procs : q # p => proc'[q] = proc[q]
  BY DEF Load, TypeInv
<1>2. \A j \in Keys : j # proc'[p].key => proc'[p].copy[j] = proc'[p].base[j]
  BY <1>1 DEF Holding, TypeInv, TypeOK, Ledgers
<1>3. proc'[p].pc = pc /\ proc'[p].key = k /\ proc'[p].base = ledger
  BY <1>1 DEF Holding
<1>4. proc'[p].copy[k] = s
  BY <1>1 DEF Holding, TypeInv, TypeOK, Ledgers
<1>5. CopyInv'
  BY <1>1, <1>2 DEF CopyInv
<1>6. QED BY <1>1, <1>3, <1>4, <1>5

(***************************************************************************)
(* A save changes a kept entry only if it is the saver's own, and then the *)
(* entry is still the one the saver loaded.                                *)
(***************************************************************************)
OwnSave(p, next) ==
  /\ Kept' \subseteq Kept
  /\ \A k \in Kept' : /\ ledger[k] = proc[p].base[k]
                      /\ ledger'[k] = proc[p].copy[k]
                      /\ k # proc[p].key => ledger'[k] = ledger[k]
  /\ \A q \in Procs : q # p => proc'[q] = proc[q]
  /\ proc'[p].pc = next
  /\ next # "idle" => proc'[p].key = proc[p].key
  /\ next = "write-job" => proc'[p].base = ledger'
  /\ proc[p].copy[proc[p].key] # "completed" =>
       ledger'[proc[p].key] = proc[p].copy[proc[p].key]

LEMMA SaveStep ==
  ASSUME TypeInv, CopyInv, NEW p \in Procs, NEW next \in Pcs, Save(p, next),
         proc[p].key \in Keys
  PROVE  CopyInv' /\ OwnSave(p, next)
<1>1. PICK new \in Pruned(proc[p].copy) :
        /\ ledger' = new
        /\ proc' = [proc EXCEPT ![p] = IF next = "write-job"
                                       THEN Holding(next, @.key, new, new)
                                       ELSE IF next = "idle" THEN Idle
                                       ELSE Resumed(next, @.key)]
        /\ stale' = stale \cup {k \in Keys : ledger[k] # proc[p].base[k]}
        /\ evicted' = evicted \cup {k \in Keys : new[k] # proc[p].copy[k]}
  BY DEF Save
<1>2. proc[p].copy \in Ledgers /\ proc \in [Procs -> ProcStates]
  BY DEF TypeInv, ProcStates
<1>3. \A k \in Keys : \/ new[k] = proc[p].copy[k]
                      \/ proc[p].copy[k] = "completed" /\ new[k] = "none"
  BY <1>1, <1>2, PrunedLemma
<1>4. \A k \in Kept' : /\ k \in Kept
                       /\ ledger[k] = proc[p].base[k]
                       /\ ledger'[k] = proc[p].copy[k]
  BY <1>1 DEF Kept
<1>5. \A k \in Kept' : k # proc[p].key => ledger'[k] = ledger[k]
  BY <1>4 DEF CopyInv, Kept
<1>6. /\ \A q \in Procs : q # p => proc'[q] = proc[q]
      /\ proc'[p] =
           IF next = "write-job" THEN Holding(next, proc[p].key, new, new)
                    ELSE IF next = "idle" THEN Idle
                    ELSE Resumed(next, proc[p].key)
  BY <1>1, <1>2
<1>7. /\ proc'[p].pc = next
      /\ next # "idle" => proc'[p].key = proc[p].key
      /\ next = "write-job" => proc'[p].base = new
      /\ proc'[p].copy = proc'[p].base
  BY <1>6 DEF Holding, Idle, Resumed
<1>8. CopyInv'
  BY <1>6, <1>7 DEF CopyInv
<1>9. OwnSave(p, next)
  BY <1>1, <1>3, <1>4, <1>5, <1>6, <1>7 DEF OwnSave
<1>10. QED BY <1>8, <1>9

LEMMA InvInit == Init => IInv
<1> SUFFICES ASSUME Init PROVE IInv
  OBVIOUS
<1>1. /\ proc = [p \in Procs |-> Idle]
      /\ todo = {} /\ accepted = {} /\ repeated = {}
  BY DEF Init
<1>2. CopyInv /\ EditInv /\ RunInv
  BY <1>1 DEF CopyInv, EditInv, RunInv, Idle, Resumed, Procs
<1>3. SafeInv /\ JobInv
  BY <1>1 DEF Init, SafeInv, JobInv, Unrepeatable, NoEntries, Idle, Resumed,
              Procs, Kept
<1>4. AcceptedInv /\ RepeatNeedsLostEntry
  BY <1>1 DEF AcceptedInv, RepeatNeedsLostEntry
<1>5. QED BY <1>2, <1>3, <1>4, TypeInit DEF IInv

LEMMA InvStep == IInv /\ [Next]_vars => IInv'
<1> SUFFICES ASSUME IInv, [Next]_vars PROVE IInv'
  OBVIOUS
<1> USE DEF LedgerUnchanged, bounds, history
<1>a. /\ Executor \in Procs /\ Operator \in Procs /\ Drain \in Procs
      /\ Executor # Operator /\ Executor # Drain /\ Operator # Drain
  BY DEF Procs, Executor, Operator, Drain
<1>b. /\ TypeInv /\ TypeInv'
      /\ proc \in [Procs -> ProcStates] /\ proc' \in [Procs -> ProcStates]
      /\ TypeOK /\ TypeOK'
  BY TypeStep DEF IInv, TypeInv
<1>c. CopyInv /\ EditInv /\ RunInv /\ SafeInv /\ JobInv /\ AcceptedInv
      /\ RepeatNeedsLostEntry
  BY DEF IInv
<1>d. ASSUME LedgerUnchanged PROVE Kept' = Kept
  BY <1>d DEF Kept
<1>e. ASSUME NEW p \in Procs, proc[p].pc \notin {"idle", "next"}
      PROVE  proc[p].key \in Keys
  BY <1>b, <1>e DEF ProcStates
<1>f. ASSUME NEW p \in Procs, NEW pc \in Pcs, Goto(p, pc) \/ Stop(p)
      PROVE  /\ CopyInv'
             /\ \A q \in Procs : q # p => proc'[q] = proc[q]
             /\ Goto(p, pc) => /\ proc'[p].pc = pc
                               /\ proc'[p].key = proc[p].key
                               /\ proc'[p].base = proc[p].base
                               /\ proc'[p].copy = proc[p].copy
             /\ Stop(p) => proc'[p] = Idle
  BY <1>b, <1>c, <1>f
      DEF Goto, Stop, CopyInv, Idle, Resumed, NoEntries, ProcStates
<1>g. Kept \subseteq Keys /\ Kept' \subseteq Keys
  BY DEF Kept
<1>h. LedgerStates = {"none", "reserved", "pending", "executing", "uncertain",
                      "completed"}
  BY DEF LedgerStates
<1>1. ASSUME NEW k \in Keys, EnqueueNew(k) PROVE IInv'
  <2>1. /\ CopyInv'
        /\ proc'[Executor].pc = "reserve" /\ proc'[Executor].key = k
        /\ proc'[Executor].base = ledger /\ proc'[Executor].copy[k] = "reserved"
        /\ \A q \in Procs : q # Executor => proc'[q] = proc[q]
    BY <1>1, <1>a, <1>b, <1>c, <1>h, LoadStep DEF EnqueueNew, Pcs
  <2>2. Kept' = Kept /\ ledger' = ledger
    BY <1>1, <1>d DEF EnqueueNew
  <2>3. EditInv'
    BY <1>1, <2>1, <2>2, <1>a, <1>b, <1>c, <1>g DEF EnqueueNew, At, EditInv
  <2>4. RunInv'
    BY <1>1, <2>1, <2>2, <1>a, <1>b, <1>c, <1>g
      DEF EnqueueNew, At, EditInv, RunInv, Unclaimed
  <2>5. JobInv'
    BY <1>1, <2>1, <2>2, <1>a, <1>b, <1>c, <1>g
      DEF EnqueueNew, At, EditInv, JobInv, JobThere
  <2>6. SafeInv' /\ AcceptedInv' /\ RepeatNeedsLostEntry'
    BY <1>1, <2>1, <2>2, <1>a, <1>b, <1>c, <1>g
      DEF EnqueueNew, SafeInv, Unclaimed, AcceptedInv, RepeatNeedsLostEntry
  <2>7. QED BY <2>1, <2>2, <2>3, <2>4, <2>5, <2>6, <1>b DEF IInv
<1>2. CASE Reserve
  <2>1. proc[Executor].key \in Keys /\ proc[Executor].pc = "reserve"
    BY <1>2, <1>a, <1>e DEF Reserve, At
  <2>2. CopyInv' /\ OwnSave(Executor, "write-job")
    BY <1>2, <2>1, <1>a, <1>b, <1>c, SaveStep DEF Reserve, Pcs
  <2>3. EditInv'
    BY <1>2, <2>1, <2>2, <1>a, <1>b, <1>c, <1>g
      DEF Reserve, At, OwnSave, EditInv
  <2>4. RunInv'
    BY <1>2, <2>1, <2>2, <1>a, <1>b, <1>c, <1>g
      DEF Reserve, At, OwnSave, EditInv, RunInv, Unclaimed
  <2>5. SafeInv'
    BY <1>2, <2>1, <2>2, <1>a, <1>b, <1>c, <1>g
      DEF Reserve, At, OwnSave, EditInv, SafeInv, Unclaimed
  <2>6. JobInv'
    BY <1>2, <2>1, <2>2, <1>a, <1>b, <1>c, <1>g
      DEF Reserve, At, OwnSave, EditInv, JobInv, JobThere
  <2>7. AcceptedInv'
    BY <1>2, <2>1, <2>2, <1>a, <1>b, <1>c, <1>g
      DEF Reserve, At, OwnSave, EditInv, AcceptedInv
  <2>8. RepeatNeedsLostEntry'
    BY <1>2, <2>1, <2>2, <1>a, <1>b, <1>c, <1>g
      DEF Reserve, At, OwnSave, EditInv, RepeatNeedsLostEntry
  <2>9. QED BY <2>1, <2>2, <2>3, <2>4, <2>5, <2>6, <2>7, <2>8, <1>b DEF IInv
<1>3. CASE WriteJob
  <2>1. CopyInv' /\ \A q \in Procs : q # Executor => proc'[q] = proc[q]
    BY <1>3, <1>a, <1>b, <1>c
        DEF WriteJob, CopyInv, Holding, ProcStates, Ledgers
  <2>2. Kept' = Kept /\ ledger' = ledger
    BY <1>3, <1>d DEF WriteJob
  <2>3. /\ proc[Executor].key \in Keys
        /\ proc'[Executor].pc = "confirm"
        /\ proc'[Executor].key = proc[Executor].key
        /\ proc'[Executor].base = proc[Executor].base
        /\ proc'[Executor].copy[proc[Executor].key] = "pending"
        /\ \A k \in Keys : jobs'[k] =
             IF k = proc[Executor].key THEN "due" ELSE jobs[k]
    BY <1>3, <1>a, <1>b, <1>e
      DEF WriteJob, At, Holding, ProcStates, TypeOK, Ledgers
  <2>4. EditInv'
    BY <1>3, <2>1, <2>2, <2>3, <1>a, <1>b, <1>c, <1>g DEF WriteJob, At, EditInv
  <2>5. RunInv'
    BY <1>3, <2>1, <2>2, <2>3, <1>a, <1>b, <1>c, <1>g
      DEF WriteJob, At, EditInv, RunInv, Unclaimed
  <2>6. JobInv'
    BY <1>3, <2>1, <2>2, <2>3, <1>a, <1>b, <1>c, <1>g
      DEF WriteJob, At, EditInv, JobInv, JobThere
  <2>7. SafeInv' /\ AcceptedInv' /\ RepeatNeedsLostEntry'
    BY <1>3, <2>1, <2>2, <2>3, <1>a, <1>b, <1>c, <1>g
      DEF WriteJob, SafeInv, Unclaimed, AcceptedInv, RepeatNeedsLostEntry
  <2>8. QED BY <2>1, <2>2, <2>3, <2>4, <2>5, <2>6, <2>7, <1>b DEF IInv
<1>4. ASSUME NEW k \in Keys, EnqueueAgain(k) PROVE IInv'
  <2>1. /\ CopyInv'
        /\ proc'[Executor].pc = "restore" /\ proc'[Executor].key = k
        /\ proc'[Executor].base = ledger /\ proc'[Executor].copy[k] = "pending"
        /\ \A q \in Procs : q # Executor => proc'[q] = proc[q]
    BY <1>4, <1>a, <1>b, <1>c, <1>h, LoadStep DEF EnqueueAgain, Pcs
  <2>2. Kept' = Kept /\ ledger' = ledger
    BY <1>4, <1>d DEF EnqueueAgain
  <2>3. EditInv'
    BY <1>4, <2>1, <2>2, <1>a, <1>b, <1>c, <1>g DEF EnqueueAgain, At, EditInv
  <2>4. RunInv'
    BY <1>4, <2>1, <2>2, <1>a, <1>b, <1>c, <1>g
      DEF EnqueueAgain, At, EditInv, RunInv, Unclaimed
  <2>5. JobInv'
    BY <1>4, <2>1, <2>2, <1>a, <1>b, <1>c, <1>g
      DEF EnqueueAgain, At, EditInv, JobInv, JobThere
  <2>6. SafeInv' /\ AcceptedInv' /\ RepeatNeedsLostEntry'
    BY <1>4, <2>1, <2>2, <1>a, <1>b, <1>c, <1>g
      DEF EnqueueAgain, SafeInv, Unclaimed, AcceptedInv, RepeatNeedsLostEntry
  <2>7. QED BY <2>1, <2>2, <2>3, <2>4, <2>5, <2>6, <1>b DEF IInv
<1>5. CASE RestoreJob
  <2>1. CopyInv' /\ \A q \in Procs : q # Executor => proc'[q] = proc[q]
    BY <1>5, <1>a, <1>f DEF RestoreJob, Pcs
  <2>2. Kept' = Kept /\ ledger' = ledger
    BY <1>5, <1>d DEF RestoreJob
  <2>3. /\ proc[Executor].key \in Keys
        /\ proc'[Executor].pc = "confirm"
        /\ proc'[Executor].key = proc[Executor].key
        /\ proc'[Executor].base = proc[Executor].base
        /\ proc'[Executor].copy = proc[Executor].copy
        /\ \A k \in Keys : jobs'[k] =
             IF k = proc[Executor].key THEN Restored(jobs[k]) ELSE jobs[k]
    BY <1>5, <1>a, <1>b, <1>e DEF RestoreJob, At, Goto, ProcStates, TypeOK
  <2>4. EditInv'
    BY <1>5, <2>1, <2>2, <2>3, <1>a, <1>b, <1>c, <1>g
      DEF RestoreJob, At, EditInv
  <2>5. RunInv'
    BY <1>5, <2>1, <2>2, <2>3, <1>a, <1>b, <1>c, <1>g
      DEF RestoreJob, At, EditInv, RunInv, Unclaimed
  <2>6. JobInv'
    BY <1>5, <2>1, <2>2, <2>3, <1>a, <1>b, <1>c, <1>g
      DEF RestoreJob, At, EditInv, JobInv, JobThere, Restored
  <2>7. SafeInv' /\ AcceptedInv' /\ RepeatNeedsLostEntry'
    BY <1>5, <2>1, <2>2, <2>3, <1>a, <1>b, <1>c, <1>g
      DEF RestoreJob, SafeInv, Unclaimed, AcceptedInv, RepeatNeedsLostEntry
  <2>8. QED BY <2>1, <2>2, <2>3, <2>4, <2>5, <2>6, <2>7, <1>b DEF IInv
<1>6. CASE Confirm
  <2>1. proc[Executor].key \in Keys /\ proc[Executor].pc = "confirm"
    BY <1>6, <1>a, <1>e DEF Confirm, At
  <2>2. CopyInv' /\ OwnSave(Executor, "idle")
    BY <1>6, <2>1, <1>a, <1>b, <1>c, SaveStep DEF Confirm, Pcs
  <2>3. EditInv'
    BY <1>6, <2>1, <2>2, <1>a, <1>b, <1>c, <1>g
      DEF Confirm, At, OwnSave, EditInv
  <2>4. RunInv'
    BY <1>6, <2>1, <2>2, <1>a, <1>b, <1>c, <1>g
      DEF Confirm, At, OwnSave, EditInv, RunInv, Unclaimed
  <2>5. SafeInv'
    BY <1>6, <2>1, <2>2, <1>a, <1>b, <1>c, <1>g
      DEF Confirm, At, OwnSave, EditInv, SafeInv, Unclaimed
  <2>6. JobInv'
    BY <1>6, <2>1, <2>2, <1>a, <1>b, <1>c, <1>g
      DEF Confirm, At, OwnSave, EditInv, JobInv, JobThere
  <2>7. AcceptedInv'
    BY <1>6, <2>1, <2>2, <1>a, <1>b, <1>c, <1>g
      DEF Confirm, At, OwnSave, EditInv, AcceptedInv
  <2>8. RepeatNeedsLostEntry'
    BY <1>6, <2>1, <2>2, <1>a, <1>b, <1>c, <1>g
      DEF Confirm, At, OwnSave, EditInv, RepeatNeedsLostEntry
  <2>9. QED BY <2>1, <2>2, <2>3, <2>4, <2>5, <2>6, <2>7, <2>8, <1>b DEF IInv
<1>7. ASSUME NEW k \in Keys, EnqueueCompleted(k) PROVE IInv'
  <2>1. CopyInv' /\ proc' = proc
    BY <1>7, <1>c DEF EnqueueCompleted, CopyInv
  <2>2. Kept' = Kept /\ ledger' = ledger
    BY <1>7, <1>d DEF EnqueueCompleted
  <2>3. EditInv'
    BY <1>7, <2>1, <2>2, <1>a, <1>b, <1>c, <1>g
      DEF EnqueueCompleted, At, EditInv
  <2>4. RunInv'
    BY <1>7, <2>1, <2>2, <1>a, <1>b, <1>c, <1>g
      DEF EnqueueCompleted, At, EditInv, RunInv, Unclaimed
  <2>5. SafeInv'
    BY <1>7, <2>1, <2>2, <1>a, <1>b, <1>c, <1>g
      DEF EnqueueCompleted, At, EditInv, SafeInv, Unclaimed
  <2>6. JobInv'
    BY <1>7, <2>1, <2>2, <1>a, <1>b, <1>c, <1>g
      DEF EnqueueCompleted, At, EditInv, JobInv, JobThere
  <2>7. AcceptedInv'
    BY <1>7, <2>1, <2>2, <1>a, <1>b, <1>c, <1>g
      DEF EnqueueCompleted, At, EditInv, AcceptedInv
  <2>8. RepeatNeedsLostEntry'
    BY <1>7, <2>1, <2>2, <1>a, <1>b, <1>c, <1>g
      DEF EnqueueCompleted, At, EditInv, RepeatNeedsLostEntry
  <2>9. QED BY <2>1, <2>2, <2>3, <2>4, <2>5, <2>6, <2>7, <2>8, <1>b DEF IInv
<1>8. ASSUME NEW k \in Keys, EnqueueUncertain(k) PROVE IInv'
  <2>1. /\ CopyInv'
        /\ proc'[Executor].pc = "refuse" /\ proc'[Executor].key = k
        /\ proc'[Executor].base = ledger
        /\ proc'[Executor].copy[k] = "uncertain"
        /\ \A q \in Procs : q # Executor => proc'[q] = proc[q]
    BY <1>8, <1>a, <1>b, <1>c, <1>h, LoadStep DEF EnqueueUncertain, Pcs
  <2>2. Kept' = Kept /\ ledger' = ledger
    BY <1>8, <1>d DEF EnqueueUncertain
  <2>3. EditInv'
    BY <1>8, <2>1, <2>2, <1>a, <1>b, <1>c, <1>g
      DEF EnqueueUncertain, At, EditInv
  <2>4. RunInv'
    BY <1>8, <2>1, <2>2, <1>a, <1>b, <1>c, <1>g
      DEF EnqueueUncertain, At, EditInv, RunInv, Unclaimed
  <2>5. JobInv'
    BY <1>8, <2>1, <2>2, <1>a, <1>b, <1>c, <1>g
      DEF EnqueueUncertain, At, EditInv, JobInv, JobThere
  <2>6. SafeInv' /\ AcceptedInv' /\ RepeatNeedsLostEntry'
    BY <1>8, <2>1, <2>2, <1>a, <1>b, <1>c, <1>g
      DEF EnqueueUncertain, SafeInv, Unclaimed, AcceptedInv,
          RepeatNeedsLostEntry
  <2>7. QED BY <2>1, <2>2, <2>3, <2>4, <2>5, <2>6, <1>b DEF IInv
<1>9. CASE Refuse
  <2>1. proc[Executor].key \in Keys /\ proc[Executor].pc = "refuse"
    BY <1>9, <1>a, <1>e DEF Refuse, At
  <2>2. CopyInv' /\ OwnSave(Executor, "idle")
    BY <1>9, <2>1, <1>a, <1>b, <1>c, SaveStep DEF Refuse, Pcs
  <2>3. EditInv'
    BY <1>9, <2>1, <2>2, <1>a, <1>b, <1>c, <1>g
      DEF Refuse, At, OwnSave, EditInv
  <2>4. RunInv'
    BY <1>9, <2>1, <2>2, <1>a, <1>b, <1>c, <1>g
      DEF Refuse, At, OwnSave, EditInv, RunInv, Unclaimed
  <2>5. SafeInv'
    BY <1>9, <2>1, <2>2, <1>a, <1>b, <1>c, <1>g
      DEF Refuse, At, OwnSave, EditInv, SafeInv, Unclaimed
  <2>6. JobInv'
    BY <1>9, <2>1, <2>2, <1>a, <1>b, <1>c, <1>g
      DEF Refuse, At, OwnSave, EditInv, JobInv, JobThere
  <2>7. AcceptedInv'
    BY <1>9, <2>1, <2>2, <1>a, <1>b, <1>c, <1>g
      DEF Refuse, At, OwnSave, EditInv, AcceptedInv
  <2>8. RepeatNeedsLostEntry'
    BY <1>9, <2>1, <2>2, <1>a, <1>b, <1>c, <1>g
      DEF Refuse, At, OwnSave, EditInv, RepeatNeedsLostEntry
  <2>9. QED BY <2>1, <2>2, <2>3, <2>4, <2>5, <2>6, <2>7, <2>8, <1>b DEF IInv
<1>10. CASE KillEnqueue
  <2>1. CopyInv' /\ \A q \in Procs : q # Executor => proc'[q] = proc[q]
    BY <1>10, <1>a, <1>f DEF KillEnqueue, Pcs
  <2>2. Kept' = Kept /\ ledger' = ledger
    BY <1>10, <1>d DEF KillEnqueue
  <2>3. proc'[Executor].pc = "idle"
    BY <1>10, <1>a, <1>b, <1>e
      DEF KillEnqueue, At, Stop, Idle, Resumed, ProcStates, TypeOK
  <2>4. EditInv'
    BY <1>10, <2>1, <2>2, <2>3, <1>a, <1>b, <1>c, <1>g
      DEF KillEnqueue, At, EditInv, Idle
  <2>5. RunInv'
    BY <1>10, <2>1, <2>2, <2>3, <1>a, <1>b, <1>c, <1>g
      DEF KillEnqueue, At, EditInv, RunInv, Idle, Unclaimed
  <2>6. JobInv'
    BY <1>10, <2>1, <2>2, <2>3, <1>a, <1>b, <1>c, <1>g
      DEF KillEnqueue, At, EditInv, JobInv, JobThere, Idle
  <2>7. SafeInv' /\ AcceptedInv' /\ RepeatNeedsLostEntry'
    BY <1>10, <2>1, <2>2, <2>3, <1>a, <1>b, <1>c, <1>g
      DEF KillEnqueue, SafeInv, Unclaimed, AcceptedInv, RepeatNeedsLostEntry
  <2>8. QED BY <2>1, <2>2, <2>3, <2>4, <2>5, <2>6, <2>7, <1>b DEF IInv
<1>11. ASSUME NEW k \in Keys, RetryLoad(k) PROVE IInv'
  <2>1. /\ CopyInv'
        /\ proc'[Operator].pc = "recreate" /\ proc'[Operator].key = k
        /\ proc'[Operator].base = ledger /\ proc'[Operator].copy[k] = "pending"
        /\ \A q \in Procs : q # Operator => proc'[q] = proc[q]
    BY <1>11, <1>a, <1>b, <1>c, <1>h, LoadStep DEF RetryLoad, Pcs
  <2>2. Kept' = Kept /\ ledger' = ledger
    BY <1>11, <1>d DEF RetryLoad
  <2>3. EditInv'
    BY <1>11, <2>1, <2>2, <1>a, <1>b, <1>c, <1>g DEF RetryLoad, At, EditInv
  <2>4. RunInv'
    BY <1>11, <2>1, <2>2, <1>a, <1>b, <1>c, <1>g
      DEF RetryLoad, At, EditInv, RunInv, Unclaimed
  <2>5. JobInv'
    BY <1>11, <2>1, <2>2, <1>a, <1>b, <1>c, <1>g
      DEF RetryLoad, At, EditInv, JobInv, JobThere
  <2>6. SafeInv' /\ AcceptedInv' /\ RepeatNeedsLostEntry'
    BY <1>11, <2>1, <2>2, <1>a, <1>b, <1>c, <1>g
      DEF RetryLoad, SafeInv, Unclaimed, AcceptedInv, RepeatNeedsLostEntry
  <2>7. QED BY <2>1, <2>2, <2>3, <2>4, <2>5, <2>6, <1>b DEF IInv
<1>12. CASE RecreateJob
  <2>1. CopyInv' /\ \A q \in Procs : q # Operator => proc'[q] = proc[q]
    BY <1>12, <1>a, <1>f DEF RecreateJob, Pcs
  <2>2. Kept' = Kept /\ ledger' = ledger
    BY <1>12, <1>d DEF RecreateJob
  <2>3. /\ proc[Operator].key \in Keys
        /\ proc'[Operator].pc = "save"
        /\ proc'[Operator].key = proc[Operator].key
        /\ proc'[Operator].base = proc[Operator].base
        /\ proc'[Operator].copy = proc[Operator].copy
        /\ \A k \in Keys : jobs'[k] =
             IF k = proc[Operator].key THEN Restored(jobs[k]) ELSE jobs[k]
    BY <1>12, <1>a, <1>b, <1>e DEF RecreateJob, At, Goto, ProcStates, TypeOK
  <2>4. EditInv'
    BY <1>12, <2>1, <2>2, <2>3, <1>a, <1>b, <1>c, <1>g
      DEF RecreateJob, At, EditInv
  <2>5. RunInv'
    BY <1>12, <2>1, <2>2, <2>3, <1>a, <1>b, <1>c, <1>g
      DEF RecreateJob, At, EditInv, RunInv, Unclaimed
  <2>6. JobInv'
    BY <1>12, <2>1, <2>2, <2>3, <1>a, <1>b, <1>c, <1>g
      DEF RecreateJob, At, EditInv, JobInv, JobThere, Restored
  <2>7. SafeInv' /\ AcceptedInv' /\ RepeatNeedsLostEntry'
    BY <1>12, <2>1, <2>2, <2>3, <1>a, <1>b, <1>c, <1>g
      DEF RecreateJob, SafeInv, Unclaimed, AcceptedInv, RepeatNeedsLostEntry
  <2>8. QED BY <2>1, <2>2, <2>3, <2>4, <2>5, <2>6, <2>7, <1>b DEF IInv
<1>13. CASE RetrySave
  <2>1. proc[Operator].key \in Keys /\ proc[Operator].pc = "save"
    BY <1>13, <1>a, <1>e DEF RetrySave, At
  <2>2. CopyInv' /\ OwnSave(Operator, "reschedule")
    BY <1>13, <2>1, <1>a, <1>b, <1>c, SaveStep DEF RetrySave, Pcs
  <2>3. EditInv'
    BY <1>13, <2>1, <2>2, <1>a, <1>b, <1>c, <1>g
      DEF RetrySave, At, OwnSave, EditInv
  <2>4. RunInv'
    BY <1>13, <2>1, <2>2, <1>a, <1>b, <1>c, <1>g
      DEF RetrySave, At, OwnSave, EditInv, RunInv, Unclaimed
  <2>5. SafeInv'
    BY <1>13, <2>1, <2>2, <1>a, <1>b, <1>c, <1>g
      DEF RetrySave, At, OwnSave, EditInv, SafeInv, Unclaimed
  <2>6. JobInv'
    BY <1>13, <2>1, <2>2, <1>a, <1>b, <1>c, <1>g
      DEF RetrySave, At, OwnSave, EditInv, JobInv, JobThere
  <2>7. AcceptedInv'
    BY <1>13, <2>1, <2>2, <1>a, <1>b, <1>c, <1>g
      DEF RetrySave, At, OwnSave, EditInv, AcceptedInv
  <2>8. RepeatNeedsLostEntry'
    BY <1>13, <2>1, <2>2, <1>a, <1>b, <1>c, <1>g
      DEF RetrySave, At, OwnSave, EditInv, RepeatNeedsLostEntry
  <2>9. QED BY <2>1, <2>2, <2>3, <2>4, <2>5, <2>6, <2>7, <2>8, <1>b DEF IInv
<1>14. CASE RetryReschedule
  <2>1. CopyInv' /\ \A q \in Procs : q # Operator => proc'[q] = proc[q]
    BY <1>14, <1>a, <1>f DEF RetryReschedule, Pcs
  <2>2. Kept' = Kept /\ ledger' = ledger
    BY <1>14, <1>d DEF RetryReschedule
  <2>3. /\ proc[Operator].key \in Keys
        /\ proc'[Operator].pc = "idle"
        /\ \A k \in Keys : jobs[k] # "absent" => jobs'[k] # "absent"
    BY <1>14, <1>a, <1>b, <1>e
      DEF RetryReschedule, At, Stop, Idle, Resumed, ProcStates, TypeOK
  <2>4. EditInv'
    BY <1>14, <2>1, <2>2, <2>3, <1>a, <1>b, <1>c, <1>g
      DEF RetryReschedule, At, EditInv
  <2>5. RunInv'
    BY <1>14, <2>1, <2>2, <2>3, <1>a, <1>b, <1>c, <1>g
      DEF RetryReschedule, At, EditInv, RunInv, Unclaimed
  <2>6. JobInv'
    BY <1>14, <2>1, <2>2, <2>3, <1>a, <1>b, <1>c, <1>g
      DEF RetryReschedule, At, EditInv, JobInv, JobThere
  <2>7. SafeInv' /\ AcceptedInv' /\ RepeatNeedsLostEntry'
    BY <1>14, <2>1, <2>2, <2>3, <1>a, <1>b, <1>c, <1>g
      DEF RetryReschedule, SafeInv, Unclaimed, AcceptedInv,
          RepeatNeedsLostEntry
  <2>8. QED BY <2>1, <2>2, <2>3, <2>4, <2>5, <2>6, <2>7, <1>b DEF IInv
<1>15. CASE DrainStart
  <2>1. CopyInv' /\ \A q \in Procs : q # Drain => proc'[q] = proc[q]
    BY <1>15, <1>a, <1>f DEF DrainStart, Pcs
  <2>2. Kept' = Kept /\ ledger' = ledger
    BY <1>15, <1>d DEF DrainStart
  <2>3. proc'[Drain].pc = "next"
    BY <1>15, <1>a, <1>b, <1>e DEF DrainStart, At, Goto, ProcStates, TypeOK
  <2>4. EditInv'
    BY <1>15, <2>1, <2>2, <2>3, <1>a, <1>b, <1>c, <1>g
      DEF DrainStart, At, EditInv
  <2>5. RunInv'
    BY <1>15, <2>1, <2>2, <2>3, <1>a, <1>b, <1>c, <1>g
      DEF DrainStart, At, EditInv, RunInv, Unclaimed
  <2>6. JobInv'
    BY <1>15, <2>1, <2>2, <2>3, <1>a, <1>b, <1>c, <1>g
      DEF DrainStart, At, EditInv, JobInv, JobThere
  <2>7. SafeInv' /\ AcceptedInv' /\ RepeatNeedsLostEntry'
    BY <1>15, <2>1, <2>2, <2>3, <1>a, <1>b, <1>c, <1>g
      DEF DrainStart, SafeInv, Unclaimed, AcceptedInv, RepeatNeedsLostEntry
  <2>8. QED BY <2>1, <2>2, <2>3, <2>4, <2>5, <2>6, <2>7, <1>b DEF IInv
<1>16. CASE DrainEnd
  <2>1. CopyInv' /\ \A q \in Procs : q # Drain => proc'[q] = proc[q]
    BY <1>16, <1>a, <1>f DEF DrainEnd, Pcs
  <2>2. Kept' = Kept /\ ledger' = ledger
    BY <1>16, <1>d DEF DrainEnd
  <2>3. proc'[Drain].pc = "idle"
    BY <1>16, <1>a, <1>b, <1>e
      DEF DrainEnd, At, Stop, Idle, Resumed, ProcStates, TypeOK
  <2>4. EditInv'
    BY <1>16, <2>1, <2>2, <2>3, <1>a, <1>b, <1>c, <1>g
      DEF DrainEnd, At, EditInv
  <2>5. RunInv'
    BY <1>16, <2>1, <2>2, <2>3, <1>a, <1>b, <1>c, <1>g
      DEF DrainEnd, At, EditInv, RunInv, Unclaimed
  <2>6. JobInv'
    BY <1>16, <2>1, <2>2, <2>3, <1>a, <1>b, <1>c, <1>g
      DEF DrainEnd, At, EditInv, JobInv, JobThere
  <2>7. SafeInv' /\ AcceptedInv' /\ RepeatNeedsLostEntry'
    BY <1>16, <2>1, <2>2, <2>3, <1>a, <1>b, <1>c, <1>g
      DEF DrainEnd, SafeInv, Unclaimed, AcceptedInv, RepeatNeedsLostEntry
  <2>8. QED BY <2>1, <2>2, <2>3, <2>4, <2>5, <2>6, <2>7, <1>b DEF IInv
<1>17. ASSUME NEW k \in Keys, SkipUnknown(k) PROVE IInv'
  <2>1. CopyInv' /\ proc' = proc
    BY <1>17, <1>c DEF SkipUnknown, CopyInv
  <2>2. Kept' = Kept /\ ledger' = ledger
    BY <1>17, <1>d DEF SkipUnknown
  <2>3. EditInv'
    BY <1>17, <2>1, <2>2, <1>a, <1>b, <1>c, <1>g DEF SkipUnknown, At, EditInv
  <2>4. RunInv'
    BY <1>17, <2>1, <2>2, <1>a, <1>b, <1>c, <1>g
      DEF SkipUnknown, At, EditInv, RunInv, Unclaimed
  <2>5. JobInv'
    BY <1>17, <2>1, <2>2, <1>a, <1>b, <1>c, <1>g
      DEF SkipUnknown, At, EditInv, JobInv, JobThere
  <2>6. SafeInv' /\ AcceptedInv' /\ RepeatNeedsLostEntry'
    BY <1>17, <2>1, <2>2, <1>a, <1>b, <1>c, <1>g
      DEF SkipUnknown, SafeInv, Unclaimed, AcceptedInv, RepeatNeedsLostEntry
  <2>7. QED BY <2>1, <2>2, <2>3, <2>4, <2>5, <2>6, <1>b DEF IInv
<1>18. ASSUME NEW k \in Keys, SkipCompleted(k) PROVE IInv'
  <2>1. CopyInv' /\ proc' = proc
    BY <1>18, <1>c DEF SkipCompleted, CopyInv
  <2>2. Kept' = Kept /\ ledger' = ledger
    BY <1>18, <1>d DEF SkipCompleted
  <2>3. EditInv'
    BY <1>18, <2>1, <2>2, <1>a, <1>b, <1>c, <1>g DEF SkipCompleted, At, EditInv
  <2>4. RunInv'
    BY <1>18, <2>1, <2>2, <1>a, <1>b, <1>c, <1>g
      DEF SkipCompleted, At, EditInv, RunInv, Unclaimed
  <2>5. JobInv'
    BY <1>18, <2>1, <2>2, <1>a, <1>b, <1>c, <1>g
      DEF SkipCompleted, At, EditInv, JobInv, JobThere
  <2>6. SafeInv' /\ AcceptedInv' /\ RepeatNeedsLostEntry'
    BY <1>18, <2>1, <2>2, <1>a, <1>b, <1>c, <1>g
      DEF SkipCompleted, SafeInv, Unclaimed, AcceptedInv, RepeatNeedsLostEntry
  <2>7. QED BY <2>1, <2>2, <2>3, <2>4, <2>5, <2>6, <1>b DEF IInv
<1>19. ASSUME NEW k \in Keys, HoldLoad(k) PROVE IInv'
  <2>1. /\ CopyInv'
        /\ proc'[Drain].pc = "hold" /\ proc'[Drain].key = k
        /\ proc'[Drain].base = ledger /\ proc'[Drain].copy[k] = "uncertain"
        /\ \A q \in Procs : q # Drain => proc'[q] = proc[q]
    BY <1>19, <1>a, <1>b, <1>c, <1>h, LoadStep DEF HoldLoad, Pcs
  <2>2. Kept' = Kept /\ ledger' = ledger
    BY <1>19, <1>d DEF HoldLoad
  <2>3. EditInv'
    BY <1>19, <2>1, <2>2, <1>a, <1>b, <1>c, <1>g DEF HoldLoad, At, EditInv
  <2>4. RunInv'
    BY <1>19, <2>1, <2>2, <1>a, <1>b, <1>c, <1>g
      DEF HoldLoad, At, EditInv, RunInv, Unclaimed
  <2>5. JobInv'
    BY <1>19, <2>1, <2>2, <1>a, <1>b, <1>c, <1>g
      DEF HoldLoad, At, EditInv, JobInv, JobThere
  <2>6. SafeInv' /\ AcceptedInv' /\ RepeatNeedsLostEntry'
    BY <1>19, <2>1, <2>2, <1>a, <1>b, <1>c, <1>g
      DEF HoldLoad, SafeInv, Unclaimed, AcceptedInv, RepeatNeedsLostEntry
  <2>7. QED BY <2>1, <2>2, <2>3, <2>4, <2>5, <2>6, <1>b DEF IInv
<1>20. CASE HoldSave
  <2>1. proc[Drain].key \in Keys /\ proc[Drain].pc = "hold"
    BY <1>20, <1>a, <1>e DEF HoldSave, At
  <2>2. CopyInv' /\ OwnSave(Drain, "next")
    BY <1>20, <2>1, <1>a, <1>b, <1>c, SaveStep DEF HoldSave, Pcs
  <2>3. EditInv'
    BY <1>20, <2>1, <2>2, <1>a, <1>b, <1>c, <1>g
      DEF HoldSave, At, OwnSave, EditInv
  <2>4. RunInv'
    BY <1>20, <2>1, <2>2, <1>a, <1>b, <1>c, <1>g
      DEF HoldSave, At, OwnSave, EditInv, RunInv, Unclaimed
  <2>5. SafeInv'
    BY <1>20, <2>1, <2>2, <1>a, <1>b, <1>c, <1>g
      DEF HoldSave, At, OwnSave, EditInv, SafeInv, Unclaimed
  <2>6. JobInv'
    BY <1>20, <2>1, <2>2, <1>a, <1>b, <1>c, <1>g
      DEF HoldSave, At, OwnSave, EditInv, JobInv, JobThere
  <2>7. AcceptedInv'
    BY <1>20, <2>1, <2>2, <1>a, <1>b, <1>c, <1>g
      DEF HoldSave, At, OwnSave, EditInv, AcceptedInv
  <2>8. RepeatNeedsLostEntry'
    BY <1>20, <2>1, <2>2, <1>a, <1>b, <1>c, <1>g
      DEF HoldSave, At, OwnSave, EditInv, RepeatNeedsLostEntry
  <2>9. QED BY <2>1, <2>2, <2>3, <2>4, <2>5, <2>6, <2>7, <2>8, <1>b DEF IInv
<1>21. ASSUME NEW k \in Keys, ClaimLoad(k) PROVE IInv'
  <2>1. /\ CopyInv'
        /\ proc'[Drain].pc = "claim" /\ proc'[Drain].key = k
        /\ proc'[Drain].base = ledger /\ proc'[Drain].copy[k] = "executing"
        /\ \A q \in Procs : q # Drain => proc'[q] = proc[q]
    BY <1>21, <1>a, <1>b, <1>c, <1>h, LoadStep DEF ClaimLoad, Pcs
  <2>2. Kept' = Kept /\ ledger' = ledger
    BY <1>21, <1>d DEF ClaimLoad
  <2>3. EditInv'
    BY <1>21, <2>1, <2>2, <1>a, <1>b, <1>c, <1>g
      DEF ClaimLoad, At, EditInv, Claimable
  <2>4. RunInv'
    BY <1>21, <2>1, <2>2, <1>a, <1>b, <1>c, <1>g
      DEF ClaimLoad, At, EditInv, RunInv, Unclaimed
  <2>5. JobInv'
    BY <1>21, <2>1, <2>2, <1>a, <1>b, <1>c, <1>g
      DEF ClaimLoad, At, EditInv, JobInv, JobThere
  <2>6. SafeInv' /\ AcceptedInv' /\ RepeatNeedsLostEntry'
    BY <1>21, <2>1, <2>2, <1>a, <1>b, <1>c, <1>g
      DEF ClaimLoad, SafeInv, Unclaimed, AcceptedInv, RepeatNeedsLostEntry
  <2>7. QED BY <2>1, <2>2, <2>3, <2>4, <2>5, <2>6, <1>b DEF IInv
<1>22. CASE ClaimSave
  <2>1. proc[Drain].key \in Keys /\ proc[Drain].pc = "claim"
    BY <1>22, <1>a, <1>e DEF ClaimSave, At
  <2>2. CopyInv' /\ OwnSave(Drain, "run")
    BY <1>22, <2>1, <1>a, <1>b, <1>c, SaveStep DEF ClaimSave, Pcs
  <2>3. EditInv'
    BY <1>22, <2>1, <2>2, <1>a, <1>b, <1>c, <1>g
      DEF ClaimSave, At, OwnSave, EditInv
  <2>4. RunInv'
    BY <1>22, <2>1, <2>2, <1>a, <1>b, <1>c, <1>g
      DEF ClaimSave, At, OwnSave, EditInv, RunInv, Unclaimed
  <2>5. SafeInv'
    BY <1>22, <2>1, <2>2, <1>a, <1>b, <1>c, <1>g
      DEF ClaimSave, At, OwnSave, EditInv, SafeInv, Unclaimed
  <2>6. JobInv'
    BY <1>22, <2>1, <2>2, <1>a, <1>b, <1>c, <1>g
      DEF ClaimSave, At, OwnSave, EditInv, JobInv, JobThere
  <2>7. AcceptedInv'
    BY <1>22, <2>1, <2>2, <1>a, <1>b, <1>c, <1>g
      DEF ClaimSave, At, OwnSave, EditInv, AcceptedInv
  <2>8. RepeatNeedsLostEntry'
    BY <1>22, <2>1, <2>2, <1>a, <1>b, <1>c, <1>g
      DEF ClaimSave, At, OwnSave, EditInv, RepeatNeedsLostEntry, SafeInv,
          Unclaimed, Unrepeatable, TypeOK, Effects
  <2>9. QED BY <2>1, <2>2, <2>3, <2>4, <2>5, <2>6, <2>7, <2>8, <1>b DEF IInv
<1>23. CASE RunStart
  <2>1. CopyInv' /\ \A q \in Procs : q # Drain => proc'[q] = proc[q]
    BY <1>23, <1>a, <1>f DEF RunStart, Pcs
  <2>2. Kept' = Kept /\ ledger' = ledger
    BY <1>23, <1>d DEF RunStart
  <2>3. /\ proc[Drain].key \in Keys
        /\ proc'[Drain].pc = "running" /\ proc'[Drain].key = proc[Drain].key
        /\ proc'[Drain].base = proc[Drain].base
        /\ proc'[Drain].copy = proc[Drain].copy
        /\ \A k \in Keys : effect'[k] =
             IF k = proc[Drain].key THEN "running" ELSE effect[k]
    BY <1>23, <1>a, <1>b, <1>e DEF RunStart, At, Goto, ProcStates, TypeOK
  <2>4. EditInv'
    BY <1>23, <2>1, <2>2, <2>3, <1>a, <1>b, <1>c, <1>g
      DEF RunStart, At, EditInv
  <2>5. RunInv'
    BY <1>23, <2>1, <2>2, <2>3, <1>a, <1>b, <1>c, <1>g
      DEF RunStart, At, EditInv, RunInv, Unclaimed
  <2>6. SafeInv'
    BY <1>23, <2>1, <2>2, <2>3, <1>a, <1>b, <1>c, <1>g
      DEF RunStart, At, EditInv, SafeInv, Unclaimed, RunInv
  <2>7. JobInv'
    BY <1>23, <2>1, <2>2, <2>3, <1>a, <1>b, <1>c, <1>g
      DEF RunStart, At, EditInv, JobInv, JobThere
  <2>8. AcceptedInv'
    BY <1>23, <2>1, <2>2, <2>3, <1>a, <1>b, <1>c, <1>g
      DEF RunStart, At, EditInv, AcceptedInv
  <2>9. RepeatNeedsLostEntry'
    BY <1>23, <2>1, <2>2, <2>3, <1>a, <1>b, <1>c, <1>g
      DEF RunStart, At, EditInv, RepeatNeedsLostEntry
  <2>10. QED BY <2>1, <2>2, <2>3, <2>4, <2>5, <2>6, <2>7, <2>8, <2>9, <1>b
      DEF IInv
<1>24. ASSUME NEW o \in Outcomes, RunEnd(o) PROVE IInv'
  <2>1. CopyInv' /\ \A q \in Procs : q # Drain => proc'[q] = proc[q]
    BY <1>24, <1>a, <1>f DEF RunEnd, Pcs
  <2>2. Kept' = Kept /\ ledger' = ledger
    BY <1>24, <1>d DEF RunEnd
  <2>3. /\ proc[Drain].key \in Keys
        /\ proc'[Drain].pc = "ran" /\ proc'[Drain].key = proc[Drain].key
        /\ proc'[Drain].base = proc[Drain].base
        /\ proc'[Drain].copy = proc[Drain].copy
        /\ \A k \in Keys : effect'[k] =
             IF k = proc[Drain].key THEN Left(o) ELSE effect[k]
    BY <1>24, <1>a, <1>b, <1>e DEF RunEnd, At, Goto, ProcStates, TypeOK
  <2>4. EditInv'
    BY <1>24, <2>1, <2>2, <2>3, <1>a, <1>b, <1>c, <1>g DEF RunEnd, At, EditInv
  <2>5. RunInv'
    BY <1>24, <2>1, <2>2, <2>3, <1>a, <1>b, <1>c, <1>g
      DEF RunEnd, At, EditInv, RunInv, Unclaimed, Left
  <2>6. SafeInv'
    BY <1>24, <2>1, <2>2, <2>3, <1>a, <1>b, <1>c, <1>g
      DEF RunEnd, At, EditInv, SafeInv, Unclaimed, RunInv, Left, Unrepeatable
  <2>7. JobInv'
    BY <1>24, <2>1, <2>2, <2>3, <1>a, <1>b, <1>c, <1>g
      DEF RunEnd, At, EditInv, JobInv, JobThere
  <2>8. AcceptedInv'
    BY <1>24, <2>1, <2>2, <2>3, <1>a, <1>b, <1>c, <1>g
      DEF RunEnd, At, EditInv, AcceptedInv
  <2>9. RepeatNeedsLostEntry'
    BY <1>24, <2>1, <2>2, <2>3, <1>a, <1>b, <1>c, <1>g
      DEF RunEnd, At, EditInv, RepeatNeedsLostEntry
  <2>10. QED BY <2>1, <2>2, <2>3, <2>4, <2>5, <2>6, <2>7, <2>8, <2>9, <1>b
      DEF IInv
<1>25. CASE RecordLoad
  <2>1. /\ CopyInv'
        /\ \A q \in Procs : q # Drain => proc'[q] = proc[q]
        /\ proc'[Drain].key = proc[Drain].key
        /\ \/ /\ proc'[Drain].pc = "finish"
              /\ ledger[proc[Drain].key] = "none"
           \/ /\ proc'[Drain].pc = "record"
              /\ proc'[Drain].base = ledger
              /\ proc'[Drain].copy[proc[Drain].key] = Recorded(outcome)
    <3>1. proc[Drain].key \in Keys
      BY <1>25, <1>a, <1>e DEF RecordLoad, At
    <3>2. CASE ledger[proc[Drain].key] = "none"
      BY <1>25, <3>2, <1>a, <1>f DEF RecordLoad, Pcs
    <3>3. CASE ledger[proc[Drain].key] # "none"
      <4>1. Recorded(outcome) \in LedgerStates
        BY <1>b, <1>h DEF Recorded, TypeOK, Outcomes
      <4>2. QED BY <1>25, <3>1, <3>3, <4>1, <1>a, <1>b, <1>c, LoadStep
          DEF RecordLoad, Pcs
    <3>4. QED BY <3>2, <3>3
  <2>2. Kept' = Kept /\ ledger' = ledger
    BY <1>25, <1>d DEF RecordLoad
  <2>3. proc[Drain].key \in Keys
    BY <1>25, <1>a, <1>b, <1>e DEF RecordLoad, At, ProcStates, TypeOK
  <2>4. EditInv'
    BY <1>25, <2>1, <2>2, <2>3, <1>a, <1>b, <1>c, <1>g
      DEF RecordLoad, At, EditInv
  <2>5. RunInv'
    BY <1>25, <2>1, <2>2, <2>3, <1>a, <1>b, <1>c, <1>g
      DEF RecordLoad, At, EditInv, RunInv, Unclaimed
  <2>6. JobInv'
    BY <1>25, <2>1, <2>2, <2>3, <1>a, <1>b, <1>c, <1>g
      DEF RecordLoad, At, EditInv, JobInv, JobThere, RunInv
  <2>7. SafeInv' /\ AcceptedInv' /\ RepeatNeedsLostEntry'
    BY <1>25, <2>1, <2>2, <2>3, <1>a, <1>b, <1>c, <1>g
      DEF RecordLoad, SafeInv, Unclaimed, AcceptedInv, RepeatNeedsLostEntry
  <2>8. QED BY <2>1, <2>2, <2>3, <2>4, <2>5, <2>6, <2>7, <1>b DEF IInv
<1>26. CASE RecordSave
  <2>1. proc[Drain].key \in Keys /\ proc[Drain].pc = "record"
    BY <1>26, <1>a, <1>e DEF RecordSave, At
  <2>2. CopyInv' /\ OwnSave(Drain, "finish")
    BY <1>26, <2>1, <1>a, <1>b, <1>c, SaveStep DEF RecordSave, Pcs
  <2>3. EditInv'
    BY <1>26, <2>1, <2>2, <1>a, <1>b, <1>c, <1>g
      DEF RecordSave, At, OwnSave, EditInv
  <2>4. RunInv'
    BY <1>26, <2>1, <2>2, <1>a, <1>b, <1>c, <1>g
      DEF RecordSave, At, OwnSave, EditInv, RunInv, Unclaimed, Recorded
  <2>5. SafeInv'
    BY <1>26, <2>1, <2>2, <1>a, <1>b, <1>c, <1>g
      DEF RecordSave, At, OwnSave, EditInv, SafeInv, Unclaimed, Recorded, Left,
          Outcomes, TypeOK, RunInv, Unrepeatable
  <2>6. JobInv'
    BY <1>26, <2>1, <2>2, <1>a, <1>b, <1>c, <1>g
      DEF RecordSave, At, OwnSave, EditInv, JobInv, JobThere, Recorded, Left,
          Outcomes, TypeOK, RunInv
  <2>7. AcceptedInv'
    BY <1>26, <2>1, <2>2, <1>a, <1>b, <1>c, <1>g
      DEF RecordSave, At, OwnSave, EditInv, AcceptedInv, Recorded, Left,
          Outcomes, TypeOK, RunInv
  <2>8. RepeatNeedsLostEntry'
    BY <1>26, <2>1, <2>2, <1>a, <1>b, <1>c, <1>g
      DEF RecordSave, At, OwnSave, EditInv, RepeatNeedsLostEntry
  <2>9. QED BY <2>1, <2>2, <2>3, <2>4, <2>5, <2>6, <2>7, <2>8, <1>b DEF IInv
<1>27. CASE DrainFinish
  <2>1. CopyInv' /\ \A q \in Procs : q # Drain => proc'[q] = proc[q]
    BY <1>27, <1>a, <1>b, <1>c DEF DrainFinish, CopyInv, Resumed, NoEntries
  <2>2. Kept' = Kept /\ ledger' = ledger
    BY <1>27, <1>d DEF DrainFinish
  <2>3. /\ proc[Drain].key \in Keys
        /\ proc'[Drain].pc = "next"
        /\ \A k \in Keys : k # proc[Drain].key => jobs'[k] = jobs[k]
        /\ outcome = "failed" => jobs'[proc[Drain].key] # "absent"
        /\ outcome # "ok" =>
             \/ jobs'[proc[Drain].key] # "absent"
             \/ jobs'[proc[Drain].key] = jobs[proc[Drain].key]
    BY <1>27, <1>a, <1>b, <1>e
      DEF DrainFinish, At, Resumed, ProcStates, TypeOK, Outcomes
  <2>4. EditInv'
    BY <1>27, <2>1, <2>2, <2>3, <1>a, <1>b, <1>c, <1>g
      DEF DrainFinish, At, EditInv
  <2>5. RunInv'
    BY <1>27, <2>1, <2>2, <2>3, <1>a, <1>b, <1>c, <1>g
      DEF DrainFinish, At, EditInv, RunInv, Unclaimed
  <2>6. JobInv'
    BY <1>27, <2>1, <2>2, <2>3, <1>a, <1>b, <1>c, <1>g
      DEF DrainFinish, At, EditInv, JobInv, JobThere, RunInv, Outcomes, TypeOK
  <2>7. SafeInv' /\ AcceptedInv' /\ RepeatNeedsLostEntry'
    BY <1>27, <2>1, <2>2, <2>3, <1>a, <1>b, <1>c, <1>g
      DEF DrainFinish, SafeInv, Unclaimed, AcceptedInv, RepeatNeedsLostEntry
  <2>8. QED BY <2>1, <2>2, <2>3, <2>4, <2>5, <2>6, <2>7, <1>b DEF IInv
<1>28. CASE DrainReboot
  <2>1. CopyInv' /\ \A q \in Procs : q # Drain => proc'[q] = proc[q]
    BY <1>28, <1>a, <1>f DEF DrainReboot, Pcs
  <2>2. Kept' = Kept /\ ledger' = ledger
    BY <1>28, <1>d DEF DrainReboot
  <2>3. /\ proc[Drain].key \in Keys
        /\ proc'[Drain].pc = "idle"
        /\ \A k \in Keys : k # proc[Drain].key => jobs'[k] = jobs[k]
    BY <1>28, <1>a, <1>b, <1>e
      DEF DrainReboot, At, Stop, Idle, Resumed, ProcStates, TypeOK
  <2>4. EditInv'
    BY <1>28, <2>1, <2>2, <2>3, <1>a, <1>b, <1>c, <1>g
      DEF DrainReboot, At, EditInv
  <2>5. RunInv'
    BY <1>28, <2>1, <2>2, <2>3, <1>a, <1>b, <1>c, <1>g
      DEF DrainReboot, At, EditInv, RunInv, Unclaimed
  <2>6. JobInv'
    BY <1>28, <2>1, <2>2, <2>3, <1>a, <1>b, <1>c, <1>g
      DEF DrainReboot, At, EditInv, JobInv, JobThere, RunInv
  <2>7. SafeInv' /\ AcceptedInv' /\ RepeatNeedsLostEntry'
    BY <1>28, <2>1, <2>2, <2>3, <1>a, <1>b, <1>c, <1>g
      DEF DrainReboot, SafeInv, Unclaimed, AcceptedInv, RepeatNeedsLostEntry
  <2>8. QED BY <2>1, <2>2, <2>3, <2>4, <2>5, <2>6, <2>7, <1>b DEF IInv
<1>29. ASSUME NEW k \in Keys, BackoffEnds(k) PROVE IInv'
  <2>1. CopyInv' /\ proc' = proc
    BY <1>29, <1>c DEF BackoffEnds, CopyInv
  <2>2. Kept' = Kept /\ ledger' = ledger
    BY <1>29, <1>d DEF BackoffEnds
  <2>3. EditInv'
    BY <1>29, <2>1, <2>2, <1>a, <1>b, <1>c, <1>g DEF BackoffEnds, At, EditInv
  <2>4. RunInv'
    BY <1>29, <2>1, <2>2, <1>a, <1>b, <1>c, <1>g
      DEF BackoffEnds, At, EditInv, RunInv, Unclaimed
  <2>5. JobInv'
    BY <1>29, <2>1, <2>2, <1>a, <1>b, <1>c, <1>g
      DEF BackoffEnds, At, EditInv, JobInv, JobThere
  <2>6. SafeInv' /\ AcceptedInv' /\ RepeatNeedsLostEntry'
    BY <1>29, <2>1, <2>2, <1>a, <1>b, <1>c, <1>g
      DEF BackoffEnds, SafeInv, Unclaimed, AcceptedInv, RepeatNeedsLostEntry
  <2>7. QED BY <2>1, <2>2, <2>3, <2>4, <2>5, <2>6, <1>b DEF IInv
<1>30. CASE Crash
  <2>1. CopyInv' /\ \A p \in Procs : proc'[p].pc = "idle"
    BY <1>30 DEF Crash, CopyInv, Idle, Resumed, NoEntries
  <2>2. Kept' = Kept /\ ledger' = ledger
    BY <1>30, <1>d DEF Crash
  <2>3. EditInv'
    BY <1>30, <2>1, <2>2, <1>a, <1>b, <1>c, <1>g DEF Crash, At, EditInv, Idle
  <2>4. RunInv'
    BY <1>30, <2>1, <2>2, <1>a, <1>b, <1>c, <1>g
      DEF Crash, At, EditInv, RunInv, Idle, Unclaimed
  <2>5. SafeInv'
    BY <1>30, <2>1, <2>2, <1>a, <1>b, <1>c, <1>g
      DEF Crash, At, EditInv, SafeInv, Unclaimed, Unrepeatable, TypeOK
  <2>6. JobInv'
    BY <1>30, <2>1, <2>2, <1>a, <1>b, <1>c, <1>g
      DEF Crash, At, EditInv, JobInv, JobThere, Idle
  <2>7. AcceptedInv'
    BY <1>30, <2>1, <2>2, <1>a, <1>b, <1>c, <1>g
      DEF Crash, At, EditInv, AcceptedInv
  <2>8. RepeatNeedsLostEntry'
    BY <1>30, <2>1, <2>2, <1>a, <1>b, <1>c, <1>g
      DEF Crash, At, EditInv, RepeatNeedsLostEntry
  <2>9. QED BY <2>1, <2>2, <2>3, <2>4, <2>5, <2>6, <2>7, <2>8, <1>b DEF IInv
<1>31. CASE UNCHANGED vars
  BY <1>31, <1>b, <1>c
      DEF vars, IInv, CopyInv, EditInv, RunInv, SafeInv, JobInv,
     JobThere, AcceptedInv, RepeatNeedsLostEntry, Kept
<1> QED
  BY <1>1, <1>2, <1>3, <1>4, <1>5, <1>6, <1>7, <1>8, <1>9, <1>10, <1>11, <1>12,
       <1>13, <1>14, <1>15, <1>16, <1>17, <1>18, <1>19, <1>20, <1>21, <1>22,
       <1>23, <1>24, <1>25, <1>26, <1>27, <1>28, <1>29, <1>30, <1>31
     DEF Next, Enqueue, Retry, DrainStep

(***************************************************************************)
(* A job whose last run may have had its effect is claimed again only at an*)
(* operator's request, or after its ledger entry was lost: stated for every*)
(* number of keys, every limit and any number of power cuts and retries.   *)
(***************************************************************************)
THEOREM NoBlindRepetition == Spec => []RepeatNeedsLostEntry
<1>1. IInv => RepeatNeedsLostEntry
  BY DEF IInv
<1>2. QED BY <1>1, InvInit, InvStep, PTL DEF Spec

(***************************************************************************)
(* An accepted job whose entry was never lost is completed, or its entry   *)
(* and its job file are both on disk.                                      *)
(***************************************************************************)
THEOREM AcceptedJobsAreKept == Spec => []AcceptedIsKept
<1>1. IInv => AcceptedIsKept
  BY DEF IInv, TypeInv, TypeOK, Ledgers, LedgerStates, AcceptedInv, JobInv,
         JobThere, AcceptedIsKept, Kept
<1>2. QED BY <1>1, InvInit, InvStep, PTL DEF Spec

-----------------------------------------------------------------------------
(* NetQueue implements JobPromise, for every set of keys and every limit.  *)

\* The drain has saved the claim of k and not yet the run's result.
Running(k) ==
  /\ proc[Drain].key = k
  /\ proc[Drain].pc \in {"run", "running", "ran", "record"}

\* What job says of a key, as separate facts.
JobFacts ==
  /\ job \in [Keys -> Promise!JobStates]
  /\ \A k \in Keys :
       /\ k \notin Kept => job[k] = "lost"
       /\ k \in Kept /\ Running(k) => job[k] = "running"
       /\ k \in Kept /\ ~ Running(k) =>
            /\ ledger[k] = "none" => job[k] = "none"
            /\ ledger[k] \in {"reserved", "pending"} => job[k] = "queued"
            /\ ledger[k] \in {"executing", "uncertain"} => job[k] = "held"
            /\ ledger[k] = "completed" => job[k] = "done"

\* What the mapping makes of each kind of ledger entry.
LEMMA JobLemma == TypeOK => JobFacts
<1> SUFFICES ASSUME TypeOK PROVE JobFacts
  OBVIOUS
<1>1. \A k \in Keys : ledger[k] \in LedgerStates
  BY DEF TypeOK, Ledgers
<1>2. job \in [Keys -> Promise!JobStates]
  BY <1>1 DEF job, Promise!JobStates, LedgerStates
<1>3. QED BY <1>1, <1>2 DEF JobFacts, job, Running, LedgerStates

(***************************************************************************)
(* A step of the queue is one step of the promise when each key is lost or *)
(* makes an allowed move.                                                  *)
(***************************************************************************)
Allowed(k) ==
  \/ k \notin Kept'
  \/ job'[k] = job[k]
  \/ <<job[k], job'[k]>> \in Promise!Moves

\* Keys that each make an allowed move make one step of the promise.
LEMMA AllowedStep ==
  ASSUME TypeOK, TypeOK', \A k \in Keys : Allowed(k)
  PROVE  Promise!Next
<1>1. JobFacts' BY JobLemma, PTL
<1>2. QED BY <1>1 DEF JobFacts, Allowed, Promise!Next

\* A step that neither saves the ledger nor starts or ends a run: job stays.
LEMMA QuietStep ==
  ASSUME TypeOK, TypeOK', LedgerUnchanged,
         \A k \in Kept : Running(k)' = Running(k)
  PROVE  \A k \in Keys : Allowed(k)
<1>1. JobFacts /\ JobFacts' BY JobLemma, PTL
<1>2. Kept' = Kept /\ ledger' = ledger
  BY DEF LedgerUnchanged, Kept
<1>3. \A k \in Keys : ledger[k] \in LedgerStates
  BY DEF TypeOK, Ledgers
<1>4. QED BY <1>1, <1>2, <1>3 DEF JobFacts, Allowed, LedgerStates

\* A save: only the saver's own entry may move, and only if Own allows it.
LEMMA SaveAllowed ==
  ASSUME IInv, TypeOK', NEW p \in Procs, NEW next \in Pcs, OwnSave(p, next),
         proc[p].key \in Keys,
         \A k \in Keys : k # proc[p].key => Running(k)' = Running(k),
         Allowed(proc[p].key)
  PROVE  \A k \in Keys : Allowed(k)
<1>1. JobFacts /\ JobFacts'
  BY JobLemma, PTL DEF IInv, TypeInv
<1>2. \A k \in Keys : ledger[k] \in LedgerStates
  BY DEF IInv, TypeInv, TypeOK, Ledgers
<1>3. ASSUME NEW k \in Keys, k # proc[p].key, k \in Kept'
      PROVE  job'[k] = job[k]
  BY <1>1, <1>2, <1>3 DEF OwnSave, JobFacts, LedgerStates, Kept
<1>4. QED BY <1>3 DEF Allowed

(***************************************************************************)
(* Every step of the queue is a step of the promise, or a stutter.         *)
(***************************************************************************)
LEMMA PromiseStep == IInv /\ TypeOK' /\ [Next]_vars => [Promise!Next]_job
<1> SUFFICES ASSUME IInv, TypeOK', [Next]_vars PROVE [Promise!Next]_job
  OBVIOUS
<1> USE DEF LedgerUnchanged, bounds, history
<1>a. /\ Executor \in Procs /\ Operator \in Procs /\ Drain \in Procs
      /\ Executor # Drain /\ Operator # Drain
  BY DEF Procs, Executor, Operator, Drain
<1>b. /\ TypeOK /\ proc \in [Procs -> ProcStates]
      /\ CopyInv /\ EditInv /\ RunInv /\ TypeInv
  BY DEF IInv, TypeInv
<1>c. JobFacts /\ JobFacts'
  BY <1>b, JobLemma, PTL
<1>d. \A k \in Keys : ledger[k] \in LedgerStates /\ ledger'[k] \in LedgerStates
  BY <1>b DEF TypeOK, Ledgers
<1>e. ASSUME NEW p \in Procs, proc[p].pc \notin {"idle", "next"}
      PROVE  proc[p].key \in Keys
  BY <1>b, <1>e DEF ProcStates
<1>f. ASSUME LedgerUnchanged, proc'[Drain] = proc[Drain] PROVE Promise!Next
  <2>1. \A k \in Kept : Running(k)' = Running(k)
    BY <1>f DEF Running
  <2>2. QED BY <2>1, <1>b, <1>f, QuietStep, AllowedStep
<1>g. ASSUME NEW p \in Procs, p # Drain, NEW next \in Pcs, Save(p, next),
             proc[p].pc \notin {"idle", "next"},
             LET old == proc[p].base[proc[p].key]
                 new == proc[p].copy[proc[p].key] IN
               \/ old = "none" /\ new = "reserved"
               \/ old \in {"reserved", "pending"} /\ new = "pending"
               \/ old \in {"executing", "uncertain"} /\ new = "uncertain"
               \/ old \notin {"none", "completed"} /\ new = "pending"
      PROVE  Promise!Next
  <2>1. proc[p].key \in Keys
    BY <1>e, <1>g
  <2>2. OwnSave(p, next)
    BY <2>1, <1>b, <1>g, SaveStep
  <2>3. \A k \in Keys : Running(k)' = Running(k)
    BY <2>2, <1>a, <1>g DEF OwnSave, Running
  <2>4. Allowed(proc[p].key)
    <3> DEFINE k == proc[p].key
    <3> SUFFICES ASSUME k \in Kept' PROVE Allowed(k)
      BY DEF Allowed
    <3>1. /\ k \in Kept /\ ledger[k] = proc[p].base[k]
          /\ ledger'[k] = proc[p].copy[k]
      BY <2>2 DEF OwnSave
    <3>2. CASE Running(k)
      BY <2>1, <2>3, <3>1, <3>2, <1>c DEF JobFacts, Allowed
    <3>3. CASE ~ Running(k)
      <4>1. /\ ledger[k] = "none" => job[k] = "none"
            /\ ledger[k] \in {"reserved", "pending"} => job[k] = "queued"
            /\ ledger[k] \in {"executing", "uncertain"} => job[k] = "held"
        BY <2>1, <3>1, <3>3, <1>c DEF JobFacts
      <4>2. /\ ledger'[k] \in {"reserved", "pending"} => job'[k] = "queued"
            /\ ledger'[k] \in {"executing", "uncertain"} => job'[k] = "held"
        BY <2>1, <2>3, <3>1, <3>3, <1>c DEF JobFacts
      <4>3. QED BY <2>1, <3>1, <4>1, <4>2, <1>d, <1>g
              DEF Allowed, Promise!Moves, LedgerStates
    <3>4. QED BY <3>2, <3>3
  <2>5. \A k \in Keys : Allowed(k)
    BY <2>1, <2>2, <2>3, <2>4, <1>g, SaveAllowed
  <2>6. QED BY <2>5, <1>b, AllowedStep
<1>1. ASSUME NEW k \in Keys, EnqueueNew(k) PROVE Promise!Next
  BY <1>1, <1>a, <1>b, <1>f DEF EnqueueNew, Load
<1>2. ASSUME NEW k \in Keys, EnqueueAgain(k) PROVE Promise!Next
  BY <1>2, <1>a, <1>b, <1>f DEF EnqueueAgain, Load
<1>3. ASSUME NEW k \in Keys, EnqueueCompleted(k) PROVE Promise!Next
  BY <1>3, <1>a, <1>b, <1>f DEF EnqueueCompleted, Load
<1>4. ASSUME NEW k \in Keys, EnqueueUncertain(k) PROVE Promise!Next
  BY <1>4, <1>a, <1>b, <1>f DEF EnqueueUncertain, Load
<1>5. ASSUME NEW k \in Keys, RetryLoad(k) PROVE Promise!Next
  BY <1>5, <1>a, <1>b, <1>f DEF RetryLoad, Load
<1>6. CASE WriteJob
  BY <1>6, <1>a, <1>b, <1>f DEF WriteJob, Goto, Stop
<1>7. CASE RestoreJob
  BY <1>7, <1>a, <1>b, <1>f DEF RestoreJob, Goto, Stop
<1>8. CASE KillEnqueue
  BY <1>8, <1>a, <1>b, <1>f DEF KillEnqueue, Goto, Stop
<1>9. CASE RecreateJob
  BY <1>9, <1>a, <1>b, <1>f DEF RecreateJob, Goto, Stop
<1>10. CASE RetryReschedule
  BY <1>10, <1>a, <1>b, <1>f DEF RetryReschedule, Goto, Stop
<1>11. CASE Reserve
  BY <1>11, <1>a, <1>b, <1>g DEF Reserve, At, EditInv, Pcs
<1>12. CASE Confirm
  BY <1>12, <1>a, <1>b, <1>g DEF Confirm, At, EditInv, Pcs
<1>13. CASE Refuse
  BY <1>13, <1>a, <1>b, <1>g DEF Refuse, At, EditInv, Pcs
<1>14. CASE RetrySave
  BY <1>14, <1>a, <1>b, <1>g DEF RetrySave, At, EditInv, Pcs
<1>15. ASSUME NEW k \in Keys, SkipUnknown(k) PROVE Promise!Next
  BY <1>15, <1>f DEF SkipUnknown
<1>16. ASSUME NEW k \in Keys, SkipCompleted(k) PROVE Promise!Next
  BY <1>16, <1>f DEF SkipCompleted
<1>17. ASSUME NEW k \in Keys, BackoffEnds(k) PROVE Promise!Next
  BY <1>17, <1>f DEF BackoffEnds
<1>18. CASE DrainStart
  <2>1. \A j \in Kept : Running(j)' = Running(j)
    BY <1>18, <1>a, <1>b DEF DrainStart, At, Running, Goto
  <2>2. QED BY <1>18, <2>1, <1>b, QuietStep, AllowedStep DEF DrainStart
<1>19. CASE DrainEnd
  <2>1. \A j \in Kept : Running(j)' = Running(j)
    BY <1>19, <1>a, <1>b DEF DrainEnd, At, Running, Stop, Idle, Resumed
  <2>2. QED BY <1>19, <2>1, <1>b, QuietStep, AllowedStep DEF DrainEnd
<1>20. CASE RunStart
  <2>1. \A j \in Kept : Running(j)' = Running(j)
    BY <1>20, <1>a, <1>b DEF RunStart, At, Running, Goto
  <2>2. QED BY <1>20, <2>1, <1>b, QuietStep, AllowedStep DEF RunStart
<1>21. CASE DrainFinish
  <2>1. \A j \in Kept : Running(j)' = Running(j)
    BY <1>21, <1>a, <1>b DEF DrainFinish, At, Running, Resumed
  <2>2. QED BY <1>21, <2>1, <1>b, QuietStep, AllowedStep DEF DrainFinish
<1>22. CASE DrainReboot
  <2>1. \A j \in Kept : Running(j)' = Running(j)
    BY <1>22, <1>a, <1>b DEF DrainReboot, At, Running, Stop, Idle, Resumed
  <2>2. QED BY <1>22, <2>1, <1>b, QuietStep, AllowedStep DEF DrainReboot
<1>23. ASSUME NEW k \in Keys, HoldLoad(k) PROVE Promise!Next
  <2>1. \A j \in Kept : Running(j)' = Running(j)
    BY <1>23, <1>a, <1>b DEF HoldLoad, At, Running, Load, Holding
  <2>2. QED BY <1>23, <2>1, <1>b, QuietStep, AllowedStep DEF HoldLoad
<1>24. ASSUME NEW k \in Keys, ClaimLoad(k) PROVE Promise!Next
  <2>1. \A j \in Kept : Running(j)' = Running(j)
    BY <1>24, <1>a, <1>b DEF ClaimLoad, At, Running, Load, Holding
  <2>2. QED BY <1>24, <2>1, <1>b, QuietStep, AllowedStep DEF ClaimLoad
<1>25. ASSUME NEW o \in Outcomes, RunEnd(o) PROVE Promise!Next
  <2>1. \A j \in Kept : Running(j)' = Running(j)
    BY <1>25, <1>a, <1>b DEF RunEnd, At, Running, Goto
  <2>2. QED BY <1>25, <2>1, <1>b, QuietStep, AllowedStep DEF RunEnd
<1>26. CASE RecordLoad
  <2>0. proc[Drain].pc = "ran"
    BY <1>26 DEF RecordLoad, At
  <2>1. CASE ledger[proc[Drain].key] = "none"
    <3>1. proc[Drain].key \notin Kept
      BY <2>0, <2>1, <1>b DEF RunInv
    <3>2. proc'[Drain].key = proc[Drain].key
      BY <1>26, <2>1, <1>a, <1>b DEF RecordLoad, Goto, ProcStates
    <3>3. \A j \in Kept : Running(j)' = Running(j)
      BY <3>1, <3>2 DEF Running
    <3>4. QED BY <1>26, <3>3, <1>b, QuietStep, AllowedStep DEF RecordLoad
  <2>2. CASE ledger[proc[Drain].key] # "none"
    <3>1. proc'[Drain].pc = "record" /\ proc'[Drain].key = proc[Drain].key
      BY <1>26, <2>2, <1>a, <1>b DEF RecordLoad, Load, Holding
    <3>2. \A j \in Kept : Running(j)' = Running(j)
      BY <2>0, <3>1 DEF Running
    <3>3. QED BY <1>26, <3>2, <1>b, QuietStep, AllowedStep DEF RecordLoad
  <2>3. QED BY <2>1, <2>2
<1>27. CASE HoldSave
  <2>0. PICK k \in Keys : k = proc[Drain].key
    BY <1>27, <1>a, <1>e DEF HoldSave, At
  <2>1. proc[Drain].pc = "hold"
    BY <1>27 DEF HoldSave, At
  <2>2. OwnSave(Drain, "next")
    BY <1>27, <2>0, <2>1, <1>a, <1>b, SaveStep DEF HoldSave, Pcs
  <2>3. proc'[Drain].pc = "next" /\ proc'[Drain].key = k
    BY <2>0, <2>2 DEF OwnSave
  <2>4. \A j \in Keys : j # k => Running(j)' = Running(j)
    BY <2>0, <2>1, <2>3 DEF Running
  <2>5. Allowed(k)
    <3> SUFFICES ASSUME k \in Kept' PROVE Allowed(k)
      BY DEF Allowed
    <3>1. /\ k \in Kept /\ ledger[k] \in {"executing", "uncertain"}
          /\ ledger'[k] = "uncertain"
      BY <2>0, <2>1, <2>2, <1>b DEF OwnSave, EditInv
    <3>2. ~ Running(k) /\ ~ Running(k)'
      BY <2>0, <2>1, <2>3 DEF Running
    <3>3. QED BY <2>0, <2>1, <3>1, <3>2, <1>c DEF JobFacts, Allowed
  <2>6. "next" \in Pcs
    BY DEF Pcs
  <2>7. \A j \in Keys : Allowed(j)
    BY <2>0, <2>1, <2>2, <2>4, <2>5, <2>6, <1>a, <1>b, SaveAllowed
  <2>8. QED BY <2>7, <1>b, AllowedStep
<1>28. CASE ClaimSave
  <2>0. PICK k \in Keys : k = proc[Drain].key
    BY <1>28, <1>a, <1>e DEF ClaimSave, At
  <2>1. proc[Drain].pc = "claim"
    BY <1>28 DEF ClaimSave, At
  <2>2. OwnSave(Drain, "run")
    BY <1>28, <2>0, <2>1, <1>a, <1>b, SaveStep DEF ClaimSave, Pcs
  <2>3. proc'[Drain].pc = "run" /\ proc'[Drain].key = k
    BY <2>0, <2>2 DEF OwnSave
  <2>4. \A j \in Keys : j # k => Running(j)' = Running(j)
    BY <2>0, <2>1, <2>3 DEF Running
  <2>5. Allowed(k)
    <3> SUFFICES ASSUME k \in Kept' PROVE Allowed(k)
      BY DEF Allowed
    <3>1. k \in Kept /\ ledger[k] \in {"reserved", "pending"}
      BY <2>0, <2>1, <2>2, <1>b DEF OwnSave, EditInv
    <3>2. ~ Running(k) /\ Running(k)'
      BY <2>0, <2>1, <2>3 DEF Running
    <3>3. QED BY <2>0, <2>1, <3>1, <3>2, <1>c
            DEF JobFacts, Allowed, Promise!Moves
  <2>6. "run" \in Pcs
    BY DEF Pcs
  <2>7. \A j \in Keys : Allowed(j)
    BY <2>0, <2>1, <2>2, <2>4, <2>5, <2>6, <1>a, <1>b, SaveAllowed
  <2>8. QED BY <2>7, <1>b, AllowedStep
<1>29. CASE RecordSave
  <2>0. PICK k \in Keys : k = proc[Drain].key
    BY <1>29, <1>a, <1>e DEF RecordSave, At
  <2>1. proc[Drain].pc = "record"
    BY <1>29 DEF RecordSave, At
  <2>2. OwnSave(Drain, "finish")
    BY <1>29, <2>0, <2>1, <1>a, <1>b, SaveStep DEF RecordSave, Pcs
  <2>3. proc'[Drain].pc = "finish" /\ proc'[Drain].key = k
    BY <2>0, <2>2 DEF OwnSave
  <2>4. \A j \in Keys : j # k => Running(j)' = Running(j)
    BY <2>0, <2>1, <2>3 DEF Running
  <2>5. Allowed(k)
    <3> SUFFICES ASSUME k \in Kept' PROVE Allowed(k)
      BY DEF Allowed
    <3>1. k \in Kept /\ ledger'[k] = Recorded(outcome)
      BY <2>0, <2>1, <2>2, <1>b DEF OwnSave, EditInv
    <3>2. ledger'[k] \in {"completed", "pending", "uncertain"}
      BY <3>1, <1>b DEF Recorded, TypeOK, Outcomes
    <3>3. Running(k) /\ ~ Running(k)'
      BY <2>0, <2>1, <2>3 DEF Running
    <3>4. QED BY <2>0, <2>1, <3>1, <3>2, <3>3, <1>c
            DEF JobFacts, Allowed, Promise!Moves
  <2>6. "finish" \in Pcs
    BY DEF Pcs
  <2>7. \A j \in Keys : Allowed(j)
    BY <2>0, <2>1, <2>2, <2>4, <2>5, <2>6, <1>a, <1>b, SaveAllowed
  <2>8. QED BY <2>7, <1>b, AllowedStep
<1>30. CASE Crash
  <2>1. Kept' = Kept /\ ledger' = ledger /\ \A j \in Keys : ~ Running(j)'
    BY <1>30, <1>a DEF Crash, Kept, Running, Idle, Resumed
  <2>2. ASSUME NEW j \in Keys, j \in Kept PROVE Allowed(j)
    <3>1. CASE Running(j)
      <4>1. ledger[j] \notin {"none", "completed"} /\ job[j] = "running"
        BY <2>2, <3>1, <1>b, <1>c DEF Running, RunInv, JobFacts
      <4>2. job'[j] \in {"queued", "held"}
        BY <2>1, <2>2, <4>1, <1>c, <1>d DEF JobFacts, LedgerStates
      <4>3. QED BY <4>1, <4>2 DEF Allowed, Promise!Moves
    <3>2. CASE ~ Running(j)
      BY <2>1, <2>2, <3>2, <1>c, <1>d DEF JobFacts, LedgerStates, Allowed
    <3>3. QED BY <3>1, <3>2
  <2>3. QED BY <2>1, <2>2, <1>b, AllowedStep DEF Allowed
<1>31. CASE UNCHANGED vars
  BY <1>31 DEF vars, job, Kept
<1> QED
  BY <1>1, <1>2, <1>3, <1>4, <1>5, <1>6, <1>7, <1>8, <1>9, <1>10, <1>11,
     <1>12, <1>13, <1>14, <1>15, <1>16, <1>17, <1>18, <1>19, <1>20, <1>21,
     <1>22, <1>23, <1>24, <1>25, <1>26, <1>27, <1>28, <1>29, <1>30, <1>31
  DEF Next, Enqueue, Retry, DrainStep

(***************************************************************************)
(* The queue's processes, files, crashes and all, keep the promise the     *)
(* other programs rely on: a key is queued once, runs again only after a   *)
(* known failure or an operator's release, never after it is done.         *)
(***************************************************************************)
THEOREM ImplementsPromise == Spec => KeepsPromise
<1>1. Init => Promise!Init
  <2> SUFFICES ASSUME Init PROVE Promise!Init
    OBVIOUS
  <2>1. Kept = Keys /\ \A k \in Keys : ~ Running(k)
    BY DEF Init, Kept, Running, Idle, Resumed, Procs, Drain
  <2>2. QED BY <2>1 DEF Init, Promise!Init, job, Running, NoEntries
<1>2. IInv /\ IInv' /\ [Next]_vars => [Promise!Next]_job
  BY PromiseStep DEF IInv, TypeInv
<1>3. QED BY <1>1, <1>2, InvInit, InvStep, PTL
      DEF Spec, KeepsPromise, Promise!Spec
=============================================================================
