--------------------------- MODULE Rollout_proofs ---------------------------
(***************************************************************************)
(* Proofs about Rollout, for every set of devices, any phases, thresholds, *)
(* operators and bounds.                                                   *)
(***************************************************************************)
EXTENDS Rollout, FiniteSetTheorems, SequenceTheorems, TLAPS

Pcs == {"idle", "dispatch", "create", "link", "revoke", "strike",
        "mark", "pause", "succeed", "cancel"}

(***************************************************************************)
(* What a thread holds while it stands inside a request.                   *)
(***************************************************************************)
LinkInv == \A t \in Threads : proc[t].pc = "link" =>
  /\ proc[t].dev \in proc[t].todo
  /\ proc[t].cmd \in DOMAIN cmds[proc[t].dev]

RowsInv == \A t \in Threads : proc[t].pc \in {"cancel", "revoke", "strike"} =>
  /\ proc[t].rows \in [Devices -> [state : States, cmd : Nat]]
  /\ \A d \in Devices : proc[t].rows[d].cmd \in {NoCommand} \cup DOMAIN cmds[d]
  /\ proc[t].pc # "cancel" => proc[t].dev \in Devices
  /\ proc[t].pc = "revoke" => proc[t].rows[proc[t].dev].cmd # NoCommand

TypeInv == TypeOK /\ LinkInv /\ RowsInv

\* The record of a thread that begins something.
LEMMA AtLemma ==
  ASSUME NEW pc \in Pcs
  PROVE  /\ At(pc) \in Thread
         /\ At(pc).pc = pc
         /\ At(pc).phase = 0 /\ At(pc).todo = {} /\ At(pc).retry = FALSE
<1>1. DOMAIN Final = {"mark", "pause", "succeed", "cancel"}
  BY DEF Final
<1>2. QED BY <1>1 DEF At, Idle, Thread, Pcs, NoCommand

\* The record of a thread that goes on with some rows.
Begun(pc, S) == [At(pc) EXCEPT !.todo = S]
Going(pc, S, b) == [At(pc) EXCEPT !.todo = S, !.retry = b]

LEMMA BegunLemma ==
  ASSUME NEW pc \in Pcs, NEW S \in SUBSET Devices
  PROVE  Begun(pc, S).pc = pc /\ Begun(pc, S).todo = S
         /\ Begun(pc, S).retry = FALSE
BY AtLemma DEF Begun, Thread

LEMMA GoingLemma ==
  ASSUME NEW pc \in Pcs, NEW S \in SUBSET Devices, NEW b \in BOOLEAN
  PROVE  Going(pc, S, b).pc = pc /\ Going(pc, S, b).todo = S
         /\ Going(pc, S, b).retry = b
BY AtLemma DEF Going, Thread

LEMMA IdleLemma == Idle \in Thread /\ Idle.pc = "idle"
BY DEF Idle, Thread, NoCommand

LEMMA BecomeLemma ==
  ASSUME TypeOK, NEW t \in Threads, NEW r \in Thread, Become(t, r)
  PROVE  /\ proc' \in [Threads -> Thread]
         /\ proc'[t] = r
         /\ \A u \in Threads \ {t} : proc'[u] = proc[u]
BY DEF TypeOK, Become

(***************************************************************************)
(* What every step does to the commands: none disappears, one that has     *)
(* ended stays as it ended, and only Create makes an open one.             *)
(***************************************************************************)
Forward == \A d \in Devices :
  /\ DOMAIN cmds[d] \subseteq DOMAIN cmds'[d]
  /\ \A i \in DOMAIN cmds[d] :
       /\ cmds[d][i] \notin Open => cmds'[d][i] = cmds[d][i]

Moved ==
  /\ cmds' \in [Devices -> Seq(States)]
  /\ \A d \in Devices :
       /\ DOMAIN cmds'[d] = DOMAIN cmds[d]
       /\ \A i \in DOMAIN cmds[d] :
            cmds[d][i] \notin Open => cmds'[d][i] = cmds[d][i]

\* A command that may advance elsewhere was open.
LEMMA AdvanceLemma ==
  ASSUME NEW s \in States, NEW r \in States, s # r, Lifecycle!CanAdvance(s, r)
  PROVE  s \in Open
BY DEF States, Open, Lifecycle!Open, Lifecycle!Terminal, Lifecycle!CanAdvance

LEMMA SetLemma ==
  ASSUME TypeOK, NEW d \in Devices, NEW i \in DOMAIN cmds[d], NEW s \in States,
         cmds[d][i] = s \/ cmds[d][i] \in Open,
         cmds' = [cmds EXCEPT ![d][i] = s]
  PROVE  Moved
<1>1. cmds[d] \in Seq(States) /\ cmds \in [Devices -> Seq(States)]
  BY DEF TypeOK
<1>2. /\ [cmds[d] EXCEPT ![i] = s] \in Seq(States)
      /\ DOMAIN [cmds[d] EXCEPT ![i] = s] = DOMAIN cmds[d]
  BY <1>1
<1>3. /\ cmds'[d] = [cmds[d] EXCEPT ![i] = s]
      /\ \A e \in Devices \ {d} : cmds'[e] = cmds[e]
      /\ cmds' \in [Devices -> Seq(States)]
  BY <1>1, <1>2
<1>4. ASSUME NEW e \in Devices
      PROVE  /\ DOMAIN cmds'[e] = DOMAIN cmds[e]
             /\ \A j \in DOMAIN cmds[e] :
                  cmds[e][j] \notin Open => cmds'[e][j] = cmds[e][j]
  BY <1>1, <1>2, <1>3
<1>5. QED BY <1>3, <1>4 DEF Moved

LEMMA PollMoves == ASSUME TypeOK, NEW d \in Devices, Poll(d) PROVE Moved
<1>1. PICK late \in SUBSET {i \in DOMAIN cmds[d] : cmds[d][i] \in Open} :
        cmds' = [cmds EXCEPT ![d] =
            [i \in DOMAIN @ |-> IF i \in late THEN "timed_out"
                                ELSE IF @[i] = "queued" THEN "delivered"
                                ELSE @[i]]]
  BY DEF Poll
<1> DEFINE new == [i \in DOMAIN cmds[d] |-> IF i \in late THEN "timed_out"
                      ELSE IF cmds[d][i] = "queued" THEN "delivered"
                      ELSE cmds[d][i]]
<1>2. cmds[d] \in Seq(States) /\ cmds \in [Devices -> Seq(States)]
  BY DEF TypeOK
<1>3. /\ DOMAIN cmds[d] = 1 .. Len(cmds[d]) /\ Len(cmds[d]) \in Nat
      /\ \A i \in DOMAIN cmds[d] : cmds[d][i] \in States
  BY <1>2
<1>4. \A i \in DOMAIN cmds[d] : new[i] \in States
  BY <1>3 DEF States
<1>5. new \in Seq(States)
  <2>1. new \in [1 .. Len(cmds[d]) -> States]
    BY <1>3, <1>4
  <2>2. QED BY <2>1, <1>3
<1>6. /\ cmds'[d] = new
      /\ \A e \in Devices \ {d} : cmds'[e] = cmds[e]
      /\ cmds' \in [Devices -> Seq(States)]
  BY <1>1, <1>2, <1>5
<1>7. \A i \in DOMAIN cmds[d] : cmds[d][i] \notin Open => new[i] = cmds[d][i]
  BY <1>1 DEF Open, Lifecycle!Open
<1>8. QED BY <1>6, <1>7 DEF Moved

LEMMA ReportMoves ==
  ASSUME TypeOK, NEW d \in Devices, NEW i \in DOMAIN cmds[d],
         NEW s \in {"running", "succeeded", "failed"}, Report(d, i, s)
  PROVE  Moved
<1>1. cmds[d][i] \in States
  BY DEF TypeOK
<1>2. s \in States
  BY DEF States
<1>3. cmds[d][i] \in Open
  BY <1>1, <1>2, AdvanceLemma DEF Report
<1>4. QED BY <1>2, <1>3, SetLemma DEF Report

LEMMA RevokeMoves ==
  ASSUME TypeInv, NEW t \in Threads, Revoke(t)
  PROVE  Moved
<1> DEFINE d == proc[t].dev
           i == proc[t].rows[d].cmd
<1>1. d \in Devices /\ i \in DOMAIN cmds[d]
  BY DEF Revoke, TypeInv, RowsInv
<1>2. CASE Lifecycle!CanAdvance(cmds[d][i], "canceled")
  <2>1. cmds' = [cmds EXCEPT ![d][i] = "canceled"]
    BY <1>2 DEF Revoke
  <2>2. cmds[d][i] \in States /\ "canceled" \in States
    BY <1>1 DEF TypeInv, TypeOK, States
  <2>3. cmds[d][i] = "canceled" \/ cmds[d][i] \in Open
    BY <1>2, <2>2, AdvanceLemma
  <2>4. QED BY <1>1, <2>1, <2>2, <2>3, SetLemma DEF TypeInv
<1>3. CASE ~Lifecycle!CanAdvance(cmds[d][i], "canceled")
  BY <1>3 DEF Revoke, Moved, TypeInv, TypeOK
<1>4. QED BY <1>2, <1>3

\* Create appends one open command and touches no other.
LEMMA CreateMoves ==
  ASSUME TypeOK, NEW t \in Threads, NEW d \in Devices, Create(t, d)
  PROVE  /\ cmds' \in [Devices -> Seq(States)]
         /\ DOMAIN cmds'[d] = DOMAIN cmds[d] \cup {NewNumber(d)}
         /\ NewNumber(d) \in Nat \ DOMAIN cmds[d]
         /\ \A i \in DOMAIN cmds[d] : cmds'[d][i] = cmds[d][i]
         /\ \A e \in Devices \ {d} : cmds'[e] = cmds[e]
         /\ Forward
<1>1. cmds \in [Devices -> Seq(States)] /\ cmds[d] \in Seq(States)
  BY DEF TypeOK
<1>2. "queued" \in States
  BY DEF States
<1>3. cmds' = [cmds EXCEPT ![d] = Append(@, "queued")]
  BY DEF Create
<1>4. /\ cmds' \in [Devices -> Seq(States)]
      /\ cmds'[d] = Append(cmds[d], "queued")
      /\ \A e \in Devices \ {d} : cmds'[e] = cmds[e]
  BY <1>1, <1>2, <1>3
<1>5. /\ DOMAIN cmds[d] = 1 .. Len(cmds[d]) /\ Len(cmds[d]) \in Nat
      /\ DOMAIN cmds'[d] = 1 .. (Len(cmds[d]) + 1)
      /\ \A i \in DOMAIN cmds[d] : cmds'[d][i] = cmds[d][i]
  BY <1>1, <1>2, <1>4
<1>6. /\ DOMAIN cmds'[d] = DOMAIN cmds[d] \cup {NewNumber(d)}
      /\ NewNumber(d) \in Nat \ DOMAIN cmds[d]
  BY <1>5 DEF NewNumber
<1>7. QED BY <1>4, <1>5, <1>6 DEF Forward

(***************************************************************************)
(* What commands only ever go forward leaves in place: every reference to  *)
(* a command still is one.                                                 *)
(***************************************************************************)
Still ==
  /\ \A d \in Devices : /\ known[d] \subseteq DOMAIN cmds'[d]
                        /\ exec[d].cmd \in {NoCommand} \cup DOMAIN cmds'[d]
  /\ \A x \in syncs : x[2] \in DOMAIN cmds'[x[1]]
  /\ \A t \in Threads : proc[t].pc = "link" =>
       /\ proc[t].dev \in proc[t].todo
       /\ proc[t].cmd \in DOMAIN cmds'[proc[t].dev]
  /\ \A t \in Threads : proc[t].pc \in {"cancel", "revoke", "strike"} =>
       /\ proc[t].rows \in [Devices -> [state : States, cmd : Nat]]
       /\ \A d \in Devices :
            proc[t].rows[d].cmd \in {NoCommand} \cup DOMAIN cmds'[d]
       /\ proc[t].pc # "cancel" => proc[t].dev \in Devices
       /\ proc[t].pc = "revoke" => proc[t].rows[proc[t].dev].cmd # NoCommand

LEMMA StillLemma == ASSUME TypeInv, Forward PROVE Still
<1>1. ASSUME NEW d \in Devices
      PROVE  /\ known[d] \subseteq DOMAIN cmds'[d]
             /\ exec[d].cmd \in {NoCommand} \cup DOMAIN cmds'[d]
  BY DEF TypeInv, TypeOK, Forward
<1>2. ASSUME NEW x \in syncs PROVE x[2] \in DOMAIN cmds'[x[1]]
  BY DEF TypeInv, TypeOK, Forward
<1>3. ASSUME NEW t \in Threads, proc[t].pc = "link"
      PROVE  /\ proc[t].dev \in proc[t].todo
             /\ proc[t].cmd \in DOMAIN cmds'[proc[t].dev]
  <2>1. proc[t].dev \in Devices
    BY <1>3 DEF TypeInv, TypeOK, LinkInv, Thread
  <2>2. QED BY <1>3, <2>1 DEF TypeInv, LinkInv, Forward
<1>4. ASSUME NEW t \in Threads,
             proc[t].pc \in {"cancel", "revoke", "strike"}
      PROVE  \A d \in Devices :
               proc[t].rows[d].cmd \in {NoCommand} \cup DOMAIN cmds'[d]
  BY <1>4 DEF TypeInv, RowsInv, Forward
<1>5. QED BY <1>1, <1>2, <1>3, <1>4 DEF Still, TypeInv, RowsInv

LEMMA MovedForward == ASSUME Moved PROVE Forward
BY DEF Moved, Forward

LEMMA SameForward == ASSUME UNCHANGED cmds PROVE Forward
BY DEF Forward

\* A step that changes no thread, and commands only forward.
LEMMA DeviceThreads ==
  ASSUME TypeInv, Forward, UNCHANGED proc
  PROVE  LinkInv' /\ RowsInv'
BY StillLemma DEF Still, LinkInv, RowsInv

LEMMA PollType ==
  ASSUME TypeInv, NEW d \in Devices, Poll(d)
  PROVE  TypeInv' /\ Forward
<1>1. Moved /\ Forward /\ Still
  BY PollMoves, MovedForward, StillLemma DEF TypeInv
<1>2. LinkInv' /\ RowsInv'
  BY <1>1, DeviceThreads DEF Poll
<1>3. known' \in [Devices -> SUBSET Nat]
      /\ \A e \in Devices : known'[e] \subseteq DOMAIN cmds'[e]
  <2>1. PICK new \in SUBSET DOMAIN cmds[d] :
          known' = [known EXCEPT ![d] = @ \cup new]
    BY DEF Poll
  <2>2. DOMAIN cmds[d] \subseteq Nat /\ DOMAIN cmds'[d] = DOMAIN cmds[d]
    BY <1>1 DEF Moved, TypeInv, TypeOK
  <2>3. QED BY <1>1, <2>1, <2>2 DEF TypeInv, TypeOK, Still
<1>4. faults' \in 0 .. MaxFaults
  BY RolloutAssumption DEF Poll, Fault, TypeInv, TypeOK, fault
<1>5. TypeOK'
  BY <1>1, <1>3, <1>4 DEF Poll, TypeInv, TypeOK, Moved, Still, device, operator
<1>6. QED BY <1>1, <1>2, <1>5 DEF TypeInv

LEMMA ReportType ==
  ASSUME TypeInv, NEW d \in Devices, NEW i \in DOMAIN cmds[d],
         NEW s \in {"running", "succeeded", "failed"}, Report(d, i, s)
  PROVE  TypeInv' /\ Forward
<1>1. Moved /\ Forward /\ Still
  BY ReportMoves, MovedForward, StillLemma DEF TypeInv
<1>2. LinkInv' /\ RowsInv'
  BY <1>1, DeviceThreads DEF Report
<1>3. TypeOK'
  BY <1>1 DEF Report, TypeInv, TypeOK, Moved, Still, device, operator, fault
<1>4. QED BY <1>1, <1>2, <1>3 DEF TypeInv

LEMMA SyncReadType ==
  ASSUME TypeInv, NEW d \in Devices, NEW i \in DOMAIN cmds[d], SyncRead(d, i)
  PROVE  TypeInv' /\ Forward
<1>1. Forward /\ Still
  BY SameForward, StillLemma DEF SyncRead
<1>2. LinkInv' /\ RowsInv'
  BY <1>1, DeviceThreads DEF SyncRead
<1>3. <<d, i, cmds[d][i]>> \in Devices \X Nat \X States
  BY DEF TypeInv, TypeOK
<1>4. TypeOK'
  BY <1>3 DEF SyncRead, TypeInv, TypeOK, device, operator, fault
<1>5. QED BY <1>1, <1>2, <1>4 DEF TypeInv

DepStates == {"queued", "running", "paused", "failed", "succeeded", "canceled"}

LEMMA SyncWriteType ==
  ASSUME TypeInv, NEW d \in Devices, NEW x \in syncs, x[1] = d,
         SyncWrite(d, x[2], x[3])
  PROVE  TypeInv' /\ Forward
<1>1. Forward /\ Still
  BY SameForward, StillLemma DEF SyncWrite
<1>2. LinkInv' /\ RowsInv'
  BY <1>1, DeviceThreads DEF SyncWrite
<1>3. x[3] \in States
  BY DEF TypeInv, TypeOK
<1>4. /\ exec' \in [Devices -> [state : States, cmd : Nat]]
      /\ \A e \in Devices : exec'[e].cmd = exec[e].cmd
  <2>1. exec \in [Devices -> [state : States, cmd : Nat]]
    BY DEF TypeInv, TypeOK
  <2>2. exec' = exec \/ exec' = [exec EXCEPT ![d].state = x[3]]
    BY DEF SyncWrite
  <2>3. QED BY <1>3, <2>1, <2>2
<1>5. dep' \in DepStates
  BY DEF SyncWrite, SyncedState, TypeInv, TypeOK, DepStates
<1>6. TypeOK'
  BY <1>4, <1>5 DEF SyncWrite, TypeInv, TypeOK, DepStates, device, operator,
                    fault
<1>7. QED BY <1>1, <1>2, <1>6 DEF TypeInv

LEMMA ReportedType ==
  ASSUME TypeInv, NEW d \in Devices,
         ReachTarget(d) \/ Worsen(d) \/ Recover(d) \/ Forget(d)
  PROVE  TypeInv' /\ Forward
<1>1. UNCHANGED <<controller, proc, operator>>
  BY DEF ReachTarget, Worsen, Recover, Forget
<1>2. Forward /\ Still
  BY <1>1, SameForward, StillLemma DEF controller
<1>3. LinkInv' /\ RowsInv'
  BY <1>1, <1>2, DeviceThreads
<1>4. /\ known' \in [Devices -> SUBSET Nat]
      /\ \A e \in Devices : known'[e] \subseteq known[e]
  BY DEF ReachTarget, Worsen, Recover, Forget, TypeInv, TypeOK
<1>5. /\ faults' \in 0 .. MaxFaults
      /\ stopped' = stopped
  BY RolloutAssumption
  DEF ReachTarget, Worsen, Recover, Forget, Fault, TypeInv, TypeOK, fault
<1>6. converged' \subseteq target' /\ target' \cup healthy' \subseteq Devices
  BY DEF ReachTarget, Worsen, Recover, Forget, TypeInv, TypeOK, device
<1>7. TypeOK'
  BY <1>1, <1>4, <1>5, <1>6 DEF TypeInv, TypeOK, controller, operator
<1>8. QED BY <1>2, <1>3, <1>7 DEF TypeInv

(***************************************************************************)
(* The programs' own steps.  Each changes one thread, and the others keep  *)
(* what they hold.                                                         *)
(***************************************************************************)
Holds(r) ==
  /\ r \in Thread
  /\ r.pc = "link" => r.dev \in r.todo /\ r.cmd \in DOMAIN cmds'[r.dev]
  /\ r.pc \in {"cancel", "revoke", "strike"} =>
       /\ r.rows \in [Devices -> [state : States, cmd : Nat]]
       /\ \A d \in Devices : r.rows[d].cmd \in {NoCommand} \cup DOMAIN cmds'[d]
       /\ r.pc # "cancel" => r.dev \in Devices
       /\ r.pc = "revoke" => r.rows[r.dev].cmd # NoCommand

LEMMA OneThread ==
  ASSUME TypeInv, Forward, NEW t \in Threads, NEW r, Holds(r), Become(t, r)
  PROVE  proc' \in [Threads -> Thread] /\ LinkInv' /\ RowsInv'
<1>1. /\ proc' \in [Threads -> Thread]
      /\ proc'[t] = r
      /\ \A u \in Threads \ {t} : proc'[u] = proc[u]
  BY BecomeLemma DEF Holds, TypeInv
<1>2. Still
  BY StillLemma
<1>3. LinkInv'
  BY <1>1, <1>2 DEF Still, Holds, LinkInv
<1>4. RowsInv'
  BY <1>1, <1>2 DEF Still, Holds, RowsInv
<1>5. QED BY <1>1, <1>3, <1>4

\* Ending, or beginning something that has no rows.
LEMMA BeginLemma ==
  ASSUME NEW pc \in {"dispatch", "mark", "pause", "succeed"}
  PROVE  /\ Holds(At(pc)) /\ Holds(Idle)
         /\ \A p \in Phases : Holds([At(pc) EXCEPT !.phase = p])
<1>1. Holds(At(pc))
  BY AtLemma DEF Holds, Pcs
<1>2. Holds(Idle)
  BY IdleLemma DEF Holds
<1>3. ASSUME NEW p \in Phases PROVE Holds([At(pc) EXCEPT !.phase = p])
  <2>1. [At(pc) EXCEPT !.phase = p] \in Thread
    BY AtLemma, ZenonT(30) DEF Thread, Pcs
  <2>2. [At(pc) EXCEPT !.phase = p].pc = pc
    BY AtLemma DEF Thread, Pcs
  <2>3. QED BY <2>1, <2>2 DEF Holds
<1>4. QED BY <1>1, <1>2, <1>3

\* Going on with the rows that are left.
LEMMA NextRow ==
  \A pc \in {"mark", "create"}, S \in SUBSET Devices, b \in BOOLEAN :
    /\ Holds([At(pc) EXCEPT !.todo = S])
    /\ Holds([At(pc) EXCEPT !.todo = S, !.retry = b])
<1>1. ASSUME NEW pc \in {"mark", "create"}, NEW S \in SUBSET Devices,
             NEW b \in BOOLEAN
      PROVE  /\ Holds([At(pc) EXCEPT !.todo = S])
             /\ Holds([At(pc) EXCEPT !.todo = S, !.retry = b])
  <2>1. At(pc) \in Thread /\ At(pc).pc = pc
    BY AtLemma DEF Pcs
  <2>2. /\ [At(pc) EXCEPT !.todo = S] \in Thread
        /\ [At(pc) EXCEPT !.todo = S].pc = pc
    BY <2>1 DEF Thread
  <2>3. /\ [At(pc) EXCEPT !.todo = S, !.retry = b] \in Thread
        /\ [At(pc) EXCEPT !.todo = S, !.retry = b].pc = pc
    BY <2>1 DEF Thread
  <2>4. Holds([At(pc) EXCEPT !.todo = S])
    BY <2>2 DEF Holds
  <2>5. Holds([At(pc) EXCEPT !.todo = S, !.retry = b])
    BY <2>3, Zenon DEF Holds
  <2>6. QED BY <2>4, <2>5
<1>2. QED BY <1>1, Zenon

LEMMA DecideType ==
  ASSUME TypeInv, NEW t \in Threads, Decide(t), UNCHANGED controller
  PROVE  proc' \in [Threads -> Thread] /\ LinkInv' /\ RowsInv' /\ Forward
<1>1. Forward
  BY SameForward DEF controller
<1>2. \E r : Holds(r) /\ Become(t, r)
  BY BeginLemma DEF Decide, Least, Later
<1>3. QED BY <1>1, <1>2, OneThread

\* What remains of the types when only the thread's record is in question.
LEMMA AskType ==
  ASSUME TypeInv, NEW t \in Threads, NEW r, Ask(t, r),
         proc' \in [Threads -> Thread], LinkInv', RowsInv'
  PROVE  TypeInv' /\ Forward
<1>1. /\ requests' \in 0 .. MaxRequests
      /\ asked' \subseteq Requests
  BY RolloutAssumption DEF Ask, TypeInv, TypeOK
<1>2. TypeOK'
  BY <1>1 DEF Ask, TypeInv, TypeOK, controller, device, fault
<1>3. QED BY <1>2, SameForward DEF Ask, controller, TypeInv

LEMMA RequestType ==
  ASSUME TypeInv, NEW t \in Threads, Request(t)
  PROVE  TypeInv' /\ Forward
<1>1. CASE Advance(t)
  <2>1. UNCHANGED controller
    BY <1>1 DEF Advance, Ask
  <2>2. QED BY <1>1, <2>1, DecideType, AskType DEF Advance
<1>2. CASE \E p \in Phases : DispatchPhase(t, p)
  <2>1. PICK p \in Phases : DispatchPhase(t, p)
    BY <1>2
  <2>2. Forward
    BY <2>1, SameForward DEF DispatchPhase, Ask, controller
  <2>3. QED BY <2>1, <2>2, BeginLemma, OneThread, AskType DEF DispatchPhase
<1>3. CASE Retry(t)
  <2>1. Forward
    BY <1>3, SameForward DEF Retry, Ask, controller
  <2> DEFINE rows == {d \in Devices : exec[d].state \in Retryable}
             r == [At("create") EXCEPT !.todo = rows, !.retry = TRUE]
  <2>2. Become(t, r)
    BY <1>3 DEF Retry
  <2>3. Holds(r)
    BY AtLemma DEF Holds, Thread, Pcs
  <2>4. QED BY <1>3, <2>1, <2>2, <2>3, OneThread, AskType DEF Retry
<1>4. CASE Resume(t)
  <2>1. Forward
    BY <1>4, SameForward DEF Resume, Ask, controller
  <2>2. QED BY <1>4, <2>1, BeginLemma, OneThread, AskType DEF Resume
<1>5. CASE Cancel(t)
  <2>1. Forward
    BY <1>5, SameForward DEF Cancel, Ask, controller
  <2> DEFINE r == [At("cancel") EXCEPT !.todo = Devices, !.rows = exec]
  <2>2. Become(t, r)
    BY <1>5 DEF Cancel
  <2>3. /\ exec \in [Devices -> [state : States, cmd : Nat]]
        /\ \A d \in Devices : exec[d].cmd \in {NoCommand} \cup DOMAIN cmds'[d]
    BY <2>1, StillLemma DEF Still, TypeInv, TypeOK
  <2>4. r \in Thread /\ r.pc = "cancel" /\ r.rows = exec
    BY <2>3, AtLemma DEF Thread, Pcs
  <2>5. Holds(r)
    BY <2>3, <2>4 DEF Holds
  <2>6. QED BY <1>5, <2>1, <2>2, <2>5, OneThread, AskType DEF Cancel
<1>6. QED BY <1>1, <1>2, <1>3, <1>4, <1>5 DEF Request

LEMMA PassType == ASSUME TypeInv, Pass PROVE TypeInv' /\ Forward
<1>1. /\ proc' \in [Threads -> Thread] /\ LinkInv' /\ RowsInv' /\ Forward
  BY DecideType DEF Pass, Threads
<1>2. TypeOK'
  BY <1>1 DEF Pass, TypeInv, TypeOK, controller, device, operator, fault
<1>3. QED BY <1>1, <1>2 DEF TypeInv

LEMMA ListType ==
  ASSUME TypeInv, NEW t \in Threads, List(t)
  PROVE  TypeInv' /\ Forward
<1>1. Forward
  BY SameForward DEF List, controller
<1> DEFINE rows == {d \in Rows(proc[t].phase) : exec[d].cmd = NoCommand}
           r == [At(IF rows = {} THEN "mark" ELSE "create")
                   EXCEPT !.todo = rows]
<1>2. Become(t, Idle) \/ Become(t, r)
  BY DEF List
<1>3. Holds(r)
  <2>1. (IF rows = {} THEN "mark" ELSE "create") \in {"mark", "create"}
    OBVIOUS
  <2>2. rows \in SUBSET Devices
    BY DEF Rows
  <2>3. QED BY <2>1, <2>2, NextRow, Zenon
<1>4. proc' \in [Threads -> Thread] /\ LinkInv' /\ RowsInv'
  BY <1>1, <1>2, <1>3, BeginLemma, OneThread
<1>5. TypeOK'
  BY <1>4 DEF List, TypeInv, TypeOK, controller, device, operator, fault
<1>6. QED BY <1>1, <1>4, <1>5 DEF TypeInv

LEMMA CreateType ==
  ASSUME TypeInv, NEW t \in Threads, NEW d \in Devices, Create(t, d)
  PROVE  TypeInv' /\ Forward
<1>1. /\ Forward /\ Still
      /\ cmds' \in [Devices -> Seq(States)]
      /\ NewNumber(d) \in Nat /\ NewNumber(d) \in DOMAIN cmds'[d]
  BY CreateMoves, StillLemma DEF TypeInv
<1> DEFINE r == [proc[t] EXCEPT !.pc = "link", !.dev = d, !.cmd = NewNumber(d)]
<1>2. Become(t, r) /\ proc[t] \in Thread /\ d \in proc[t].todo
  BY DEF Create, TypeInv, TypeOK
<1>3. /\ r \in Thread /\ r.pc = "link" /\ r.dev = d /\ r.cmd = NewNumber(d)
      /\ r.todo = proc[t].todo
  BY <1>1, <1>2 DEF Thread
<1>4. Holds(r)
  BY <1>1, <1>2, <1>3 DEF Holds
<1>5. proc' \in [Threads -> Thread] /\ LinkInv' /\ RowsInv'
  BY <1>1, <1>2, <1>4, OneThread
<1>6. TypeOK'
  BY <1>1, <1>5 DEF Create, Still, TypeInv, TypeOK, device, operator, fault
<1>7. QED BY <1>1, <1>5, <1>6 DEF TypeInv

LEMMA LinkType ==
  ASSUME TypeInv, NEW t \in Threads, Link(t)
  PROVE  TypeInv' /\ Forward
<1> DEFINE me == proc[t]
           rest == me.todo \ {me.dev}
           r == [At(IF rest = {} THEN "mark" ELSE "create")
                   EXCEPT !.todo = rest, !.retry = me.retry /\ rest # {}]
<1>1. Forward
  BY SameForward DEF Link
<1>2. Become(t, r) /\ me \in Thread /\ me.pc = "link"
  BY DEF Link, TypeInv, TypeOK
<1>3. me.dev \in me.todo /\ me.todo \subseteq Devices /\ me.dev \in Devices
      /\ me.cmd \in DOMAIN cmds[me.dev] /\ me.cmd \in Nat
  BY <1>2 DEF TypeInv, LinkInv, Thread
<1>4. Holds(r)
  <2>1. (IF rest = {} THEN "mark" ELSE "create") \in {"mark", "create"}
    OBVIOUS
  <2>2. rest \in SUBSET Devices /\ (me.retry /\ rest # {}) \in BOOLEAN
    BY <1>2, <1>3 DEF Thread
  <2>3. QED BY <2>1, <2>2, NextRow, Zenon
<1>5. proc' \in [Threads -> Thread] /\ LinkInv' /\ RowsInv'
  BY <1>1, <1>2, <1>4, OneThread
<1>6. /\ exec' \in [Devices -> [state : States, cmd : Nat]]
      /\ \A d \in Devices : exec'[d].cmd \in {NoCommand} \cup DOMAIN cmds[d]
  <2>1. exec \in [Devices -> [state : States, cmd : Nat]]
    BY DEF TypeInv, TypeOK
  <2> DEFINE new == [state |-> IF me.retry THEN "queued"
                               ELSE exec[me.dev].state,
                     cmd |-> me.cmd]
  <2>2. exec' = [exec EXCEPT ![me.dev] = new]
    BY DEF Link
  <2>3. new \in [state : States, cmd : Nat] /\ new.cmd = me.cmd
    BY <1>3, <2>1 DEF States
  <2>4. \A d \in Devices : exec[d].cmd \in {NoCommand} \cup DOMAIN cmds[d]
    BY DEF TypeInv, TypeOK
  <2> HIDE DEF new
  <2>5. QED BY <1>3, <2>1, <2>2, <2>3, <2>4
<1>7. TypeOK'
  BY <1>5, <1>6 DEF Link, TypeInv, TypeOK, device, operator, fault
<1>8. QED BY <1>1, <1>5, <1>7 DEF TypeInv

LEMMA FinishType ==
  ASSUME TypeInv, NEW t \in Threads, Finish(t)
  PROVE  TypeInv' /\ Forward
<1>1. Forward
  BY SameForward DEF Finish
<1>2. proc' \in [Threads -> Thread] /\ LinkInv' /\ RowsInv'
  BY <1>1, BeginLemma, OneThread DEF Finish
<1>3. dep' \in DepStates
  BY DEF Finish, Final, DepStates
<1>4. TypeOK'
  BY <1>2, <1>3 DEF Finish, TypeInv, TypeOK, DepStates, device, operator, fault
<1>5. QED BY <1>1, <1>2, <1>4 DEF TypeInv

\* A row of a cancellation is dealt with, or its command is about to be.
LEMMA CancelRowType ==
  ASSUME TypeInv, NEW t \in Threads, NEW d \in Devices, CancelRow(t, d)
  PROVE  TypeInv' /\ Forward
<1> DEFINE me == proc[t]
           skip == [me EXCEPT !.todo = @ \ {d}]
           revoke == [me EXCEPT !.pc = "revoke", !.dev = d]
<1>1. Forward /\ Still
  BY SameForward, StillLemma DEF CancelRow
<1>2. me \in Thread /\ me.pc = "cancel" /\ d \in me.todo
  BY DEF CancelRow, TypeInv, TypeOK
<1>3. /\ me.rows \in [Devices -> [state : States, cmd : Nat]]
      /\ \A e \in Devices : me.rows[e].cmd \in {NoCommand} \cup DOMAIN cmds'[e]
  BY <1>1, <1>2 DEF Still
<1>4. Holds(skip)
  <2>1. skip \in Thread /\ skip.pc = "cancel" /\ skip.rows = me.rows
    BY <1>2 DEF Thread
  <2>2. QED BY <1>3, <2>1 DEF Holds
<1>5. me.rows[d].cmd # NoCommand => Holds(revoke)
  <2>1. /\ revoke \in Thread /\ revoke.pc = "revoke" /\ revoke.rows = me.rows
        /\ revoke.dev = d
    BY <1>2 DEF Thread
  <2>2. QED BY <1>3, <2>1 DEF Holds
<1>6. \E r : Holds(r) /\ Become(t, r)
  BY <1>4, <1>5 DEF CancelRow
<1>7. proc' \in [Threads -> Thread] /\ LinkInv' /\ RowsInv'
  BY <1>1, <1>6, OneThread
<1>8. /\ exec' \in [Devices -> [state : States, cmd : Nat]]
      /\ \A e \in Devices : exec'[e].cmd = exec[e].cmd
  <2>1. exec \in [Devices -> [state : States, cmd : Nat]]
    BY DEF TypeInv, TypeOK
  <2>2. exec' = exec \/ exec' = [exec EXCEPT ![d].state = "canceled"]
    BY DEF CancelRow
  <2>3. "canceled" \in States
    BY DEF States
  <2>4. QED BY <2>1, <2>2, <2>3
<1>9. TypeOK'
  BY <1>7, <1>8 DEF CancelRow, TypeInv, TypeOK, device, operator, fault
<1>10. QED BY <1>1, <1>7, <1>9 DEF TypeInv

LEMMA RevokeType ==
  ASSUME TypeInv, NEW t \in Threads, Revoke(t)
  PROVE  TypeInv' /\ Forward
<1> DEFINE me == proc[t]
           r == [me EXCEPT !.pc = "strike"]
<1>1. Moved /\ Forward /\ Still
  BY RevokeMoves, MovedForward, StillLemma
<1>2. Become(t, Idle) \/ Become(t, r)
  BY DEF Revoke
<1>3. me \in Thread /\ me.pc = "revoke"
  BY DEF Revoke, TypeInv, TypeOK
<1>4. Holds(r)
  <2>1. r \in Thread /\ r.pc = "strike" /\ r.rows = me.rows /\ r.dev = me.dev
    BY <1>3 DEF Thread
  <2>2. QED BY <1>1, <1>3, <2>1 DEF Holds, Still
<1>5. proc' \in [Threads -> Thread] /\ LinkInv' /\ RowsInv'
  BY <1>1, <1>2, <1>4, BeginLemma, OneThread
<1>6. TypeOK'
  BY <1>1, <1>5 DEF Revoke, Moved, Still, TypeInv, TypeOK, device, operator,
                    fault
<1>7. QED BY <1>1, <1>5, <1>6 DEF TypeInv

LEMMA StrikeType ==
  ASSUME TypeInv, NEW t \in Threads, Strike(t)
  PROVE  TypeInv' /\ Forward
<1> DEFINE me == proc[t]
           r == [At("cancel") EXCEPT !.todo = me.todo \ {me.dev},
                                     !.rows = me.rows]
<1>1. Forward /\ Still
  BY SameForward, StillLemma DEF Strike
<1>2. Become(t, r) /\ me \in Thread /\ me.pc = "strike"
  BY DEF Strike, TypeInv, TypeOK
<1>3. Holds(r)
  <2>1. me.rows \in [Devices -> [state : States, cmd : Nat]]
    BY <1>1, <1>2 DEF Still
  <2>2. r \in Thread /\ r.pc = "cancel" /\ r.rows = me.rows
    BY <1>2, <2>1, AtLemma DEF Thread, Pcs
  <2>3. QED BY <1>1, <1>2, <2>2 DEF Holds, Still
<1>4. proc' \in [Threads -> Thread] /\ LinkInv' /\ RowsInv'
  BY <1>1, <1>2, <1>3, OneThread
<1>5. /\ exec' \in [Devices -> [state : States, cmd : Nat]]
      /\ \A e \in Devices : exec'[e].cmd = exec[e].cmd
  <2>1. exec \in [Devices -> [state : States, cmd : Nat]]
    BY DEF TypeInv, TypeOK
  <2>2. exec' = [exec EXCEPT ![me.dev].state = "canceled"]
    BY DEF Strike
  <2>3. "canceled" \in States
    BY DEF States
  <2>4. QED BY <2>1, <2>2, <2>3
<1>6. TypeOK'
  BY <1>4, <1>5 DEF Strike, TypeInv, TypeOK, device, operator, fault
<1>7. QED BY <1>1, <1>4, <1>6 DEF TypeInv

LEMMA StopType ==
  ASSUME TypeInv, NEW t \in Threads, Stop(t)
  PROVE  TypeInv' /\ Forward
<1>1. Forward
  BY SameForward DEF Stop, controller
<1>2. proc' \in [Threads -> Thread] /\ LinkInv' /\ RowsInv'
  BY <1>1, BeginLemma, OneThread DEF Stop
<1>3. stopped' \in BOOLEAN /\ faults' \in 0 .. MaxFaults
  BY RolloutAssumption DEF Stop, Fault, TypeInv, TypeOK
<1>4. TypeOK'
  BY <1>2, <1>3 DEF Stop, TypeInv, TypeOK, controller, device, operator
<1>5. QED BY <1>1, <1>2, <1>4 DEF TypeInv

LEMMA DeviceType ==
  ASSUME TypeInv, NEW d \in Devices, DeviceStep(d)
  PROVE  TypeInv' /\ Forward
BY PollType, ReportType, SyncReadType, SyncWriteType, ReportedType
DEF DeviceStep

LEMMA ContinueType ==
  ASSUME TypeInv, NEW t \in Threads, Continue(t)
  PROVE  TypeInv' /\ Forward
BY ListType, LinkType, RevokeType, StrikeType, FinishType, CreateType,
   CancelRowType
DEF Continue

LEMMA TypeStep == TypeInv /\ [Next]_vars => TypeInv' /\ Forward
<1> SUFFICES ASSUME TypeInv, [Next]_vars PROVE TypeInv' /\ Forward
  OBVIOUS
<1>1. CASE \E d \in Devices : DeviceStep(d)
  BY <1>1, DeviceType
<1>2. CASE Pass
  BY <1>2, PassType
<1>3. CASE \E t \in Operators : Request(t)
  BY <1>3, RequestType DEF Threads
<1>4. CASE \E t \in Threads : Continue(t) \/ Stop(t)
  BY <1>4, ContinueType, StopType
<1>5. CASE UNCHANGED vars
  BY <1>5, SameForward
  DEF vars, controller, device, operator, fault, TypeInv, TypeOK, LinkInv,
      RowsInv
<1>6. QED BY <1>1, <1>2, <1>3, <1>4, <1>5 DEF Next

LEMMA TypeInit == Init => TypeInv
<1> SUFFICES ASSUME Init PROVE TypeInv
  OBVIOUS
<1>1. TypeOK
  <2>1. proc \in [Threads -> Thread]
    BY IdleLemma DEF Init
  <2>2. \A d \in Devices : cmds[d] = <<>> /\ exec[d].cmd = NoCommand
    BY DEF Init
  <2>3. cmds \in [Devices -> Seq(States)]
    BY DEF Init
  <2>4. exec \in [Devices -> [state : States, cmd : Nat]]
    BY DEF Init, States, NoCommand
  <2>5. requests \in 0 .. MaxRequests /\ faults \in 0 .. MaxFaults
    BY RolloutAssumption DEF Init
  <2>6. /\ known \in [Devices -> SUBSET Nat]
        /\ \A d \in Devices : known[d] \subseteq DOMAIN cmds[d]
    BY DEF Init
  <2>7. /\ dep \in DepStates /\ stopped \in BOOLEAN /\ syncs = {}
        /\ converged \subseteq target /\ target \cup healthy \subseteq Devices
        /\ asked \subseteq Requests
    BY DEF Init, DepStates
  <2>8. QED BY <2>1, <2>2, <2>3, <2>4, <2>5, <2>6, <2>7 DEF TypeOK, DepStates
<1>2. \A t \in Threads : proc[t].pc = "idle"
  BY IdleLemma DEF Init
<1>3. QED BY <1>1, <1>2 DEF TypeInv, LinkInv, RowsInv

(***************************************************************************)
(* Every variable keeps its type and every reference to a command, in an   *)
(* execution, a report, a sync or a thread, is to a command that exists.   *)
(***************************************************************************)
THEOREM TypeCorrect == Spec => []TypeOK
<1>1. TypeInv => TypeOK
  BY DEF TypeInv
<1>2. QED BY <1>1, TypeInit, TypeStep, PTL DEF Spec

-----------------------------------------------------------------------------
(***************************************************************************)
(* Safety.  First the gates: no phase is opened, and no deployment         *)
(* succeeds, before the phases it leaves behind have converged.  Then the  *)
(* commands: what executions say of them is true, and none is lost from    *)
(* sight.                                                                  *)
(***************************************************************************)

\* A device that has the target and is healthy has converged.
TargetInv == target \cap healthy \subseteq converged

\* Only a command's end makes an execution one that may be tried again.
EndNamed == \A d \in Devices :
  exec[d].state \in Retryable => exec[d].cmd # NoCommand

Cleared(p) == \A q \in Phases : q < p => Passed(q)
AllPassed == \A p \in Phases : Passed(p)

\* What a thread may be about to give commands to is cleared ...
Sound(r) == /\ r.pc = "dispatch" => Cleared(r.phase)
            /\ r.pc \in {"create", "link"} =>
                  \A d \in r.todo : Cleared(Phase[d])

WaveInv == "dispatch" \notin asked =>
  /\ \A t \in Threads : Sound(proc[t])
  /\ \A d \in Devices : cmds[d] # <<>> => Cleared(Phase[d])

\* ... and a thread about to record success has seen every gate open.
SuccessInv == /\ dep = "succeeded" => AllPassed
              /\ \A t \in Threads : proc[t].pc = "succeed" => AllPassed

GateInv == TypeInv /\ TargetInv /\ EndNamed /\ WaveInv /\ SuccessInv

(***************************************************************************)
(* A phase that has passed stays so, because devices do not un-converge.   *)
(***************************************************************************)
LEMMA RowsFinite == ASSUME NEW p, NEW S PROVE
  /\ IsFiniteSet(Rows(p) \ S) /\ Cardinality(Rows(p) \ S) \in Nat
  /\ IsFiniteSet(Rows(p)) /\ Cardinality(Rows(p)) \in Nat
<1>1. Rows(p) \subseteq Devices /\ Rows(p) \ S \subseteq Devices
  BY DEF Rows
<1>2. IsFiniteSet(Rows(p)) /\ IsFiniteSet(Rows(p) \ S)
  BY <1>1, RolloutAssumption, FS_Subset
<1>3. QED BY <1>2, FS_CardinalityType

LEMMA FewerMissing ==
  ASSUME NEW p, NEW S, NEW T, Rows(p) \ T \subseteq Rows(p) \ S,
         \/ Cardinality(Rows(p) \ S) = 0
         \/ /\ ~(Phased /\ p = 0)
            /\ Cardinality(Rows(p) \ S) < ThresholdCount
            /\ 100 * Cardinality(Rows(p) \ S)
                 < ThresholdPercent * Cardinality(Rows(p))
  PROVE  \/ Cardinality(Rows(p) \ T) = 0
         \/ /\ ~(Phased /\ p = 0)
            /\ Cardinality(Rows(p) \ T) < ThresholdCount
            /\ 100 * Cardinality(Rows(p) \ T)
                 < ThresholdPercent * Cardinality(Rows(p))
<1> DEFINE m == Cardinality(Rows(p) \ S)
           n == Cardinality(Rows(p) \ T)
           bound == ThresholdPercent * Cardinality(Rows(p))
<1>1. m \in Nat /\ n \in Nat /\ n <= m
  <2>1. IsFiniteSet(Rows(p) \ S)
    BY RowsFinite
  <2>2. QED BY <2>1, RowsFinite, FS_Subset
<1>2. ThresholdPercent \in Nat /\ ThresholdCount \in Nat /\ bound \in Nat
  <2>1. ThresholdPercent \in Nat /\ ThresholdCount \in Nat
    BY RolloutAssumption
  <2>2. Cardinality(Rows(p)) \in Nat
    BY RowsFinite
  <2>3. \A i, j \in Nat : i * j \in Nat
    OBVIOUS
  <2>4. QED BY <2>1, <2>2, <2>3, Zenon
<1> HIDE DEF m, n, bound
<1>3. \/ m = 0
      \/ ~(Phased /\ p = 0) /\ m < ThresholdCount /\ 100 * m < bound
  BY DEF m, bound
<1>4. \/ n = 0
      \/ ~(Phased /\ p = 0) /\ n < ThresholdCount /\ 100 * n < bound
  BY <1>1, <1>2, <1>3
<1>5. QED BY <1>4 DEF n, bound

LEMMA PassedStays ==
  ASSUME converged \subseteq converged', NEW p, Passed(p)
  PROVE  Passed(p)'
<1>1. Rows(p) \ converged' \subseteq Rows(p) \ converged
  OBVIOUS
<1>2. QED BY <1>1, FewerMissing DEF Passed, Rows

LEMMA ClearedStays ==
  ASSUME converged \subseteq converged'
  PROVE  /\ \A p : Cleared(p) => Cleared(p)'
         /\ AllPassed => AllPassed'
BY PassedStays DEF Cleared, AllPassed, Phases

(***************************************************************************)
(* What a gate that is open says (phase_gate).                             *)
(***************************************************************************)
LEMMA ReadyPassed ==
  ASSUME TypeOK, TargetInv, NEW p, Gate(p) = "ready"
  PROVE  Passed(p)
<1>1. ~Breach(p, Failed(p)) /\ Pending(p) = {} /\ Unhealthy(p) = {}
  BY DEF Gate
<1>2. Rows(p) \ converged \subseteq Rows(p) \ (Rows(p) \ Failed(p))
  <2>1. \A d \in Rows(p) \ Failed(p) : d \in target /\ d \in healthy
    BY <1>1 DEF Pending, Unhealthy
  <2>2. QED BY <2>1 DEF TargetInv
<1> DEFINE S == Rows(p) \ Failed(p)
<1>3. Rows(p) \ S = Failed(p)
  BY DEF Failed
<1>4. CASE Failed(p) = {}
  <2>1. Cardinality(Rows(p) \ S) = 0
    BY <1>3, <1>4, FS_EmptySet
  <2>2. QED BY <1>2, <2>1, FewerMissing DEF Passed
<1>5. CASE Failed(p) # {}
  <2>1. Cardinality(Failed(p)) \in Nat /\ ThresholdCount \in Nat
        /\ ThresholdPercent * Cardinality(Rows(p)) \in Nat
    <3>1. Cardinality(Failed(p)) \in Nat
      BY <1>3, RowsFinite, Zenon
    <3>2. Cardinality(Rows(p)) \in Nat
      BY RowsFinite
    <3>3. QED BY <3>1, <3>2, RolloutAssumption
  <2>2. /\ ~(Phased /\ p = 0)
        /\ Cardinality(Rows(p) \ S) < ThresholdCount
        /\ 100 * Cardinality(Rows(p) \ S)
             < ThresholdPercent * Cardinality(Rows(p))
    BY <1>1, <1>3, <1>5, <2>1 DEF Breach
  <2>3. QED BY <1>2, <2>2, FewerMissing DEF Passed
<1>6. QED BY <1>4, <1>5

\* A phase with a command is cleared, and so is the next one when its gate
\* opens, or the first one before any.
LEMMA DecideSound ==
  ASSUME TypeInv, TargetInv, NEW t \in Threads, Decide(t),
         \A d \in Devices : cmds[d] # <<>> => Cleared(Phase[d])
  PROVE  Sound(proc'[t])
<1>1. CASE Dispatched = {}
  <2>1. PICK p \in Least(Phases) :
          Become(t, [At("dispatch") EXCEPT !.phase = p])
    BY <1>1 DEF Decide, Greatest
  <2>2. proc'[t] = [At("dispatch") EXCEPT !.phase = p]
    BY <2>1 DEF Become, TypeInv, TypeOK
  <2>3. proc'[t].pc = "dispatch" /\ proc'[t].phase = p
    BY <2>2, AtLemma DEF Thread, Pcs
  <2>4. Phases \subseteq Nat
    BY RolloutAssumption DEF Phases
  <2>5. Cleared(p)
    BY <2>4 DEF Least, Cleared
  <2>6. QED BY <2>3, <2>5 DEF Sound
<1>2. ASSUME NEW active \in Greatest(Dispatched),
             Gate(active) = "ready",
             NEW p \in Least(Later(active)),
             Become(t, [At("dispatch") EXCEPT !.phase = p])
      PROVE  Sound(proc'[t])
  <2>1. proc'[t] = [At("dispatch") EXCEPT !.phase = p]
    BY <1>2 DEF Become, TypeInv, TypeOK
  <2>2. proc'[t].pc = "dispatch" /\ proc'[t].phase = p
    BY <2>1, AtLemma DEF Thread, Pcs
  <2>3. Phases \subseteq Nat /\ active \in Phases /\ p \in Phases
    BY RolloutAssumption
    DEF Phases, Greatest, Dispatched, Least, Later
  <2>4. Cleared(active)
    <3>1. PICK d \in Devices : exec[d].cmd # NoCommand /\ active = Phase[d]
      BY DEF Greatest, Dispatched
    <3>2. cmds[d] # <<>>
      BY <3>1 DEF TypeInv, TypeOK
    <3>3. QED BY <3>1, <3>2
  <2>5. Passed(active)
    BY <1>2, ReadyPassed DEF TypeInv
  <2>6. ASSUME NEW q \in Phases, q < p PROVE q <= active
    <3>1. q \notin Later(active)
      BY <2>3, <2>6 DEF Least
    <3>2. QED BY <2>3, <3>1 DEF Later
  <2>7. Cleared(p)
    <3>1. ASSUME NEW q \in Phases, q < p PROVE Passed(q)
      <4>1. q < active \/ q = active
        BY <2>3, <2>6, <3>1
      <4>2. QED BY <2>4, <2>5, <4>1 DEF Cleared
    <3>2. QED BY <3>1 DEF Cleared
  <2>8. QED BY <2>2, <2>7 DEF Sound
<1>3. ASSUME NEW pc \in {"pause", "succeed"}, Become(t, At(pc))
      PROVE  Sound(proc'[t])
  <2>1. proc'[t] = At(pc)
    BY <1>3 DEF Become, TypeInv, TypeOK
  <2>2. QED BY <2>1, AtLemma DEF Sound, Pcs
<1>4. QED BY <1>1, <1>2, <1>3 DEF Decide

\* Nobody goes on to record success unless every gate is open.
LEMMA DecideSuccess ==
  ASSUME TypeInv, TargetInv, NEW t \in Threads, Decide(t),
         proc'[t].pc = "succeed"
  PROVE  AllPassed
<1>1. \A pc \in {"dispatch", "pause"}, p \in Phases :
        At(pc).pc # "succeed" /\ [At(pc) EXCEPT !.phase = p].pc # "succeed"
  BY AtLemma DEF Thread, Pcs
<1>2. \A r : Become(t, r) => proc'[t] = r
  BY DEF Become, TypeInv, TypeOK
<1>3. \A p \in Phases : Gate(p) = "ready"
  BY <1>1, <1>2 DEF Decide, Least, Later, Phases
<1>4. QED BY <1>3, ReadyPassed DEF AllPassed, TypeInv

(***************************************************************************)
(* How a step preserves the two invariants, whatever the action.           *)
(***************************************************************************)
LEMMA WaveFrame ==
  ASSUME WaveInv, converged \subseteq converged', asked \subseteq asked',
         "dispatch" \notin asked' => \A t \in Threads : Sound(proc'[t]),
         "dispatch" \notin asked' => \A d \in Devices : cmds'[d] # <<>> =>
           cmds[d] # <<>> \/ Cleared(Phase[d])
  PROVE  WaveInv'
<1>1. \A p : Cleared(p) => Cleared(p)'
  BY ClearedStays
<1>2. ASSUME "dispatch" \notin asked', NEW t \in Threads
      PROVE  Sound(proc[t])'
  BY <1>1, <1>2 DEF Sound
<1>3. ASSUME "dispatch" \notin asked', NEW d \in Devices, cmds'[d] # <<>>
      PROVE  Cleared(Phase[d])'
  BY <1>1, <1>3 DEF WaveInv
<1>4. QED BY <1>2, <1>3 DEF WaveInv

LEMMA SuccessFrame ==
  ASSUME SuccessInv, converged \subseteq converged',
         dep' = "succeeded" =>
           dep = "succeeded" \/ \E t \in Threads : proc[t].pc = "succeed",
         \A t \in Threads : proc'[t].pc = "succeed" =>
           proc[t].pc = "succeed" \/ AllPassed
  PROVE  SuccessInv'
BY ClearedStays DEF SuccessInv

\* A step of one thread: only what it holds now is in question.
LEMMA ThreadFrame ==
  ASSUME TypeInv, NEW t \in Threads, NEW r, Become(t, r),
         \A u \in Threads : Sound(proc[u]), Sound(r)
  PROVE  \A u \in Threads : Sound(proc'[u])
<1>1. \A u \in Threads : proc'[u] = IF u = t THEN r ELSE proc[u]
  BY DEF Become, TypeInv, TypeOK
<1>2. QED BY <1>1

LEMMA MovedEmpty ==
  ASSUME TypeOK, Moved
  PROVE  \A d \in Devices : cmds'[d] # <<>> => cmds[d] # <<>>
<1> SUFFICES ASSUME NEW d \in Devices, cmds[d] = <<>> PROVE cmds'[d] = <<>>
  OBVIOUS
<1>1. cmds'[d] \in Seq(States) /\ DOMAIN cmds'[d] = {}
  BY DEF Moved
<1>2. ASSUME NEW s \in Seq(States), DOMAIN s = {} PROVE s = <<>>
  <2>1. Len(s) \in Nat /\ 1 .. Len(s) = {}
    BY <1>2, LenProperties
  <2>2. Len(s) = 0
    BY <2>1
  <2>3. QED BY <2>2, EmptySeq
<1>3. QED BY <1>1, <1>2

LEMMA DeviceGate ==
  ASSUME GateInv, NEW d \in Devices, DeviceStep(d)
  PROVE  TargetInv' /\ EndNamed' /\ WaveInv' /\ SuccessInv'
<1>1. UNCHANGED <<proc, asked>>
  BY DEF DeviceStep, Poll, ReachTarget, Worsen, Recover, Forget, Report,
         SyncRead, SyncWrite, operator
<1>2. TargetInv' /\ converged \subseteq converged'
  BY DEF DeviceStep, Poll, ReachTarget, Worsen, Recover, Forget, Report,
         SyncRead, SyncWrite, device, GateInv, TypeInv, TypeOK, TargetInv
<1>3. \A e \in Devices : cmds'[e] # <<>> => cmds[e] # <<>>
  <2>1. Moved \/ UNCHANGED cmds
    BY PollMoves, ReportMoves
    DEF DeviceStep, ReachTarget, Worsen, Recover, Forget, SyncRead,
        SyncWrite, controller, GateInv, TypeInv
  <2>2. QED BY <2>1, MovedEmpty DEF GateInv, TypeInv
<1>4. /\ dep' = "succeeded" => dep = "succeeded"
      /\ EndNamed'
  <2>1. CASE \E x \in syncs : x[1] = d /\ SyncWrite(d, x[2], x[3])
    <3>1. PICK x \in syncs : x[1] = d /\ SyncWrite(d, x[2], x[3])
      BY <2>1
    <3>2. x[2] # NoCommand
      BY <3>1 DEF GateInv, TypeInv, TypeOK, NoCommand
    <3>3. dep' = "succeeded" => dep = "succeeded"
      BY <3>1 DEF SyncWrite, SyncedState
    <3>4. exec' = exec \/ (exec[d].cmd = x[2]
                            /\ exec' = [exec EXCEPT ![d].state = x[3]])
      BY <3>1 DEF SyncWrite, Names
    <3>5. EndNamed'
      BY <3>2, <3>4 DEF EndNamed, GateInv, TypeInv, TypeOK
    <3>6. QED BY <3>3, <3>5
  <2>2. CASE UNCHANGED <<dep, exec>>
    BY <2>2 DEF EndNamed, GateInv
  <2>3. QED BY <2>1, <2>2
    DEF DeviceStep, Poll, ReachTarget, Worsen, Recover, Forget, Report,
        SyncRead, controller
<1>5. WaveInv'
  <2>1. "dispatch" \notin asked' => \A t \in Threads : Sound(proc'[t])
    BY <1>1 DEF GateInv, WaveInv
  <2>2. QED BY <1>1, <1>2, <1>3, <2>1, WaveFrame DEF GateInv
<1>6. SuccessInv'
  BY <1>1, <1>2, <1>4, SuccessFrame DEF GateInv
<1>7. QED BY <1>2, <1>4, <1>5, <1>6

LEMMA PassGate == ASSUME GateInv, Pass
                  PROVE  TargetInv' /\ EndNamed' /\ WaveInv' /\ SuccessInv'
<1>1. /\ UNCHANGED <<dep, exec, cmds, target, healthy, converged, asked>>
      /\ Decide(Manager) /\ Manager \in Threads
  BY DEF Pass, controller, device, operator, Threads
<1>2. TargetInv' /\ EndNamed'
  BY <1>1 DEF GateInv, TargetInv, EndNamed
<1>3. \A u \in Threads \ {Manager} : proc'[u] = proc[u]
  BY <1>1 DEF Decide, Become, GateInv, TypeInv, TypeOK
<1>4. WaveInv'
  <2>1. ASSUME "dispatch" \notin asked' PROVE Sound(proc'[Manager])
    BY <1>1, <2>1, DecideSound DEF GateInv, WaveInv
  <2>2. "dispatch" \notin asked' => \A u \in Threads : Sound(proc'[u])
    BY <1>1, <1>3, <2>1 DEF GateInv, WaveInv
  <2>3. QED BY <1>1, <2>2, WaveFrame DEF GateInv
<1>5. SuccessInv'
  BY <1>1, <1>3, DecideSuccess, SuccessFrame DEF GateInv
<1>6. QED BY <1>2, <1>4, <1>5

LEMMA RequestGate ==
  ASSUME GateInv, NEW t \in Threads, Request(t)
  PROVE  TargetInv' /\ EndNamed' /\ WaveInv' /\ SuccessInv'
<1>1. /\ UNCHANGED <<dep, exec, cmds, target, healthy, converged>>
      /\ asked \subseteq asked'
  BY DEF Request, Advance, DispatchPhase, Retry, Resume, Cancel, Ask,
         controller, device
<1>2. TargetInv' /\ EndNamed'
  BY <1>1 DEF GateInv, TargetInv, EndNamed
<1>3. \A u \in Threads \ {t} : proc'[u] = proc[u]
  BY DEF Request, Advance, DispatchPhase, Retry, Resume, Cancel, Decide,
         Become, GateInv, TypeInv, TypeOK
<1>4. /\ "dispatch" \notin asked' => Sound(proc'[t])
      /\ proc'[t].pc = "succeed" => AllPassed
  <2>1. CASE Advance(t)
    <3>1. proc'[t].pc = "succeed" => AllPassed
      BY <2>1, DecideSuccess DEF Advance, GateInv
    <3>2. ASSUME "dispatch" \notin asked' PROVE Sound(proc'[t])
      BY <1>1, <2>1, <3>2, DecideSound DEF Advance, GateInv, WaveInv
    <3>3. QED BY <3>1, <3>2
  <2>2. CASE \E p \in Phases : DispatchPhase(t, p)
    <3>1. PICK p \in Phases : DispatchPhase(t, p)
      BY <2>2
    <3>2. "dispatch" \in asked'
      BY <3>1 DEF DispatchPhase, Ask
    <3>3. proc'[t] = [At("dispatch") EXCEPT !.phase = p]
      BY <3>1 DEF DispatchPhase, Become, GateInv, TypeInv, TypeOK
    <3>4. proc'[t].pc = "dispatch"
      BY <3>3, AtLemma DEF Thread, Pcs
    <3>5. QED BY <3>2, <3>4
  <2>3. CASE Retry(t)
    <3> DEFINE rows == {d \in Devices : exec[d].state \in Retryable}
    <3>1. proc'[t] = [At("create") EXCEPT !.todo = rows, !.retry = TRUE]
      BY <2>3 DEF Retry, Become, GateInv, TypeInv, TypeOK
    <3>2. proc'[t].pc = "create" /\ proc'[t].todo = rows
      BY <3>1, AtLemma DEF Thread, Pcs
    <3>3. \A d \in rows : cmds[d] # <<>>
      BY DEF GateInv, EndNamed, TypeInv, TypeOK
    <3>4. ASSUME "dispatch" \notin asked'
          PROVE  \A d \in rows : Cleared(Phase[d])
      BY <1>1, <3>3, <3>4 DEF GateInv, WaveInv
    <3> HIDE DEF rows
    <3>5. QED BY <3>2, <3>4 DEF Sound
  <2>4. CASE Resume(t)
    <3>1. proc'[t] = At("mark")
      BY <2>4 DEF Resume, Become, GateInv, TypeInv, TypeOK
    <3>2. QED BY <3>1, AtLemma DEF Sound, Pcs
  <2>5. CASE Cancel(t)
    <3>1. proc'[t] = [At("cancel") EXCEPT !.todo = Devices, !.rows = exec]
      BY <2>5 DEF Cancel, Become, GateInv, TypeInv, TypeOK
    <3>2. proc'[t].pc = "cancel"
      BY <3>1, AtLemma DEF Thread, Pcs
    <3>3. QED BY <3>2 DEF Sound
  <2>6. QED BY <2>1, <2>2, <2>3, <2>4, <2>5 DEF Request
<1>5. WaveInv'
  <2>1. "dispatch" \notin asked' => \A u \in Threads : Sound(proc'[u])
    BY <1>1, <1>3, <1>4 DEF GateInv, WaveInv
  <2>2. QED BY <1>1, <2>1, WaveFrame DEF GateInv
<1>6. SuccessInv'
  BY <1>1, <1>3, <1>4, SuccessFrame DEF GateInv
<1>7. QED BY <1>2, <1>5, <1>6

\* Going on with rows that are cleared.
LEMMA TodoSound ==
  ASSUME NEW S \in SUBSET Devices,
         NEW r, \E pc \in {"mark", "create"} :
                  r = Begun(pc, S) \/ \E b \in BOOLEAN : r = Going(pc, S, b)
  PROVE  /\ (\A d \in S : Cleared(Phase[d])) => Sound(r)
         /\ r.pc # "succeed"
<1>1. r.pc \in {"mark", "create"} /\ r.todo = S
  <2>1. PICK pc \in {"mark", "create"} :
          r = Begun(pc, S) \/ \E b \in BOOLEAN : r = Going(pc, S, b)
    OBVIOUS
  <2>2. pc \in Pcs
    BY DEF Pcs
  <2>3. CASE r = Begun(pc, S)
    BY <2>2, <2>3, BegunLemma
  <2>4. CASE \E b \in BOOLEAN : r = Going(pc, S, b)
    <3>1. PICK b \in BOOLEAN : r = Going(pc, S, b)
      BY <2>4
    <3>2. Going(pc, S, b).pc = pc /\ Going(pc, S, b).todo = S
      BY <2>2, GoingLemma, Zenon
    <3>3. QED BY <3>1, <3>2
  <2>5. QED BY <2>1, <2>3, <2>4
<1>2. QED BY <1>1 DEF Sound

\* What a thread that goes on, or stops, holds next.
LEMMA ContinueSound ==
  ASSUME GateInv, NEW t \in Threads, Continue(t) \/ Stop(t)
  PROVE  /\ Sound(proc[t]) => Sound(proc'[t])
         /\ proc'[t].pc # "succeed"
<1> USE DEF GateInv, TypeInv, TypeOK
<1>1. CASE List(t)
  <2> DEFINE rows == {d \in Rows(proc[t].phase) : exec[d].cmd = NoCommand}
  <2>1. CASE proc'[t] = Idle
    BY <2>1, IdleLemma DEF Sound
  <2>2. CASE proc'[t] = Begun(IF rows = {} THEN "mark" ELSE "create", rows)
    <3>1. \E pc \in {"mark", "create"} : proc'[t] = Begun(pc, rows)
      BY <2>2
    <3>2. rows \in SUBSET Devices
      BY DEF Rows
    <3>3. Sound(proc[t]) => \A d \in rows : Cleared(Phase[d])
      BY <1>1 DEF Sound, List, Rows
    <3> HIDE DEF rows
    <3>4. QED BY <3>1, <3>2, <3>3, TodoSound
  <2>3. QED BY <1>1, <2>1, <2>2 DEF List, Become, Begun
<1>2. CASE \E d \in Devices : Create(t, d)
  <2>1. PICK d \in Devices : Create(t, d)
    BY <1>2
  <2>2. /\ proc[t].pc = "create" /\ proc[t] \in Thread
        /\ proc'[t] = [proc[t] EXCEPT !.pc = "link", !.dev = d,
                                      !.cmd = NewNumber(d)]
    BY <2>1 DEF Create, Become
  <2>3. proc'[t].pc = "link" /\ proc'[t].todo = proc[t].todo
    BY <2>2 DEF Thread
  <2>4. QED BY <2>2, <2>3 DEF Sound
<1>3. CASE Link(t)
  <2> DEFINE rest == proc[t].todo \ {proc[t].dev}
             retry == proc[t].retry /\ rest # {}
  <2>1. proc[t].pc = "link"
        /\ proc'[t] = Going(IF rest = {} THEN "mark" ELSE "create", rest, retry)
    BY <1>3 DEF Link, Become, Going
  <2>2. rest \in SUBSET Devices /\ retry \in BOOLEAN
    BY DEF Thread
  <2>3. Sound(proc[t]) => \A d \in rest : Cleared(Phase[d])
    BY <2>1 DEF Sound
  <2> HIDE DEF rest, retry
  <2>4. \E pc \in {"mark", "create"}, b \in BOOLEAN :
          proc'[t] = Going(pc, rest, b)
    BY <2>1, <2>2
  <2>5. QED BY <2>2, <2>3, <2>4, TodoSound
<1>4. CASE Finish(t) \/ Stop(t)
  BY <1>4, IdleLemma DEF Finish, Stop, Become, Sound
<1>5. CASE \E d \in Devices : CancelRow(t, d)
  <2>1. PICK d \in Devices : CancelRow(t, d)
    BY <1>5
  <2>2. proc[t] \in Thread /\ proc[t].pc = "cancel"
    BY <2>1 DEF CancelRow
  <2>3. \/ proc'[t] = [proc[t] EXCEPT !.pc = "revoke", !.dev = d]
        \/ proc'[t] = [proc[t] EXCEPT !.todo = @ \ {d}]
    BY <2>1 DEF CancelRow, Become
  <2>4. proc'[t].pc \in {"revoke", "cancel"}
    BY <2>2, <2>3 DEF Thread
  <2>5. QED BY <2>4 DEF Sound
<1>6. CASE Revoke(t)
  <2>1. proc[t] \in Thread
    OBVIOUS
  <2>2. proc'[t] = Idle \/ proc'[t] = [proc[t] EXCEPT !.pc = "strike"]
    BY <1>6 DEF Revoke, Become
  <2>3. proc'[t].pc \in {"idle", "strike"}
    BY <2>1, <2>2, IdleLemma DEF Thread
  <2>4. QED BY <2>3 DEF Sound
<1>7. CASE Strike(t)
  <2>1. proc'[t] = [At("cancel") EXCEPT !.todo = proc[t].todo \ {proc[t].dev},
                                        !.rows = proc[t].rows]
    BY <1>7 DEF Strike, Become
  <2>2. proc'[t].pc = "cancel"
    BY <2>1, AtLemma DEF Thread, Pcs
  <2>3. QED BY <2>2 DEF Sound
<1>8. QED BY <1>1, <1>2, <1>3, <1>4, <1>5, <1>6, <1>7 DEF Continue

\* What such a step does to the executions, the deployment and the commands.
LEMMA ContinueEffects ==
  ASSUME GateInv, NEW t \in Threads, Continue(t) \/ Stop(t)
  PROVE  /\ EndNamed'
         /\ dep' = "succeeded" => dep = "succeeded" \/ proc[t].pc = "succeed"
         /\ \A d \in Devices : cmds'[d] # <<>> =>
              \/ cmds[d] # <<>>
              \/ proc[t].pc = "create" /\ d \in proc[t].todo
<1>1. dep' = "succeeded" => dep = "succeeded" \/ proc[t].pc = "succeed"
  <2>1. CASE Finish(t)
    <3>1. /\ proc[t].pc \in {"mark", "pause", "succeed", "cancel"}
          /\ dep' = Final[proc[t].pc]
      BY <2>1 DEF Finish, Final
    <3>2. QED BY <3>1 DEF Final
  <2>2. CASE UNCHANGED dep
    BY <2>2
  <2>3. QED BY <2>1, <2>2
    DEF Continue, Stop, List, Create, Link, CancelRow, Revoke, Strike,
        controller
<1>2. EndNamed'
  <2>1. CASE Link(t)
    <3>1. /\ proc[t].dev \in Devices /\ proc[t].cmd # NoCommand
          /\ exec \in [Devices -> [state : States, cmd : Nat]]
      BY <2>1 DEF Link, GateInv, TypeInv, TypeOK, LinkInv, Thread, NoCommand
    <3>2. /\ exec'[proc[t].dev].cmd = proc[t].cmd
          /\ \A d \in Devices \ {proc[t].dev} : exec'[d] = exec[d]
      BY <2>1, <3>1 DEF Link
    <3>3. QED BY <3>1, <3>2 DEF EndNamed, GateInv
  <2>2. CASE \E d \in Devices : exec' = [exec EXCEPT ![d].state = "canceled"]
    <3>1. PICK d \in Devices : exec' = [exec EXCEPT ![d].state = "canceled"]
      BY <2>2
    <3>2. /\ exec'[d].state = "canceled"
          /\ \A e \in Devices \ {d} : exec'[e] = exec[e]
      BY <3>1 DEF GateInv, TypeInv, TypeOK
    <3>3. QED BY <3>2 DEF EndNamed, GateInv, Retryable
  <2>3. CASE UNCHANGED exec
    BY <2>3 DEF EndNamed, GateInv
  <2>4. CASE Strike(t)
    <3>1. proc[t].dev \in Devices
      BY <2>4 DEF Strike, GateInv, TypeInv, RowsInv
    <3>2. QED BY <2>2, <2>4, <3>1 DEF Strike
  <2>5. QED BY <2>1, <2>2, <2>3, <2>4
    DEF Continue, Stop, List, Create, Finish, CancelRow, Revoke, controller
<1>3. ASSUME NEW d \in Devices, cmds'[d] # <<>>
      PROVE  \/ cmds[d] # <<>>
             \/ proc[t].pc = "create" /\ d \in proc[t].todo
  <2>1. CASE \E e \in Devices : Create(t, e)
    <3>1. PICK e \in Devices : Create(t, e)
      BY <2>1
    <3>2. d # e => cmds'[d] = cmds[d]
      BY <3>1, CreateMoves DEF GateInv, TypeInv
    <3>3. QED BY <1>3, <3>1, <3>2 DEF Create
  <2>2. CASE Moved
    BY <1>3, <2>2, MovedEmpty DEF GateInv, TypeInv
  <2>3. CASE UNCHANGED cmds
    BY <1>3, <2>3
  <2>4. QED BY <2>1, <2>2, <2>3, RevokeMoves
    DEF Continue, Stop, List, Link, Finish, CancelRow, Strike, controller,
        GateInv
<1>4. QED BY <1>1, <1>2, <1>3

LEMMA ContinueGate ==
  ASSUME GateInv, NEW t \in Threads, Continue(t) \/ Stop(t)
  PROVE  TargetInv' /\ EndNamed' /\ WaveInv' /\ SuccessInv'
<1>1. UNCHANGED <<target, healthy, converged, asked>>
  BY DEF Continue, Stop, List, Create, Link, Finish, CancelRow, Revoke, Strike,
         device, operator
<1>2. TargetInv'
  BY <1>1 DEF GateInv, TargetInv
<1>3. \A u \in Threads \ {t} : proc'[u] = proc[u]
  BY DEF Continue, Stop, List, Create, Link, Finish, CancelRow, Revoke, Strike,
         Become, GateInv, TypeInv, TypeOK
<1>4. WaveInv'
  <2>1. "dispatch" \notin asked' => \A u \in Threads : Sound(proc'[u])
    BY <1>1, <1>3, ContinueSound DEF GateInv, WaveInv
  <2>2. ASSUME "dispatch" \notin asked', NEW d \in Devices, cmds'[d] # <<>>
        PROVE  cmds[d] # <<>> \/ Cleared(Phase[d])
    <3>1. Sound(proc[t])
      BY <1>1, <2>2 DEF GateInv, WaveInv
    <3>2. QED BY <2>2, <3>1, ContinueEffects DEF Sound
  <2>3. QED BY <1>1, <2>1, <2>2, WaveFrame DEF GateInv
<1>5. SuccessInv'
  <2>1. \A u \in Threads : proc'[u].pc = "succeed" => proc[u].pc = "succeed"
    BY <1>3, ContinueSound
  <2>2. QED BY <1>1, <2>1, ContinueEffects, SuccessFrame DEF GateInv
<1>6. QED BY <1>2, <1>4, <1>5, ContinueEffects

LEMMA GateStep == GateInv /\ [Next]_vars => GateInv'
<1> SUFFICES ASSUME GateInv, [Next]_vars PROVE GateInv'
  OBVIOUS
<1>1. TypeInv'
  BY TypeStep DEF GateInv
<1>2. CASE \E d \in Devices : DeviceStep(d)
  BY <1>1, <1>2, DeviceGate DEF GateInv
<1>3. CASE Pass
  BY <1>1, <1>3, PassGate DEF GateInv
<1>4. CASE \E t \in Operators : Request(t)
  BY <1>1, <1>4, RequestGate DEF GateInv, Threads
<1>5. CASE \E t \in Threads : Continue(t) \/ Stop(t)
  BY <1>1, <1>5, ContinueGate DEF GateInv
<1>6. CASE UNCHANGED vars
  <2>1. UNCHANGED <<dep, exec, cmds, proc, target, healthy, converged, asked>>
    BY <1>6 DEF vars, controller, device, operator
  <2>2. TargetInv' /\ EndNamed'
    BY <2>1 DEF GateInv, TargetInv, EndNamed
  <2>3. WaveInv'
    <3>1. "dispatch" \notin asked' => \A u \in Threads : Sound(proc'[u])
      BY <2>1 DEF GateInv, WaveInv
    <3>2. QED BY <2>1, <3>1, WaveFrame DEF GateInv
  <2>4. SuccessInv'
    BY <2>1, SuccessFrame DEF GateInv
  <2>5. QED BY <1>1, <2>2, <2>3, <2>4 DEF GateInv
<1>7. QED BY <1>2, <1>3, <1>4, <1>5, <1>6 DEF Next

LEMMA GateInit == Init => GateInv
<1> SUFFICES ASSUME Init PROVE GateInv
  OBVIOUS
<1>1. TargetInv /\ EndNamed
  BY DEF Init, TargetInv, EndNamed, Retryable
<1>2. \A t \in Threads : proc[t].pc = "idle"
  BY IdleLemma DEF Init
<1>3. \A d \in Devices : cmds[d] = <<>>
  BY DEF Init
<1>4. dep = "queued"
  BY DEF Init
<1>5. WaveInv /\ SuccessInv
  BY <1>2, <1>3, <1>4 DEF WaveInv, Sound, SuccessInv
<1>6. QED BY <1>1, <1>5, TypeInit DEF GateInv

(***************************************************************************)
(* Waves open in order: whatever reports, passes, requests and restarts    *)
(* come in between, a device gets a command only when every earlier phase  *)
(* has converged up to the failures the policy tolerates, unless an        *)
(* operator dispatched a phase by name.                                    *)
(***************************************************************************)
THEOREM WavesAfterGates == Spec => []WaveAfterGate
<1>1. GateInv => WaveAfterGate
  BY DEF GateInv, WaveInv, Cleared, WaveAfterGate
<1>2. QED BY <1>1, GateInit, GateStep, PTL DEF Spec

(***************************************************************************)
(* A deployment is recorded as succeeded only when all its phases have     *)
(* converged up to the tolerated failures, however it was driven.          *)
(***************************************************************************)
THEOREM SuccessConverged == Spec => []SuccessIsConvergence
<1>1. GateInv => SuccessIsConvergence
  BY DEF GateInv, SuccessInv, AllPassed, SuccessIsConvergence
<1>2. QED BY <1>1, GateInit, GateStep, PTL DEF Spec

-----------------------------------------------------------------------------
(* Commands.                                                               *)

Managed == asked \cap {"advance", "dispatch"} = {}

\* A sync in progress that says a command ended says so truly.
SyncInv == \A x \in syncs : x[3] \notin Open => cmds[x[1]][x[2]] = x[3]

\* Who may be creating commands, and for which executions: the manager for
\* those that have none, an operator's retry for those that have one.
Proper(t, r) ==
  /\ r.pc = "dispatch" => t = Manager
  /\ r.pc \in {"create", "link"} =>
       IF r.retry
         THEN t \in Operators /\ \A d \in r.todo : exec[d].cmd # NoCommand
         ELSE t = Manager /\ \A d \in r.todo : exec[d].cmd = NoCommand

DispatchInv == Managed => \A t \in Threads : Proper(t, proc[t])

\* A retry replaces commands that have ended.
Closed(r) ==
  r.pc \in {"create", "link"} /\ r.retry =>
    \A d \in r.todo : cmds[d][exec[d].cmd] \notin Open

TrackedInv == Untouched => /\ \A t \in Threads : Closed(proc[t])
                           /\ OpenIsTracked

CommandInv == TypeInv /\ SyncInv /\ DispatchInv /\ EndIsTrue /\ TrackedInv

(***************************************************************************)
(* How a step that changes no execution's command preserves these.         *)
(***************************************************************************)
LEMMA DispatchFrame ==
  ASSUME DispatchInv, asked \subseteq asked',
         \A d \in Devices : exec'[d].cmd = exec[d].cmd,
         proc' \in [Threads -> Thread],
         Managed' => \A t \in Threads : Proper(t, proc'[t])
  PROVE  DispatchInv'
<1>1. ASSUME Managed', NEW t \in Threads PROVE Proper(t, proc[t])'
  <2>1. Proper(t, proc'[t]) /\ proc'[t].todo \subseteq Devices
    BY <1>1 DEF Thread
  <2>2. QED BY <2>1 DEF Proper
<1>2. QED BY <1>1 DEF DispatchInv

LEMMA EndFrame ==
  ASSUME TypeInv, Forward, EndIsTrue, asked \subseteq asked',
         \A d \in Devices :
           /\ exec'[d].cmd = exec[d].cmd
           /\ exec'[d].state = exec[d].state \/ exec'[d].state = "canceled"
  PROVE  EndIsTrue'
<1> SUFFICES ASSUME Managed', NEW d \in Devices,
                    exec'[d].state \in {"succeeded", "failed", "timed_out"}
             PROVE  /\ exec'[d].cmd # NoCommand
                    /\ cmds'[d][exec'[d].cmd] = exec'[d].state
  BY DEF EndIsTrue, Managed
<1>1. Managed /\ exec'[d].state = exec[d].state /\ exec'[d].cmd = exec[d].cmd
  BY DEF Managed
<1>2. exec[d].cmd # NoCommand /\ cmds[d][exec[d].cmd] = exec[d].state
  BY <1>1 DEF EndIsTrue, Managed
<1>3. exec[d].cmd \in DOMAIN cmds[d] /\ cmds[d][exec[d].cmd] \notin Open
  BY <1>1, <1>2 DEF TypeInv, TypeOK, Open, Lifecycle!Open
<1>4. QED BY <1>1, <1>2, <1>3 DEF Forward

LEMMA SyncFrame ==
  ASSUME TypeInv, Forward, SyncInv, syncs' \subseteq syncs
  PROVE  SyncInv'
BY DEF TypeInv, TypeOK, Forward, SyncInv

LEMMA ClosedFrame ==
  ASSUME TypeInv, Forward, NEW r \in Thread, Closed(r),
         \A d \in Devices : exec'[d].cmd = exec[d].cmd,
         NEW t, Proper(t, r)
  PROVE  r.pc \in {"create", "link"} /\ r.retry =>
           \A d \in r.todo : cmds'[d][exec'[d].cmd] \notin Open
<1> SUFFICES ASSUME r.pc \in {"create", "link"}, r.retry, NEW d \in r.todo
             PROVE  cmds'[d][exec'[d].cmd] \notin Open
  OBVIOUS
<1>1. d \in Devices /\ exec[d].cmd # NoCommand
      /\ cmds[d][exec[d].cmd] \notin Open
  BY DEF Closed, Proper, Thread
<1>2. exec[d].cmd \in DOMAIN cmds[d]
  BY <1>1 DEF TypeInv, TypeOK
<1>3. QED BY <1>1, <1>2 DEF Forward

\* Each command that is open was open before, or was just created.
LEMMA TrackedFrame ==
  ASSUME CommandInv, Forward, TypeInv', asked \subseteq asked',
         stopped => stopped',
         \A d \in Devices : exec'[d].cmd = exec[d].cmd,
         Managed' => \A t \in Threads : Proper(t, proc'[t]),
         Untouched' => \A t \in Threads :
           /\ Closed(proc'[t])
           /\ proc[t].pc = "link" => proc'[t] = proc[t],
         \A d \in Devices : \A i \in DOMAIN cmds'[d] : cmds'[d][i] \in Open =>
           \/ i \in DOMAIN cmds[d] /\ cmds[d][i] \in Open
           \/ \E t \in Threads : /\ proc'[t].pc = "link"
                                 /\ proc'[t].dev = d /\ proc'[t].cmd = i
  PROVE  TrackedInv'
<1> SUFFICES ASSUME Untouched' PROVE (\A t \in Threads : Closed(proc[t])')
                                     /\ OpenIsTracked'
  BY DEF TrackedInv
<1>1. Untouched /\ Managed'
  BY DEF Untouched, Managed
<1>2. ASSUME NEW t \in Threads PROVE Closed(proc[t])'
  <2>1. proc'[t] \in Thread /\ Closed(proc'[t]) /\ Proper(t, proc'[t])
    BY <1>1 DEF TypeInv, TypeOK
  <2>2. QED BY <2>1, ClosedFrame DEF CommandInv, Closed
<1>3. ASSUME NEW d \in Devices, NEW i \in DOMAIN cmds'[d], cmds'[d][i] \in Open
      PROVE  \/ exec'[d].cmd = i
             \/ \E t \in Threads : /\ proc'[t].pc = "link"
                                   /\ proc'[t].dev = d /\ proc'[t].cmd = i
  <2>1. CASE i \in DOMAIN cmds[d] /\ cmds[d][i] \in Open
    <3>1. \/ exec[d].cmd = i
          \/ \E t \in Threads : /\ proc[t].pc = "link"
                                /\ proc[t].dev = d /\ proc[t].cmd = i
      BY <1>1, <2>1 DEF CommandInv, TrackedInv, OpenIsTracked
    <3>2. QED BY <3>1
  <2>2. QED BY <1>3, <2>1
<1>4. QED BY <1>2, <1>3 DEF OpenIsTracked

LEMMA MovedOpen ==
  ASSUME Moved \/ UNCHANGED cmds
  PROVE  \A d \in Devices : \A i \in DOMAIN cmds'[d] : cmds'[d][i] \in Open =>
           i \in DOMAIN cmds[d] /\ cmds[d][i] \in Open
<1>1. CASE Moved
  <2>1. ASSUME NEW d \in Devices, NEW i \in DOMAIN cmds'[d],
               cmds'[d][i] \in Open
        PROVE  i \in DOMAIN cmds[d] /\ cmds[d][i] \in Open
    BY <1>1, <2>1 DEF Moved
  <2>2. QED BY <2>1
<1>2. QED BY <1>1

\* A step of the devices and of the handlers of what they send.
LEMMA DeviceCommands ==
  ASSUME CommandInv, TypeInv', Forward, NEW d \in Devices, DeviceStep(d)
  PROVE  SyncInv' /\ DispatchInv' /\ EndIsTrue' /\ TrackedInv'
<1>1. /\ UNCHANGED <<proc, asked, stopped>>
      /\ Moved \/ UNCHANGED cmds
  BY PollMoves, ReportMoves
  DEF DeviceStep, Poll, ReachTarget, Worsen, Recover, Forget, Report, SyncRead,
      SyncWrite, operator, controller, fault, CommandInv, TypeInv
<1>2. \A e \in Devices : exec'[e].cmd = exec[e].cmd
  <2>1. CASE \E x \in syncs : x[1] = d /\ SyncWrite(d, x[2], x[3])
    <3>1. exec \in [Devices -> [state : States, cmd : Nat]]
      BY DEF CommandInv, TypeInv, TypeOK
    <3>2. exec' = exec \/ \E v : exec' = [exec EXCEPT ![d].state = v]
      BY <2>1 DEF SyncWrite
    <3>3. QED BY <3>1, <3>2
  <2>2. CASE UNCHANGED exec
    BY <2>2
  <2>3. QED BY <2>1, <2>2
    DEF DeviceStep, Poll, ReachTarget, Worsen, Recover, Forget, Report,
        SyncRead, controller
<1>3. DispatchInv'
  <2>1. Managed' => \A t \in Threads : Proper(t, proc'[t])
    BY <1>1 DEF CommandInv, DispatchInv, Managed
  <2>2. QED BY <1>1, <1>2, <2>1, DispatchFrame DEF CommandInv, TypeInv, TypeOK
<1>4. TrackedInv'
  <2>1. Managed' => \A t \in Threads : Proper(t, proc'[t])
    BY <1>1 DEF CommandInv, DispatchInv, Managed
  <2>2. Untouched' => \A t \in Threads :
          Closed(proc'[t]) /\ (proc[t].pc = "link" => proc'[t] = proc[t])
    BY <1>1 DEF CommandInv, TrackedInv, Untouched
  <2>3. QED BY <1>1, <1>2, <2>1, <2>2, MovedOpen, TrackedFrame
<1>5. CASE \E x \in syncs : x[1] = d /\ SyncWrite(d, x[2], x[3])
  <2>1. PICK x \in syncs : x[1] = d /\ SyncWrite(d, x[2], x[3])
    BY <1>5
  <2>2. SyncInv'
    BY <2>1, SyncFrame DEF SyncWrite, CommandInv
  <2>3. x[2] # NoCommand /\ UNCHANGED cmds
        /\ exec \in [Devices -> [state : States, cmd : Nat]]
    BY <2>1 DEF SyncWrite, CommandInv, TypeInv, TypeOK, NoCommand
  <2>4. \/ exec' = exec
        \/ exec[d].cmd = x[2] /\ exec' = [exec EXCEPT ![d].state = x[3]]
    BY <2>1 DEF SyncWrite, Names
  <2>5. ASSUME NEW e \in Devices, Managed,
               exec'[e].state \in {"succeeded", "failed", "timed_out"}
        PROVE  /\ exec'[e].cmd # NoCommand
               /\ cmds[e][exec'[e].cmd] = exec'[e].state
    <3>1. CASE exec'[e] = exec[e]
      BY <2>5, <3>1 DEF CommandInv, EndIsTrue, Managed
    <3>2. CASE e = d /\ exec'[e].state = x[3] /\ exec[d].cmd = x[2]
      <4>1. x[3] \notin Open
        BY <2>5, <3>2 DEF Open, Lifecycle!Open
      <4>2. cmds[d][x[2]] = x[3]
        BY <2>1, <4>1 DEF CommandInv, SyncInv
      <4>3. QED BY <1>2, <2>3, <3>2, <4>2
    <3>3. QED BY <2>3, <2>4, <3>1, <3>2
  <2>6. EndIsTrue'
    BY <1>1, <2>3, <2>5 DEF EndIsTrue, Managed
  <2>7. QED BY <1>3, <1>4, <2>2, <2>6
<1>6. CASE UNCHANGED exec
  <2>1. EndIsTrue'
    BY <1>1, <1>6, EndFrame DEF CommandInv
  <2>2. CASE syncs' \subseteq syncs
    BY <1>3, <1>4, <2>1, <2>2, SyncFrame DEF CommandInv
  <2>3. CASE \E i \in DOMAIN cmds[d] : SyncRead(d, i)
    <3>1. PICK i \in DOMAIN cmds[d] : SyncRead(d, i)
      BY <2>3
    <3>2. syncs' = syncs \cup {<<d, i, cmds[d][i]>>} /\ UNCHANGED cmds
      BY <3>1 DEF SyncRead
    <3>3. SyncInv'
      BY <3>2 DEF SyncInv, CommandInv
    <3>4. QED BY <1>3, <1>4, <2>1, <3>3
  <2>4. QED BY <1>5, <2>2, <2>3
    DEF DeviceStep, Poll, ReachTarget, Worsen, Recover, Forget, Report,
        controller
<1>7. QED BY <1>5, <1>6
  DEF DeviceStep, Poll, ReachTarget, Worsen, Recover, Forget, Report, SyncRead,
      controller

\* A step of one thread that leaves the executions' commands alone.
LEMMA ThreadCommands ==
  ASSUME CommandInv, TypeInv', Forward, NEW t \in Threads,
         syncs' \subseteq syncs, asked \subseteq asked', stopped => stopped',
         \A d \in Devices :
           /\ exec'[d].cmd = exec[d].cmd
           /\ exec'[d].state = exec[d].state \/ exec'[d].state = "canceled",
         \A u \in Threads \ {t} : proc'[u] = proc[u],
         Managed' => Proper(t, proc'[t]),
         Untouched' => Closed(proc'[t]),
         Untouched' => proc[t].pc # "link",
         \A d \in Devices : \A i \in DOMAIN cmds'[d] : cmds'[d][i] \in Open =>
           \/ i \in DOMAIN cmds[d] /\ cmds[d][i] \in Open
           \/ /\ proc'[t].pc = "link"
              /\ proc'[t].dev = d /\ proc'[t].cmd = i
  PROVE  SyncInv' /\ DispatchInv' /\ EndIsTrue' /\ TrackedInv'
<1>1. SyncInv' /\ EndIsTrue'
  BY SyncFrame, EndFrame DEF CommandInv
<1>2. Managed' => \A u \in Threads : Proper(u, proc'[u])
  BY DEF CommandInv, DispatchInv, Managed
<1>3. DispatchInv'
  BY <1>2, DispatchFrame DEF CommandInv, TypeInv, TypeOK
<1>4. Untouched' => \A u \in Threads :
        Closed(proc'[u]) /\ (proc[u].pc = "link" => proc'[u] = proc[u])
  BY DEF CommandInv, TrackedInv, Untouched
<1>5. TrackedInv'
  BY <1>2, <1>4, TrackedFrame
<1>6. QED BY <1>1, <1>3, <1>5

\* What begins without rows is proper, and closes what it must.
LEMMA PlainProper ==
  ASSUME NEW t, NEW r, r.pc \notin {"dispatch", "create", "link"}
  PROVE  Proper(t, r) /\ Closed(r)
BY DEF Proper, Closed

\* What a decision may lead to: only the manager begins a dispatch.
LEMMA DecideProper ==
  ASSUME TypeInv, NEW t \in Threads, Decide(t)
  PROVE  /\ Closed(proc'[t])
         /\ t = Manager => Proper(t, proc'[t])
         /\ \A u \in Threads \ {t} : proc'[u] = proc[u]
<1>1. \A r : Become(t, r) => proc'[t] = r
  BY DEF Become, TypeInv, TypeOK
<1>2. \A u \in Threads \ {t} : proc'[u] = proc[u]
  BY DEF Decide, Become, TypeInv, TypeOK
<1>3. \A p \in Phases : [At("dispatch") EXCEPT !.phase = p].pc = "dispatch"
  BY AtLemma DEF Thread, Pcs
<1>4. At("pause").pc = "pause" /\ At("succeed").pc = "succeed"
  BY AtLemma DEF Pcs
<1>5. proc'[t].pc \in {"dispatch", "pause", "succeed"}
  BY <1>1, <1>3, <1>4 DEF Decide, Least, Later
<1>6. QED BY <1>2, <1>5 DEF Proper, Closed

LEMMA PassCommands ==
  ASSUME CommandInv, TypeInv', Forward, Pass
  PROVE  SyncInv' /\ DispatchInv' /\ EndIsTrue' /\ TrackedInv'
<1>1. /\ UNCHANGED <<exec, cmds, syncs, asked, stopped>>
      /\ Manager \in Threads /\ proc[Manager].pc # "link"
  BY DEF Pass, controller, operator, fault, Threads
<1>2. /\ Closed(proc'[Manager]) /\ Proper(Manager, proc'[Manager])
      /\ \A u \in Threads \ {Manager} : proc'[u] = proc[u]
  BY <1>1, DecideProper DEF Pass, CommandInv
<1>3. QED BY <1>1, <1>2, ThreadCommands

LEMMA RequestCommands ==
  ASSUME CommandInv, TypeInv', Forward, NEW t \in Operators, Request(t)
  PROVE  SyncInv' /\ DispatchInv' /\ EndIsTrue' /\ TrackedInv'
<1>1. /\ UNCHANGED <<exec, cmds, syncs, stopped>>
      /\ asked \subseteq asked'
      /\ t \in Threads /\ proc[t].pc # "link"
  BY DEF Request, Advance, DispatchPhase, Retry, Resume, Cancel, Ask,
         controller, fault, Threads
<1>2. \A u \in Threads \ {t} : proc'[u] = proc[u]
  BY <1>1 DEF Request, Advance, DispatchPhase, Retry, Resume, Cancel, Decide,
              Become, CommandInv, TypeInv, TypeOK
<1>3. /\ Managed' => Proper(t, proc'[t])
      /\ Untouched' => Closed(proc'[t])
  <2>1. CASE Advance(t) \/ \E p \in Phases : DispatchPhase(t, p)
    BY <2>1 DEF Advance, DispatchPhase, Ask, Managed, Untouched
  <2>2. CASE Retry(t)
    <3> DEFINE rows == {d \in Devices : exec[d].state \in Retryable}
    <3>1. proc'[t] = [At("create") EXCEPT !.todo = rows, !.retry = TRUE]
      BY <1>1, <2>2 DEF Retry, Become, CommandInv, TypeInv, TypeOK
    <3>2. proc'[t].pc = "create" /\ proc'[t].todo = rows /\ proc'[t].retry
      BY <3>1, AtLemma DEF Thread, Pcs
    <3>3. ASSUME Managed', NEW d \in rows
          PROVE  exec[d].cmd # NoCommand /\ cmds[d][exec[d].cmd] \notin Open
      <4>1. Managed
        BY <1>1, <3>3 DEF Managed
      <4>2. /\ exec[d].cmd # NoCommand
            /\ cmds[d][exec[d].cmd] = exec[d].state
        BY <4>1 DEF Retryable, CommandInv, EndIsTrue, Managed
      <4>3. QED BY <4>2 DEF Retryable, Open, Lifecycle!Open
    <3> HIDE DEF rows
    <3>4. QED BY <3>2, <3>3 DEF Proper, Closed, Untouched, Managed
  <2>3. CASE Resume(t)
    <3>1. proc'[t] = At("mark")
      BY <1>1, <2>3 DEF Resume, Become, CommandInv, TypeInv, TypeOK
    <3>2. QED BY <3>1, AtLemma, PlainProper DEF Pcs
  <2>4. CASE Cancel(t)
    <3>1. proc'[t] = [At("cancel") EXCEPT !.todo = Devices, !.rows = exec]
      BY <1>1, <2>4 DEF Cancel, Become, CommandInv, TypeInv, TypeOK
    <3>2. proc'[t].pc = "cancel"
      BY <3>1, AtLemma DEF Thread, Pcs
    <3>3. QED BY <3>2, PlainProper
  <2>5. QED BY <2>1, <2>2, <2>3, <2>4 DEF Request
<1>4. QED BY <1>1, <1>2, <1>3, ThreadCommands

LEMMA ListCommands ==
  ASSUME CommandInv, TypeInv', Forward, NEW t \in Threads, List(t)
  PROVE  SyncInv' /\ DispatchInv' /\ EndIsTrue' /\ TrackedInv'
<1> DEFINE rows == {d \in Rows(proc[t].phase) : exec[d].cmd = NoCommand}
<1>1. /\ UNCHANGED <<exec, cmds, syncs, asked, stopped>>
      /\ proc[t].pc = "dispatch"
      /\ proc \in [Threads -> Thread]
  BY DEF List, controller, operator, fault, CommandInv, TypeInv, TypeOK
<1>2. \/ proc' = [proc EXCEPT ![t] = Idle]
      \/ \E pc \in {"mark", "create"} :
           proc' = [proc EXCEPT ![t] = Begun(pc, rows)]
  BY DEF List, Become, Begun
<1>3. /\ \A u \in Threads \ {t} : proc'[u] = proc[u]
      /\ \/ proc'[t] = Idle
         \/ \E pc \in {"mark", "create"} : proc'[t] = Begun(pc, rows)
  BY <1>1, <1>2
<1>4. /\ Managed' => Proper(t, proc'[t])
      /\ Closed(proc'[t])
  <2>1. CASE proc'[t] = Idle
    BY <2>1, IdleLemma, PlainProper
  <2>2. CASE \E pc \in {"mark", "create"} : proc'[t] = Begun(pc, rows)
    <3>1. PICK pc \in {"mark", "create"} : proc'[t] = Begun(pc, rows)
      BY <2>2
    <3>2. pc \in Pcs /\ rows \in SUBSET Devices
      BY DEF Pcs, Rows
    <3>3. /\ Begun(pc, rows).pc = pc /\ Begun(pc, rows).todo = rows
          /\ Begun(pc, rows).retry = FALSE
      BY <3>2, BegunLemma
    <3>4. Managed' => t = Manager
      BY <1>1 DEF CommandInv, DispatchInv, Proper, Managed
    <3>5. \A d \in rows : exec[d].cmd = NoCommand
      OBVIOUS
    <3> HIDE DEF rows
    <3>6. QED BY <3>1, <3>3, <3>4, <3>5 DEF Proper, Closed
  <2>3. QED BY <1>3, <2>1, <2>2
<1>5. QED BY <1>1, <1>3, <1>4, ThreadCommands

LEMMA CreateCommands ==
  ASSUME CommandInv, TypeInv', Forward, NEW t \in Threads, NEW d \in Devices,
         Create(t, d)
  PROVE  SyncInv' /\ DispatchInv' /\ EndIsTrue' /\ TrackedInv'
<1>1. /\ UNCHANGED <<exec, syncs, asked, stopped>>
      /\ proc[t].pc = "create" /\ proc[t] \in Thread
  BY DEF Create, operator, fault, CommandInv, TypeInv, TypeOK
<1>2. /\ \A u \in Threads \ {t} : proc'[u] = proc[u]
      /\ proc'[t] = [proc[t] EXCEPT !.pc = "link", !.dev = d,
                                    !.cmd = NewNumber(d)]
  BY DEF Create, Become, CommandInv, TypeInv, TypeOK
<1>3. /\ proc'[t].pc = "link" /\ proc'[t].dev = d
      /\ proc'[t].cmd = NewNumber(d)
      /\ proc'[t].todo = proc[t].todo /\ proc'[t].retry = proc[t].retry
  BY <1>1, <1>2 DEF Thread
<1>4. /\ Managed' => Proper(t, proc'[t])
      /\ Untouched' => Closed(proc'[t])
  <2>1. Managed' => Proper(t, proc[t])
    BY <1>1 DEF CommandInv, DispatchInv, Managed
  <2>2. Untouched' => Closed(proc[t])
    BY <1>1 DEF CommandInv, TrackedInv, Untouched
  <2>3. QED BY <1>1, <1>3, <2>1, <2>2 DEF Proper, Closed
<1>5. ASSUME NEW e \in Devices, NEW i \in DOMAIN cmds'[e], cmds'[e][i] \in Open
      PROVE  \/ i \in DOMAIN cmds[e] /\ cmds[e][i] \in Open
             \/ d = e /\ NewNumber(d) = i
  <2>1. CASE e # d
    BY <1>5, <2>1, CreateMoves DEF CommandInv, TypeInv
  <2>2. CASE e = d /\ i \in DOMAIN cmds[d]
    BY <1>5, <2>2, CreateMoves DEF CommandInv, TypeInv
  <2>3. CASE e = d /\ i \notin DOMAIN cmds[d]
    BY <1>5, <2>3, CreateMoves DEF CommandInv, TypeInv
  <2>4. QED BY <2>1, <2>2, <2>3
<1>6. QED BY <1>1, <1>2, <1>3, <1>4, <1>5, ThreadCommands

\* Finishing, canceling and stopping begin no command.
LEMMA OtherCommands ==
  ASSUME CommandInv, TypeInv', Forward, NEW t \in Threads,
         \/ Finish(t) \/ Revoke(t) \/ Strike(t) \/ Stop(t)
         \/ \E d \in Devices : CancelRow(t, d)
  PROVE  SyncInv' /\ DispatchInv' /\ EndIsTrue' /\ TrackedInv'
<1>1. /\ UNCHANGED <<syncs, asked>>
      /\ stopped => stopped'
      /\ Moved \/ UNCHANGED cmds
      /\ Untouched' => proc[t].pc # "link"
  <2>1. UNCHANGED <<syncs, asked>>
    BY DEF Finish, Revoke, Strike, Stop, CancelRow, controller, operator
  <2>2. Moved \/ UNCHANGED cmds
    BY RevokeMoves
    DEF Finish, Strike, Stop, CancelRow, controller, CommandInv
  <2>3. CASE Stop(t)
    BY <2>1, <2>2, <2>3 DEF Stop, Untouched
  <2>4. CASE UNCHANGED stopped /\ proc[t].pc # "link"
    BY <2>1, <2>2, <2>4
  <2>5. DOMAIN Final = {"mark", "pause", "succeed", "cancel"}
    BY DEF Final
  <2>6. QED BY <2>3, <2>4, <2>5 DEF Finish, Revoke, Strike, CancelRow, fault
<1>2. \A d \in Devices :
        /\ exec'[d].cmd = exec[d].cmd
        /\ exec'[d].state = exec[d].state \/ exec'[d].state = "canceled"
  <2>1. exec' = exec \/ \E d : exec' = [exec EXCEPT ![d].state = "canceled"]
    BY DEF Finish, Revoke, Strike, Stop, CancelRow, controller
  <2>2. exec \in [Devices -> [state : States, cmd : Nat]]
    BY DEF CommandInv, TypeInv, TypeOK
  <2>3. QED BY <2>1, <2>2
<1>3. \A u \in Threads \ {t} : proc'[u] = proc[u]
  BY DEF Finish, Revoke, Strike, Stop, CancelRow, Become, CommandInv, TypeInv,
         TypeOK
<1>4. Proper(t, proc'[t]) /\ Closed(proc'[t])
  <2>1. proc[t] \in Thread
    BY DEF CommandInv, TypeInv, TypeOK
  <2>2. CASE Finish(t) \/ Stop(t)
    <3>1. proc'[t] = Idle
      BY <2>2 DEF Finish, Stop, Become, CommandInv, TypeInv, TypeOK
    <3>2. QED BY <3>1, IdleLemma, PlainProper
  <2>3. CASE Revoke(t)
    <3>1. proc'[t] = Idle \/ proc'[t] = [proc[t] EXCEPT !.pc = "strike"]
      BY <2>3 DEF Revoke, Become, CommandInv, TypeInv, TypeOK
    <3>2. proc'[t].pc \in {"idle", "strike"}
      BY <2>1, <3>1, IdleLemma DEF Thread
    <3>3. QED BY <3>2, PlainProper
  <2>4. CASE Strike(t)
    <3>1. proc'[t] = [At("cancel") EXCEPT !.todo = proc[t].todo \ {proc[t].dev},
                                          !.rows = proc[t].rows]
      BY <2>4 DEF Strike, Become, CommandInv, TypeInv, TypeOK
    <3>2. proc'[t].pc = "cancel"
      BY <3>1, AtLemma DEF Thread, Pcs
    <3>3. QED BY <3>2, PlainProper
  <2>5. CASE \E d \in Devices : CancelRow(t, d)
    <3>1. PICK d \in Devices : CancelRow(t, d)
      BY <2>5
    <3>2. /\ proc[t].pc = "cancel"
          /\ \/ proc'[t] = [proc[t] EXCEPT !.pc = "revoke", !.dev = d]
             \/ proc'[t] = [proc[t] EXCEPT !.todo = @ \ {d}]
      BY <3>1, ZenonT(30) DEF CancelRow, Become, CommandInv, TypeInv, TypeOK
    <3>3. proc'[t].pc \in {"revoke", "cancel"}
      BY <2>1, <3>2 DEF Thread
    <3>4. QED BY <3>3, PlainProper
  <2>6. QED BY <2>2, <2>3, <2>4, <2>5
<1>5. QED BY <1>1, <1>2, <1>3, <1>4, MovedOpen, ThreadCommands

(***************************************************************************)
(* The hard case: an execution's new command.  It replaces none (the       *)
(* manager's dispatch) or one that has ended (a retry).                    *)
(***************************************************************************)
LEMMA LinkEffect ==
  ASSUME CommandInv, NEW t \in Threads, Link(t)
  PROVE  LET me == proc[t] IN
         /\ me.dev \in Devices /\ me.dev \in me.todo /\ me.cmd # NoCommand
         /\ me.pc = "link" /\ me \in Thread
         /\ exec'[me.dev].cmd = me.cmd
         /\ exec'[me.dev].state = IF me.retry THEN "queued"
                                  ELSE exec[me.dev].state
         /\ \A d \in Devices \ {me.dev} : exec'[d] = exec[d]
         /\ \A u \in Threads \ {t} : proc'[u] = proc[u]
         /\ UNCHANGED <<cmds, syncs, asked, stopped>>
<1>1. /\ proc[t].dev \in Devices /\ proc[t].dev \in proc[t].todo
      /\ proc[t].cmd # NoCommand /\ proc[t].pc = "link" /\ proc[t] \in Thread
  BY DEF Link, CommandInv, TypeInv, TypeOK, LinkInv, Thread, NoCommand
<1>2. /\ exec'[proc[t].dev].cmd = proc[t].cmd
      /\ exec'[proc[t].dev].state = IF proc[t].retry THEN "queued"
                                    ELSE exec[proc[t].dev].state
      /\ \A d \in Devices \ {proc[t].dev} : exec'[d] = exec[d]
  BY <1>1 DEF Link, CommandInv, TypeInv, TypeOK
<1>3. \A u \in Threads \ {t} : proc'[u] = proc[u]
  BY DEF Link, Become, CommandInv, TypeInv, TypeOK
<1>4. UNCHANGED <<cmds, syncs, asked, stopped>>
  BY DEF Link, operator, fault
<1>5. QED BY <1>1, <1>2, <1>3, <1>4

\* What the linking thread holds next: the same work, without this device.
LEMMA GoingOn ==
  ASSUME NEW S \in SUBSET Devices, NEW b \in BOOLEAN, NEW r,
         r = Going(IF S = {} THEN "mark" ELSE "create", S, b /\ S # {})
  PROVE  /\ r.pc \in {"mark", "create"}
         /\ r.todo = S
         /\ r.pc = "create" => r.retry = b
<1>1. "mark" \in Pcs /\ "create" \in Pcs
  BY DEF Pcs
<1>2. CASE S = {}
  <2>1. \A x \in BOOLEAN : Going("mark", S, x).pc = "mark"
                           /\ Going("mark", S, x).todo = S
    BY <1>1, GoingLemma, Zenon
  <2>2. PICK x \in BOOLEAN : x = (b /\ S # {})
    OBVIOUS
  <2>3. r = Going("mark", S, x)
    BY <1>2, <2>2, Zenon
  <2>4. QED BY <2>1, <2>3
<1>3. CASE S # {}
  <2>1. (b /\ S # {}) = b
    BY <1>3
  <2>2. r = Going("create", S, b)
    BY <1>3, <2>1, Zenon
  <2>3. /\ Going("create", S, b).pc = "create"
        /\ Going("create", S, b).todo = S
        /\ Going("create", S, b).retry = b
    BY <1>1, GoingLemma, Zenon
  <2>4. QED BY <2>2, <2>3, Zenon
<1>4. QED BY <1>2, <1>3

LEMMA LinkThread ==
  ASSUME CommandInv, NEW t \in Threads, Link(t)
  PROVE  /\ proc'[t].pc \in {"mark", "create"}
         /\ proc'[t].todo = proc[t].todo \ {proc[t].dev}
         /\ proc'[t].pc = "create" => proc'[t].retry = proc[t].retry
<1> DEFINE rest == proc[t].todo \ {proc[t].dev}
<1>1. /\ proc'[t] = Going(IF rest = {} THEN "mark" ELSE "create", rest,
                          proc[t].retry /\ rest # {})
      /\ proc[t] \in Thread
  BY DEF Link, Become, Going, CommandInv, TypeInv, TypeOK
<1>2. rest \in SUBSET Devices /\ proc[t].retry \in BOOLEAN
  BY <1>1 DEF Thread
<1>3. QED BY <1>1, <1>2, GoingOn

LEMMA LinkDispatch ==
  ASSUME CommandInv, TypeInv', NEW t \in Threads, Link(t)
  PROVE  DispatchInv'
<1> DEFINE me == proc[t]
<1>1. /\ me.dev \in Devices /\ me.dev \in me.todo /\ me.cmd # NoCommand
      /\ me.pc = "link" /\ me \in Thread
      /\ exec'[me.dev].cmd = me.cmd
      /\ \A d \in Devices \ {me.dev} : exec'[d] = exec[d]
      /\ \A u \in Threads \ {t} : proc'[u] = proc[u]
      /\ asked' = asked
  BY LinkEffect
<1>2. /\ proc'[t].pc \in {"mark", "create"}
      /\ proc'[t].todo = me.todo \ {me.dev}
      /\ proc'[t].pc = "create" => proc'[t].retry = me.retry
  BY LinkThread
<1> HIDE DEF me
<1> SUFFICES ASSUME Managed' PROVE \A u \in Threads : Proper(u, proc[u])'
  BY DEF DispatchInv
<1>3. \A u \in Threads : Proper(u, proc[u]) /\ proc[u] \in Thread
  BY <1>1 DEF CommandInv, DispatchInv, Managed, TypeInv, TypeOK
<1>4. Proper(t, me)
  BY <1>3 DEF me
<1>5. Proper(t, proc[t])'
  BY <1>1, <1>2, <1>4 DEF Proper, Thread
<1>6. ASSUME NEW u \in Threads \ {t} PROVE Proper(u, proc[u])'
  <2>1. proc'[u] = proc[u] /\ Proper(u, proc[u]) /\ proc[u] \in Thread
    BY <1>1, <1>3
  <2>2. CASE me.dev \notin proc[u].todo
    BY <1>1, <2>1, <2>2 DEF Proper, Thread
  <2>3. CASE me.dev \in proc[u].todo
    BY <1>1, <1>4, <2>1, <2>3 DEF Proper, Thread
  <2>4. QED BY <2>2, <2>3
<1>7. QED BY <1>5, <1>6

LEMMA LinkEnds ==
  ASSUME CommandInv, NEW t \in Threads, Link(t)
  PROVE  EndIsTrue'
<1> DEFINE me == proc[t]
<1>1. /\ me.dev \in Devices /\ me.dev \in me.todo /\ me.pc = "link"
      /\ exec'[me.dev].state = IF me.retry THEN "queued"
                               ELSE exec[me.dev].state
      /\ \A d \in Devices \ {me.dev} : exec'[d] = exec[d]
      /\ UNCHANGED <<cmds, asked>>
  BY LinkEffect
<1> HIDE DEF me
<1> SUFFICES ASSUME Managed, NEW d \in Devices,
                    exec'[d].state \in {"succeeded", "failed", "timed_out"}
             PROVE  /\ exec'[d].cmd # NoCommand
                    /\ cmds[d][exec'[d].cmd] = exec'[d].state
  BY <1>1 DEF EndIsTrue, Managed
<1>2. CASE d # me.dev
  BY <1>1, <1>2 DEF CommandInv, EndIsTrue, Managed
<1>3. CASE d = me.dev
  <2>1. ~me.retry /\ exec'[d].state = exec[d].state
    BY <1>1, <1>3
  <2>2. exec[d].cmd = NoCommand
    BY <1>1, <1>3, <2>1 DEF me, CommandInv, DispatchInv, Proper
  <2>3. exec[d].cmd # NoCommand
    BY <2>1 DEF CommandInv, EndIsTrue, Managed
  <2>4. QED BY <2>2, <2>3
<1>4. QED BY <1>2, <1>3

LEMMA LinkTracked ==
  ASSUME CommandInv, TypeInv', NEW t \in Threads, Link(t)
  PROVE  TrackedInv'
<1> DEFINE me == proc[t]
<1>1. /\ me.dev \in Devices /\ me.dev \in me.todo
      /\ me.pc = "link" /\ me \in Thread
      /\ exec'[me.dev].cmd = me.cmd
      /\ \A d \in Devices \ {me.dev} : exec'[d] = exec[d]
      /\ \A u \in Threads \ {t} : proc'[u] = proc[u]
      /\ UNCHANGED <<cmds, asked, stopped>>
  BY LinkEffect
<1>2. /\ proc'[t].pc \in {"mark", "create"}
      /\ proc'[t].todo = me.todo \ {me.dev}
      /\ proc'[t].pc = "create" => proc'[t].retry = me.retry
  BY LinkThread
<1> SUFFICES ASSUME Untouched'
             PROVE  (\A u \in Threads : Closed(proc[u])') /\ OpenIsTracked'
  BY DEF TrackedInv
<1>3. Untouched /\ Managed
  BY <1>1 DEF Untouched, Managed
<1>4. \A u \in Threads :
        Proper(u, proc[u]) /\ Closed(proc[u]) /\ proc[u] \in Thread
  BY <1>3 DEF CommandInv, DispatchInv, TrackedInv, TypeInv, TypeOK
<1>5. Proper(t, me) /\ Closed(me)
  BY <1>4
<1> HIDE DEF me
<1>6. Closed(proc[t])'
  BY <1>1, <1>2, <1>5 DEF Closed, Thread
<1>7. ASSUME NEW u \in Threads \ {t} PROVE Closed(proc[u])'
  <2>1. /\ proc'[u] = proc[u] /\ proc[u] \in Thread
        /\ Proper(u, proc[u]) /\ Closed(proc[u])
    BY <1>1, <1>4
  <2>2. CASE me.dev \notin proc[u].todo
    BY <1>1, <2>1, <2>2 DEF Closed, Thread
  <2>3. CASE ~(proc[u].pc \in {"create", "link"} /\ proc[u].retry)
    BY <2>1, <2>3 DEF Closed
  <2>4. CASE me.dev \in proc[u].todo /\ proc[u].pc \in {"create", "link"}
             /\ proc[u].retry
    <3>1. u \in Operators /\ exec[me.dev].cmd # NoCommand
      BY <2>1, <2>4 DEF Proper
    <3>2. t \in Operators
      BY <1>1, <1>5, <3>1 DEF Proper
    <3>3. u = t
      BY <1>3, <3>1, <3>2 DEF Untouched
    <3>4. QED BY <3>3
  <2>5. QED BY <2>2, <2>3, <2>4
<1>8. ASSUME NEW d \in Devices, NEW i \in DOMAIN cmds[d], cmds[d][i] \in Open
      PROVE  \/ exec'[d].cmd = i
             \/ \E u \in Threads : /\ proc'[u].pc = "link"
                                   /\ proc'[u].dev = d /\ proc'[u].cmd = i
  <2>1. \/ exec[d].cmd = i
        \/ \E u \in Threads : /\ proc[u].pc = "link"
                              /\ proc[u].dev = d /\ proc[u].cmd = i
    BY <1>3, <1>8 DEF CommandInv, TrackedInv, OpenIsTracked
  <2>2. CASE exec[d].cmd = i /\ d # me.dev
    BY <1>1, <2>2
  <2>3. CASE exec[d].cmd = i /\ d = me.dev
    <3>1. i # NoCommand
      BY <1>8 DEF CommandInv, TypeInv, TypeOK, NoCommand
    <3>2. me.retry
      BY <1>1, <1>5, <2>3, <3>1 DEF Proper
    <3>3. cmds[d][i] \notin Open
      BY <1>1, <1>5, <2>3, <3>2 DEF Closed
    <3>4. QED BY <1>8, <3>3
  <2>4. CASE \E u \in Threads : /\ proc[u].pc = "link"
                                /\ proc[u].dev = d /\ proc[u].cmd = i
    <3>1. PICK u \in Threads : /\ proc[u].pc = "link"
                               /\ proc[u].dev = d /\ proc[u].cmd = i
      BY <2>4
    <3>2. CASE u = t
      BY <1>1, <3>1, <3>2 DEF me
    <3>3. CASE u # t
      BY <1>1, <3>1, <3>3
    <3>4. QED BY <3>2, <3>3
  <2>5. QED BY <2>1, <2>2, <2>3, <2>4
<1>9. OpenIsTracked'
  BY <1>1, <1>8 DEF OpenIsTracked
<1>10. QED BY <1>6, <1>7, <1>9

LEMMA LinkCommands ==
  ASSUME CommandInv, TypeInv', Forward, NEW t \in Threads, Link(t)
  PROVE  SyncInv' /\ DispatchInv' /\ EndIsTrue' /\ TrackedInv'
<1>1. syncs' \subseteq syncs
  BY DEF Link
<1>2. SyncInv'
  BY <1>1, SyncFrame DEF CommandInv
<1>3. QED BY <1>2, LinkDispatch, LinkEnds, LinkTracked

(***************************************************************************)
(* Every step preserves the invariant.                                     *)
(***************************************************************************)
LEMMA CommandStep == CommandInv /\ [Next]_vars => CommandInv'
<1> SUFFICES ASSUME CommandInv, [Next]_vars PROVE CommandInv'
  OBVIOUS
<1>1. TypeInv' /\ Forward
  BY TypeStep DEF CommandInv
<1>2. SyncInv' /\ DispatchInv' /\ EndIsTrue' /\ TrackedInv'
  <2>1. CASE \E d \in Devices : DeviceStep(d)
    BY <1>1, <2>1, DeviceCommands
  <2>2. CASE Pass
    BY <1>1, <2>2, PassCommands
  <2>3. CASE \E t \in Operators : Request(t)
    BY <1>1, <2>3, RequestCommands
  <2>4. CASE \E t \in Threads : Continue(t) \/ Stop(t)
    <3>1. PICK t \in Threads : Continue(t) \/ Stop(t)
      BY <2>4
    <3>2. CASE List(t)
      BY <1>1, <3>2, ListCommands
    <3>3. CASE Link(t)
      BY <1>1, <3>3, LinkCommands
    <3>4. CASE \E d \in Devices : Create(t, d)
      BY <1>1, <3>4, CreateCommands
    <3>5. CASE \/ Finish(t) \/ Revoke(t) \/ Strike(t) \/ Stop(t)
               \/ \E d \in Devices : CancelRow(t, d)
      BY <1>1, <3>5, OtherCommands
    <3>6. QED BY <3>1, <3>2, <3>3, <3>4, <3>5 DEF Continue
  <2>5. CASE UNCHANGED vars
    <3>1. UNCHANGED <<exec, cmds, syncs, proc, asked, stopped>>
      BY <2>5 DEF vars, controller, operator, fault
    <3>2. SyncInv'
      BY <3>1 DEF CommandInv, SyncInv
    <3>3. DispatchInv'
      BY <3>1 DEF CommandInv, DispatchInv, Managed, Proper
    <3>4. EndIsTrue'
      BY <3>1 DEF CommandInv, EndIsTrue
    <3>5. TrackedInv'
      BY <3>1 DEF CommandInv, TrackedInv, Untouched, Closed, OpenIsTracked
    <3>6. QED BY <3>2, <3>3, <3>4, <3>5
  <2>6. QED BY <2>1, <2>2, <2>3, <2>4, <2>5 DEF Next
<1>3. QED BY <1>1, <1>2 DEF CommandInv

LEMMA CommandInit == Init => CommandInv
<1> SUFFICES ASSUME Init PROVE CommandInv
  OBVIOUS
<1>1. TypeInv
  BY TypeInit
<1>2. /\ \A d \in Devices : exec[d].state = "queued" /\ cmds[d] = <<>>
      /\ \A t \in Threads : proc[t].pc = "idle"
      /\ syncs = {}
  BY IdleLemma DEF Init
<1>3. SyncInv /\ EndIsTrue
  BY <1>2 DEF SyncInv, EndIsTrue
<1>4. \A t \in Threads : Proper(t, proc[t]) /\ Closed(proc[t])
  BY <1>2, PlainProper
<1>5. OpenIsTracked
  BY <1>2 DEF OpenIsTracked
<1>6. QED BY <1>1, <1>3, <1>4, <1>5 DEF CommandInv, DispatchInv, TrackedInv

(***************************************************************************)
(* However late the handlers of polls and reports write what they read,    *)
(* what an execution says of how its command ended is true: so a retry     *)
(* replaces only what did end (sync_deployment_execution, retry_failed).   *)
(***************************************************************************)
THEOREM EndsAreTrue == Spec => []EndIsTrue
<1>1. CommandInv => EndIsTrue
  BY DEF CommandInv
<1>2. QED BY <1>1, CommandInit, CommandStep, PTL DEF Spec

(***************************************************************************)
(* While nothing is cut short and only one operator asks, each open        *)
(* command is the one its execution names or is about to name, so a        *)
(* device has one open update at most (dispatch_phase, retry_failed).      *)
(***************************************************************************)
THEOREM OpenCommandsTracked == Spec => []OpenIsTracked
<1>1. CommandInv => OpenIsTracked
  BY DEF CommandInv, TrackedInv, OpenIsTracked
<1>2. QED BY <1>1, CommandInit, CommandStep, PTL DEF Spec

-----------------------------------------------------------------------------
(***************************************************************************)
(* The commands of a rollout keep the lifecycle of the protocol, which     *)
(* CommandPlane shows to be what devices and controller do with a command: *)
(* Rollout's polls, reports, dispatches and cancellations implement        *)
(* CommandLifecycle.                                                       *)
(***************************************************************************)

Advances(d) ==
  /\ DOMAIN cmds[d] \subseteq DOMAIN cmds'[d]
  /\ \A i \in DOMAIN cmds[d] :
       cmds'[d][i] = cmds[d][i] \/ Lifecycle!Moves(cmds[d][i], cmds'[d][i])
  /\ \A i \in DOMAIN cmds'[d] \ DOMAIN cmds[d] : cmds'[d][i] = "queued"

LEMMA SameAdvances == ASSUME UNCHANGED cmds, NEW d PROVE Advances(d)
BY DEF Advances

\* The moves of this model.
LEMMA MovesLemma ==
  /\ \A s \in Open : Lifecycle!Moves(s, "timed_out")
  /\ Lifecycle!Moves("queued", "delivered")
  /\ \A s \in States : \A r : Lifecycle!CanAdvance(s, r) => Lifecycle!Moves(s, r)
BY DEF Open, States, Lifecycle!Open, Lifecycle!Moves, Lifecycle!CanAdvance,
       Lifecycle!Terminal, Lifecycle!Order

LEMMA SetAdvances ==
  ASSUME TypeOK, NEW d \in Devices, NEW i \in DOMAIN cmds[d], NEW s,
         Lifecycle!CanAdvance(cmds[d][i], s),
         cmds' = [cmds EXCEPT ![d][i] = s],
         NEW e \in Devices
  PROVE  Advances(e)
<1>1. cmds[d] \in Seq(States) /\ cmds \in [Devices -> Seq(States)]
  BY DEF TypeOK
<1>2. Lifecycle!Moves(cmds[d][i], s)
  BY <1>1, MovesLemma
<1>3. DOMAIN cmds'[e] = DOMAIN cmds[e]
  BY <1>1
<1>4. \A j \in DOMAIN cmds[e] :
        cmds'[e][j] = IF e = d /\ j = i THEN s ELSE cmds[e][j]
  BY <1>1
<1> QED BY <1>2, <1>3, <1>4 DEF Advances

LEMMA PollAdvances ==
  ASSUME TypeOK, NEW d \in Devices, Poll(d), NEW e \in Devices
  PROVE  Advances(e)
<1>1. PICK late \in SUBSET {i \in DOMAIN cmds[d] : cmds[d][i] \in Open} :
        cmds' = [cmds EXCEPT ![d] =
            [i \in DOMAIN @ |-> IF i \in late THEN "timed_out"
                                ELSE IF @[i] = "queued" THEN "delivered"
                                ELSE @[i]]]
  BY DEF Poll
<1>2. cmds \in [Devices -> Seq(States)]
  BY DEF TypeOK
<1>3. CASE e # d
  <2>1. cmds'[e] = cmds[e]
    BY <1>1, <1>2, <1>3
  <2> QED BY <2>1 DEF Advances
<1>4. CASE e = d
  <2>1. cmds'[e] = [i \in DOMAIN cmds[e] |->
                      IF i \in late THEN "timed_out"
                      ELSE IF cmds[e][i] = "queued" THEN "delivered"
                      ELSE cmds[e][i]]
    BY <1>1, <1>2, <1>4
  <2>2. \A i \in late : cmds[e][i] \in Open
    BY <1>4
  <2> QED BY <2>1, <2>2, MovesLemma DEF Advances
<1> QED BY <1>3, <1>4

LEMMA CreateAdvances ==
  ASSUME TypeOK, NEW t \in Threads, NEW d \in Devices, Create(t, d),
         NEW e \in Devices
  PROVE  Advances(e)
<1>1. cmds \in [Devices -> Seq(States)] /\ cmds[d] \in Seq(States)
  BY DEF TypeOK
<1>2. cmds' = [cmds EXCEPT ![d] = Append(@, "queued")]
  BY DEF Create
<1>3. CASE e # d
  <2>1. cmds'[e] = cmds[e]
    BY <1>1, <1>2, <1>3
  <2> QED BY <2>1 DEF Advances
<1>4. CASE e = d
  <2>1. cmds'[e] = Append(cmds[e], "queued")
    BY <1>1, <1>2, <1>4
  <2>2. /\ DOMAIN cmds[e] = 1 .. Len(cmds[e]) /\ Len(cmds[e]) \in Nat
        /\ DOMAIN cmds'[e] = 1 .. (Len(cmds[e]) + 1)
        /\ \A i \in DOMAIN cmds[e] : cmds'[e][i] = cmds[e][i]
        /\ cmds'[e][Len(cmds[e]) + 1] = "queued"
    BY <1>1, <1>4, <2>1
  <2> QED BY <2>2 DEF Advances
<1> QED BY <1>3, <1>4

LEMMA RevokeAdvances ==
  ASSUME TypeInv, NEW t \in Threads, Revoke(t), NEW e \in Devices
  PROVE  Advances(e)
<1> DEFINE d == proc[t].dev
           i == proc[t].rows[d].cmd
<1>1. d \in Devices /\ i \in DOMAIN cmds[d]
  BY DEF Revoke, TypeInv, RowsInv
<1>2. CASE Lifecycle!CanAdvance(cmds[d][i], "canceled")
  <2>1. cmds' = [cmds EXCEPT ![d][i] = "canceled"]
    BY <1>2 DEF Revoke
  <2> HIDE DEF d, i
  <2> QED BY <1>1, <1>2, <2>1, SetAdvances DEF TypeInv
<1>3. CASE ~Lifecycle!CanAdvance(cmds[d][i], "canceled")
  <2>1. UNCHANGED cmds
    BY <1>3 DEF Revoke
  <2> QED BY <2>1, SameAdvances
<1> QED BY <1>2, <1>3

LEMMA AdvancesStep ==
  ASSUME TypeInv, [Next]_vars, NEW e \in Devices
  PROVE  Advances(e)
<1>0. TypeOK
  BY DEF TypeInv
<1>1. ASSUME NEW d \in Devices, DeviceStep(d) PROVE Advances(e)
  <2>1. CASE \E i \in DOMAIN cmds[d], s \in {"running", "succeeded", "failed"} :
               Report(d, i, s)
    BY <1>0, <2>1, SetAdvances DEF Report
  <2>2. CASE Poll(d)
    BY <1>0, <2>2, PollAdvances
  <2>3. CASE \/ ReachTarget(d) \/ Worsen(d) \/ Recover(d) \/ Forget(d)
             \/ \E i \in DOMAIN cmds[d] : SyncRead(d, i)
             \/ \E x \in syncs : SyncWrite(d, x[2], x[3])
    <3>1. UNCHANGED cmds
      BY <2>3 DEF ReachTarget, Worsen, Recover, Forget, SyncRead, SyncWrite,
                  controller
    <3> QED BY <3>1, SameAdvances
  <2> QED BY <1>1, <2>1, <2>2, <2>3 DEF DeviceStep
<1>2. ASSUME NEW t \in Operators, Request(t) PROVE Advances(e)
  <2>1. UNCHANGED cmds
    BY <1>2 DEF Request, Advance, Retry, Resume, Cancel, DispatchPhase, Ask,
                controller
  <2> QED BY <2>1, SameAdvances
<1>3. ASSUME NEW t \in Threads, Continue(t) PROVE Advances(e)
  <2>1. CASE \E d \in Devices : Create(t, d)
    BY <1>0, <2>1, CreateAdvances
  <2>2. CASE Revoke(t)
    BY <2>2, RevokeAdvances
  <2>3. CASE \/ List(t) \/ Link(t) \/ Strike(t) \/ Finish(t)
             \/ \E d \in Devices : CancelRow(t, d)
    <3>1. UNCHANGED cmds
      BY <2>3 DEF List, Link, Strike, Finish, CancelRow, controller
    <3> QED BY <3>1, SameAdvances
  <2> QED BY <1>3, <2>1, <2>2, <2>3 DEF Continue
<1>4. CASE Pass \/ (\E t \in Threads : Stop(t)) \/ UNCHANGED vars
  <2>1. UNCHANGED cmds
    BY <1>4 DEF Pass, Stop, vars, controller
  <2> QED BY <2>1, SameAdvances
<1> QED BY <1>1, <1>2, <1>3, <1>4 DEF Next

\* The steps of a rollout are steps of the protocol's commands, or stutter.
LEMMA LifecycleStep ==
  ASSUME TypeInv, TypeInv', [Next]_vars
  PROVE  Lifecycle!Next
<1> DEFINE RowStates == Lifecycle!CommandStates \cup {"absent"}
<1>1. States \subseteq Lifecycle!CommandStates
  BY DEF States, Lifecycle!CommandStates, Lifecycle!Open, Lifecycle!Terminal
<1>2. \A d \in Devices : \A i \in DOMAIN cmds'[d] : cmds'[d][i] \in States
  BY DEF TypeInv, TypeOK
<1>3. \A c \in Numbered :
        /\ Row[c] = IF c[2] \in DOMAIN cmds[c[1]] THEN cmds[c[1]][c[2]] ELSE "absent"
        /\ Row'[c] = IF c[2] \in DOMAIN cmds'[c[1]] THEN cmds'[c[1]][c[2]] ELSE "absent"
  BY DEF Row
<1>4. \A c \in Numbered : c[1] \in Devices
  BY DEF Numbered
<1>5. Row' \in [Numbered -> RowStates]
  <2>1. \A c \in Numbered : Row'[c] \in RowStates
    BY <1>1, <1>2, <1>3, <1>4
  <2>2. Row' = [c \in Numbered |-> Row'[c]]
    BY DEF Row
  <2> HIDE DEF RowStates
  <2> QED BY <2>1, <2>2
<1>6. ASSUME NEW c \in Numbered
      PROVE  Row'[c] = Row[c] \/ Lifecycle!Moves(Row[c], Row'[c])
  <2>1. Advances(c[1])
    BY <1>4, AdvancesStep
  <2>2. CASE c[2] \in DOMAIN cmds[c[1]]
    BY <1>3, <2>1, <2>2 DEF Advances
  <2>3. CASE c[2] \notin DOMAIN cmds[c[1]]
    BY <1>3, <2>1, <2>3 DEF Advances, Lifecycle!Moves
  <2> QED BY <2>2, <2>3
<1> QED BY <1>5, <1>6 DEF Lifecycle!Next

\* Whoever polls, reports, dispatches, retries or cancels, in any order: each
\* command of a deployment begins queued, only advances, and ends for good
\* (create_command(), transition_command(), commands_for_delivery()).
THEOREM CommandsKeepLifecycle == Spec => Lifecycle!Spec
<1>1. Init => Lifecycle!Init
  BY DEF Init, Lifecycle!Init, Row, Numbered
<1>2. TypeInv /\ TypeInv' /\ [Next]_vars => [Lifecycle!Next]_Row
  BY LifecycleStep
<1>3. TypeInv /\ [Next]_vars => TypeInv'
  BY TypeStep
<1> QED BY <1>1, <1>2, <1>3, TypeInit, PTL DEF Spec, Lifecycle!Spec
=============================================================================
