------------------------- MODULE CommandPlane_proofs -------------------------
(***************************************************************************)
(* Proofs about CommandPlane, for every set of commands, every bound and   *)
(* whatever the timer, operators and deadlines may do: the life of a       *)
(* command, then the invariants.                                           *)
(***************************************************************************)
EXTENDS CommandPlane, TLAPS

DbStates == Lifecycle!CommandStates \cup {"absent"}
DbInv == db \in [Commands -> DbStates]

\* An open command may time out, and a queued one may be delivered.
LEMMA OpenLemma ==
  /\ \A s \in Lifecycle!Open : Lifecycle!Moves(s, "timed_out")
  /\ Lifecycle!Moves("queued", "delivered")
<1>1. \A s \in Lifecycle!Open : Lifecycle!Order[s] <= 4
  BY DEF Lifecycle!Open, Lifecycle!Order
<1>2. Lifecycle!Order["timed_out"] = 5
  BY DEF Lifecycle!Order
<1>3. \A s \in Lifecycle!Open : Lifecycle!Order[s] \in Nat
  BY DEF Lifecycle!Open, Lifecycle!Order
<1>4. \A s \in Lifecycle!Open : s \notin Lifecycle!Terminal /\ s # "absent"
  BY DEF Lifecycle!Open, Lifecycle!Terminal
<1>5. \A s \in Lifecycle!Open : Lifecycle!CanAdvance(s, "timed_out")
  BY <1>1, <1>2, <1>3, <1>4 DEF Lifecycle!CanAdvance
<1>6. Lifecycle!Moves("queued", "delivered")
  BY DEF Lifecycle!Moves, Lifecycle!CanAdvance, Lifecycle!Order,
         Lifecycle!Terminal
<1>7. QED BY <1>4, <1>5, <1>6 DEF Lifecycle!Moves

\* transition_command() advances one command, or refuses and changes none.
LEMMA TransitionStep ==
  ASSUME DbInv, NEW c \in Commands, NEW s \in Lifecycle!CommandStates,
         Transition(c, s)
  PROVE  DbInv' /\ Lifecycle!Next
<1>1. DbInv'
  BY DEF Transition, DbInv, DbStates
<1>2. \A k \in Commands : db'[k] = db[k] \/ Lifecycle!Moves(db[k], db'[k])
  BY DEF Transition, DbInv, Lifecycle!Moves
<1>3. QED BY <1>1, <1>2 DEF Lifecycle!Next, DbInv, DbStates

\* commands_for_delivery() times out open commands and delivers queued ones.
LEMMA PollStep ==
  ASSUME DbInv, NEW t \in Threads, Poll(t)
  PROVE  DbInv' /\ Lifecycle!Next
<1>1. PICK scanned \in SUBSET Commands :
        db' = [c \in Commands |-> IF c \in scanned THEN Polled(c) ELSE db[c]]
  BY DEF Poll
<1>2. ASSUME NEW c \in Commands
      PROVE  /\ Polled(c) \in DbStates
             /\ Polled(c) = db[c] \/ Lifecycle!Moves(db[c], Polled(c))
  <2>1. CASE c \in Expired
    <3>1. db[c] \in Lifecycle!Open /\ Polled(c) = "timed_out"
      BY <2>1 DEF Expired, Polled, Deliverable
    <3>2. Lifecycle!Moves(db[c], "timed_out")
      BY <3>1, OpenLemma
    <3>3. "timed_out" \in DbStates
      BY DEF DbStates, Lifecycle!CommandStates, Lifecycle!Terminal
    <3>4. QED BY <3>1, <3>2, <3>3
  <2>2. CASE c \notin Expired /\ c \in Deliverable /\ db[c] = "queued"
    <3>1. Polled(c) = "delivered"
      BY <2>2 DEF Polled
    <3>2. QED BY <2>2, <3>1, OpenLemma DEF DbStates, Lifecycle!CommandStates,
                                          Lifecycle!Open
  <2>3. CASE c \notin Expired /\ ~ (c \in Deliverable /\ db[c] = "queued")
    BY <2>3 DEF Polled, DbInv
  <2>4. QED BY <2>1, <2>2, <2>3
<1>3. QED BY <1>1, <1>2 DEF DbInv, DbStates, Lifecycle!Next

\* Every step of the plane advances the commands it touches.
LEMMA LifecycleStep == DbInv /\ [Next]_vars => DbInv' /\ [Lifecycle!Next]_db
<1> SUFFICES ASSUME DbInv, [Next]_vars PROVE DbInv' /\ [Lifecycle!Next]_db
  OBVIOUS
<1> USE DEF vars, controller, agent, executor, updater
<1>a. ASSUME UNCHANGED db PROVE DbInv' /\ [Lifecycle!Next]_db
  BY <1>a DEF DbInv
<1>1. ASSUME NEW c \in Commands, Create(c) PROVE DbInv' /\ Lifecycle!Next
  <2>1. DbInv'
    BY <1>1 DEF Create, DbInv, DbStates, Lifecycle!CommandStates, Lifecycle!Open
  <2>2. \A k \in Commands : db'[k] = db[k] \/ Lifecycle!Moves(db[k], db'[k])
    BY <1>1 DEF Create, DbInv, Lifecycle!Moves
  <2>3. QED BY <2>1, <2>2 DEF Lifecycle!Next, DbInv, DbStates
<1>2. ASSUME NEW c \in Commands, NEW s \in Reported, Apply(c, s)
      PROVE  DbInv' /\ Lifecycle!Next
  <2>1. s \in Lifecycle!CommandStates
    BY DEF Reported, Lifecycle!CommandStates, Lifecycle!Open, Lifecycle!Terminal
  <2>2. QED BY <1>2, <2>1, TransitionStep DEF Apply
<1>3. ASSUME NEW c \in Commands, CancelCommit(c) PROVE DbInv' /\ Lifecycle!Next
  <2>1. "canceled" \in Lifecycle!CommandStates
    BY DEF Lifecycle!CommandStates, Lifecycle!Terminal
  <2>2. QED BY <1>3, <2>1, TransitionStep DEF CancelCommit
<1>4. ASSUME NEW c \in Commands, DeadlinePasses(c) \/ CancelCheck(c)
      PROVE  UNCHANGED db
  BY <1>4 DEF DeadlinePasses, CancelCheck
<1>5. ASSUME NEW t \in Threads, Poll(t) PROVE DbInv' /\ Lifecycle!Next
  BY <1>5, PollStep
<1>6. ASSUME NEW t \in Threads,
             \/ LoseAnswer(t) \/ Receive(t) \/ RpcFails(t)
             \/ \E c \in Commands : Skip(t, c) \/ Call(t, c)
             \/ Sample \/ Report
      PROVE  UNCHANGED db
  BY <1>6 DEF LoseAnswer, Receive, RpcFails, Skip, Call, Sample, Report
<1>7. ASSUME ExecStep PROVE UNCHANGED db
  BY <1>7 DEF ExecStep, ExecTake, ExecEnqueue, ExecRefused, ExecSeen, ExecReply
<1>8. ASSUME UpdaterStep PROVE UNCHANGED db
  BY <1>8 DEF UpdaterStep, ChildStarts, ChildBusy, ChildEnds, ChildLocks,
          ChildWorks, TimerStarts, TimerLocks, TimerEnds, Tick
<1>9. ASSUME Reboot \/ AgentRestarts \/ ExecutorRestarts PROVE UNCHANGED db
  BY <1>9 DEF Reboot, AgentRestarts, ExecutorRestarts
<1>10. QED
  BY <1>a, <1>1, <1>2, <1>3, <1>4, <1>5, <1>6, <1>7, <1>8, <1>9
  DEF Next, ControllerStep, ThreadStep

(***************************************************************************)
(* Reports lost, late, repeated or out of order, handlers in parallel,     *)
(* cancellations and deadlines: each transaction only ever advances a      *)
(* command, and none leaves a terminal state.                              *)
(***************************************************************************)
THEOREM LifecycleIsKept == Spec => KeepsLifecycle
<1>1. Init => Lifecycle!Init /\ DbInv
  BY DEF Init, Lifecycle!Init, DbInv, DbStates
<1>2. QED BY <1>1, LifecycleStep, PTL DEF Spec, KeepsLifecycle, Lifecycle!Spec

-----------------------------------------------------------------------------
(* The invariants.                                                         *)

Statuses ==
  {s \in [run : 0..MaxRuns, state : {"none", "active", "failed", "complete"}] :
     s.state = "none" => s.run = 0}
Calls == [pc : {"idle", "sampled", "reported", "answered", "accept", "call"},
          todo : SUBSET Commands, known : [Commands -> Nat],
          cmd : Commands \cup {NoCommand}, row : 0..2]
Requests == [pc : {"idle", "enqueue", "seen", "reply"},
             cmd : Commands \cup {NoCommand}, caller : Threads \cup {"nobody"}]
Jobs == {"none", "queued", "running", "done", "held"}

ControllerTypes ==
  /\ DbInv
  /\ late \subseteq Commands /\ canceling \subseteq Commands
  /\ reported \subseteq Commands \X Reported

AgentTypes == /\ rows \in [Commands -> Seq(Row)]
              /\ thread \in [Threads -> Calls]
              /\ sampled \in Statuses
              /\ sampled.run <= runs

ExecutorTypes == /\ exec \in Requests
                 /\ seen \in [Commands -> 0..(MaxRuns + 1)]

UpdaterTypes ==
  /\ job \in [Commands -> Jobs]
  /\ runs \in 0..MaxRuns /\ fresh \in BOOLEAN /\ (fresh => runs # 0)
  /\ status \in Statuses /\ status.run <= runs
  /\ child \in 0..MaxRuns /\ child <= runs
  /\ timer \in 0..MaxRuns /\ timer <= runs
  /\ lock \in {"free", "child", "timer"} /\ completed \subseteq 0..MaxRuns

Types == ControllerTypes /\ AgentTypes /\ ExecutorTypes /\ UpdaterTypes

\* What the controller has handed out at least once.
Untouched == {"absent", "queued"}
Touched(c) == db[c] \notin Untouched

\* What a thread of the agent works on was handed out, and the rows it looked
\* up are still there.
CallInv ==
  \A t \in Threads :
    /\ \A c \in thread[t].todo : Touched(c)
    /\ thread[t].pc \in {"accept", "call"} =>
         \A c \in thread[t].todo : thread[t].known[c] <= Len(rows[c])
    /\ thread[t].pc = "call" =>
         /\ thread[t].cmd \in thread[t].todo
         /\ thread[t].row \in 1..Len(rows[thread[t].cmd])

\* The executor serves a call that is still waited for, or nobody's.
ExecInv ==
  /\ exec.pc = "idle" => exec = NoRequest
  /\ exec.pc # "idle" => exec.cmd \in Commands /\ Touched(exec.cmd)
  /\ exec.caller \in Threads =>
       thread[exec.caller].pc = "call" /\ thread[exec.caller].cmd = exec.cmd
  /\ exec.pc \in {"enqueue", "seen"} => seen[exec.cmd] = 0
  /\ exec.pc = "seen" => job[exec.cmd] # "none"
  /\ exec.pc = "reply" => seen[exec.cmd] # 0

\* Only what was handed out leaves traces, and acceptance is durable.
TraceInv ==
  \A c \in Commands :
    /\ rows[c] # <<>> \/ seen[c] # 0 \/ job[c] # "none" => Touched(c)
    /\ \A s \in Reported : <<c, s>> \in reported => Touched(c)
    /\ seen[c] # 0 => job[c] # "none"
    /\ db[c] = "accepted" \/ <<c, "accepted">> \in reported => seen[c] # 0

\* A row that says accepted was answered, with the acceptance in
\* executor-seen.json.
RowGood(c, r) ==
  /\ r.need \in {0, seen[c]}
  /\ r.state = "accepted" => r.need > 0

RowInv == \A c \in Commands : \A i \in DOMAIN rows[c] : RowGood(c, rows[c][i])

\* A thread about to append a row saw none: each appends one at most.
Appends(t, c) ==
  /\ thread[t].pc = "accept" \/ (thread[t].pc = "call" /\ thread[t].cmd # c)
  /\ c \in thread[t].todo
  /\ thread[t].known[c] = 0

CountInv ==
  \A c \in Commands :
    /\ Len(rows[c]) <= 2
    /\ Appends("reporter", c) \/ Appends("poller", c) => Len(rows[c]) <= 1
    /\ Appends("reporter", c) /\ Appends("poller", c) => Len(rows[c]) = 0

SInv == Types /\ CallInv /\ ExecInv /\ TraceInv /\ RowInv /\ CountInv

-----------------------------------------------------------------------------
(* What the controller's transactions keep.                                *)

TouchedStays == \A c \in Commands : Touched(c) => Touched(c)'

\* Commands stay handed out, and only a report can have one accepted.
ControllerKeeps ==
  /\ TouchedStays
  /\ \A c \in Commands :
       db'[c] = "accepted" => db[c] = "accepted" \/ <<c, "accepted">> \in reported
  /\ reported' \subseteq reported

LEMMA AdvanceLemma ==
  ASSUME NEW a \in DbStates \ {"absent"}, NEW b \in Lifecycle!CommandStates,
         Lifecycle!CanAdvance(a, b), a # "queued"
  PROVE  b \notin Untouched
<1>1. CASE a \in Lifecycle!Terminal
  BY <1>1 DEF Lifecycle!CanAdvance, Lifecycle!Terminal, Untouched
<1>2. CASE a \notin Lifecycle!Terminal
  <2>1. Lifecycle!Order[b] >= Lifecycle!Order[a]
    BY <1>2 DEF Lifecycle!CanAdvance
  <2>2. Lifecycle!Order["queued"] = 0
    BY DEF Lifecycle!Order
  <2>3. a \in {"delivered", "received", "accepted", "running"}
    BY <1>2 DEF DbStates, Lifecycle!CommandStates, Lifecycle!Open
  <2>4. Lifecycle!Order[a] \in 1..4
    BY <2>3 DEF Lifecycle!Order
  <2>5. b # "queued"
    BY <2>1, <2>2, <2>4
  <2>6. b # "absent"
    BY DEF Lifecycle!CommandStates, Lifecycle!Open, Lifecycle!Terminal
  <2> QED BY <2>5, <2>6 DEF Untouched
<1> QED BY <1>1, <1>2

LEMMA TransitionKeeps ==
  ASSUME ControllerTypes, NEW c \in Commands, NEW s \in Lifecycle!CommandStates,
         Transition(c, s)
  PROVE  /\ DbInv'
         /\ \A k \in Commands : Touched(k) => Touched(k)'
         /\ \A k \in Commands :
              db'[k] = "accepted" => db[k] = "accepted" \/ (k = c /\ s = "accepted")
         /\ reported' \subseteq reported
<1>1. DbInv'
  BY TransitionStep DEF ControllerTypes
<1>2. reported' \subseteq reported
  BY DEF Transition, Effective
<1>3. db' = [db EXCEPT ![c] = IF db[c] # "absent" /\ Lifecycle!CanAdvance(db[c], s)
                              THEN s ELSE db[c]]
  BY DEF Transition
<1>4. db \in [Commands -> DbStates]
  BY DEF ControllerTypes, DbInv
<1>5. ASSUME Touched(c) PROVE Touched(c)'
  <2>1. CASE db[c] # "absent" /\ Lifecycle!CanAdvance(db[c], s)
    BY <1>3, <1>4, <1>5, <2>1, AdvanceLemma DEF Touched, Untouched
  <2>2. CASE ~ (db[c] # "absent" /\ Lifecycle!CanAdvance(db[c], s))
    BY <1>3, <1>4, <1>5, <2>2 DEF Touched
  <2> QED BY <2>1, <2>2
<1>6. \A k \in Commands : Touched(k) => Touched(k)'
  BY <1>3, <1>4, <1>5 DEF Touched
<1> QED BY <1>1, <1>2, <1>3, <1>4, <1>6

LEMMA ControllerStepKeeps ==
  ASSUME ControllerTypes, ControllerStep
  PROVE  ControllerTypes' /\ ControllerKeeps
<1>1. ASSUME NEW c \in Commands, Create(c)
      PROVE  ControllerTypes' /\ ControllerKeeps
  <2>1. db \in [Commands -> DbStates]
    BY DEF ControllerTypes, DbInv
  <2>2. db' = [db EXCEPT ![c] = "queued"] /\ db[c] = "absent"
    BY <1>1 DEF Create
  <2>3. "queued" \in DbStates
    BY DEF DbStates, Lifecycle!CommandStates, Lifecycle!Open
  <2>4. \A k \in Commands : db'[k] = IF k = c THEN "queued" ELSE db[k]
    BY <2>1, <2>2
  <2>5. ControllerKeeps
    BY <1>1, <2>2, <2>4 DEF Create, ControllerKeeps, TouchedStays, Touched, Untouched
  <2>6. DbInv'
    BY <2>1, <2>2, <2>3 DEF DbInv
  <2> QED BY <1>1, <2>5, <2>6 DEF Create, ControllerTypes
<1>2. ASSUME NEW c \in Commands, DeadlinePasses(c) \/ CancelCheck(c)
      PROVE  ControllerTypes' /\ ControllerKeeps
  BY <1>2 DEF DeadlinePasses, CancelCheck, ControllerTypes, ControllerKeeps, TouchedStays,
     DbInv, Touched
<1>3. ASSUME NEW c \in Commands, CancelCommit(c)
      PROVE  ControllerTypes' /\ ControllerKeeps
  <2>1. "canceled" \in Lifecycle!CommandStates
    BY DEF Lifecycle!CommandStates, Lifecycle!Terminal
  <2>2. Transition(c, "canceled") /\ late' = late /\ canceling' \subseteq canceling
    BY <1>3 DEF CancelCommit
  <2> QED BY <2>1, <2>2, TransitionKeeps DEF ControllerTypes, ControllerKeeps, TouchedStays
<1>4. ASSUME NEW c \in Commands, NEW s \in Reported, Apply(c, s)
      PROVE  ControllerTypes' /\ ControllerKeeps
  <2>1. s \in Lifecycle!CommandStates
    BY DEF Reported, Lifecycle!CommandStates, Lifecycle!Open, Lifecycle!Terminal
  <2>2. Transition(c, s) /\ <<c, s>> \in reported /\ UNCHANGED <<late, canceling>>
    BY <1>4 DEF Apply
  <2> QED BY <2>1, <2>2, TransitionKeeps DEF ControllerTypes, ControllerKeeps, TouchedStays
<1> QED BY <1>1, <1>2, <1>3, <1>4 DEF ControllerStep

\* What a thread may become by a poll: it holds what was handed out.
Handed(t, out) ==
  /\ \A c \in out : Touched(c)'
  /\ thread' = [thread EXCEPT ![t] =
                  IF out = {} THEN Thread("idle")
                  ELSE [Thread("answered") EXCEPT !.todo = out]]

\* A long poll hands out what it delivers.
LEMMA PollKeeps ==
  ASSUME ControllerTypes, NEW t \in Threads, Poll(t)
  PROVE  /\ ControllerTypes' /\ ControllerKeeps
         /\ \E out \in SUBSET Commands : Handed(t, out)
<1>1. db \in [Commands -> DbStates]
  BY DEF ControllerTypes, DbInv
<1>2. PICK scanned \in SUBSET Commands,
           recent \in SUBSET {c \in Deliverable : db[c] # "queued"} :
        /\ db' = [c \in Commands |-> IF c \in scanned THEN Polled(c) ELSE db[c]]
        /\ reported' \subseteq reported
        /\ UNCHANGED <<late, canceling>>
        /\ thread' = [thread EXCEPT ![t] =
                        IF (Deliverable \cap scanned) \ recent = {} THEN Thread("idle")
                        ELSE [Thread("answered") EXCEPT
                                !.todo = (Deliverable \cap scanned) \ recent]]
  BY DEF Poll, Effective
<1>3. \A c \in Commands :
        Polled(c) = db[c] \/ Polled(c) \in {"timed_out", "delivered"}
  BY DEF Polled
<1>4. DbInv'
  BY PollStep DEF ControllerTypes
<1>5. ASSUME NEW c \in Deliverable \cap scanned PROVE c \in Commands /\ Touched(c)'
  <2>1. c \in Commands /\ c \notin Expired
        /\ db[c] \in {"queued", "delivered", "received"}
    BY <1>5 DEF Deliverable, Redeliverable
  <2>2. Polled(c) = IF db[c] = "queued" THEN "delivered" ELSE db[c]
    BY <1>5, <2>1 DEF Polled
  <2> QED BY <1>2, <2>1, <2>2 DEF Touched, Untouched
<1>6. ControllerKeeps
  BY <1>2, <1>3 DEF ControllerKeeps, TouchedStays, Touched, Untouched
<1>7. ASSUME NEW out, out = (Deliverable \cap scanned) \ recent
      PROVE  out \in SUBSET Commands /\ Handed(t, out)
  BY <1>2, <1>5, <1>7 DEF Handed
<1> QED BY <1>2, <1>4, <1>6, <1>7 DEF ControllerTypes

LEMMA ControllerIdle ==
  ASSUME ControllerTypes, UNCHANGED controller
  PROVE  ControllerTypes' /\ ControllerKeeps
BY DEF controller, ControllerTypes, DbInv, ControllerKeeps, TouchedStays, Touched

-----------------------------------------------------------------------------
(* Threads that begin no call.                                             *)

\* x is what a thread y may become without beginning a call: it holds what
\* was handed out, and about the rows it remembers what it did, or looks now.
Follows(x, y) ==
  /\ x.pc # "call"
  /\ \A c \in x.todo : c \in y.todo \/ Touched(c)'
  /\ x.pc = "accept" => \A c \in x.todo :
       \/ x.known[c] = Len(rows[c])
       \/ /\ y.pc \in {"accept", "call"} /\ c \in y.todo
          /\ x.known[c] = y.known[c]
          /\ y.pc = "call" => y.cmd # c

NoCalls ==
  /\ thread' \in [Threads -> Calls]
  /\ \A u \in Threads : thread'[u] = thread[u] \/ Follows(thread'[u], thread[u])

LEMMA ThreadLemma ==
  ASSUME NEW pc \in {"idle", "sampled", "reported", "answered"}
  PROVE  /\ Thread(pc) \in Calls /\ Thread(pc).pc = pc /\ Thread(pc).todo = {}
         /\ \A y : Follows(Thread(pc), y)
BY DEF Thread, Calls, Follows

LEMMA AnsweredLemma ==
  ASSUME AgentTypes, NEW t \in Threads, thread[t].pc = "call"
  PROVE  Answered(t) \in Calls /\ Follows(Answered(t), thread[t])
<1>1. thread[t] \in Calls
  BY DEF AgentTypes
<1>2. CASE thread[t].todo = {thread[t].cmd}
  <2>1. Answered(t) = Thread("idle")
    BY <1>2 DEF Answered
  <2> QED BY <2>1, ThreadLemma
<1>3. CASE thread[t].todo # {thread[t].cmd}
  <2> DEFINE n == [thread[t] EXCEPT !.pc = "accept", !.todo = @ \ {thread[t].cmd},
                                    !.cmd = NoCommand, !.row = 0]
  <2>1. Answered(t) = n
    BY <1>3 DEF Answered
  <2>2. n \in Calls
    <3>1. thread[t].todo \ {thread[t].cmd} \in SUBSET Commands
      BY <1>1 DEF Calls
    <3>2. NoCommand \in Commands \cup {NoCommand} /\ 0 \in 0..2
      OBVIOUS
    <3> QED BY <1>1, <3>1, <3>2 DEF Calls
  <2>3. n.pc = "accept" /\ n.todo = thread[t].todo \ {thread[t].cmd}
        /\ n.known = thread[t].known
    BY <1>1 DEF Calls
  <2> HIDE DEF n
  <2>4. Follows(n, thread[t])
    BY <2>3 DEF Follows
  <2> QED BY <2>1, <2>2, <2>4
<1> QED BY <1>2, <1>3

LEMMA NoCallsCall ==
  ASSUME AgentTypes, CallInv, TouchedStays, NoCalls,
         rows' \in [Commands -> Seq(Row)],
         \A c \in Commands : Len(rows'[c]) = Len(rows[c])
  PROVE  CallInv'
<1> SUFFICES ASSUME NEW t \in Threads
    PROVE /\ \A c \in thread'[t].todo : Touched(c)'
          /\ thread'[t].pc \in {"accept", "call"} =>
               \A c \in thread'[t].todo : thread'[t].known[c] <= Len(rows'[c])
          /\ thread'[t].pc = "call" =>
               /\ thread'[t].cmd \in thread'[t].todo
               /\ thread'[t].row \in 1..Len(rows'[thread'[t].cmd])
  BY DEF CallInv, Touched
<1>1. thread[t] \in Calls /\ thread'[t] \in Calls
  BY DEF AgentTypes, NoCalls
<1>2. \A c \in thread[t].todo : c \in Commands /\ Touched(c)
  BY <1>1 DEF CallInv, Calls
<1>3. CASE thread'[t] = thread[t]
  BY <1>1, <1>2, <1>3 DEF CallInv, TouchedStays, Calls
<1>4. CASE Follows(thread'[t], thread[t])
  <2>1. \A c \in thread'[t].todo : c \in Commands /\ Touched(c)'
    BY <1>1, <1>2, <1>4 DEF TouchedStays, Calls, Follows
  <2>2. ASSUME thread'[t].pc = "accept", NEW c \in thread'[t].todo
        PROVE  thread'[t].known[c] <= Len(rows[c])
    <3>1. Len(rows[c]) \in Nat
      BY <2>1 DEF AgentTypes
    <3>2. CASE thread'[t].known[c] = Len(rows[c])
      BY <3>1, <3>2
    <3>3. CASE /\ thread[t].pc \in {"accept", "call"} /\ c \in thread[t].todo
               /\ thread'[t].known[c] = thread[t].known[c]
      BY <3>3 DEF CallInv
    <3> QED BY <1>4, <2>2, <3>2, <3>3 DEF Follows
  <2>3. thread'[t].pc # "call"
    BY <1>4 DEF Follows
  <2> QED BY <2>1, <2>2, <2>3
<1> QED BY <1>3, <1>4 DEF NoCalls

LEMMA NoCallsCount ==
  ASSUME CountInv, NoCalls, \A c \in Commands : Len(rows'[c]) = Len(rows[c])
  PROVE  CountInv'
<1>1. ASSUME NEW t \in Threads, NEW c \in Commands, Appends(t, c)'
      PROVE  Appends(t, c) \/ Len(rows[c]) = 0
  <2>1. CASE thread'[t] = thread[t]
    BY <1>1, <2>1 DEF Appends
  <2>2. CASE Follows(thread'[t], thread[t])
    BY <1>1, <2>2 DEF Appends, Follows
  <2> QED BY <2>1, <2>2 DEF NoCalls
<1>2. "reporter" \in Threads /\ "poller" \in Threads
  BY DEF Threads
<1> SUFFICES ASSUME NEW c \in Commands
    PROVE /\ Len(rows'[c]) <= 2
          /\ Appends("reporter", c)' \/ Appends("poller", c)' => Len(rows'[c]) <= 1
          /\ Appends("reporter", c)' /\ Appends("poller", c)' => Len(rows'[c]) = 0
  BY DEF CountInv, Appends
<1> QED BY <1>1, <1>2 DEF CountInv

-----------------------------------------------------------------------------
(* What keeps each part of the invariant.                                  *)

JobsStay == \A c \in Commands : job[c] # "none" <=> job'[c] # "none"

LEMMA TraceFrame ==
  ASSUME ControllerTypes, TraceInv, ControllerKeeps, JobsStay, UNCHANGED seen,
         \A c \in Commands : rows'[c] = <<>> \/ rows[c] # <<>> \/ Touched(c)
  PROVE  TraceInv'
<1> SUFFICES ASSUME NEW c \in Commands
    PROVE /\ rows'[c] # <<>> \/ seen'[c] # 0 \/ job'[c] # "none" => Touched(c)'
          /\ \A s \in Reported : <<c, s>> \in reported' => Touched(c)'
          /\ seen'[c] # 0 => job'[c] # "none"
          /\ db'[c] = "accepted" \/ <<c, "accepted">> \in reported'
               => seen'[c] # 0
  BY DEF TraceInv, Touched
<1> QED BY DEF TraceInv, ControllerKeeps, TouchedStays, JobsStay

LEMMA RowFrame ==
  ASSUME Types, RowInv, UpdaterTypes', runs <= runs', UNCHANGED rows,
         \A c \in Commands : seen[c] # 0 => seen'[c] = seen[c]
  PROVE  RowInv'
<1> QED BY DEF RowInv, RowGood

LEMMA ExecFrame ==
  ASSUME ExecInv, TouchedStays, JobsStay, UNCHANGED <<exec, seen>>,
         exec.caller \in Threads => thread'[exec.caller] = thread[exec.caller]
  PROVE  ExecInv'
BY DEF ExecInv, TouchedStays, JobsStay, Touched

LEMMA StayNoCalls == AgentTypes /\ UNCHANGED thread => NoCalls
BY DEF AgentTypes, NoCalls

\* A step that leaves rows and requests alone, ends no call that is being
\* served and sends no report.
LEMMA SteadyStep ==
  ASSUME SInv, Types', ControllerKeeps, JobsStay, NoCalls, runs <= runs',
         UNCHANGED <<rows, exec, seen>>,
         exec.caller \in Threads => thread'[exec.caller] = thread[exec.caller]
  PROVE  SInv'
<1>1. ControllerTypes /\ AgentTypes
  BY DEF SInv, Types
<1>2. TouchedStays /\ \A c \in Commands : Len(rows'[c]) = Len(rows[c])
  BY DEF ControllerKeeps
<1>3. CallInv'
  <2>1. rows' \in [Commands -> Seq(Row)]
    BY DEF Types, AgentTypes
  <2> QED BY <1>1, <1>2, <2>1, NoCallsCall DEF SInv
<1>4. ExecInv'
  BY <1>2, ExecFrame DEF SInv
<1>5. TraceInv'
  <2>1. \A c \in Commands : rows'[c] = <<>> \/ rows[c] # <<>> \/ Touched(c)
    OBVIOUS
  <2> QED BY <1>1, <2>1, TraceFrame DEF SInv
<1>6. RowInv'
  BY RowFrame DEF SInv, Types
<1>7. CountInv'
  BY <1>2, NoCallsCount DEF SInv
<1> QED BY <1>3, <1>4, <1>5, <1>6, <1>7 DEF SInv

-----------------------------------------------------------------------------
(* Steps that are steady.                                                  *)

LEMMA ControllerStepInv == SInv /\ ControllerStep => SInv'
<1> SUFFICES ASSUME SInv, ControllerStep PROVE SInv'
  OBVIOUS
<1>1. UNCHANGED <<agent, executor, job, updater>>
  BY DEF ControllerStep, Create, DeadlinePasses, CancelCheck, CancelCommit, Apply
<1>2. UNCHANGED <<rows, thread, sampled, exec, seen, job, runs, fresh, status,
                  lock, timer, child, completed>>
  BY <1>1 DEF agent, executor, updater
<1>3. ControllerTypes' /\ ControllerKeeps
  BY ControllerStepKeeps DEF SInv, Types
<1>4. AgentTypes' /\ ExecutorTypes' /\ UpdaterTypes'
  BY <1>2 DEF SInv, Types, AgentTypes, ExecutorTypes, UpdaterTypes
<1>5. JobsStay /\ NoCalls
  BY <1>2, StayNoCalls DEF JobsStay, SInv, Types
<1>6. runs <= runs'
  BY <1>2, CommandPlaneAssumption DEF SInv, Types, UpdaterTypes
<1> QED BY <1>2, <1>3, <1>4, <1>5, <1>6, SteadyStep DEF Types

LEMMA RunLemma ==
  ASSUME UpdaterTypes, NEW n \in 0..MaxRuns, n <= runs,
         NEW s \in {"active", "failed", "complete"}
  PROVE  [run |-> n, state |-> s] \in Statuses
BY DEF Statuses

LEMMA MoveLemma ==
  ASSUME UpdaterTypes, NEW c \in Commands, NEW old, NEW new, Queue!Move(c, old, new)
  PROVE  /\ job' \in [Commands -> Jobs]
         /\ new # "none"
         /\ \A k \in Commands : job'[k] = IF k = c THEN new ELSE job[k]
         /\ old # "none" => JobsStay
<1>1. new \in Jobs \ {"none"} /\ job[c] = old
      /\ job' = [job EXCEPT ![c] = new]
  BY DEF Queue!Move, Queue!Moves, Jobs
<1> QED BY <1>1 DEF UpdaterTypes, JobsStay

LEMMA UpdaterStepTypes ==
  ASSUME UpdaterTypes, UpdaterStep
  PROVE  UpdaterTypes' /\ JobsStay /\ runs <= runs'
<1> USE CommandPlaneAssumption
<1>1. ASSUME NEW c \in Commands, ChildStarts(c)
      PROVE  UpdaterTypes' /\ JobsStay /\ runs <= runs'
  <2>1. job' \in [Commands -> Jobs] /\ JobsStay
    BY <1>1, MoveLemma DEF ChildStarts
  <2>2. runs' = runs + 1 /\ runs' \in 0..MaxRuns /\ fresh' = TRUE
        /\ child' = runs + 1 /\ UNCHANGED <<lock, timer, completed>>
        /\ status' = [run |-> runs + 1, state |-> "active"]
    BY <1>1 DEF ChildStarts, StartRun, UpdaterTypes
  <2>3. status' \in Statuses /\ status'.run <= runs'
    BY <2>2 DEF Statuses
  <2> QED BY <2>1, <2>2, <2>3 DEF UpdaterTypes
<1>2. ASSUME TimerStarts PROVE UpdaterTypes' /\ JobsStay /\ runs <= runs'
  <2>2. runs' = runs + 1 /\ runs' \in 0..MaxRuns /\ fresh' = TRUE
        /\ timer' = runs + 1 /\ UNCHANGED <<job, lock, child, completed>>
        /\ status' = [run |-> runs + 1, state |-> "active"]
    BY <1>2 DEF TimerStarts, StartRun, UpdaterTypes
  <2>3. status' \in Statuses /\ status'.run <= runs'
    BY <2>2 DEF Statuses
  <2>4. job' \in [Commands -> Jobs] /\ JobsStay
    BY <2>2 DEF JobsStay, UpdaterTypes
  <2>5. runs <= runs' /\ timer' \in 0..MaxRuns /\ timer' <= runs' /\ runs' # 0
    BY <2>2 DEF UpdaterTypes
  <2>6. child' \in 0..MaxRuns /\ child' <= runs'
    BY <2>2 DEF UpdaterTypes
  <2>7. lock' \in {"free", "child", "timer"} /\ completed' \subseteq 0..MaxRuns
    BY <2>2 DEF UpdaterTypes
  <2> QED BY <2>2, <2>3, <2>4, <2>5, <2>6, <2>7 DEF UpdaterTypes
<1>3. ASSUME ChildLocks \/ TimerLocks \/ Tick
      PROVE  UpdaterTypes' /\ JobsStay /\ runs <= runs'
  <2>1. UNCHANGED <<job, runs, status, timer, child, completed>>
    BY <1>3 DEF ChildLocks, TimerLocks, Tick
  <2>2. /\ lock' \in {lock, "child", "timer"}
        /\ fresh' = fresh \/ fresh' = FALSE
    BY <1>3 DEF ChildLocks, TimerLocks, Tick
  <2>3. fresh' \in BOOLEAN /\ (fresh' => runs # 0)
    <3>1. fresh \in BOOLEAN /\ (fresh => runs # 0)
      BY DEF UpdaterTypes
    <3>2. CASE fresh' = fresh
      BY <3>1, <3>2, Zenon
    <3>3. CASE fresh' = FALSE
      BY <3>3, Zenon
    <3> QED BY <2>2, <3>2, <3>3, Zenon
  <2>4. lock' \in {"free", "child", "timer"}
    BY <2>2 DEF UpdaterTypes
  <2>5. JobsStay /\ runs <= runs'
    BY <2>1 DEF JobsStay, UpdaterTypes
  <2> QED BY <2>1, <2>3, <2>4, <2>5 DEF UpdaterTypes
<1>4. ASSUME ChildWorks \/ TimerEnds
      PROVE  UpdaterTypes' /\ JobsStay /\ runs <= runs'
  <2>1. \E n \in {child, timer}, s \in {"active", "complete"} :
          status' = [run |-> n, state |-> s]
    BY <1>4 DEF ChildWorks, TimerEnds
  <2>2. status' \in Statuses /\ status'.run <= runs
    BY <2>1 DEF Statuses, UpdaterTypes
  <2>3. UNCHANGED <<job, runs, fresh, child>>
        /\ lock' \in {lock, "free"} /\ timer' \in {timer, 0}
        /\ completed' \in {completed, completed \cup {timer}}
    BY <1>4 DEF ChildWorks, TimerEnds
  <2>4. lock' \in {"free", "child", "timer"} /\ timer' \in 0..MaxRuns
        /\ timer' <= runs /\ completed' \subseteq 0..MaxRuns
    BY <2>3 DEF UpdaterTypes
  <2> QED BY <2>2, <2>3, <2>4 DEF UpdaterTypes, JobsStay
<1>5. ASSUME NEW c \in Commands, ChildBusy(c) \/ ChildEnds(c)
      PROVE  UpdaterTypes' /\ JobsStay /\ runs <= runs'
  <2>1. \E new \in {"done", "queued", "held"} : Queue!Move(c, "running", new)
    BY <1>5 DEF ChildBusy, ChildEnds
  <2>2. job' \in [Commands -> Jobs] /\ JobsStay
    BY <2>1, MoveLemma
  <2>3. \/ status' = status
        \/ \E s \in {"active", "failed", "complete"} :
             status' = [run |-> child, state |-> s]
    BY <1>5 DEF ChildBusy, ChildEnds
  <2>4. status' \in Statuses /\ status'.run <= runs
    BY <2>3 DEF Statuses, UpdaterTypes
  <2>5. child' = 0 /\ completed' \subseteq 0..MaxRuns /\ UNCHANGED <<runs, fresh, timer>>
        /\ lock' \in {lock, "free"}
    BY <1>5 DEF ChildBusy, ChildEnds, UpdaterTypes
  <2>6. lock' \in {"free", "child", "timer"}
    BY <2>5 DEF UpdaterTypes
  <2> QED BY <2>2, <2>4, <2>5, <2>6 DEF UpdaterTypes
<1> QED BY <1>1, <1>2, <1>3, <1>4, <1>5 DEF UpdaterStep

LEMMA UpdaterStepInv == SInv /\ UpdaterStep => SInv'
<1> SUFFICES ASSUME SInv, UpdaterStep PROVE SInv'
  OBVIOUS
<1>1. UNCHANGED <<controller, agent, executor>>
  BY DEF UpdaterStep, ChildStarts, ChildLocks, ChildWorks, ChildBusy, ChildEnds,
     TimerStarts, TimerLocks, TimerEnds, Tick
<1>2. UNCHANGED <<rows, thread, sampled, exec, seen>>
  BY <1>1 DEF agent, executor
<1>3. ControllerTypes' /\ ControllerKeeps
  BY <1>1, ControllerIdle DEF SInv, Types
<1>4. UpdaterTypes' /\ JobsStay /\ runs <= runs'
  BY UpdaterStepTypes DEF SInv, Types
<1>5. AgentTypes' /\ ExecutorTypes'
  <2>1. sampled.run \in Nat /\ runs \in Nat /\ runs' \in Nat
    BY <1>4, CommandPlaneAssumption
    DEF SInv, Types, AgentTypes, UpdaterTypes, Statuses
  <2>2. sampled.run <= runs'
    BY <1>4, <2>1 DEF SInv, Types, AgentTypes
  <2> QED BY <1>2, <2>2 DEF SInv, Types, AgentTypes, ExecutorTypes
<1>6. NoCalls
  BY <1>2, StayNoCalls DEF SInv, Types
<1> QED BY <1>2, <1>3, <1>4, <1>5, <1>6, SteadyStep DEF Types

-----------------------------------------------------------------------------
(* The agent.                                                              *)

\* A thread's step that changes neither rows nor requests.
LEMMA ThreadStepInv ==
  ASSUME SInv, NEW t \in Threads,
         Poll(t) \/ LoseAnswer(t) \/ Receive(t) \/ (\E c \in Commands : Skip(t, c))
           \/ (t = "reporter" /\ Sample)
  PROVE  SInv'
<1>1. thread[t] \in Calls /\ thread \in [Threads -> Calls]
  BY DEF SInv, Types, AgentTypes
<1> DEFINE n == thread'[t]
<1>2. ControllerTypes' /\ ControllerKeeps
  <2>1. CASE Poll(t)
    BY <2>1, PollKeeps DEF SInv, Types
  <2>2. CASE UNCHANGED controller
    BY <2>2, ControllerIdle DEF SInv, Types
  <2> QED BY <2>1, <2>2 DEF LoseAnswer, Receive, Skip, Sample
<1>3. /\ thread' = [thread EXCEPT ![t] = n]
      /\ n \in Calls
      /\ Follows(n, thread[t])
      /\ thread[t].pc # "call"
  <2>1. CASE Poll(t)
    <3>1. PICK out \in SUBSET Commands : Handed(t, out)
      BY <2>1, PollKeeps DEF SInv, Types
    <3>2. /\ n = IF out = {} THEN Thread("idle")
                 ELSE [Thread("answered") EXCEPT !.todo = out]
          /\ thread' = [thread EXCEPT ![t] = n]
      BY <1>1, <3>1 DEF Handed
    <3>3. thread[t].pc # "call"
      BY <2>1 DEF Poll
    <3>4. CASE out = {}
      BY <1>1, <3>2, <3>3, <3>4, ThreadLemma
    <3>5. CASE out # {}
      <4>1. n \in Calls /\ n.pc = "answered" /\ n.todo = out
        BY <3>2, <3>5, ThreadLemma DEF Calls
      <4>2. \A c \in n.todo : Touched(c)'
        BY <3>1, <4>1 DEF Handed
      <4> QED BY <3>2, <3>3, <4>1, <4>2 DEF Follows
    <3> QED BY <3>4, <3>5
  <2>2. CASE LoseAnswer(t) \/ (t = "reporter" /\ Sample)
    BY <1>1, <2>2, ThreadLemma DEF LoseAnswer, Sample
  <2>3. CASE Receive(t)
    <3>1. n = [thread[t] EXCEPT !.pc = "accept", !.known = Known]
          /\ thread' = [thread EXCEPT ![t] = n]
      BY <1>1, <2>3 DEF Receive
    <3>2. Known \in [Commands -> Nat]
      BY DEF Known, SInv, Types, AgentTypes
    <3>3. n \in Calls /\ n.todo = thread[t].todo /\ n.pc = "accept"
          /\ n.known = Known
      BY <1>1, <3>1, <3>2 DEF Calls
    <3>4. \A c \in n.todo : n.known[c] = Len(rows[c])
      BY <3>3 DEF Known, Calls
    <3> QED BY <2>3, <3>1, <3>3, <3>4 DEF Follows, Receive
  <2>4. ASSUME NEW c \in Commands, Skip(t, c)
        PROVE  /\ thread' = [thread EXCEPT ![t] = n]
               /\ n \in Calls
               /\ Follows(n, thread[t])
               /\ thread[t].pc # "call"
    <3>1. thread' = IF thread[t].todo = {c}
                    THEN [thread EXCEPT ![t] = Thread("idle")]
                    ELSE [thread EXCEPT ![t].todo = thread[t].todo \ {c}]
      BY <2>4 DEF Skip
    <3>a. thread[t].pc = "accept"
      BY <2>4 DEF Skip
    <3>2. CASE thread[t].todo = {c}
      BY <1>1, <3>1, <3>a, <3>2, ThreadLemma
    <3>3. CASE thread[t].todo # {c}
      <4>1. thread' = [thread EXCEPT ![t] = n]
            /\ n = [thread[t] EXCEPT !.todo = thread[t].todo \ {c}]
        BY <1>1, <3>1, <3>3
      <4>2. thread[t].todo \ {c} \in SUBSET Commands
        BY <1>1 DEF Calls
      <4>3. n \in Calls /\ n.todo \subseteq thread[t].todo
            /\ n.pc = "accept" /\ n.known = thread[t].known
        BY <1>1, <3>a, <4>1, <4>2 DEF Calls
      <4> QED BY <3>a, <4>1, <4>3 DEF Follows
    <3> QED BY <3>2, <3>3
  <2> QED BY <2>1, <2>2, <2>3, <2>4
<1> HIDE DEF n
<1>4. NoCalls /\ thread' \in [Threads -> Calls]
  BY <1>1, <1>3 DEF NoCalls
<1>5. exec.caller \in Threads => thread'[exec.caller] = thread[exec.caller]
  BY <1>1, <1>3 DEF SInv, ExecInv
<1>6. UNCHANGED <<rows, exec, seen, job, runs, fresh, status, lock, timer, child,
                  completed>>
  BY DEF Poll, LoseAnswer, Receive, Skip, Sample, executor, updater
<1>7. sampled' \in Statuses /\ sampled'.run <= runs
  <2>1. sampled' \in {sampled, status, NoStatus}
    BY DEF Poll, LoseAnswer, Receive, Skip, Sample
  <2>2. NoStatus \in Statuses /\ NoStatus.run <= runs
    BY CommandPlaneAssumption
    DEF NoStatus, Statuses, SInv, Types, UpdaterTypes
  <2> QED BY <2>1, <2>2 DEF SInv, Types, AgentTypes, UpdaterTypes
<1>8. AgentTypes' /\ ExecutorTypes' /\ UpdaterTypes'
  BY <1>4, <1>6, <1>7 DEF SInv, Types, AgentTypes, ExecutorTypes, UpdaterTypes
<1>9. JobsStay /\ runs <= runs'
  BY <1>6, CommandPlaneAssumption DEF JobsStay, SInv, Types, UpdaterTypes
<1> QED BY <1>2, <1>4, <1>5, <1>6, <1>8, <1>9, SteadyStep DEF Types

LEMMA AppendLemma ==
  ASSUME rows \in [Commands -> Seq(Row)], NEW c \in Commands,
         rows' = [rows EXCEPT ![c] = Append(rows[c], NewRow)]
  PROVE  /\ rows' \in [Commands -> Seq(Row)]
         /\ Len(rows'[c]) = Len(rows[c]) + 1
         /\ rows'[c][Len(rows[c]) + 1] = NewRow
         /\ \A i \in DOMAIN rows'[c] : i \in DOMAIN rows[c] \/ i = Len(rows[c]) + 1
         /\ \A k \in Commands : \A i \in DOMAIN rows[k] : rows'[k][i] = rows[k][i]
         /\ \A k \in Commands \ {c} : rows'[k] = rows[k]
<1>1. NewRow \in Row
  BY CommandPlaneAssumption DEF NewRow, Row, Reported
<1>2. rows[c] \in Seq(Row)
  OBVIOUS
<1>3. /\ Append(rows[c], NewRow) \in Seq(Row)
      /\ Len(Append(rows[c], NewRow)) = Len(rows[c]) + 1
      /\ Append(rows[c], NewRow)[Len(rows[c]) + 1] = NewRow
      /\ \A i \in DOMAIN rows[c] : Append(rows[c], NewRow)[i] = rows[c][i]
      /\ \A i \in DOMAIN Append(rows[c], NewRow) :
           i \in DOMAIN rows[c] \/ i = Len(rows[c]) + 1
  BY <1>1, <1>2
<1>4. rows'[c] = Append(rows[c], NewRow) /\ \A k \in Commands \ {c} : rows'[k] = rows[k]
  OBVIOUS
<1> QED BY <1>3, <1>4

LEMMA CallStepInv ==
  ASSUME SInv, NEW t \in Threads, NEW c \in Commands, Call(t, c)
  PROVE  SInv'
<1> DEFINE k == thread[t].known[c]
           n == [thread[t] EXCEPT !.pc = "call", !.cmd = c,
                                  !.row = IF k = 0 THEN Len(rows[c]) + 1 ELSE k]
<1> USE DEF SInv, Types
<1>1. thread[t] \in Calls /\ thread \in [Threads -> Calls]
      /\ rows \in [Commands -> Seq(Row)]
  BY DEF AgentTypes
<1>2. thread[t].pc = "accept" /\ c \in thread[t].todo /\ k \in Nat
  BY <1>1 DEF Call, Calls
<1>3. thread' = [thread EXCEPT ![t] = n]
  BY <1>1 DEF Call
<1>4. k <= Len(rows[c]) /\ Len(rows[c]) \in Nat /\ Touched(c)
  BY <1>1, <1>2 DEF CallInv
<1>5. k = 0 => Appends(t, c)
  BY <1>2 DEF Appends
<1>6. Len(rows[c]) <= 2 /\ (k = 0 => Len(rows[c]) <= 1)
  BY <1>5 DEF CountInv, Threads
<1> DEFINE i == IF k = 0 THEN Len(rows[c]) + 1 ELSE k
<1>a. i \in 0..2 /\ c \in Commands \cup {NoCommand}
  BY <1>2, <1>4, <1>6
<1> HIDE DEF i
<1>b. n = [thread[t] EXCEPT !.pc = "call", !.cmd = c, !.row = i]
  BY DEF i
<1>7. n \in Calls /\ n.pc = "call" /\ n.cmd = c /\ n.todo = thread[t].todo
      /\ n.known = thread[t].known /\ n.row = i
  BY <1>1, <1>a, <1>b DEF Calls
<1> HIDE DEF n
<1>8. thread' \in [Threads -> Calls] /\ thread'[t] = n
      /\ \A u \in Threads \ {t} : thread'[u] = thread[u]
  BY <1>1, <1>3, <1>7
<1>9. /\ rows' \in [Commands -> Seq(Row)]
      /\ \A e \in Commands : \A j \in DOMAIN rows[e] : rows'[e][j] = rows[e][j]
      /\ \A e \in Commands \ {c} : rows'[e] = rows[e]
      /\ Len(rows'[c]) = IF k = 0 THEN Len(rows[c]) + 1 ELSE Len(rows[c])
      /\ \A j \in DOMAIN rows'[c] : j \in DOMAIN rows[c] \/ rows'[c][j] = NewRow
  <2>1. CASE k = 0
    <3>1. rows' = [rows EXCEPT ![c] = Append(rows[c], NewRow)]
      BY <2>1 DEF Call
    <3> QED BY <1>1, <1>4, <2>1, <3>1, AppendLemma
  <2>2. CASE k # 0
    <3>1. rows' = rows
      BY <2>2 DEF Call
    <3> QED BY <1>1, <2>2, <3>1
  <2> QED BY <2>1, <2>2
<1> HIDE DEF k
<1>10. UNCHANGED <<controller, sampled, exec, seen, job, runs, fresh, status, lock,
                   timer, child, completed>>
  BY DEF Call, executor, updater
<1>11. Types' /\ ControllerKeeps /\ TouchedStays /\ JobsStay /\ runs <= runs'
  <2>1. ControllerTypes' /\ ControllerKeeps
    BY <1>10, ControllerIdle
  <2>2. AgentTypes' /\ ExecutorTypes' /\ UpdaterTypes'
    BY <1>8, <1>9, <1>10 DEF AgentTypes, ExecutorTypes, UpdaterTypes
  <2>3. JobsStay /\ runs <= runs'
    BY <1>10, CommandPlaneAssumption DEF JobsStay, UpdaterTypes
  <2> QED BY <2>1, <2>2, <2>3 DEF ControllerKeeps
<1>12. \A e \in Commands : Len(rows[e]) \in Nat /\ Len(rows'[e]) \in Nat
                           /\ Len(rows[e]) <= Len(rows'[e])
  <2> SUFFICES ASSUME NEW e \in Commands
               PROVE  /\ Len(rows[e]) \in Nat /\ Len(rows'[e]) \in Nat
                      /\ Len(rows[e]) <= Len(rows'[e])
    OBVIOUS
  <2>1. rows[e] \in Seq(Row) /\ rows'[e] \in Seq(Row)
    BY <1>1, <1>9
  <2>2. Len(rows[e]) \in Nat /\ Len(rows'[e]) \in Nat
    BY <2>1
  <2>3. CASE e = c
    BY <1>9, <2>2, <2>3
  <2>4. CASE e # c
    BY <1>9, <2>2, <2>4
  <2> QED BY <2>2, <2>3, <2>4
<1>13. CallInv'
  <2> SUFFICES ASSUME NEW u \in Threads
      PROVE /\ \A e \in thread'[u].todo : Touched(e)'
            /\ thread'[u].pc \in {"accept", "call"} =>
                 \A e \in thread'[u].todo : thread'[u].known[e] <= Len(rows'[e])
            /\ thread'[u].pc = "call" =>
                 /\ thread'[u].cmd \in thread'[u].todo
                 /\ thread'[u].row \in 1..Len(rows'[thread'[u].cmd])
    BY DEF CallInv, Touched
  <2>1. thread[u] \in Calls
    BY <1>1
  <2>2. \A e \in thread[u].todo : e \in Commands /\ thread[u].known[e] \in Nat
    BY <2>1 DEF Calls
  <2>3. CASE u = t
    <3>1. \A e \in n.todo : Touched(e)' /\ n.known[e] <= Len(rows'[e])
      BY <1>2, <1>7, <1>11, <1>12, <2>2, <2>3 DEF CallInv, TouchedStays
    <3>2. n.cmd \in n.todo /\ n.row \in 1..Len(rows'[n.cmd])
      BY <1>2, <1>4, <1>7, <1>9, <1>12 DEF i
    <3> QED BY <1>8, <2>3, <3>1, <3>2
  <2>4. CASE u # t
    <3>1. thread'[u] = thread[u]
      BY <1>8, <2>4
    <3>2. \A e \in thread[u].todo : Touched(e)'
      BY <1>11, <2>2 DEF CallInv, TouchedStays
    <3>3. thread[u].pc \in {"accept", "call"} =>
            \A e \in thread[u].todo : thread[u].known[e] <= Len(rows'[e])
      BY <1>12, <2>2 DEF CallInv
    <3>4. ASSUME thread[u].pc = "call"
          PROVE  /\ thread[u].cmd \in thread[u].todo
                 /\ thread[u].row \in 1..Len(rows'[thread[u].cmd])
      BY <1>12, <2>2, <3>4 DEF CallInv
    <3> QED BY <3>1, <3>2, <3>3, <3>4
  <2> QED BY <2>3, <2>4
<1>14. ExecInv'
  <2>1. exec.caller \in Threads => thread'[exec.caller] = thread[exec.caller]
    BY <1>2, <1>8 DEF ExecInv
  <2> QED BY <1>10, <1>11, <2>1, ExecFrame
<1>15. TraceInv'
  <2>1. \A e \in Commands : rows'[e] = <<>> \/ rows[e] # <<>> \/ Touched(e)
    BY <1>4, <1>9
  <2> QED BY <1>10, <1>11, <2>1, TraceFrame
<1>16. RowInv'
  <2> SUFFICES ASSUME NEW e \in Commands, NEW j \in DOMAIN rows'[e]
               PROVE  RowGood(e, rows[e][j])'
    BY DEF RowInv
  <2>1. CASE j \in DOMAIN rows[e]
    <3>1. rows'[e][j] = rows[e][j] /\ RowGood(e, rows[e][j])
      BY <1>9, <2>1 DEF RowInv
    <3> QED BY <1>10, <3>1 DEF RowGood
  <2>2. CASE j \notin DOMAIN rows[e]
    <3>1. rows'[e][j] = NewRow
      BY <1>9, <2>2
    <3> QED BY <3>1 DEF RowGood, NewRow
  <2> QED BY <2>1, <2>2
<1>17. CountInv'
  <2> SUFFICES ASSUME NEW e \in Commands
      PROVE /\ Len(rows'[e]) <= 2
            /\ Appends("reporter", e)' \/ Appends("poller", e)' => Len(rows'[e]) <= 1
            /\ Appends("reporter", e)' /\ Appends("poller", e)' => Len(rows'[e]) = 0
    BY DEF CountInv, Appends
  <2>1. \A u \in Threads : Appends(u, e)' => Appends(u, e)
    BY <1>2, <1>7, <1>8 DEF Appends
  <2>2. Appends(t, e)' => e # c
    BY <1>7, <1>8 DEF Appends
  <2>3. "reporter" \in Threads /\ "poller" \in Threads /\ t \in {"reporter", "poller"}
    BY DEF Threads
  <2>4. CASE e # c \/ k # 0
    <3>1. Len(rows'[e]) = Len(rows[e])
      BY <1>9, <2>4
    <3> QED BY <2>1, <2>3, <3>1 DEF CountInv
  <2>5. CASE e = c /\ k = 0
    <3>1. Len(rows'[c]) = Len(rows[c]) + 1 /\ Appends(t, c) /\ ~ Appends(t, c)'
      BY <1>5, <1>9, <2>2, <2>5
    <3> QED BY <1>6, <1>12, <2>1, <2>3, <2>5, <3>1 DEF CountInv
  <2> QED BY <2>4, <2>5
<1> QED BY <1>11, <1>13, <1>14, <1>15, <1>16, <1>17

LEMMA RpcFailsInv ==
  ASSUME SInv, NEW t \in Threads, RpcFails(t)
  PROVE  SInv'
<1> USE DEF SInv, Types
<1>1. thread \in [Threads -> Calls] /\ thread[t].pc = "call"
  BY DEF AgentTypes, RpcFails
<1>2. NoCalls /\ thread' \in [Threads -> Calls]
      /\ \A u \in Threads \ {t} : thread'[u] = thread[u]
  BY <1>1, AnsweredLemma DEF NoCalls, RpcFails
<1>3. exec' = [exec EXCEPT !.caller = IF exec.caller = t THEN "nobody" ELSE exec.caller]
  BY DEF RpcFails
<1>4. exec' \in Requests /\ exec'.pc = exec.pc /\ exec'.cmd = exec.cmd
      /\ exec'.caller = IF exec.caller = t THEN "nobody" ELSE exec.caller
  BY <1>3 DEF ExecutorTypes, Requests
<1>5. UNCHANGED <<controller, rows, sampled, seen, job, runs, fresh, status, lock,
                  timer, child, completed>>
  BY DEF RpcFails, updater
<1>6. Types' /\ ControllerKeeps /\ TouchedStays /\ JobsStay /\ runs <= runs'
  <2>1. ControllerTypes' /\ ControllerKeeps
    BY <1>5, ControllerIdle
  <2>2. AgentTypes' /\ ExecutorTypes' /\ UpdaterTypes'
    BY <1>2, <1>4, <1>5 DEF AgentTypes, ExecutorTypes, UpdaterTypes
  <2>3. JobsStay /\ runs <= runs'
    BY <1>5, CommandPlaneAssumption DEF JobsStay, UpdaterTypes
  <2> QED BY <2>1, <2>2, <2>3 DEF ControllerKeeps
<1>7. CallInv' /\ CountInv'
  BY <1>2, <1>5, <1>6, NoCallsCall, NoCallsCount DEF AgentTypes
<1>8. ExecInv'
  <2>1. exec.pc = "idle" => exec' = NoRequest
    <3>1. ASSUME exec.pc = "idle" PROVE exec' = NoRequest
      <4>1. exec = NoRequest
        BY <3>1 DEF ExecInv
      <4> QED BY <1>3, <4>1 DEF NoRequest, Threads
    <3> QED BY <3>1
  <2>2. exec'.caller \in Threads =>
          /\ thread'[exec'.caller].pc = "call"
          /\ thread'[exec'.caller].cmd = exec'.cmd
    BY <1>2, <1>4 DEF ExecInv, Threads
  <2> QED BY <1>4, <1>5, <1>6, <2>1, <2>2 DEF ExecInv, TouchedStays
<1>9. TraceInv'
  BY <1>5, <1>6, TraceFrame
<1>10. RowInv'
  BY <1>5, <1>6, RowFrame
<1> QED BY <1>6, <1>7, <1>8, <1>9, <1>10

\* What a status says of a row leaves what the row needs, and a row that takes
\* it says what the run's state stands for.
LEMMA JudgedLemma ==
  ASSUME NEW r \in Row, NEW s \in Statuses
  PROVE  /\ Judged(r, s) \in Row
         /\ Judged(r, s).need = r.need
         /\ \/ Judged(r, s) = r
            \/ /\ Counts(r, s)
               /\ s.state \in {"active", "failed", "complete"}
               /\ Judged(r, s).state = StatusToRow[s.state]
               /\ Judged(r, s).state \in Progress
               /\ Judged(r, s).ran => r.ran \/ s.state = "active"
<1>1. CASE ~ Counts(r, s)
  BY <1>1 DEF Judged
<1>2. CASE Counts(r, s)
  <2> DEFINE v == StatusToRow[s.state]
             b == r.ran \/ s.state = "active"
             n == [r EXCEPT !.state = v, !.ran = b]
  <2>1. s.state \in {"active", "failed", "complete"}
    BY <1>2 DEF Statuses, Counts
  <2>2. v \in Progress
    BY <2>1 DEF StatusToRow, Progress
  <2>3. Judged(r, s) = n
    BY <1>2 DEF Judged
  <2>4. b \in BOOLEAN
    OBVIOUS
  <2> HIDE DEF v, b
  <2>5. n \in Row /\ n.need = r.need /\ n.state = v /\ n.ran = b
    BY <2>2, <2>4 DEF Row, Reported, Progress
  <2> QED BY <1>2, <2>1, <2>2, <2>3, <2>5 DEF v, b
<1> QED BY <1>1, <1>2

LEMMA ItemsLemma ==
  ASSUME NEW c \in Commands, NEW r \in Row
  PROVE  /\ Items(c, r) \subseteq Commands \X Reported
         /\ \A p \in Items(c, r) : p[1] = c
         /\ <<c, "accepted">> \in Items(c, r) => r.state = "accepted" \/ r.need > 0
BY DEF Items, Row, Reported

LEMMA ReportInv == SInv /\ Report => SInv'
<1> SUFFICES ASSUME SInv, Report PROVE SInv'
  OBVIOUS
<1> USE DEF SInv, Types
<1>1. rows \in [Commands -> Seq(Row)] /\ thread \in [Threads -> Calls]
      /\ sampled \in Statuses /\ sampled.run <= runs
  BY DEF AgentTypes
<1>2. rows' = [c \in Commands |->
                 [i \in DOMAIN rows[c] |-> Judged(rows[c][i], sampled)]]
  BY DEF Report
<1>3. ASSUME NEW c \in Commands
      PROVE  /\ rows'[c] \in Seq(Row)
             /\ Len(rows'[c]) = Len(rows[c])
             /\ DOMAIN rows'[c] = DOMAIN rows[c]
             /\ \A i \in DOMAIN rows[c] :
                  rows[c][i] \in Row /\ rows'[c][i] = Judged(rows[c][i], sampled)
  <2> DEFINE n == [i \in DOMAIN rows[c] |-> Judged(rows[c][i], sampled)]
  <2>1. rows'[c] = n
    BY <1>2
  <2>2. rows[c] \in Seq(Row) /\ DOMAIN rows[c] = 1..Len(rows[c])
        /\ Len(rows[c]) \in Nat
    BY <1>1
  <2>3. \A i \in DOMAIN rows[c] :
          rows[c][i] \in Row /\ Judged(rows[c][i], sampled) \in Row
    BY <1>1, <2>2, JudgedLemma
  <2>4. n \in [1..Len(rows[c]) -> Row]
    BY <2>2, <2>3
  <2> HIDE DEF n
  <2>5. n \in Seq(Row) /\ Len(n) = Len(rows[c])
    BY <2>2, <2>4
  <2> QED BY <2>1, <2>2, <2>3, <2>4, <2>5 DEF n
<1>4. rows' \in [Commands -> Seq(Row)]
  BY <1>2, <1>3
<1>5. NoCalls /\ thread' \in [Threads -> Calls]
      /\ \A u \in Threads : thread'[u] = thread[u] \/ thread[u].pc = "sampled"
  BY <1>1, ThreadLemma DEF Report, NoCalls, Threads
<1>6. UNCHANGED <<db, late, canceling, exec, seen, job, runs, fresh, status, lock,
                  timer, child, completed>>
  BY DEF Report, executor, updater
<1>7. TouchedStays /\ JobsStay /\ runs <= runs'
  BY <1>6, CommandPlaneAssumption DEF TouchedStays, Touched, JobsStay, UpdaterTypes
<1>8. ASSUME NEW p \in reported'
      PROVE  \/ p \in reported
             \/ \E c \in Commands : \E i \in DOMAIN rows'[c] :
                  p \in Items(c, rows'[c][i])
  BY <1>8 DEF Report, Effective
<1>9. ASSUME NEW c \in Commands, NEW i \in DOMAIN rows'[c]
      PROVE  rows'[c][i] \in Row /\ RowGood(c, rows[c][i])'
  <2> DEFINE r == rows[c][i]
             n == rows'[c][i]
  <2>1. i \in DOMAIN rows[c] /\ r \in Row /\ n = Judged(r, sampled)
    BY <1>3
  <2>2. RowGood(c, r)
    BY <2>1 DEF RowInv
  <2>3. n \in Row /\ n.need = r.need
        /\ (n.state = r.state \/ n.state \in Progress)
    BY <1>1, <2>1, JudgedLemma
  <2> HIDE DEF r, n
  <2>5. /\ n.need \in {0, seen[c]}
        /\ n.state = "accepted" => n.need > 0
    BY <2>2, <2>3 DEF RowGood, Progress
  <2> QED BY <1>6, <2>3, <2>5 DEF RowGood, n
<1>10. Types'
  <2>1. reported' \subseteq Commands \X Reported
    BY <1>8, <1>9, ItemsLemma DEF ControllerTypes
  <2>2. ControllerTypes'
    BY <1>6, <2>1 DEF ControllerTypes, DbInv
  <2>3. sampled' \in Statuses /\ sampled'.run <= runs'
    BY <1>6, CommandPlaneAssumption
    DEF Report, NoStatus, Statuses, UpdaterTypes
  <2>4. AgentTypes' /\ ExecutorTypes' /\ UpdaterTypes'
    BY <1>4, <1>5, <1>6, <2>3 DEF AgentTypes, ExecutorTypes, UpdaterTypes
  <2> QED BY <2>2, <2>4
<1>11. CallInv' /\ CountInv'
  BY <1>3, <1>4, <1>5, <1>7, NoCallsCall, NoCallsCount
<1>12. ExecInv'
  <2>1. exec.caller \in Threads => thread'[exec.caller] = thread[exec.caller]
    BY <1>5 DEF ExecInv
  <2> QED BY <1>6, <1>7, <2>1, ExecFrame
<1>13. TraceInv'
  <2>1. ASSUME NEW c \in Commands, NEW s \in Reported, <<c, s>> \in reported'
        PROVE  Touched(c) /\ (s = "accepted" => seen[c] # 0)
    <3>1. CASE <<c, s>> \in reported
      BY <3>1 DEF TraceInv
    <3>2. ASSUME NEW e \in Commands, NEW i \in DOMAIN rows'[e],
                 <<c, s>> \in Items(e, rows'[e][i])
          PROVE  Touched(c) /\ (s = "accepted" => seen[c] # 0)
      <4>1. rows'[e][i] \in Row /\ RowGood(e, rows[e][i])'
        BY <1>9, <3>2
      <4>2. e = c
        BY <3>2, <4>1, ItemsLemma
      <4>3. rows[c] # <<>>
        BY <1>3, <3>2, <4>2
      <4>4. s = "accepted" => seen[c] # 0
        BY <1>6, <3>2, <4>1, <4>2, ItemsLemma DEF RowGood
      <4> QED BY <4>3, <4>4 DEF TraceInv
    <3> QED BY <1>8, <2>1, <3>1, <3>2
  <2>2. \A c \in Commands : rows'[c] # <<>> => rows[c] # <<>>
    BY <1>3
  <2>3. "accepted" \in Reported
    BY DEF Reported
  <2> QED BY <1>6, <2>1, <2>2, <2>3 DEF TraceInv, Touched
<1>14. RowInv'
  BY <1>9 DEF RowInv
<1> QED BY <1>10, <1>11, <1>12, <1>13, <1>14

-----------------------------------------------------------------------------
(* The executor.                                                           *)

\* A step of the executor that leaves the agent's rows alone.
LEMMA ServeStep ==
  ASSUME SInv, UNCHANGED <<controller, rows, sampled, runs, fresh, status, lock,
                           timer, child, completed>>,
         NoCalls, ExecutorTypes', job' \in [Commands -> Jobs], ExecInv', TraceInv',
         \A c \in Commands : seen[c] # 0 => seen'[c] = seen[c]
  PROVE  SInv'
<1> USE DEF SInv, Types
<1>1. ControllerTypes' /\ ControllerKeeps /\ TouchedStays
  BY ControllerIdle DEF ControllerKeeps
<1>2. AgentTypes' /\ UpdaterTypes' /\ runs <= runs'
  BY CommandPlaneAssumption DEF AgentTypes, UpdaterTypes, NoCalls
<1>3. CallInv' /\ CountInv'
  BY <1>1, NoCallsCall, NoCallsCount DEF AgentTypes
<1>4. RowInv'
  BY <1>2, RowFrame
<1> QED BY <1>1, <1>2, <1>3, <1>4

\* The thread whose request ends, if it still waits for it.
LEMMA EndLemma ==
  ASSUME SInv,
         thread' = [t \in Threads |->
                      IF t = exec.caller THEN Answered(t) ELSE thread[t]]
  PROVE  NoCalls
<1> USE DEF SInv, Types
<1>1. \A t \in Threads : thread[t] \in Calls
  BY DEF AgentTypes
<1>2. ASSUME NEW t \in Threads, t = exec.caller
      PROVE  Answered(t) \in Calls /\ Follows(Answered(t), thread[t])
  BY <1>2, AnsweredLemma DEF ExecInv
<1> QED BY <1>1, <1>2 DEF NoCalls

LEMMA NoRequestLemma ==
  /\ NoRequest \in Requests
  /\ NoRequest.pc = "idle"
  /\ NoRequest.caller \notin Threads
BY DEF NoRequest, Requests, Threads

LEMMA ExecTakeInv ==
  ASSUME SInv, NEW t \in Threads, ExecTake(t)
  PROVE  SInv'
<1> USE DEF SInv, Types
<1>1. thread[t] \in Calls /\ thread[t].pc = "call"
  BY DEF AgentTypes, ExecTake
<1> DEFINE c == thread[t].cmd
<1>2. c \in Commands /\ Touched(c)
  BY <1>1 DEF CallInv, Calls
<1>3. exec' = [pc |-> IF seen[c] = 0 THEN "enqueue" ELSE "reply", cmd |-> c,
               caller |-> t]
  BY DEF ExecTake
<1>4. UNCHANGED <<controller, thread, rows, sampled, seen, job, runs, fresh, status,
                  lock, timer, child, completed>>
  BY DEF ExecTake, agent, updater
<1>5. NoCalls
  BY <1>4, StayNoCalls
<1> HIDE DEF c
<1>6. ExecutorTypes'
  BY <1>2, <1>3, <1>4 DEF ExecutorTypes, Requests
<1>7. ControllerKeeps /\ TouchedStays /\ JobsStay
  BY <1>4, ControllerIdle DEF ControllerKeeps, JobsStay
<1>8. ExecInv'
  BY <1>1, <1>2, <1>3, <1>4, <1>7 DEF ExecInv, TouchedStays, c
<1>9. TraceInv'
  BY <1>4, <1>7, TraceFrame
<1>10. job' \in [Commands -> Jobs]
  BY <1>4 DEF UpdaterTypes
<1> QED BY <1>4, <1>5, <1>6, <1>8, <1>9, <1>10, ServeStep

LEMMA EnqueueLemma ==
  ASSUME UpdaterTypes, NEW c \in Commands,
         Queue!Move(c, "none", "queued") \/ UNCHANGED job
  PROVE  /\ job' \in [Commands -> Jobs]
         /\ \A k \in Commands : job[k] # "none" => job'[k] # "none"
         /\ \A k \in Commands \ {c} : job'[k] = job[k]
<1>1. CASE Queue!Move(c, "none", "queued")
  BY <1>1, MoveLemma
<1>2. CASE UNCHANGED job
  BY <1>2 DEF UpdaterTypes
<1> QED BY <1>1, <1>2

LEMMA ExecEnqueueInv ==
  ASSUME SInv, ExecEnqueue \/ ExecRefused
  PROVE  SInv'
<1> USE DEF SInv, Types
<1> DEFINE c == exec.cmd
<1>1. exec.pc = "enqueue" /\ c \in Commands /\ Touched(c) /\ exec \in Requests
  BY DEF ExecEnqueue, ExecRefused, ExecInv, ExecutorTypes
<1>2. /\ job' \in [Commands -> Jobs]
      /\ \A k \in Commands : job[k] # "none" => job'[k] # "none"
      /\ \A k \in Commands \ {c} : job'[k] = job[k]
  <2>1. Queue!Move(c, "none", "queued") \/ UNCHANGED job
    BY DEF ExecEnqueue, ExecRefused
  <2> QED BY <1>1, <2>1, EnqueueLemma
<1>3. UNCHANGED <<controller, rows, sampled, seen, runs, fresh, status, lock, timer,
                  child, completed>>
  BY DEF ExecEnqueue, ExecRefused, agent, updater
<1>4. TouchedStays /\ UNCHANGED <<db, reported>>
  BY <1>3, ControllerIdle DEF ControllerKeeps, controller
<1>5. TraceInv'
  BY <1>1, <1>2, <1>3, <1>4 DEF TraceInv, TouchedStays, Touched
<1>6. NoCalls /\ ExecutorTypes' /\ ExecInv'
  <2>1. CASE ExecEnqueue
    <3>1. exec' = [exec EXCEPT !.pc = "seen"] /\ UNCHANGED thread
      BY <2>1 DEF ExecEnqueue, agent
    <3>2. exec' \in Requests /\ exec'.pc = "seen" /\ exec'.cmd = c
          /\ exec'.caller = exec.caller
      BY <1>1, <3>1 DEF Requests
    <3>3. job'[c] # "none"
      <4>1. CASE Queue!Move(c, "none", "queued")
        BY <1>1, <4>1, MoveLemma
      <4>2. CASE job[c] \in {"queued", "done"} /\ UNCHANGED job
        BY <4>2
      <4> QED BY <2>1, <4>1, <4>2 DEF ExecEnqueue
    <3>4. ExecInv'
      <4>1. seen' = seen /\ (seen[c] = 0)
        BY <1>3, <2>1 DEF ExecEnqueue, ExecInv
      <4> QED BY <1>1, <1>4, <3>1, <3>2, <3>3, <4>1 DEF ExecInv, TouchedStays
    <3> QED BY <1>3, <3>1, <3>2, <3>4, StayNoCalls DEF ExecutorTypes
  <2>2. CASE ExecRefused
    <3>1. exec' = NoRequest
      BY <2>2 DEF ExecRefused
    <3>2. NoCalls
      BY <2>2, EndLemma DEF ExecRefused
    <3> QED BY <1>3, <3>1, <3>2, NoRequestLemma DEF ExecutorTypes, ExecInv
  <2> QED BY <2>1, <2>2
<1> QED BY <1>2, <1>3, <1>5, <1>6, ServeStep

LEMMA ExecSeenInv == SInv /\ ExecSeen => SInv'
<1> SUFFICES ASSUME SInv, ExecSeen PROVE SInv'
  OBVIOUS
<1> USE DEF SInv, Types
<1> DEFINE c == exec.cmd
<1>1. exec.pc = "seen" /\ c \in Commands /\ Touched(c) /\ exec \in Requests
      /\ job[c] # "none" /\ seen[c] = 0
  BY DEF ExecSeen, ExecInv, ExecutorTypes
<1>2. AcceptedAt \in 1..(MaxRuns + 1)
  <2>1. runs \in 0..MaxRuns /\ MaxRuns \in Nat
    BY CommandPlaneAssumption DEF UpdaterTypes
  <2>2. CASE fresh
    <3>1. runs # 0
      BY <2>2 DEF UpdaterTypes
    <3>2. AcceptedAt = runs
      BY <2>2, Zenon DEF AcceptedAt
    <3> QED BY <2>1, <3>1, <3>2
  <2>3. CASE ~ fresh
    <3>1. AcceptedAt = runs + 1
      BY <2>3, Zenon DEF AcceptedAt
    <3> QED BY <2>1, <3>1
  <2> QED BY <2>2, <2>3
<1>3. seen \in [Commands -> 0..(MaxRuns + 1)]
      /\ seen' = [seen EXCEPT ![c] = AcceptedAt]
  BY DEF ExecSeen, ExecutorTypes
<1>4. /\ seen' \in [Commands -> 0..(MaxRuns + 1)]
      /\ seen'[c] # 0
      /\ \A k \in Commands \ {c} : seen'[k] = seen[k]
  BY <1>1, <1>2, <1>3, CommandPlaneAssumption
<1>5. exec' \in Requests /\ exec'.pc = "reply" /\ exec'.cmd = c
      /\ exec'.caller = exec.caller
  BY <1>1 DEF ExecSeen, Requests
<1>6. UNCHANGED <<controller, thread, rows, sampled, job, runs, fresh, status, lock,
                  timer, child, completed>>
  BY DEF ExecSeen, agent, updater
<1>7. TouchedStays /\ UNCHANGED <<db, reported>>
  BY <1>6, ControllerIdle DEF ControllerKeeps, controller
<1>8. ExecInv'
  BY <1>1, <1>4, <1>5, <1>6, <1>7 DEF ExecInv, TouchedStays
<1>9. TraceInv'
  BY <1>1, <1>4, <1>6, <1>7 DEF TraceInv, TouchedStays, Touched
<1>10. NoCalls /\ job' \in [Commands -> Jobs] /\ ExecutorTypes'
       /\ \A k \in Commands : seen[k] # 0 => seen'[k] = seen[k]
  BY <1>1, <1>4, <1>5, <1>6, StayNoCalls DEF UpdaterTypes, ExecutorTypes
<1> QED BY <1>6, <1>8, <1>9, <1>10, ServeStep

\* The row i of a command is accepted, with the first run that may count.
Accepts(R, c, i, m) ==
  [R EXCEPT ![c][i].state = "accepted", ![c][i].need = m]

LEMMA AcceptsLemma ==
  ASSUME NEW R \in [Commands -> Seq(Row)], NEW c \in Commands,
         NEW i \in 1..Len(R[c]), NEW m \in 0..(MaxRuns + 1),
         NEW A, A = Accepts(R, c, i, m)
  PROVE  /\ A \in [Commands -> Seq(Row)]
         /\ Len(A[c]) = Len(R[c])
         /\ DOMAIN A[c] = DOMAIN R[c]
         /\ A[c][i].state = "accepted" /\ A[c][i].need = m
         /\ A[c][i].ran = R[c][i].ran
         /\ \A j \in DOMAIN R[c] : j # i => A[c][j] = R[c][j]
         /\ \A k \in Commands \ {c} : A[k] = R[k]
<1> DEFINE r == [R[c][i] EXCEPT !.state = "accepted", !.need = m]
           q == [R[c] EXCEPT ![i] = r]
<1>1. R[c] \in Seq(Row) /\ DOMAIN R[c] = 1..Len(R[c]) /\ Len(R[c]) \in Nat
      /\ R[c][i] \in Row
  OBVIOUS
<1>2. r \in Row /\ r.state = "accepted" /\ r.need = m /\ r.ran = R[c][i].ran
  BY <1>1 DEF Row, Reported
<1>3. A = [R EXCEPT ![c] = q]
  BY <1>1 DEF Accepts
<1> HIDE DEF r
<1>4. q \in [1..Len(R[c]) -> Row]
  BY <1>1, <1>2
<1>5. q[i] = r /\ \A j \in DOMAIN R[c] : j # i => q[j] = R[c][j]
  BY <1>1
<1> HIDE DEF q
<1>6. q \in Seq(Row) /\ Len(q) = Len(R[c]) /\ DOMAIN q = DOMAIN R[c]
  BY <1>1, <1>4
<1>7. A[c] = q /\ (\A k \in Commands \ {c} : A[k] = R[k])
      /\ A \in [Commands -> Seq(Row)]
  BY <1>3, <1>6
<1> QED BY <1>2, <1>5, <1>6, <1>7

LEMMA ExecReplyInv == SInv /\ ExecReply => SInv'
<1> SUFFICES ASSUME SInv, ExecReply PROVE SInv'
  OBVIOUS
<1> USE DEF SInv, Types
<1> DEFINE c == exec.cmd
           t == exec.caller
           i == thread[t].row
<1>1. exec.pc = "reply" /\ c \in Commands /\ Touched(c) /\ exec \in Requests
      /\ seen[c] # 0 /\ seen[c] \in 0..(MaxRuns + 1)
  BY DEF ExecReply, ExecInv, ExecutorTypes
<1>2. exec' = NoRequest
      /\ UNCHANGED <<controller, sampled, seen, job, runs, fresh, status, lock, timer,
                     child, completed>>
  BY DEF ExecReply, updater
<1>3. CASE t \notin Threads
  <2>1. UNCHANGED <<rows, thread>>
    BY <1>3 DEF ExecReply
  <2>2. ExecutorTypes' /\ ExecInv' /\ NoCalls /\ job' \in [Commands -> Jobs]
    BY <1>2, <2>1, NoRequestLemma, StayNoCalls
    DEF ExecutorTypes, ExecInv, UpdaterTypes
  <2>3. TraceInv'
    <3>1. ControllerKeeps /\ JobsStay
      BY <1>2, ControllerIdle DEF JobsStay
    <3> QED BY <1>2, <2>1, <3>1, TraceFrame
  <2> QED BY <1>2, <2>1, <2>2, <2>3, ServeStep
<1>4. CASE t \in Threads
  <2>1. rows' = Accepts(rows, c, i, seen[c])
        /\ thread' = [thread EXCEPT ![t] = Answered(t)]
    BY <1>4 DEF ExecReply, Accepts
  <2>2. thread[t] \in Calls /\ thread[t].pc = "call" /\ thread[t].cmd = c
        /\ i \in 1..Len(rows[c])
    BY <1>4 DEF AgentTypes, ExecInv, CallInv
  <2>3. rows \in [Commands -> Seq(Row)] /\ thread \in [Threads -> Calls]
    BY DEF AgentTypes
  <2> HIDE DEF i, t
  <2>4. /\ rows' \in [Commands -> Seq(Row)]
        /\ Len(rows'[c]) = Len(rows[c]) /\ DOMAIN rows'[c] = DOMAIN rows[c]
        /\ rows'[c][i].state = "accepted" /\ rows'[c][i].need = seen[c]
        /\ \A j \in DOMAIN rows[c] : j # i => rows'[c][j] = rows[c][j]
        /\ \A k \in Commands \ {c} : rows'[k] = rows[k]
    BY <1>1, <2>1, <2>2, <2>3, AcceptsLemma
  <2>5. \A k \in Commands : Len(rows'[k]) = Len(rows[k])
    BY <2>4
  <2>6. NoCalls /\ thread' \in [Threads -> Calls]
    BY <1>4, <2>1, <2>2, <2>3, AnsweredLemma DEF NoCalls
  <2>7. ControllerTypes' /\ ControllerKeeps /\ TouchedStays /\ JobsStay
    BY <1>2, ControllerIdle DEF ControllerKeeps, JobsStay
  <2>8. AgentTypes' /\ ExecutorTypes' /\ UpdaterTypes'
    BY <1>2, <2>4, <2>6, NoRequestLemma
    DEF AgentTypes, ExecutorTypes, UpdaterTypes
  <2>9. CallInv' /\ CountInv'
    BY <2>4, <2>5, <2>6, <2>7, NoCallsCall, NoCallsCount
  <2>10. ExecInv'
    BY <1>2, NoRequestLemma DEF ExecInv
  <2>11. TraceInv'
    <3>1. \A k \in Commands : rows'[k] = <<>> \/ rows[k] # <<>> \/ Touched(k)
      BY <1>1, <2>4
    <3> QED BY <1>2, <2>7, <3>1, TraceFrame
  <2>12. RowInv'
    <3> SUFFICES ASSUME NEW k \in Commands, NEW j \in DOMAIN rows'[k]
                 PROVE  RowGood(k, rows[k][j])'
      BY DEF RowInv
    <3>1. CASE k = c /\ j = i
      <4>1. seen[c] > 0
        BY <1>1, CommandPlaneAssumption
      <4> QED BY <1>1, <1>2, <2>4, <3>1, <4>1 DEF RowGood
    <3>2. CASE k # c \/ j # i
      <4>1. j \in DOMAIN rows[k] /\ rows'[k][j] = rows[k][j]
        BY <2>4, <3>2
      <4> QED BY <1>2, <4>1 DEF RowInv, RowGood
    <3> QED BY <3>1, <3>2
  <2> QED BY <2>7, <2>8, <2>9, <2>10, <2>11, <2>12
<1> QED BY <1>3, <1>4

-----------------------------------------------------------------------------
(* Faults.                                                                 *)

LEMMA RebootInv == SInv /\ Reboot => SInv'
<1> SUFFICES ASSUME SInv, Reboot PROVE SInv'
  OBVIOUS
<1> USE DEF SInv, Types
<1>1. /\ rows' = [c \in Commands |-> <<>>]
      /\ thread' = [t \in Threads |-> Thread("idle")]
      /\ sampled' = NoStatus /\ exec' = NoRequest
      /\ job' = [c \in Commands |-> IF job[c] = "running" THEN "held" ELSE job[c]]
      /\ lock' = "free" /\ timer' = 0 /\ child' = 0
      /\ UNCHANGED <<controller, seen, runs, fresh, status, completed>>
  BY DEF Reboot
<1>2. ControllerTypes' /\ ControllerKeeps
  BY <1>1, ControllerIdle
<1>3. thread' \in [Threads -> Calls] /\ \A t \in Threads :
        thread'[t].pc = "idle" /\ thread'[t].todo = {}
  BY <1>1, ThreadLemma
<1>4. rows' \in [Commands -> Seq(Row)] /\ \A c \in Commands :
        rows'[c] = <<>> /\ Len(rows'[c]) = 0 /\ DOMAIN rows'[c] = {}
  BY <1>1
<1>5. AgentTypes'
  <2>1. sampled' \in Statuses /\ sampled'.run <= runs'
    BY <1>1, CommandPlaneAssumption DEF NoStatus, Statuses, UpdaterTypes
  <2> QED BY <1>3, <1>4, <2>1 DEF AgentTypes
<1>6. ExecutorTypes' /\ ExecInv'
  BY <1>1, NoRequestLemma DEF ExecutorTypes, ExecInv
<1>7. job' \in [Commands -> Jobs] /\ JobsStay
  BY <1>1 DEF UpdaterTypes, Jobs, JobsStay
<1>8. UpdaterTypes'
  BY <1>1, <1>7, CommandPlaneAssumption DEF UpdaterTypes
<1>9. CallInv'
  BY <1>3 DEF CallInv
<1>10. TraceInv'
  BY <1>1, <1>2, <1>4, <1>7, TraceFrame
<1>11. RowInv'
  BY <1>4 DEF RowInv
<1>12. CountInv'
  BY <1>4 DEF CountInv
<1> QED BY <1>2, <1>5, <1>6, <1>8, <1>9, <1>10, <1>11, <1>12

LEMMA RestartInv == SInv /\ (AgentRestarts \/ ExecutorRestarts) => SInv'
<1> SUFFICES ASSUME SInv, AgentRestarts \/ ExecutorRestarts PROVE SInv'
  OBVIOUS
<1> USE DEF SInv, Types
<1>1. UNCHANGED <<controller, rows, seen, job, runs, fresh, status, lock, timer, child,
                  completed>>
  BY DEF AgentRestarts, ExecutorRestarts, updater
<1>2. NoCalls /\ thread' \in [Threads -> Calls]
  <2>1. CASE AgentRestarts
    BY <2>1, ThreadLemma DEF AgentRestarts, NoCalls
  <2>2. CASE ExecutorRestarts
    BY <2>2, EndLemma DEF ExecutorRestarts, NoCalls
  <2> QED BY <2>1, <2>2
<1>3. ExecutorTypes' /\ ExecInv'
  <2>1. CASE ExecutorRestarts
    BY <1>1, <2>1, NoRequestLemma DEF ExecutorRestarts, ExecutorTypes, ExecInv
  <2>2. CASE AgentRestarts
    <3>1. exec \in Requests /\ exec' = [exec EXCEPT !.caller = "nobody"]
      BY <2>2 DEF AgentRestarts, ExecutorTypes
    <3>2. exec' \in Requests /\ exec'.pc = exec.pc /\ exec'.cmd = exec.cmd
          /\ exec'.caller = "nobody"
      BY <3>1 DEF Requests
    <3>3. ASSUME exec.pc = "idle" PROVE exec' = NoRequest
      <4>1. exec = NoRequest
        BY <3>3 DEF ExecInv
      <4> QED BY <3>1, <4>1 DEF NoRequest
    <3>4. TouchedStays
      BY <1>1, ControllerIdle DEF ControllerKeeps
    <3>5. "nobody" \notin Threads
      BY DEF Threads
    <3> QED BY <1>1, <3>2, <3>3, <3>4, <3>5
            DEF ExecutorTypes, ExecInv, TouchedStays
  <2> QED BY <2>1, <2>2
<1>4. ControllerTypes' /\ ControllerKeeps /\ TouchedStays /\ JobsStay
  BY <1>1, ControllerIdle DEF ControllerKeeps, JobsStay
<1>5. sampled' \in Statuses /\ sampled'.run <= runs
  BY CommandPlaneAssumption
  DEF AgentRestarts, ExecutorRestarts, NoStatus, Statuses, UpdaterTypes, AgentTypes
<1>6. AgentTypes' /\ UpdaterTypes' /\ runs <= runs'
  BY <1>1, <1>2, <1>5, CommandPlaneAssumption DEF AgentTypes, UpdaterTypes
<1>7. CallInv' /\ CountInv'
  BY <1>1, <1>2, <1>4, NoCallsCall, NoCallsCount DEF AgentTypes
<1>8. TraceInv' /\ RowInv'
  BY <1>1, <1>4, <1>6, TraceFrame, RowFrame
<1> QED BY <1>3, <1>4, <1>6, <1>7, <1>8

-----------------------------------------------------------------------------
(* The invariants.                                                         *)

LEMMA SafetyInitially == Init => SInv
<1> SUFFICES ASSUME Init PROVE SInv
  OBVIOUS
<1> USE CommandPlaneAssumption DEF Init
<1>1. ControllerTypes
  BY DEF ControllerTypes, DbInv, DbStates
<1>2. rows \in [Commands -> Seq(Row)] /\ \A c \in Commands :
        rows[c] = <<>> /\ Len(rows[c]) = 0 /\ DOMAIN rows[c] = {}
  OBVIOUS
<1>3. thread \in [Threads -> Calls] /\ \A t \in Threads :
        thread[t].pc = "idle" /\ thread[t].todo = {}
  BY ThreadLemma
<1>4. AgentTypes
  BY <1>2, <1>3 DEF AgentTypes, NoStatus, Statuses
<1>5. ExecutorTypes /\ ExecInv
  BY NoRequestLemma DEF ExecutorTypes, ExecInv
<1>6. UpdaterTypes
  <2>1. fresh \in BOOLEAN /\ (fresh => runs # 0)
    BY Zenon
  <2>2. status \in Statuses /\ status.run <= runs
    BY DEF NoStatus, Statuses
  <2>3. job \in [Commands -> Jobs]
    BY DEF Jobs
  <2>4. runs \in 0..MaxRuns /\ child \in 0..MaxRuns /\ child <= runs
        /\ timer \in 0..MaxRuns /\ timer <= runs
    OBVIOUS
  <2> QED BY <2>1, <2>2, <2>3, <2>4 DEF UpdaterTypes
<1>7. CallInv
  BY <1>3 DEF CallInv
<1>8. TraceInv
  BY <1>2 DEF TraceInv
<1>9. RowInv /\ CountInv
  BY <1>2 DEF RowInv, CountInv
<1> QED BY <1>1, <1>4, <1>5, <1>6, <1>7, <1>8, <1>9 DEF SInv, Types

LEMMA SafetyStep == SInv /\ [Next]_vars => SInv'
<1> SUFFICES ASSUME SInv, [Next]_vars PROVE SInv'
  OBVIOUS
<1>1. CASE ControllerStep
  BY <1>1, ControllerStepInv
<1>2. ASSUME NEW t \in Threads, ThreadStep(t) PROVE SInv'
  BY <1>2, ThreadStepInv, CallStepInv, RpcFailsInv, ReportInv DEF ThreadStep
<1>3. CASE ExecStep
  BY <1>3, ExecTakeInv, ExecEnqueueInv, ExecSeenInv, ExecReplyInv DEF ExecStep
<1>4. CASE UpdaterStep
  BY <1>4, UpdaterStepInv
<1>5. CASE Reboot \/ AgentRestarts \/ ExecutorRestarts
  BY <1>5, RebootInv, RestartInv
<1>6. CASE UNCHANGED vars
  <2>1. UNCHANGED <<db, late, canceling, reported, rows, thread, sampled, exec, seen, job,
                    runs, fresh, status, lock, timer, child, completed>>
    BY <1>6 DEF vars, controller, agent, executor, updater
  <2> QED BY <2>1 DEF SInv, Types, ControllerTypes, DbInv, AgentTypes, ExecutorTypes,
          UpdaterTypes, CallInv, ExecInv, TraceInv, RowInv, RowGood, CountInv,
          Appends, Touched
<1> QED BY <1>1, <1>2, <1>3, <1>4, <1>5, <1>6 DEF Next

LEMMA SafetyAlways == Spec => []SInv
BY SafetyInitially, SafetyStep, PTL DEF Spec

(***************************************************************************)
(* The device knows nothing of a command the controller still shows        *)
(* queued: neither lost nor repeated answers, nor handlers in parallel,    *)
(* let a trace of it precede its delivery.                                 *)
(***************************************************************************)
THEOREM QueuedUntouched == Spec => []QueuedIsUntouched
<1>1. SInv => QueuedIsUntouched
  BY DEF SInv, TraceInv, Touched, Untouched, QueuedIsUntouched
<1> QED BY <1>1, SafetyAlways, PTL

(***************************************************************************)
(* A command the controller shows as accepted is durable on the device,    *)
(* whatever was lost, repeated or restarted since.                         *)
(***************************************************************************)
THEOREM AcceptanceIsDurable == Spec => []AcceptedIsDurable
<1>1. SInv => AcceptedIsDurable
  BY DEF SInv, TraceInv, AcceptedIsDurable
<1> QED BY <1>1, SafetyAlways, PTL

-----------------------------------------------------------------------------
(* The runs whose status was counted.                                      *)

\* What may still make the controller show s of a command.
RowShows(c, s) ==
  \E i \in DOMAIN rows[c] :
    rows[c][i].state = s \/ (s = "running" /\ rows[c][i].ran)
Shows(c, s) == db[c] = s \/ <<c, s>> \in reported \/ RowShows(c, s)

\* The runs that have to be counted for that.
Counted(c, s) ==
  /\ counted[c] # {}
  /\ s = "succeeded" => completed \cap counted[c] # {}

\* A row without an acceptance that has taken a status.
Hurried(c) ==
  \E i \in DOMAIN rows[c] : rows[c][i].need = 0 /\ rows[c][i].state # "received"

Complete(s) == s.state = "complete" => s.run \in completed

\* What was counted of a command not named as hasty is no older than its
\* acceptance.
LaterInv ==
  \A c \in Commands \ hasty : ~ Hurried(c) /\ \A k \in counted[c] : seen[c] \in 1..k

CountedInv ==
  /\ counted \in [Commands -> SUBSET (1..MaxRuns)] /\ hasty \subseteq Commands
  /\ Complete(status) /\ Complete(sampled)
  /\ LaterInv
  /\ \A c \in Commands, s \in Progress : Shows(c, s) => Counted(c, s)

\* A step that counts nothing: what the controller and the rows show they
\* showed before, and an acceptance stays.
LEMMA CountedFrame ==
  ASSUME CountedInv, UNCHANGED counts, completed \subseteq completed',
         Complete(status)', Complete(sampled)',
         \A c \in Commands : seen[c] # 0 => seen'[c] = seen[c],
         \A c \in Commands : Hurried(c)' => Hurried(c),
         \A c \in Commands, s \in Progress : Shows(c, s)' => Shows(c, s)
  PROVE  CountedInv'
<1>1. LaterInv'
  BY DEF CountedInv, LaterInv, counts
<1>2. \A c \in Commands, s \in Progress : Counted(c, s) => Counted(c, s)'
  BY DEF Counted, counts
<1> QED BY <1>1, <1>2 DEF CountedInv, counts

\* Rows that stay, are forgotten or are new show nothing more than before.
LEMMA RowsShow ==
  ASSUME UNCHANGED <<db, reported>>,
         \A c \in Commands : \A i \in DOMAIN rows'[c] :
           \/ i \in DOMAIN rows[c] /\ rows'[c][i] = rows[c][i]
           \/ rows'[c][i] = NewRow
  PROVE  /\ \A c \in Commands : Hurried(c)' => Hurried(c)
         /\ \A c \in Commands, s \in Progress : Shows(c, s)' => Shows(c, s)
<1>1. NewRow.state = "received" /\ NewRow.ran = FALSE /\ "received" \notin Progress
  BY DEF NewRow, Progress
<1>2. \A c \in Commands : Hurried(c)' => Hurried(c)
  BY <1>1 DEF Hurried
<1>3. \A c \in Commands, s \in Progress : RowShows(c, s)' => RowShows(c, s)
  BY <1>1 DEF RowShows
<1> QED BY <1>2, <1>3 DEF Shows

\* The controller shows what it showed or what was reported to it.
LEMMA ControllerShows ==
  ASSUME SInv, ControllerStep \/ (\E t \in Threads : Poll(t))
  PROVE  /\ UNCHANGED <<rows, seen, status, sampled, completed>>
         /\ \A c \in Commands : Hurried(c)' => Hurried(c)
         /\ \A c \in Commands, s \in Progress : Shows(c, s)' => Shows(c, s)
<1> USE DEF SInv, Types
<1>1. UNCHANGED <<rows, seen, status, sampled, completed>> /\ reported' \subseteq reported
  BY DEF ControllerStep, Create, DeadlinePasses, CancelCheck, CancelCommit, Apply,
     Poll, Transition, Effective, agent, executor, updater
<1>2. ASSUME NEW c \in Commands, NEW s \in Progress, db'[c] = s
      PROVE  db[c] = s \/ <<c, s>> \in reported
  <2>1. db \in [Commands -> DbStates] /\ s \in {"running", "succeeded", "failed"}
    BY DEF ControllerTypes, DbInv, Progress
  <2>2. ASSUME NEW k \in Commands, NEW u, Transition(k, u)
        PROVE  db[c] = s \/ (c = k /\ s = u)
    BY <1>2, <2>1, <2>2 DEF Transition
  <2>3. CASE ControllerStep
    <3>1. ASSUME NEW k \in Commands, Create(k) PROVE db[c] = s
      BY <1>2, <2>1, <3>1 DEF Create
    <3>2. ASSUME NEW k \in Commands, CancelCommit(k) PROVE db[c] = s
      BY <2>1, <2>2, <3>2 DEF CancelCommit
    <3>3. ASSUME NEW k \in Commands, NEW u \in Reported, Apply(k, u)
          PROVE  db[c] = s \/ <<c, s>> \in reported
      BY <2>2, <3>3 DEF Apply
    <3>4. ASSUME NEW k \in Commands, DeadlinePasses(k) \/ CancelCheck(k)
          PROVE  db[c] = s
      BY <1>2, <3>4 DEF DeadlinePasses, CancelCheck
    <3> QED BY <2>3, <3>1, <3>2, <3>3, <3>4 DEF ControllerStep
  <2>4. ASSUME NEW t \in Threads, Poll(t) PROVE db[c] = s
    <3>1. PICK scanned \in SUBSET Commands :
            db' = [k \in Commands |-> IF k \in scanned THEN Polled(k) ELSE db[k]]
      BY <2>4 DEF Poll
    <3>2. Polled(c) \in {"timed_out", "delivered", db[c]}
      BY DEF Polled
    <3> QED BY <1>2, <2>1, <3>1, <3>2
  <2> QED BY <2>3, <2>4
<1>3. \A c \in Commands, s \in Progress : RowShows(c, s)' => RowShows(c, s)
  BY <1>1 DEF RowShows
<1>4. \A c \in Commands : Hurried(c)' => Hurried(c)
  BY <1>1 DEF Hurried
<1> QED BY <1>1, <1>2, <1>3, <1>4 DEF Shows

\* The reply's row asks for a run from now on, and shows what it showed.
LEMMA ReplyShows ==
  ASSUME SInv, ExecReply, exec.caller \in Threads
  PROVE  /\ \A c \in Commands : Hurried(c)' => Hurried(c)
         /\ \A c \in Commands, s \in Progress : Shows(c, s)' => Shows(c, s)
<1> USE DEF SInv, Types
<1> DEFINE c == exec.cmd
           i == thread[exec.caller].row
           m == seen[c]
<1>1. rows' = Accepts(rows, c, i, m)
  BY DEF ExecReply, Accepts
<1>2. c \in Commands /\ i \in 1..Len(rows[c]) /\ m \in 0..(MaxRuns + 1) /\ m # 0
      /\ rows \in [Commands -> Seq(Row)]
  BY DEF ExecReply, ExecInv, CallInv, ExecutorTypes, AgentTypes
<1> HIDE DEF c, i, m
<1>3. /\ DOMAIN rows'[c] = DOMAIN rows[c]
      /\ rows'[c][i].state = "accepted" /\ rows'[c][i].need # 0
      /\ rows'[c][i].ran = rows[c][i].ran
      /\ \A j \in DOMAIN rows[c] : j # i => rows'[c][j] = rows[c][j]
      /\ \A k \in Commands \ {c} : rows'[k] = rows[k]
  BY <1>1, <1>2, AcceptsLemma
<1>4. \A k \in Commands : Hurried(k)' => Hurried(k)
  BY <1>3 DEF Hurried
<1>5. \A k \in Commands, s \in Progress : RowShows(k, s)' => RowShows(k, s)
  BY <1>3 DEF RowShows, Progress
<1>6. UNCHANGED <<db, reported>>
  BY DEF ExecReply, controller
<1> QED BY <1>4, <1>5, <1>6 DEF Shows

\* A run that writes complete has completed.
LEMMA UpdaterCounts ==
  ASSUME CountedInv, UpdaterStep
  PROVE  /\ UNCHANGED <<db, reported, rows, sampled, seen>>
         /\ completed \subseteq completed' /\ Complete(status)'
<1>1. UNCHANGED <<db, reported, rows, sampled, seen>>
  BY DEF UpdaterStep, ChildStarts, ChildLocks, ChildWorks, ChildBusy,
     ChildEnds, TimerStarts, TimerLocks, TimerEnds, Tick, controller, agent, executor
<1>2. completed \subseteq completed'
  BY DEF UpdaterStep, ChildStarts, ChildLocks, ChildWorks, ChildBusy,
     ChildEnds, TimerStarts, TimerLocks, TimerEnds, Tick
<1>3. \/ status' = status
      \/ status'.state \in {"active", "failed"}
      \/ status'.run \in completed'
  <2>1. CASE \E c \in Commands : ChildEnds(c)
    BY <2>1 DEF ChildEnds
  <2>2. CASE TimerEnds
    BY <2>2 DEF TimerEnds
  <2> QED BY <2>1, <2>2 DEF UpdaterStep, ChildStarts, ChildLocks, ChildWorks, ChildBusy,
          TimerStarts, TimerLocks, Tick, StartRun
<1> QED BY <1>1, <1>2, <1>3 DEF CountedInv, Complete

\* The one step that counts a status.
LEMMA ReportCounts ==
  ASSUME SInv, CountedInv, Report
  PROVE  CountedInv'
<1> USE DEF SInv, Types
<1>1. UNCHANGED <<status, db, seen, completed>> /\ sampled' = NoStatus
      /\ sampled \in Statuses
  BY DEF Report, executor, updater, AgentTypes
<1>2. \A c \in Commands : DOMAIN rows'[c] = DOMAIN rows[c] /\
        \A i \in DOMAIN rows[c] :
          rows[c][i] \in Row /\ rows'[c][i] = Judged(rows[c][i], sampled)
  BY DEF Report, AgentTypes
<1> DEFINE Taken(c) == \E i \in DOMAIN rows[c] : Counts(rows[c][i], sampled)
<1>3. counted' = [c \in Commands |-> IF Taken(c) THEN counted[c] \cup {sampled.run}
                                     ELSE counted[c]]
  BY DEF Report
<1>4. hasty' = hasty \cup
        {c \in Commands : \E i \in DOMAIN rows[c] :
           rows[c][i].state = "received" /\ Counts(rows[c][i], sampled)}
  BY DEF Report
<1>5. ASSUME NEW c \in Commands, NEW i \in DOMAIN rows[c], Counts(rows[c][i], sampled)
      PROVE  /\ sampled.run \in 1..MaxRuns /\ sampled.run \in counted'[c]
             /\ rows[c][i].need <= sampled.run
  BY <1>1, <1>3, <1>5, CommandPlaneAssumption DEF Counts, Statuses
<1>6. counted' \in [Commands -> SUBSET (1..MaxRuns)] /\ hasty' \subseteq Commands
      /\ \A c \in Commands : counted[c] \subseteq counted'[c]
  BY <1>3, <1>4, <1>5 DEF CountedInv
<1>7. LaterInv'
  <2> SUFFICES ASSUME NEW c \in Commands \ hasty'
               PROVE  ~ Hurried(c)' /\ \A k \in counted'[c] : seen[c] \in 1..k
    BY <1>1 DEF LaterInv
  <2>1. c \in Commands /\ c \notin hasty /\ ~ Hurried(c)
        /\ \A k \in counted[c] : seen[c] \in 1..k
    BY <1>4 DEF CountedInv, LaterInv
  <2>2. \A i \in DOMAIN rows[c] :
          Counts(rows[c][i], sampled) => rows[c][i].state # "received"
    BY <1>4
  <2>3. ASSUME NEW i \in DOMAIN rows[c], Counts(rows[c][i], sampled)
        PROVE  rows[c][i].need # 0 /\ seen[c] \in 1..sampled.run
    <3>1. rows[c][i].need # 0
      BY <2>1, <2>2, <2>3 DEF Hurried
    <3>2. rows[c][i].need = seen[c]
      BY <2>1, <3>1 DEF RowInv, RowGood
    <3>3. seen[c] \in 0..(MaxRuns + 1)
      BY <2>1 DEF ExecutorTypes
    <3> QED BY <1>5, <2>1, <2>3, <3>1, <3>2, <3>3, CommandPlaneAssumption
  <2>4. ~ Hurried(c)'
    <3>1. ASSUME NEW i \in DOMAIN rows'[c], rows'[c][i].need = 0
          PROVE  rows'[c][i].state = "received"
      <4>1. i \in DOMAIN rows[c] /\ rows[c][i] \in Row
            /\ rows'[c][i] = Judged(rows[c][i], sampled)
        BY <1>2, <2>1
      <4>2. rows[c][i].need = 0
        BY <1>1, <3>1, <4>1, JudgedLemma
      <4>3. rows[c][i].state = "received" /\ ~ Counts(rows[c][i], sampled)
        BY <2>1, <2>3, <4>1, <4>2 DEF Hurried
      <4> QED BY <4>1, <4>3 DEF Judged
    <3> QED BY <3>1 DEF Hurried
  <2> QED BY <1>3, <2>1, <2>3, <2>4
<1>8. ASSUME NEW c \in Commands, NEW s \in Progress, Shows(c, s)
      PROVE  Counted(c, s)'
  BY <1>1, <1>6, <1>8 DEF CountedInv, Counted
<1>9. ASSUME NEW c \in Commands, NEW s \in Progress, RowShows(c, s)'
      PROVE  Counted(c, s)'
  <2>1. PICK i \in DOMAIN rows'[c] :
          rows'[c][i].state = s \/ (s = "running" /\ rows'[c][i].ran)
    BY <1>9 DEF RowShows
  <2>2. i \in DOMAIN rows[c] /\ rows[c][i] \in Row
        /\ rows'[c][i] = Judged(rows[c][i], sampled)
    BY <1>2, <2>1
  <2>3. CASE RowShows(c, s)
    BY <1>8, <2>3 DEF Shows
  <2>4. CASE ~ RowShows(c, s)
    <3>1. ~ (rows[c][i].state = s \/ (s = "running" /\ rows[c][i].ran))
      BY <2>2, <2>4 DEF RowShows
    <3>2. /\ Counts(rows[c][i], sampled)
          /\ \/ s = StatusToRow[sampled.state]
             \/ s = "running"
          /\ sampled.state \in {"active", "failed", "complete"}
      BY <1>1, <2>1, <2>2, <3>1, JudgedLemma
    <3>3. sampled.run \in counted'[c]
      BY <1>5, <2>2, <3>2
    <3>4. s = "succeeded" => sampled.state = "complete"
      BY <3>2 DEF StatusToRow
    <3>5. s = "succeeded" => sampled.run \in completed
      BY <3>4 DEF CountedInv, Complete
    <3> QED BY <1>1, <3>3, <3>5 DEF Counted
  <2> QED BY <2>3, <2>4
<1>10. ASSUME NEW c \in Commands, NEW s \in Progress, Shows(c, s)'
       PROVE  Counted(c, s)'
  <2>1. CASE Shows(c, s) \/ RowShows(c, s)'
    BY <1>8, <1>9, <2>1
  <2>2. CASE ~ Shows(c, s) /\ ~ RowShows(c, s)'
    <3>1. <<c, s>> \in reported' /\ <<c, s>> \notin reported
      BY <1>1, <1>10, <2>2 DEF Shows
    <3> DEFINE Told(e) == UNION {Items(e, rows'[e][i]) : i \in DOMAIN rows[e]}
    <3>2. <<c, s>> \in UNION {Told(e) : e \in Commands}
      BY <3>1 DEF Report, Effective
    <3>3. PICK e \in Commands : <<c, s>> \in Told(e)
      <4> HIDE DEF Told
      <4> QED BY <3>2
    <3>4. PICK i \in DOMAIN rows[e] : <<c, s>> \in Items(e, rows'[e][i])
      BY <3>3
    <3>5. i \in DOMAIN rows'[e] /\ s \in {"running", "succeeded", "failed"}
      BY <1>2, <3>4 DEF Progress
    <3>6. c = e /\ (rows'[e][i].state = s \/ (s = "running" /\ rows'[e][i].ran))
      BY <3>4, <3>5 DEF Items
    <3> QED BY <2>2, <3>5, <3>6 DEF RowShows
  <2> QED BY <2>1, <2>2
<1>11. Complete(status)' /\ Complete(sampled)'
  BY <1>1 DEF CountedInv, Complete, NoStatus
<1> QED BY <1>6, <1>7, <1>10, <1>11 DEF CountedInv

LEMMA CountedStep == SInv /\ SInv' /\ CountedInv /\ [Next]_vars => CountedInv'
<1> SUFFICES ASSUME SInv, SInv', CountedInv, [Next]_vars PROVE CountedInv'
  OBVIOUS
<1>1. CASE Report
  BY <1>1, ReportCounts
<1>2. CASE ControllerStep \/ (\E t \in Threads : Poll(t))
  <2>1. UNCHANGED counts
    BY <1>2 DEF ControllerStep, Create, DeadlinePasses, CancelCheck, CancelCommit, Apply,
       Poll
  <2>2. Complete(status)' /\ Complete(sampled)'
    BY <1>2, ControllerShows DEF CountedInv, Complete
  <2> QED BY <1>2, <2>1, <2>2, ControllerShows, CountedFrame
<1>3. CASE UpdaterStep
  <2>1. UNCHANGED counts
    BY <1>3 DEF UpdaterStep, ChildStarts, ChildLocks, ChildWorks, ChildBusy,
       ChildEnds, TimerStarts, TimerLocks, TimerEnds, Tick
  <2>2. UNCHANGED <<db, reported, rows, sampled, seen>>
        /\ completed \subseteq completed' /\ Complete(status)'
    BY <1>3, UpdaterCounts
  <2>3. Complete(sampled)'
    BY <2>2 DEF CountedInv, Complete
  <2> QED BY <2>1, <2>2, <2>3, RowsShow, CountedFrame
<1>4. ASSUME NEW t \in Threads,
             LoseAnswer(t) \/ Receive(t) \/ RpcFails(t) \/ (t = "reporter" /\ Sample)
             \/ \E c \in Commands : Skip(t, c)
      PROVE  CountedInv'
  <2>1. UNCHANGED <<db, reported, rows, seen, status, completed, counts>>
        /\ sampled' \in {sampled, status, NoStatus}
    BY <1>4 DEF LoseAnswer, Receive, RpcFails, Sample, Skip, controller, executor,
       updater
  <2>2. Complete(status)' /\ Complete(sampled)'
    BY <2>1 DEF CountedInv, Complete, NoStatus
  <2> QED BY <2>1, <2>2, RowsShow, CountedFrame
<1>5. ASSUME NEW t \in Threads, NEW c \in Commands, Call(t, c) PROVE CountedInv'
  <2>1. UNCHANGED <<db, reported, sampled, seen, status, completed, counts>>
    BY <1>5 DEF Call, controller, executor, updater
  <2>2. \A k \in Commands : \A i \in DOMAIN rows'[k] :
           \/ i \in DOMAIN rows[k] /\ rows'[k][i] = rows[k][i]
           \/ rows'[k][i] = NewRow
    <3>1. CASE rows' = rows
      BY <3>1
    <3>2. CASE rows' = [rows EXCEPT ![c] = Append(rows[c], NewRow)]
      BY <3>2, AppendLemma DEF SInv, Types, AgentTypes
    <3> QED BY <1>5, <3>1, <3>2 DEF Call
  <2>3. Complete(status)' /\ Complete(sampled)'
    BY <2>1 DEF CountedInv, Complete
  <2> QED BY <2>1, <2>2, <2>3, RowsShow, CountedFrame
<1>6. CASE ExecStep
  <2>1. UNCHANGED <<db, reported, status, sampled, completed, counts>>
    BY <1>6 DEF ExecStep, ExecTake, ExecEnqueue, ExecRefused, ExecSeen, ExecReply,
       controller, agent, updater
  <2>2. Complete(status)' /\ Complete(sampled)'
    BY <2>1 DEF CountedInv, Complete
  <2>3. \A c \in Commands : seen[c] # 0 => seen'[c] = seen[c]
    <3>1. CASE ExecSeen
      <4>1. seen[exec.cmd] = 0 /\ seen \in [Commands -> 0..(MaxRuns + 1)]
            /\ seen' = [seen EXCEPT ![exec.cmd] = AcceptedAt]
        BY <3>1 DEF ExecSeen, SInv, ExecInv, Types, ExecutorTypes
      <4> QED BY <4>1
    <3>2. CASE UNCHANGED seen
      BY <3>2
    <3> QED BY <1>6, <3>1, <3>2 DEF ExecStep, ExecTake, ExecEnqueue, ExecRefused,
            ExecReply
  <2>4. CASE UNCHANGED rows
    BY <2>1, <2>2, <2>3, <2>4, RowsShow, CountedFrame
  <2>5. CASE ExecReply /\ exec.caller \in Threads
    BY <2>1, <2>2, <2>3, <2>5, ReplyShows, CountedFrame
  <2> QED BY <1>6, <2>4, <2>5 DEF ExecStep, ExecTake, ExecEnqueue, ExecRefused,
          ExecSeen, ExecReply, agent
<1>7. CASE Reboot \/ AgentRestarts \/ ExecutorRestarts
  <2>1. UNCHANGED <<db, reported, seen, status, completed, counts>>
        /\ sampled' \in {sampled, NoStatus}
    BY <1>7 DEF Reboot, AgentRestarts, ExecutorRestarts, controller, updater
  <2>2. \A c \in Commands : rows'[c] \in {rows[c], <<>>}
    BY <1>7 DEF Reboot, AgentRestarts, ExecutorRestarts
  <2>3. Complete(status)' /\ Complete(sampled)'
    BY <2>1 DEF CountedInv, Complete, NoStatus
  <2> QED BY <2>1, <2>2, <2>3, RowsShow, CountedFrame
<1>8. CASE UNCHANGED vars
  BY <1>8, RowsShow, CountedFrame DEF vars, controller, agent, executor, updater,
     CountedInv, Complete
<1> QED BY <1>1, <1>2, <1>3, <1>4, <1>5, <1>6, <1>7, <1>8 DEF Next, ThreadStep

LEMMA CountedAlways == Spec => []CountedInv
<1>1. Init => CountedInv
  BY DEF Init, CountedInv, LaterInv, Complete, Shows, RowShows, Hurried, NoStatus, Progress
<1> QED BY <1>1, CountedStep, SafetyAlways, PTL DEF Spec

(***************************************************************************)
(* The tables, files and processes hold what the programs can write; both  *)
(* threads of the agent together add two rows of a command at most.        *)
(***************************************************************************)
THEOREM TypeCorrect == Spec => []TypeOK
<1>1. ASSUME SInv, CountedInv PROVE TypeOK
  <2> USE <1>1 DEF SInv, Types
  <2>1. /\ db \in [Commands -> Lifecycle!CommandStates \cup {"absent"}]
        /\ late \subseteq Commands /\ canceling \subseteq Commands
        /\ reported \subseteq Commands \X Reported
    BY DEF ControllerTypes, DbInv, DbStates
  <2>2. \A c \in Commands :
          Len(rows[c]) <= 2 /\ \A i \in DOMAIN rows[c] : rows[c][i] \in Row
    BY DEF AgentTypes, CountInv
  <2>3. \A t \in Threads :
          /\ thread[t].pc \in {"idle", "sampled", "reported", "answered",
                               "accept", "call"}
          /\ thread[t].todo \subseteq Commands
          /\ thread[t].cmd \in Commands \cup {NoCommand}
          /\ thread[t].row \in 0..2
    BY DEF AgentTypes, Calls
  <2>4. /\ exec.pc \in {"idle", "enqueue", "seen", "reply"}
        /\ exec.cmd \in Commands \cup {NoCommand}
        /\ exec.caller \in Threads \cup {"nobody"}
        /\ seen \in [Commands -> 0..(MaxRuns + 1)]
    BY DEF ExecutorTypes, Requests
  <2>5. /\ job \in [Commands -> {"none", "queued", "running", "done", "held"}]
        /\ lock \in {"free", "child", "timer"}
        /\ completed \subseteq 0..MaxRuns
    BY DEF UpdaterTypes, Jobs
  <2>6. {status.run, sampled.run, timer, child, runs} \subseteq 0..MaxRuns
    BY DEF UpdaterTypes, AgentTypes, Statuses
  <2> QED BY <2>1, <2>2, <2>3, <2>4, <2>5, <2>6 DEF TypeOK, CountedInv
<1> QED BY <1>1, SafetyAlways, CountedAlways, PTL

(***************************************************************************)
(* Progress and ends of a command are shown only for runs that began no    *)
(* more than a second before the executor accepted it, for any number of   *)
(* commands, runs, timers, reboots and restarts, and however early a       *)
(* status was sampled and late it was judged; unless a row took a status   *)
(* while the reply was on its way or lost.                                 *)
(***************************************************************************)
THEOREM LaterRunsOnly == Spec => []LaterRunsCount
<1>1. CountedInv => LaterRunsCount
  BY DEF CountedInv, LaterInv, LaterRunsCount, Shows, Counted
<1> QED BY <1>1, CountedAlways, PTL

(***************************************************************************)
(* No command is shown as succeeded unless a run whose status was counted  *)
(* for it did complete, with or without the timer: no failed, busy or      *)
(* killed run, no lost, late or repeated report and no restart makes a     *)
(* success out of nothing.                                                 *)
(***************************************************************************)
THEOREM SuccessNeedsRun == Spec => []SuccessHasItsRun
<1>1. CountedInv => SuccessHasItsRun
  <2> SUFFICES ASSUME CountedInv, NEW c \in Commands, db[c] = "succeeded"
               PROVE  \E k \in completed \cap counted[c] : c \in hasty \/ seen[c] \in 1..k
    BY DEF SuccessHasItsRun
  <2>1. PICK k \in completed \cap counted[c] : TRUE
    BY DEF CountedInv, Shows, Counted, Progress
  <2> QED BY <2>1 DEF CountedInv, LaterInv
<1> QED BY <1>1, CountedAlways, PTL

-----------------------------------------------------------------------------
(* The job queue, seen from the other parts.                               *)

LEMMA MoveIsNext ==
  ASSUME UpdaterTypes, NEW c \in Commands, NEW old, NEW new, Queue!Move(c, old, new)
  PROVE  Queue!Next
<1>1. <<old, new>> \in Queue!Moves /\ job[c] = old
      /\ job' = [job EXCEPT ![c] = new] /\ job \in [Commands -> Jobs]
  BY DEF Queue!Move, UpdaterTypes
<1>2. job' \in [Commands -> Queue!JobStates]
  BY <1>1 DEF Queue!Moves, Queue!JobStates, Jobs
<1>3. ASSUME NEW k \in Commands
      PROVE  job'[k] \in {job[k], "lost"} \/ <<job[k], job'[k]>> \in Queue!Moves
  BY <1>1
<1> QED BY <1>2, <1>3 DEF Queue!Next

LEMMA RebootIsNext ==
  ASSUME UpdaterTypes, Reboot
  PROVE  Queue!Next
<1>1. job' = [c \in Commands |-> IF job[c] = "running" THEN "held" ELSE job[c]]
      /\ job \in [Commands -> Jobs]
  BY DEF Reboot, UpdaterTypes
<1>2. job' \in [Commands -> Queue!JobStates]
  BY <1>1 DEF Queue!JobStates, Jobs
<1>3. ASSUME NEW k \in Commands
      PROVE  job'[k] = job[k] \/ <<job[k], job'[k]>> \in Queue!Moves
  BY <1>1 DEF Queue!Moves
<1> QED BY <1>2, <1>3 DEF Queue!Next

LEMMA QueueStep == SInv /\ [Next]_vars => [Queue!Next]_job
<1> SUFFICES ASSUME SInv, [Next]_vars PROVE Queue!Next \/ UNCHANGED job
  OBVIOUS
<1> USE DEF SInv, Types
<1>1. CASE ControllerStep
  BY <1>1 DEF ControllerStep, Create, DeadlinePasses, CancelCheck, CancelCommit,
     Apply
<1>2. ASSUME NEW t \in Threads, ThreadStep(t) PROVE UNCHANGED job
  BY <1>2 DEF ThreadStep, Poll, LoseAnswer, Receive, RpcFails, Skip, Call, Sample,
     Report
<1>3. CASE ExecStep
  <2>1. ASSUME ExecEnqueue \/ ExecRefused PROVE Queue!Next \/ UNCHANGED job
    <3>1. exec.cmd \in Commands
      BY <2>1 DEF ExecEnqueue, ExecRefused, ExecInv
    <3> QED BY <2>1, <3>1, MoveIsNext DEF ExecEnqueue, ExecRefused
  <2> QED BY <1>3, <2>1 DEF ExecStep, ExecTake, ExecSeen, ExecReply
<1>4. CASE UpdaterStep
  <2>1. ASSUME NEW c \in Commands, ChildStarts(c) \/ ChildBusy(c) \/ ChildEnds(c)
        PROVE  Queue!Next
    BY <2>1, MoveIsNext DEF ChildStarts, ChildBusy, ChildEnds
  <2> QED BY <1>4, <2>1 DEF UpdaterStep, ChildLocks, ChildWorks, TimerStarts,
          TimerLocks, TimerEnds, Tick
<1>5. CASE Reboot \/ AgentRestarts \/ ExecutorRestarts
  BY <1>5, RebootIsNext DEF AgentRestarts, ExecutorRestarts
<1>6. CASE UNCHANGED vars
  BY <1>6 DEF vars
<1> QED BY <1>1, <1>2, <1>3, <1>4, <1>5, <1>6 DEF Next

(***************************************************************************)
(* What the executor, the updater and the faults do to the jobs of the     *)
(* commands is what the job queue promises: NetQueue, shown to implement   *)
(* the same JobPromise, may stand behind them.                             *)
(***************************************************************************)
THEOREM JobsKeepPromise == Spec => Queue!Spec
<1>1. Init => Queue!Init
  BY DEF Init, Queue!Init
<1> QED BY <1>1, QueueStep, SafetyAlways, PTL DEF Spec, Queue!Spec
=============================================================================
