----------------------------- MODULE CommandPlane -----------------------------
(***************************************************************************)
(* The life of update commands between the controller and one device:      *)
(* the commands table and the HTTP handlers (controller/lghs/database.py,  *)
(* controller/lghs-fleet-api, controller/lghs/recovery.py), the device's   *)
(* unprivileged agent with its reporter and long-poll threads              *)
(* (student/lghs-agent), the root command executor                         *)
(* (student/lghs-command-executor), the job queue (as JobPromise) and the  *)
(* status file that updater runs share (updater/lghs-update).              *)
(*                                                                         *)
(* A report is the set of states it carries.  The controller applies them  *)
(* one transaction at a time, with other handlers in between, early, late, *)
(* again, or never: reports are lost, repeated and rejected for their      *)
(* sequence number, and handlers run in parallel.                          *)
(***************************************************************************)
EXTENDS Integers, Sequences, FiniteSets

CONSTANTS Commands,    \* lghs-update commands for this device
          NoCommand,
          MaxRuns,     \* bound: updater runs in a behaviour
          MaxFaults,   \* bound: reboots, and restarts of agent or executor
          Timer,       \* whether lghs-update.timer may fire
          Cancels,     \* whether an operator may cancel
          Deadlines,   \* whether a command's deadline may pass
          DeliveryLimit  \* commands_for_delivery()'s limit

ASSUME CommandPlaneAssumption ==
  /\ NoCommand \notin Commands
  /\ {MaxRuns, MaxFaults} \subseteq Nat
  /\ DeliveryLimit \in Nat \ {0}
  /\ {Timer, Cancels, Deadlines} \subseteq BOOLEAN

VARIABLES
  \* the controller
  db,         \* commands.state, "absent" before the row exists
  late,       \* commands whose deadline has passed
  canceling,  \* commands cancel_remaining() has read as cancelable
  reported,   \* <<command, state>> pairs of reports, not yet without effect
  \* the agent
  rows,       \* STATE_DATA['commands']: the rows of each command, oldest first
  thread,     \* the two threads that call accept()
  sampled,    \* the status file as the reporter last fetched it
  \* the executor
  exec,       \* the request it is serving
  seen,       \* executor-seen.json: 0, or the acceptance time of a command
  \* the queue and the updater
  job,        \* JobPromise's job of each command
  runs,       \* updater runs started
  fresh,      \* whether the last of them started within a second
  status,     \* lghs-status.json: the run that wrote it, and its state
  lock,       \* the holder of lghs-update.lock
  timer,      \* the run lghs-update.timer started, 0 when none
  child,      \* the run the drain started, 0 when none
  \* history
  completed,  \* the runs that have completed
  counted,    \* of each command, the runs whose status its rows have taken
  hasty,      \* commands that took one before the agent knew their acceptance
  faults

controller == <<db, late, canceling, reported>>
agent == <<rows, thread, sampled>>
executor == <<exec, seen>>
updater == <<runs, fresh, status, lock, timer, child, completed>>
counts == <<counted, hasty>>
vars == <<controller, agent, executor, job, updater, counts, faults>>

Lifecycle == INSTANCE CommandLifecycle
Queue == INSTANCE JobPromise WITH Keys <- Commands

Threads == {"reporter", "poller"}
Reported == {"received", "accepted", "running", "succeeded", "failed"}

Thread(pc) == [pc |-> pc, todo |-> {}, known |-> [c \in Commands |-> 0],
               cmd |-> NoCommand, row |-> 0]
NoStatus == [run |-> 0, state |-> "none"]
NoRequest == [pc |-> "idle", cmd |-> NoCommand, caller |-> "nobody"]

Init ==
  /\ db = [c \in Commands |-> "absent"]
  /\ late = {}
  /\ canceling = {}
  /\ reported = {}
  /\ rows = [c \in Commands |-> <<>>]
  /\ thread = [t \in Threads |-> Thread("idle")]
  /\ sampled = NoStatus
  /\ exec = NoRequest
  /\ seen = [c \in Commands |-> 0]
  /\ job = [c \in Commands |-> "none"]
  /\ runs = 0
  /\ fresh = FALSE
  /\ status = NoStatus
  /\ lock = "free"
  /\ timer = 0
  /\ child = 0
  /\ completed = {}
  /\ counted = [c \in Commands |-> {}]
  /\ hasty = {}
  /\ faults = 0

-----------------------------------------------------------------------------
(* The controller.                                                         *)

Create(c) ==
  /\ db[c] = "absent"
  /\ db' = [db EXCEPT ![c] = "queued"]
  /\ UNCHANGED <<late, canceling, reported, agent, executor, job, updater,
                 counts, faults>>

DeadlinePasses(c) ==
  /\ Deadlines
  /\ db[c] \in Lifecycle!Open
  /\ c \notin late
  /\ late' = late \cup {c}
  /\ UNCHANGED <<db, canceling, reported, agent, executor, job, updater,
                 counts, faults>>

\* The reported transitions that would change rows d:
\* reconcile_command_milestones() skips a milestone the row has passed,
\* reconcile_reported_commands() ignores a regression.
Effective(d, pairs) ==
  {p \in pairs : d[p[1]] # p[2] /\ Lifecycle!CanAdvance(d[p[1]], p[2])}

\* transition_command(), as a state change that may be refused.
Transition(c, s) ==
  /\ db' = [db EXCEPT ![c] = IF @ # "absent" /\ Lifecycle!CanAdvance(@, s)
                            THEN s ELSE @]
  /\ reported' = Effective(db', reported)

\* One transition of a report.
Apply(c, s) ==
  /\ <<c, s>> \in reported
  /\ Transition(c, s)
  /\ UNCHANGED <<late, canceling, agent, executor, job, updater, counts, faults>>

\* cancel_remaining() reads the command's state in one transaction and
\* cancels it in another.
CancelCheck(c) ==
  /\ Cancels
  /\ db[c] \in {"queued", "delivered", "received"}
  /\ c \notin canceling
  /\ canceling' = canceling \cup {c}
  /\ UNCHANGED <<db, late, reported, agent, executor, job, updater,
                 counts, faults>>

CancelCommit(c) ==
  /\ c \in canceling
  /\ canceling' = canceling \ {c}
  /\ Transition(c, "canceled")
  /\ UNCHANGED <<late, agent, executor, job, updater, counts, faults>>

NeverReceivedExpires == {c \in late : db[c] \in {"queued", "delivered"}}
ExpiresAny == {c \in late : db[c] # "absent"}

\* The commands commands_for_delivery() times out, ...
Expired == {c \in late : db[c] \in Lifecycle!Open}

Redeliverable == {"delivered", "received"}

\* ... and those it may deliver: queued ones at once, delivered and received
\* ones again unless the last delivery was less than a second ago.
Deliverable ==
  {c \in Commands \ Expired : db[c] \in {"queued"} \cup Redeliverable}

MarksNothing(c) == IF c \in Expired THEN "timed_out" ELSE db[c]

\* The state commands_for_delivery() leaves a command in.
Polled(c) == CASE c \in Expired -> "timed_out"
               [] c \in Deliverable /\ db[c] = "queued" -> "delivered"
               [] OTHER -> db[c]

\* A long poll, or the end of a report's handler: one transaction.  It goes
\* through the commands until it hands out as many as it may; those it does
\* not reach are neither handed out nor timed out.
Poll(t) ==
  /\ thread[t].pc = IF t = "reporter" THEN "reported" ELSE "idle"
  /\ \E scanned \in SUBSET Commands,
        recent \in SUBSET {c \in Deliverable : db[c] # "queued"} :
       LET out == (Deliverable \cap scanned) \ recent IN
       /\ scanned = Commands \/ Cardinality(out) = DeliveryLimit
       /\ Cardinality(out) <= DeliveryLimit
       /\ db' = [c \in Commands |-> IF c \in scanned THEN Polled(c) ELSE db[c]]
       /\ reported' = Effective(db', reported)
       /\ thread' = [thread EXCEPT ![t] =
                       IF out = {} THEN Thread("idle")
                       ELSE [Thread("answered") EXCEPT !.todo = out]]
  /\ UNCHANGED <<late, canceling, rows, sampled, executor, job, updater,
                 counts, faults>>

-----------------------------------------------------------------------------
(* The agent.                                                              *)

\* The connection fails, or the agent's request times out.
LoseAnswer(t) ==
  /\ thread[t].pc \in {"reported", "answered"}
  /\ thread' = [thread EXCEPT ![t] = Thread("idle")]
  /\ UNCHANGED <<controller, rows, sampled, executor, job, updater,
                 counts, faults>>

KnownUnaccepted ==
  [c \in Commands |->
     IF \E i \in DOMAIN rows[c] : rows[c][i].state # "received" THEN 0
     ELSE Len(rows[c])]

\* by_id: the newest row of each command, 0 when it has none.
Known == [c \in Commands |-> Len(rows[c])]

\* accept() looks the known rows up once, before its loop.
Receive(t) ==
  /\ thread[t].pc = "answered"
  /\ thread' = [thread EXCEPT ![t].pc = "accept", ![t].known = Known]
  /\ UNCHANGED <<controller, rows, sampled, executor, job, updater,
                 counts, faults>>

NewRow == [state |-> "received", need |-> 0, ran |-> FALSE]

\* A command whose known row is past received is skipped, ...
Skip(t, c) ==
  /\ thread[t].pc = "accept"
  /\ c \in thread[t].todo
  /\ thread[t].known[c] # 0
  /\ rows[c][thread[t].known[c]].state # "received"
  /\ thread' = IF thread[t].todo = {c}
               THEN [thread EXCEPT ![t] = Thread("idle")]
               ELSE [thread EXCEPT ![t].todo = @ \ {c}]
  /\ UNCHANGED <<controller, rows, sampled, executor, job, updater,
                 counts, faults>>

\* ... one with no known row gets one, and the executor is called.
Call(t, c) ==
  /\ thread[t].pc = "accept"
  /\ c \in thread[t].todo
  /\ LET k == thread[t].known[c] IN
       /\ k # 0 => rows[c][k].state = "received"
       /\ rows' = IF k = 0 THEN [rows EXCEPT ![c] = Append(@, NewRow)]
                  ELSE rows
       /\ thread' =
            [thread EXCEPT ![t].pc = "call", ![t].cmd = c,
                           ![t].row = IF k = 0 THEN Len(rows[c]) + 1 ELSE k]
  /\ UNCHANGED <<controller, sampled, executor, job, updater, counts, faults>>

\* The thread's next step once its call has been answered.
Answered(t) ==
  IF thread[t].todo = {thread[t].cmd} THEN Thread("idle")
  ELSE [thread[t] EXCEPT !.pc = "accept", !.todo = @ \ {thread[t].cmd},
                         !.cmd = NoCommand, !.row = 0]

\* rpc() fails or gives up after ten seconds; the executor may carry on.
RpcFails(t) ==
  /\ thread[t].pc = "call"
  /\ thread' = [thread EXCEPT ![t] = Answered(t)]
  /\ exec' = [exec EXCEPT !.caller = IF @ = t THEN "nobody" ELSE @]
  /\ UNCHANGED <<controller, rows, sampled, seen, job, updater, counts, faults>>

\* envelope() fetches the status from the executor, unless that fails or the
\* executor is busy, ...
Sample ==
  /\ thread["reporter"].pc = "idle"
  /\ \/ exec.pc = "idle" /\ sampled' = status
     \/ sampled' = NoStatus
  /\ thread' = [thread EXCEPT !["reporter"] = Thread("sampled")]
  /\ UNCHANGED <<controller, rows, executor, job, updater, counts, faults>>

StatusToRow ==
  [active |-> "running", failed |-> "failed", complete |-> "succeeded"]

AnyRunCounts(r, s) == r.state \notin Lifecycle!Terminal /\ s.run # 0

\* update_progress(): a status counts for every open row, unless its run began
\* more than a second before the row's acceptance.  A row still received has
\* no acceptance yet (need is 0): every status counts for it.
Counts(r, s) ==
  r.state \notin Lifecycle!Terminal /\ s.run # 0 /\ r.need <= s.run

\* What the sampled status makes of a row.
Judged(r, s) ==
  IF Counts(r, s)
  THEN [r EXCEPT !.state = StatusToRow[s.state],
                 !.ran = @ \/ s.state = "active"]
  ELSE r

\* The milestones and the state one row reports.
Items(c, r) ==
  {<<c, "received">>, <<c, r.state>>}
    \cup (IF r.need > 0 THEN {<<c, "accepted">>} ELSE {})
    \cup (IF r.ran THEN {<<c, "running">>} ELSE {})

\* ... then updates the rows from it and reports them.
Report ==
  /\ thread["reporter"].pc = "sampled"
  /\ rows' = [c \in Commands |->
                [i \in DOMAIN rows[c] |-> Judged(rows[c][i], sampled)]]
  /\ reported' = Effective(db, reported \cup
       UNION {UNION {Items(c, rows'[c][i]) : i \in DOMAIN rows[c]} :
                c \in Commands})
  /\ counted' = [c \in Commands |->
                   IF \E i \in DOMAIN rows[c] : Counts(rows[c][i], sampled)
                   THEN counted[c] \cup {sampled.run} ELSE counted[c]]
  /\ hasty' = hasty \cup
       {c \in Commands : \E i \in DOMAIN rows[c] :
          rows[c][i].state = "received" /\ Counts(rows[c][i], sampled)}
  /\ thread' = [thread EXCEPT !["reporter"] = Thread("reported")]
  /\ sampled' = NoStatus
  /\ UNCHANGED <<db, late, canceling, executor, job, updater, faults>>

-----------------------------------------------------------------------------
(* The executor: one process, one request at a time.                       *)

ExecTake(t) ==
  /\ exec.pc = "idle"
  /\ thread[t].pc = "call"
  /\ exec' = [pc |-> IF seen[thread[t].cmd] = 0 THEN "enqueue" ELSE "reply",
              cmd |-> thread[t].cmd, caller |-> t]
  /\ UNCHANGED <<controller, agent, seen, job, updater, counts, faults>>

EnqueueUnchecked ==
  /\ exec.pc = "enqueue"
  /\ Queue!Move(exec.cmd, "none", "queued") \/ UNCHANGED job
  /\ exec' = [exec EXCEPT !.pc = "seen"]
  /\ UNCHANGED <<controller, agent, seen, updater, counts, faults>>

\* enqueue accepts the key: as new, as one still queued or as one done.
ExecEnqueue ==
  /\ exec.pc = "enqueue"
  /\ \/ Queue!Move(exec.cmd, "none", "queued")
     \/ job[exec.cmd] \in {"queued", "done"} /\ UNCHANGED job
  /\ exec' = [exec EXCEPT !.pc = "seen"]
  /\ UNCHANGED <<controller, agent, seen, updater, counts, faults>>

\* enqueue fails: the key has an uncertain execution, or the call took twenty
\* seconds and was killed, before or after it queued the job.
ExecRefused ==
  /\ exec.pc = "enqueue"
  /\ Queue!Move(exec.cmd, "none", "queued") \/ UNCHANGED job
  /\ exec' = NoRequest
  /\ thread' = [t \in Threads |->
                  IF t = exec.caller THEN Answered(t) ELSE thread[t]]
  /\ UNCHANGED <<controller, rows, sampled, seen, updater, counts, faults>>

\* accepted = time.time(): the first updater run that may count for it.
AcceptedAt == IF fresh THEN runs ELSE runs + 1

ExecSeen ==
  /\ exec.pc = "seen"
  /\ seen' = [seen EXCEPT ![exec.cmd] = AcceptedAt]
  /\ exec' = [exec EXCEPT !.pc = "reply"]
  /\ UNCHANGED <<controller, agent, job, updater, counts, faults>>

\* The reply reaches the thread, if it still waits, and accept() sets its row.
ExecReply ==
  /\ exec.pc = "reply"
  /\ exec' = NoRequest
  /\ IF exec.caller \in Threads
     THEN LET t == exec.caller IN
            /\ rows' = [rows EXCEPT
                          ![exec.cmd][thread[t].row].state = "accepted",
                          ![exec.cmd][thread[t].row].need = seen[exec.cmd]]
            /\ thread' = [thread EXCEPT ![t] = Answered(t)]
     ELSE UNCHANGED <<rows, thread>>
  /\ UNCHANGED <<controller, sampled, seen, job, updater, counts, faults>>

-----------------------------------------------------------------------------
(* The updater: a run the drain starts for a command, and one the timer    *)
(* starts for no command, share the status file and a lock.                *)

StartRun == /\ runs < MaxRuns
            /\ runs' = runs + 1
            /\ fresh' = TRUE
            /\ status' = [run |-> runs + 1, state |-> "active"]

ChildStarts(c) ==
  /\ child = 0
  /\ Queue!Move(c, "queued", "running")
  /\ StartRun
  /\ child' = runs + 1
  /\ UNCHANGED <<controller, agent, executor, lock, timer, completed, counts, faults>>

ChildLocks ==
  /\ child # 0
  /\ lock = "free"
  /\ lock' = "child"
  /\ UNCHANGED <<controller, agent, executor, job, runs, fresh, status, timer,
                 child, completed, counts, faults>>

\* The run reports its progress, over whatever the status file says.
ChildWorks ==
  /\ lock = "child"
  /\ status' = [run |-> child, state |-> "active"]
  /\ status' # status
  /\ UNCHANGED <<controller, agent, executor, job, runs, fresh, lock, timer,
                 child, completed, counts, faults>>

BusyIsComplete(c) ==
  /\ child # 0
  /\ lock = "timer"
  /\ Queue!Move(c, "running", "done")
  /\ status' = [run |-> child, state |-> "complete"]
  /\ child' = 0
  /\ UNCHANGED <<controller, agent, executor, runs, fresh, lock, timer,
                 completed, counts, faults>>

\* The lock is taken: the run reports busy and exits 0.
ChildBusy(c) ==
  /\ child # 0
  /\ lock = "timer"
  /\ Queue!Move(c, "running", "done")
  /\ status' = [run |-> child, state |-> "active"]
  /\ child' = 0
  /\ UNCHANGED <<controller, agent, executor, runs, fresh, lock, timer,
                 completed, counts, faults>>

\* The run installs its target; fails or finds no network, and will be tried
\* again; or is killed after an hour.
ChildEnds(c) ==
  /\ lock = "child"
  /\ \/ /\ Queue!Move(c, "running", "done")
        /\ status' = [run |-> child, state |-> "complete"]
        /\ completed' = completed \cup {child}
     \/ /\ Queue!Move(c, "running", "queued")
        /\ \E s \in {"failed", "active"} :
             status' = [run |-> child, state |-> s]
        /\ UNCHANGED completed
     \/ /\ Queue!Move(c, "running", "held")
        /\ UNCHANGED <<status, completed>>
  /\ lock' = "free"
  /\ child' = 0
  /\ UNCHANGED <<controller, agent, executor, runs, fresh, timer, counts, faults>>

TimerStarts ==
  /\ Timer
  /\ timer = 0
  /\ StartRun
  /\ timer' = runs + 1
  /\ UNCHANGED <<controller, agent, executor, job, lock, child, completed,
                 counts, faults>>

TimerLocks ==
  /\ timer # 0
  /\ lock = "free"
  /\ lock' = "timer"
  /\ UNCHANGED <<controller, agent, executor, job, runs, fresh, status, timer,
                 child, completed, counts, faults>>

\* On a student the timer's run has no target: it is complete at once.
TimerEnds ==
  /\ timer # 0
  /\ \/ /\ lock = "timer"
        /\ status' = [run |-> timer, state |-> "complete"]
        /\ completed' = completed \cup {timer}
        /\ lock' = "free"
     \/ /\ lock = "child"
        /\ status' = [run |-> timer, state |-> "active"]
        /\ UNCHANGED <<lock, completed>>
  /\ timer' = 0
  /\ UNCHANGED <<controller, agent, executor, job, runs, fresh, child, counts, faults>>

\* A second passes since the last run started.
Tick ==
  /\ fresh
  /\ fresh' = FALSE
  /\ UNCHANGED <<controller, agent, executor, job, runs, status, lock, timer,
                 child, completed, counts, faults>>

-----------------------------------------------------------------------------
(* Faults of the device.                                                   *)

\* initial_state() of a new boot forgets the rows; a run cut short is held.
Reboot ==
  /\ faults < MaxFaults
  /\ faults' = faults + 1
  /\ rows' = [c \in Commands |-> <<>>]
  /\ thread' = [t \in Threads |-> Thread("idle")]
  /\ sampled' = NoStatus
  /\ exec' = NoRequest
  /\ job' = [c \in Commands |-> IF job[c] = "running" THEN "held" ELSE job[c]]
  /\ lock' = "free"
  /\ timer' = 0
  /\ child' = 0
  /\ UNCHANGED <<controller, seen, runs, fresh, status, completed, counts>>

\* The agent restarts in the same boot: its rows were saved at every change.
AgentRestarts ==
  /\ faults < MaxFaults
  /\ faults' = faults + 1
  /\ thread' = [t \in Threads |-> Thread("idle")]
  /\ sampled' = NoStatus
  /\ exec' = [exec EXCEPT !.caller = "nobody"]
  /\ UNCHANGED <<controller, rows, seen, job, updater, counts>>

ExecutorRestarts ==
  /\ faults < MaxFaults
  /\ exec.pc # "idle"
  /\ faults' = faults + 1
  /\ exec' = NoRequest
  /\ thread' = [t \in Threads |->
                  IF t = exec.caller THEN Answered(t) ELSE thread[t]]
  /\ UNCHANGED <<controller, rows, sampled, seen, job, updater, counts>>

-----------------------------------------------------------------------------
ControllerStep ==
  \E c \in Commands :
    \/ Create(c) \/ DeadlinePasses(c) \/ CancelCheck(c) \/ CancelCommit(c)
    \/ \E s \in Reported : Apply(c, s)

ThreadStep(t) ==
  \/ Poll(t) \/ LoseAnswer(t) \/ Receive(t) \/ RpcFails(t)
  \/ \E c \in Commands : Skip(t, c) \/ Call(t, c)
  \/ t = "reporter" /\ (Sample \/ Report)

ExecStep ==
  \/ \E t \in Threads : ExecTake(t)
  \/ ExecEnqueue \/ ExecRefused \/ ExecSeen \/ ExecReply

UpdaterStep ==
  \/ \E c \in Commands : ChildStarts(c) \/ ChildBusy(c) \/ ChildEnds(c)
  \/ ChildLocks \/ ChildWorks \/ TimerStarts \/ TimerLocks \/ TimerEnds \/ Tick

Next ==
  \/ ControllerStep
  \/ \E t \in Threads : ThreadStep(t)
  \/ ExecStep
  \/ UpdaterStep
  \/ Reboot \/ AgentRestarts \/ ExecutorRestarts

Spec == Init /\ [][Next]_vars

\* The loops of the agent go on (every call they make has a timeout), and time
\* passes.
FairSpec ==
  /\ Spec
  /\ \A t \in Threads : WF_vars(ThreadStep(t))
  /\ \A c \in Commands : WF_vars(DeadlinePasses(c))

-----------------------------------------------------------------------------
(* Properties.                                                             *)

Row == [state : Reported, need : 0..(MaxRuns + 1), ran : BOOLEAN]

\* The tables, files and processes hold what the programs can write; no
\* command ever has more than one row per thread of the agent.
TypeOK ==
  /\ db \in [Commands -> Lifecycle!CommandStates \cup {"absent"}]
  /\ late \subseteq Commands /\ canceling \subseteq Commands
  /\ reported \subseteq Commands \X Reported
  /\ \A c \in Commands :
       Len(rows[c]) <= 2 /\ \A i \in DOMAIN rows[c] : rows[c][i] \in Row
  /\ \A t \in Threads :
       /\ thread[t].pc \in {"idle", "sampled", "reported", "answered",
                            "accept", "call"}
       /\ thread[t].todo \subseteq Commands
       /\ thread[t].cmd \in Commands \cup {NoCommand}
       /\ thread[t].row \in 0..2
  /\ exec.pc \in {"idle", "enqueue", "seen", "reply"}
  /\ exec.cmd \in Commands \cup {NoCommand}
  /\ exec.caller \in Threads \cup {"nobody"}
  /\ seen \in [Commands -> 0..(MaxRuns + 1)]
  /\ job \in [Commands -> {"none", "queued", "running", "done", "held"}]
  /\ {status.run, sampled.run, timer, child, runs} \subseteq 0..MaxRuns
  /\ lock \in {"free", "child", "timer"}
  /\ completed \subseteq 0..MaxRuns
  /\ counted \in [Commands -> SUBSET (1..MaxRuns)]
  /\ hasty \subseteq Commands

\* A command the controller shows as accepted is durable on the device:
\* its job is queued, runs, has run or is held, whatever was lost or
\* restarted since.
AcceptedIsDurable ==
  \A c \in Commands : db[c] = "accepted" => job[c] # "none" /\ seen[c] # 0

\* The device knows nothing of a command the controller still shows queued.
QueuedIsUntouched ==
  \A c \in Commands :
    db[c] \in {"absent", "queued"} =>
      /\ rows[c] = <<>>
      /\ seen[c] = 0
      /\ job[c] = "none"
      /\ \A s \in Reported : <<c, s>> \notin reported

\* Whatever arrives late, twice, out of order or not at all, a command's
\* state only advances, and a terminal state is final.
KeepsLifecycle == Lifecycle!Spec

\* Every command the controller creates is settled in the end, even if every
\* report is lost.
Settles ==
  \A c \in Commands : db[c] # "absent" ~> db[c] \in Lifecycle!Terminal

Progress == {"running", "succeeded", "failed"}

\* The controller shows progress of a command, or its end, only after the agent
\* has taken a run's status for it; and no status so taken, however early it
\* was sampled and late it was judged, is that of a run that began more than a
\* second before the executor accepted the command.  The exception is a command
\* whose row took a status while it was still received: the reply was on its
\* way or lost, and then any earlier run's status counts for it.
LaterRunsCount ==
  \A c \in Commands \ hasty :
    /\ db[c] \in Progress => counted[c] # {}
    /\ \A k \in counted[c] : seen[c] \in 1..k

\* A command the controller shows as succeeded has, among the runs whose status
\* was counted for it, one that completed: no run that failed, was cut short or
\* found the lock taken makes a success, and neither do lost, late or repeated
\* reports.  The run need not be the command's own, but it did not begin before
\* the acceptance, with the exception above.
SuccessHasItsRun ==
  \A c \in Commands : db[c] = "succeeded" =>
    \E k \in completed \cap counted[c] : c \in hasty \/ seen[c] \in 1..k

\* "Command success is only the end of local execution": the job of a command
\* the controller shows as succeeded has ended.
SucceededHasEnded ==
  \A c \in Commands : db[c] = "succeeded" => job[c] \in {"done", "held"}
=============================================================================
