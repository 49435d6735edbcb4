-------------------------------- MODULE Rollout --------------------------------
(***************************************************************************)
(* One deployment: its phases, its executions and their commands, as the   *)
(* rollout manager, the operators' requests and the handlers of the        *)
(* devices' polls and reports change them between each other's             *)
(* transactions (controller/lghs/rollout.py, rollout_manager.py,           *)
(* recovery.py, controller/lghs-fleet-api, lghs-rollout-manager).          *)
(*                                                                         *)
(* "delivered" stands for delivered and received, "running" for accepted   *)
(* and running, "failed" for failed and rejected: none of this code tells  *)
(* the members of a pair apart.  How a device carries a command out is     *)
(* CommandPlane's subject: here its command just advances.  Soak times and *)
(* maintenance windows are delays of arbitrary length before a pass of the *)
(* manager that changes something.                                         *)
(***************************************************************************)
EXTENDS Integers, Sequences, FiniteSets

CONSTANTS Devices,          \* resolved_devices of the frozen target
          NoDevice,
          Phase,            \* the phase of each device's execution
          Phased,           \* whether the strategy is "phased"
          ThresholdCount,   \* failure_threshold_count
          ThresholdPercent, \* failure_threshold_percent
          Operators,        \* threads that serve an operator's requests
          Requests,         \* the requests operators may make
          MaxRequests,      \* bound: requests in a behaviour
          Faults,           \* the kinds of faults that may happen
          MaxFaults,        \* bound: faults in a behaviour
          MaxSyncs,         \* bound: syncs in progress
          Overlap           \* bound: whether they may be of several commands

Manager == "manager"
Threads == Operators \cup {Manager}

ASSUME RolloutAssumption ==
  /\ IsFiniteSet(Devices) /\ Devices # {} /\ NoDevice \notin Devices
  /\ Phase \in [Devices -> Nat]
  /\ Phased \in BOOLEAN /\ Overlap \in BOOLEAN
  /\ {ThresholdCount, ThresholdPercent} \subseteq Nat \ {0}
  /\ Manager \notin Operators
  /\ Requests \subseteq {"advance", "dispatch", "retry", "resume", "cancel"}
  /\ Faults \subseteq {"stop", "deadline", "forget", "unhealthy"}
  /\ {MaxRequests, MaxFaults, MaxSyncs} \subseteq Nat

VARIABLES
  dep,        \* deployments.state
  exec,       \* deployment_executions: state, and the number of the command
  cmds,       \* the states of the commands of each device, oldest first
  known,      \* the commands each device's agent reports
  syncs,      \* <<device, number, state>>: what a handler read, to be written
  proc,       \* where each thread stands in its request or pass
  target,     \* devices whose reported commit is the deployment's
  healthy,    \* devices that pass the health gate
  converged,  \* history: devices once in both sets
  asked,      \* history: the kinds of requests made
  stopped,    \* history: whether a thread was killed
  requests, faults

controller == <<dep, exec, cmds, syncs>>
device == <<target, healthy, converged>>
operator == <<asked, requests>>
fault == <<stopped, faults>>
vars == <<controller, known, proc, device, operator, fault>>

\* The rows of the commands table, as the protocol sees them.
Numbered == Devices \X Nat
Row == [c \in Numbered |-> IF c[2] \in DOMAIN cmds[c[1]] THEN cmds[c[1]][c[2]]
                          ELSE "absent"]

Lifecycle == INSTANCE CommandLifecycle WITH Commands <- Numbered, db <- Row

Open == Lifecycle!Open
Terminal == Lifecycle!Terminal
Failure == Terminal \ {"succeeded"}     \* FAILURE_STATES
RetryAllButSuccess == Failure \cup Open  \* mutant: also what still runs
Retryable == {"failed", "timed_out"}    \* RETRYABLE_STATES
Cancelable == {"queued", "delivered"}   \* CANCELABLE_COMMAND_STATES
Finished == {"failed", "succeeded", "canceled"}
Locked == {"canceled", "paused", "succeeded"}  \* LOCKED_DEPLOYMENT_STATES

Phases == {Phase[d] : d \in Devices}
Rows(p) == {d \in Devices : Phase[d] = p}

NoCommand == 0
Idle == [pc |-> "idle", phase |-> 0, todo |-> {}, retry |-> FALSE,
         dev |-> NoDevice, cmd |-> NoCommand, rows |-> <<>>]

\* freeze_deployment(), with policy auto_advance.
Init ==
  /\ dep = "queued"
  /\ exec = [d \in Devices |-> [state |-> "queued", cmd |-> NoCommand]]
  /\ cmds = [d \in Devices |-> <<>>]
  /\ known = [d \in Devices |-> {}]
  /\ syncs = {}
  /\ proc = [t \in Threads |-> Idle]
  /\ target = {}
  /\ healthy = Devices
  /\ converged = {}
  /\ asked = {}
  /\ requests = 0
  /\ stopped = FALSE
  /\ faults = 0

Fault(kind) ==
  /\ kind \in Faults
  /\ faults < MaxFaults
  /\ faults' = faults + 1

-----------------------------------------------------------------------------
(* Devices, and the handlers of their polls and reports.                   *)

\* commands_for_delivery(): overdue commands are timed out and not returned,
\* queued ones become delivered.
Poll(d) ==
  /\ \E late \in SUBSET {i \in DOMAIN cmds[d] : cmds[d][i] \in Open} :
       /\ IF late = {} THEN UNCHANGED faults ELSE Fault("deadline")
       /\ cmds' = [cmds EXCEPT ![d] =
            [i \in DOMAIN @ |-> IF i \in late THEN "timed_out"
                                ELSE IF @[i] = "queued" THEN "delivered"
                                ELSE @[i]]]
       /\ known' = [known EXCEPT ![d] = @ \cup
            {i \in DOMAIN cmds[d] : cmds'[d][i] = "delivered"}]
  /\ <<cmds', known'>> # <<cmds, known>>
  /\ UNCHANGED <<dep, exec, syncs, proc, device, operator, stopped>>

\* reconcile_command_milestones(), one reported state of a known command.
Report(d, i, s) ==
  /\ i \in known[d]
  /\ cmds[d][i] # s /\ Lifecycle!CanAdvance(cmds[d][i], s)
  /\ cmds' = [cmds EXCEPT ![d][i] = s]
  /\ UNCHANGED <<dep, exec, known, syncs, proc, device, operator, fault>>

\* sync_deployment_execution() reads the command, of a poll's answer or of a
\* report ...
SyncRead(d, i) ==
  /\ i \in known[d]
  /\ Cardinality(syncs) < MaxSyncs
  /\ Overlap \/ \A x \in syncs : x[1] = d /\ x[2] = i
  /\ <<d, i, cmds[d][i]>> \notin syncs
  /\ syncs' = syncs \cup {<<d, i, cmds[d][i]>>}
  /\ UNCHANGED <<dep, exec, cmds, known, proc, device, operator, fault>>

SyncedState(states) ==
  IF states \subseteq Terminal /\ states # {"succeeded"} THEN "failed"
  ELSE IF states \cap {"delivered", "running", "succeeded"} # {} THEN "running"
  ELSE "queued"

\* ... and writes it in a later transaction to the execution that names it.
NamesAny(d, i) == exec[d].cmd # NoCommand  \* mutant: looks for the device
Names(d, i) == exec[d].cmd = i

SyncWrite(d, i, s) ==
  /\ <<d, i, s>> \in syncs
  /\ syncs' = syncs \ {<<d, i, s>>}
  /\ IF Names(d, i)
       THEN /\ exec' = [exec EXCEPT ![d].state = s]
            /\ dep' = IF dep \in Locked THEN dep
                      ELSE SyncedState({exec'[x].state : x \in Devices})
       ELSE UNCHANGED <<exec, dep>>
  /\ UNCHANGED <<cmds, known, proc, device, operator, fault>>

\* A device reports the target commit, thanks to its command or, from then
\* on, otherwise.
ReachTarget(d) ==
  /\ d \notin target
  /\ \E i \in DOMAIN cmds[d] : cmds[d][i] # "queued"
  /\ target' = target \cup {d}
  /\ converged' = converged \cup (target' \cap healthy)
  /\ UNCHANGED <<controller, known, proc, healthy, operator, fault>>

Worsen(d) ==
  /\ d \in healthy
  /\ Fault("unhealthy")
  /\ healthy' = healthy \ {d}
  /\ UNCHANGED <<controller, known, proc, target, converged, operator, stopped>>

Recover(d) ==
  /\ d \notin healthy
  /\ healthy' = healthy \cup {d}
  /\ converged' = converged \cup (target \cap healthy')
  /\ UNCHANGED <<controller, known, proc, target, operator, fault>>

\* A new boot's agent reports none of the commands it had.
Forget(d) ==
  /\ known[d] # {}
  /\ Fault("forget")
  /\ known' = [known EXCEPT ![d] = {}]
  /\ UNCHANGED <<controller, proc, device, operator, stopped>>

-----------------------------------------------------------------------------
(* phase_gate() and rollout_status().                                      *)

\* Mutants: the commit is not compared; a failed device is awaited.
PendingCommand(p) == {d \in Rows(p) : exec[d].state \in Open}
PendingFailure(p) ==
  {d \in Rows(p) : exec[d].state # "succeeded" \/ d \notin target}

Failed(p) == {d \in Rows(p) : exec[d].state \in Failure}
Pending(p) == {d \in Rows(p) \ Failed(p) :
                 \/ exec[d].state \in Open \/ exec[d].cmd = NoCommand
                 \/ d \notin target}
Unhealthy(p) == (Rows(p) \ (Failed(p) \cup Pending(p))) \ healthy

\* Whether these failures of phase p pause the deployment.
Breach(p, failures) ==
  /\ failures # {}
  /\ \/ p = 0 /\ Phased
     \/ Cardinality(failures) >= ThresholdCount
     \/ 100 * Cardinality(failures) >= ThresholdPercent * Cardinality(Rows(p))

GateWithoutHealth(p) == IF Breach(p, Failed(p)) THEN "paused"  \* mutant
                        ELSE IF Pending(p) # {} THEN "waiting" ELSE "ready"

Gate(p) == IF Breach(p, Failed(p)) THEN "paused"
           ELSE IF Pending(p) \cup Unhealthy(p) # {} THEN "waiting"
           ELSE "ready"

Dispatched == {Phase[d] : d \in {x \in Devices : exec[x].cmd # NoCommand}}
LaterButNext(p) == {q \in Phases : q > p + 1}  \* mutant: off by one
Later(p) == {q \in Phases : q > p}
Least(S) == {p \in S : \A q \in S : p <= q}
Greatest(S) == {p \in S : \A q \in S : p >= q}

-----------------------------------------------------------------------------
(* The manager's pass and the operators' requests, up to their first       *)
(* write.                                                                  *)

Become(t, r) == proc' = [proc EXCEPT ![t] = r]
At(pc) == [Idle EXCEPT !.pc = pc]

\* advance_rollout(), and the part of reconcile_deployment() before it.
Decide(t) ==
  \/ /\ Dispatched = {}
     /\ \E p \in Least(Phases) : Become(t, [At("dispatch") EXCEPT !.phase = p])
  \/ \E active \in Greatest(Dispatched) :
       \/ /\ Gate(active) = "paused"
          /\ Become(t, At("pause"))
       \/ /\ Gate(active) = "ready"
          /\ \E p \in Least(Later(active)) :
               Become(t, [At("dispatch") EXCEPT !.phase = p])
       \/ /\ Later(active) = {}
          /\ \A p \in Phases : Gate(p) = "ready"
          /\ Become(t, At("succeed"))

\* reconcile_deployment()
Pass ==
  /\ proc[Manager].pc = "idle"
  /\ dep \in {"queued", "running"}
  /\ Decide(Manager)
  /\ UNCHANGED <<controller, known, device, operator, fault>>

Ask(t, r) ==
  /\ r \in Requests
  /\ proc[t].pc = "idle"
  /\ requests < MaxRequests
  /\ requests' = requests + 1
  /\ asked' = asked \cup {r}
  /\ UNCHANGED <<controller, known, device, fault>>

Advance(t) == Ask(t, "advance") /\ Decide(t)

DispatchPhase(t, p) ==
  Ask(t, "dispatch") /\ Become(t, [At("dispatch") EXCEPT !.phase = p])

\* retry_failed()
Retry(t) ==
  /\ Ask(t, "retry")
  /\ dep \notin {"canceled", "succeeded"}
  /\ LET rows == {d \in Devices : exec[d].state \in Retryable}
     IN /\ rows # {}
        /\ Become(t, [At("create") EXCEPT !.todo = rows, !.retry = TRUE])

\* resume_deployment()
Resume(t) ==
  /\ Ask(t, "resume")
  /\ dep = "paused"
  /\ \A active \in Greatest(Dispatched) : Gate(active) # "paused"
  /\ Become(t, At("mark"))

\* cancel_remaining() lists the executions once.
Cancel(t) ==
  /\ Ask(t, "cancel")
  /\ dep # "succeeded"
  /\ Become(t, [At("cancel") EXCEPT !.todo = Devices, !.rows = exec])

-----------------------------------------------------------------------------
(* What follows, one transaction at a time.                                *)

\* dispatch_phase() looks at the deployment and lists the phase's rows.
List(t) ==
  /\ proc[t].pc = "dispatch"
  /\ IF dep \in Finished \cup {"paused"} THEN Become(t, Idle)
     ELSE LET rows == {d \in Rows(proc[t].phase) : exec[d].cmd = NoCommand}
          IN Become(t, [At(IF rows = {} THEN "mark" ELSE "create")
                          EXCEPT !.todo = rows])
  /\ UNCHANGED <<controller, known, device, operator, fault>>

\* create_command(), without its deduplication ...
StaleNumber(d) == Len(cmds[d]) + 2  \* mutant: not the command just created
NewNumber(d) == Len(cmds[d]) + 1

Create(t, d) ==
  /\ proc[t].pc = "create" /\ d \in proc[t].todo
  /\ cmds' = [cmds EXCEPT ![d] = Append(@, "queued")]
  /\ Become(t, [proc[t] EXCEPT !.pc = "link", !.dev = d, !.cmd = NewNumber(d)])
  /\ UNCHANGED <<dep, exec, known, syncs, device, operator, fault>>

\* ... and the execution's new command_id; a retry resets its state too.
Link(t) ==
  LET me == proc[t]
      rest == me.todo \ {me.dev}
  IN /\ me.pc = "link"
     /\ exec' = [exec EXCEPT ![me.dev] =
          [state |-> IF me.retry THEN "queued" ELSE @.state, cmd |-> me.cmd]]
     /\ Become(t, [At(IF rest = {} THEN "mark" ELSE "create")
                     EXCEPT !.todo = rest, !.retry = me.retry /\ rest # {}])
     /\ UNCHANGED <<dep, cmds, known, syncs, device, operator, fault>>

\* The last write of each request, whatever the deployment's state is now.
Final == [mark |-> "running", pause |-> "paused", succeed |-> "succeeded",
          cancel |-> "canceled"]

Finish(t) ==
  /\ proc[t].pc \in DOMAIN Final
  /\ proc[t].todo = {}
  /\ dep' = Final[proc[t].pc]
  /\ Become(t, Idle)
  /\ UNCHANGED <<exec, cmds, known, syncs, device, operator, fault>>

\* One listed row of cancel_remaining(): a command's state is read ...
CancelRow(t, d) ==
  LET row == proc[t].rows[d] IN
  /\ proc[t].pc = "cancel" /\ d \in proc[t].todo
  /\ IF row.cmd # NoCommand
       THEN /\ Become(t, IF cmds[d][row.cmd] \in Cancelable
                           THEN [proc[t] EXCEPT !.pc = "revoke", !.dev = d]
                           ELSE [proc[t] EXCEPT !.todo = @ \ {d}])
            /\ UNCHANGED exec
       ELSE /\ exec' = IF row.state \in Terminal THEN exec
                       ELSE [exec EXCEPT ![d].state = "canceled"]
            /\ Become(t, [proc[t] EXCEPT !.todo = @ \ {d}])
  /\ UNCHANGED <<dep, cmds, known, syncs, device, operator, fault>>

\* ... the command is canceled, unless it has moved on: then the request
\* fails here ...
Revoke(t) ==
  LET me == proc[t]
      i == me.rows[me.dev].cmd
  IN /\ me.pc = "revoke"
     /\ IF Lifecycle!CanAdvance(cmds[me.dev][i], "canceled")
          THEN /\ cmds' = [cmds EXCEPT ![me.dev][i] = "canceled"]
               /\ Become(t, [me EXCEPT !.pc = "strike"])
          ELSE /\ Become(t, Idle)
               /\ UNCHANGED cmds
     /\ UNCHANGED <<dep, exec, known, syncs, device, operator, fault>>

\* ... and its execution too.
Strike(t) ==
  LET me == proc[t] IN
  /\ me.pc = "strike"
  /\ exec' = [exec EXCEPT ![me.dev].state = "canceled"]
  /\ Become(t, [At("cancel") EXCEPT !.todo = me.todo \ {me.dev},
                                    !.rows = me.rows])
  /\ UNCHANGED <<dep, cmds, known, syncs, device, operator, fault>>

\* A thread ends where it stands: a restart, a full disk, a locked database.
Stop(t) ==
  /\ proc[t].pc # "idle"
  /\ Fault("stop")
  /\ stopped' = TRUE
  /\ Become(t, Idle)
  /\ UNCHANGED <<controller, known, device, operator>>

-----------------------------------------------------------------------------
(* The specification.                                                      *)

DeviceStep(d) ==
  \/ Poll(d) \/ ReachTarget(d) \/ Worsen(d) \/ Recover(d) \/ Forget(d)
  \/ \E i \in DOMAIN cmds[d] :
       \/ \E s \in {"running", "succeeded", "failed"} : Report(d, i, s)
       \/ SyncRead(d, i)
  \/ \E x \in syncs : x[1] = d /\ SyncWrite(d, x[2], x[3])

Request(t) == \/ Advance(t) \/ Retry(t) \/ Resume(t) \/ Cancel(t)
              \/ \E p \in Phases : DispatchPhase(t, p)

Continue(t) ==
  \/ List(t) \/ Link(t) \/ Revoke(t) \/ Strike(t) \/ Finish(t)
  \/ \E d \in Devices : Create(t, d) \/ CancelRow(t, d)

Next ==
  \/ \E d \in Devices : DeviceStep(d)
  \/ Pass
  \/ \E t \in Operators : Request(t)
  \/ \E t \in Threads : Continue(t) \/ Stop(t)

Spec == Init /\ [][Next]_vars

\* The manager and the operators' requests go on, devices poll, finish what
\* they were given, reach the target and recover, and every sync is written.
DeviceWork(d) ==
  \/ Poll(d) \/ ReachTarget(d) \/ Recover(d)
  \/ \E i \in DOMAIN cmds[d], s \in {"succeeded", "failed"} : Report(d, i, s)

Fairness ==
  /\ WF_vars(Pass)
  /\ \A t \in Threads : WF_vars(Continue(t))
  /\ WF_vars(\E d \in Devices : DeviceWork(d))
  /\ WF_vars(\E x \in syncs :
               cmds[x[1]][x[2]] # x[3] /\ SyncWrite(x[1], x[2], x[3]))
  /\ \A d \in Devices :
       /\ SF_vars(\E i \in DOMAIN cmds[d] : SyncRead(d, i))
       /\ WF_vars(\E x \in syncs : x[1] = d /\ SyncWrite(d, x[2], x[3]))

FairSpec == Spec /\ Fairness

-----------------------------------------------------------------------------
(* Properties.                                                             *)

States == {"queued", "delivered", "running", "succeeded", "failed",
           "timed_out", "canceled"}

Thread == [pc : {"idle", "dispatch", "create", "link", "revoke", "strike"}
                  \cup DOMAIN Final,
           phase : {0} \cup Phases, todo : SUBSET Devices, retry : BOOLEAN,
           dev : Devices \cup {NoDevice}, cmd : Nat,
           rows : {<<>>} \cup [Devices -> [state : States, cmd : Nat]]]

\* Every variable is of its type, and every reference to a command is to one
\* that exists.
TypeOK ==
  /\ dep \in {"queued", "running", "paused", "failed", "succeeded", "canceled"}
  /\ exec \in [Devices -> [state : States, cmd : Nat]]
  /\ cmds \in [Devices -> Seq(States)]
  /\ known \in [Devices -> SUBSET Nat]
  /\ \A d \in Devices : /\ known[d] \subseteq DOMAIN cmds[d]
                        /\ exec[d].cmd \in {NoCommand} \cup DOMAIN cmds[d]
  /\ \A x \in syncs : /\ x \in Devices \X Nat \X States
                      /\ x[2] \in DOMAIN cmds[x[1]]
  /\ proc \in [Threads -> Thread]
  /\ converged \subseteq target /\ target \cup healthy \subseteq Devices
  /\ asked \subseteq Requests
  /\ requests \in 0 .. MaxRequests
  /\ stopped \in BOOLEAN /\ faults \in 0 .. MaxFaults

\* Phase p may have been left behind: the devices of it that never had the
\* target commit and passed the health gate at once are few enough.
Passed(p) ==
  LET missing == Cardinality(Rows(p) \ converged) IN
  \/ missing = 0
  \/ /\ ~(Phased /\ p = 0)
     /\ missing < ThresholdCount
     /\ 100 * missing < ThresholdPercent * Cardinality(Rows(p))

\* A wave's device gets a command only after every earlier phase converged up
\* to the tolerated failures, in whatever order reports, passes, requests and
\* restarts came, unless an operator named a phase (phase_gate).
WaveAfterGate ==
  "dispatch" \notin asked =>
    \A d \in Devices : cmds[d] # <<>> => \A p \in Phases :
      p < Phase[d] => Passed(p)

\* The deployment succeeds only when every phase has converged up to the
\* tolerated failures; that all commands succeeded is not enough
\* (lghs-fleet-api:98-100).
SuccessIsConvergence == dep = "succeeded" => \A p \in Phases : Passed(p)

\* No open command of a device is out of the operator's sight: while no thread
\* was cut short, no two operators ask at once (two retries would each create
\* a command) and dispatching is left to the manager, each is the one its
\* execution names or is about to name.  In particular there is one open
\* update per device (dispatch_phase, retry_failed).
Untouched ==
  /\ ~stopped
  /\ asked \cap {"advance", "dispatch"} = {}
  /\ \A t, u \in Operators : t = u

OpenIsTracked ==
  Untouched => \A d \in Devices : \A i \in DOMAIN cmds[d] :
    cmds[d][i] \in Open =>
      \/ exec[d].cmd = i
      \/ \E t \in Threads : /\ proc[t].pc = "link"
                            /\ proc[t].dev = d /\ proc[t].cmd = i

\* What an execution says of how its command ended is true, however late the
\* sync that says so is written: so only what did fail is tried again.
EndIsTrue ==
  asked \cap {"advance", "dispatch"} = {} => \A d \in Devices :
    exec[d].state \in {"succeeded", "failed", "timed_out"} =>
      exec[d].cmd # NoCommand /\ cmds[d][exec[d].cmd] = exec[d].state

InProgress == dep \in {"queued", "running"}

\* A deployment that the manager drives ends or pauses: no order of polls,
\* reports, late syncs and passes leaves it waiting for ever, and failures
\* below the threshold do not (phase_gate, sync_deployment_execution).
Concludes == InProgress ~> ~InProgress
=============================================================================
