---------------------------- MODULE RolloutManager ----------------------------
(***************************************************************************)
(* When the rollout manager opens the next wave of a deployment: the soak  *)
(* time, which it keeps in a runtime record over many passes, and the      *)
(* maintenance windows of the wave's devices (controller/lghs/             *)
(* rollout_manager.py with maintenance.py), while the deployment is still  *)
(* being frozen, operators change policies and make requests, and health   *)
(* comes and goes.                                                         *)
(*                                                                         *)
(* Rollout models how executions and commands come to their states; here a *)
(* phase's gate just says so.  A pass takes no time: minutes go by between *)
(* passes, at least one to a minute (the manager's interval is two         *)
(* seconds).                                                               *)
(***************************************************************************)
EXTENDS MaintenanceWindow

CONSTANTS Devices,     \* numbered in the order of their names
          Phase,       \* the phase planned for each device
          Groups, GroupsOf,
          Policies,    \* the policies operators set
          FirstPolicies,  \* bound: the settings a behavior begins with
          Soak,        \* soak_seconds, in minutes
          MaxTrouble   \* bound: faults, regressions and operators' calls

Settings == Devices \cup Groups
Phases == {Phase[d] : d \in Devices}
Members(p) == {d \in Devices : Phase[d] = p}

ASSUME ManagerAssumption ==
  /\ IsFiniteSet(Devices) /\ Devices \subseteq Nat /\ Devices # {}
  /\ Phase \in [Devices -> Nat]
  /\ GroupsOf \in [Devices -> SUBSET Groups]
  /\ Devices \cap Groups = {}
  /\ \A p \in Policies : IsPolicy(p)
  /\ FirstPolicies \subseteq [Settings -> Policies \cup {NoPolicy}]
  /\ Soak \in Nat \ {0} /\ MaxTrouble \in Nat

VARIABLES
  now,        \* the minute of the week
  looked,     \* whether a pass began in this minute
  policy,     \* the settings rows of devices and groups
  state,      \* deployments.state
  freezing,   \* whether freeze_deployment() is still inserting executions
  rows,       \* devices whose execution is inserted
  commanded,  \* devices whose execution has a command
  work,       \* how the commands and devices of each phase are
  runtime,    \* the runtime record: phase, gates, minutes of soak left and
              \* whether the windows were closed
  proc,       \* the manager's pass and an operator's request
  calm,       \* history: minutes each phase was active and ready, up to Soak
  unseen,     \* history: phases that regressed without a pass seeing it
  early,      \* history: phases opened with the soak cut short
  open,       \* history: devices allowed at some moment of the pass
  disturbed,      \* history: whether an operator's call or a regression fell in the pass
  touched,    \* history: settings written during the pass
  outside,    \* history: devices commanded outside their windows
  late,       \* history: devices inserted when their phase had been read
  torn,       \* history: phases whose dispatch was cut short
  trouble

clock == <<now, looked>>
deployment == <<freezing, rows, commanded>>
soaks == <<calm, unseen, early>>
windows == <<open, touched, outside>>
dispatches == <<late, torn>>
history == <<soaks, disturbed, windows, dispatches>>
vars == <<clock, policy, state, deployment, work, runtime, proc, history, trouble>>

Manager == "manager"
Operator == "operator"
Threads == {Manager, Operator}
None == -1

\* left is None while ready_since is.
NoRuntime == [active |-> None, seen |-> [p \in Phases |-> "none"],
              left |-> None, waited |-> FALSE]
Idle == [pc |-> "idle", run |-> NoRuntime, active |-> None, next |-> None,
         phase |-> None, gate |-> "none", todo |-> {}, dev |-> {}, keys |-> {}, found |-> {},
         blocked |-> FALSE]

Init ==
  /\ now = 0 /\ looked = FALSE
  /\ policy \in FirstPolicies
  /\ state = "queued"
  /\ freezing = TRUE /\ rows = {} /\ commanded = {}
  /\ work = [p \in Phases |-> "busy"]
  /\ runtime = NoRuntime
  /\ proc = [t \in Threads |-> Idle]
  /\ calm = [p \in Phases |-> 0]
  /\ unseen = {} /\ early = {} /\ open = {} /\ touched = {} /\ disturbed = FALSE /\ outside = {}
  /\ late = {} /\ torn = {}
  /\ trouble = 0

Troubled == trouble < MaxTrouble /\ trouble' = trouble + 1

-----------------------------------------------------------------------------
(* What the code reads of the deployment.                                  *)

Inserted == {Phase[d] : d \in rows}
Dispatched == {Phase[d] : d \in commanded}
Least(S) == CHOOSE n \in S : \A m \in S : n <= m
Greatest(S) == CHOOSE n \in S : \A m \in S : m <= n

\* phase_gate(): a failure counts at once; a row without a command is pending,
\* and a device that is not healthy blocks.
Gate(p) ==
  CASE work[p] = "broken" -> "broken"
    [] work[p] = "ready" /\ rows \cap Members(p) \subseteq commanded -> "ready"
    [] OTHER -> "busy"

\* rollout_status()
Active == IF Dispatched = {} THEN None ELSE Greatest(Dispatched)
Later == {p \in Inserted : p > Active}
NextPhase ==
  IF Active = None THEN IF Inserted = {} THEN None ELSE Least(Inserted)
  ELSE IF Gate(Active) = "ready" /\ Later # {} THEN Least(Later) ELSE None

AllowedNow(settings) ==
  {d \in Devices :
     Allowed(Effective(settings[d], {settings[g] : g \in GroupsOf[d]}), now)}

\* Phases that were ready are no longer.
Unsettle(S, how) ==
  /\ work' = [p \in Phases |-> IF p \in S THEN how ELSE work[p]]
  /\ calm' = [p \in Phases |-> IF p \in S THEN 0 ELSE calm[p]]
  /\ unseen' = unseen \cup S

Goto(t, pc) == proc' = [proc EXCEPT ![t].pc = pc]
Done(t) == proc' = [proc EXCEPT ![t] = Idle]

-----------------------------------------------------------------------------
(* A pass: reconcile_deployment().                                         *)

Begin ==
  /\ proc[Manager].pc = "idle"
  /\ state \in {"queued", "running"}
  /\ proc' = [proc EXCEPT ![Manager] = [Idle EXCEPT !.pc = "status",
                                                    !.run = runtime]]
  /\ looked' = TRUE
  /\ open' = AllowedNow(policy) /\ touched' = {} /\ disturbed' = (proc[Operator].pc # "idle")
  /\ UNCHANGED <<now, policy, state, deployment, work, runtime, soaks,
                 outside, dispatches, trouble>>

\* rollout_status(), and where the pass goes from it.  A gate whose details
\* changed is recorded, be its state the same or not.
Status ==
  /\ proc[Manager].pc = "status"
  /\ LET gate == IF Active = None THEN "none" ELSE Gate(Active)
         seen == [proc[Manager] EXCEPT !.active = Active, !.gate = gate,
                                       !.next = NextPhase]
     IN \/ /\ Active = None /\ Inserted = {}
           /\ Done(Manager)
        \/ /\ Active = None /\ Inserted # {}
           /\ proc' = [proc EXCEPT ![Manager] =
                         [seen EXCEPT !.pc = "windows", !.phase = NextPhase,
                                      !.todo = rows \cap Members(NextPhase)]]
        \/ /\ Active # None
           /\ \/ proc' = [proc EXCEPT ![Manager] = [seen EXCEPT !.pc = "record"]]
              \/ /\ seen.run.seen[Active] = gate
                 /\ proc' = [proc EXCEPT ![Manager] = [seen EXCEPT !.pc = "decide"]]
  /\ UNCHANGED <<clock, policy, state, deployment, work, runtime, history,
                 trouble>>

\* _record_gate_transition(): the whole copy is saved with the new gate.
Record ==
  /\ proc[Manager].pc = "record"
  /\ LET m == proc[Manager]
         run == [m.run EXCEPT !.seen[m.active] = m.gate]
     IN /\ runtime' = run
        /\ proc' = [proc EXCEPT ![Manager].pc = "decide", ![Manager].run = run]
  /\ UNCHANGED <<clock, policy, state, deployment, work, history, trouble>>

KeepsSoak(run, active) == [run EXCEPT !.active = active, !.waited = FALSE]

\* _reset_soak()
Reset(run, active) ==
  [run EXCEPT !.active = active, !.left = None, !.waited = FALSE]

\* The gate failed: the deployment is paused, then the soak reset.
Pause ==
  LET m == proc[Manager] IN
  /\ m.pc = "decide" /\ m.gate = "broken"
  /\ state' = "paused"
  /\ proc' = [proc EXCEPT ![Manager].pc = "save",
                          ![Manager].run = Reset(@, m.active)]
  /\ UNCHANGED <<clock, policy, deployment, work, runtime, history, trouble>>

\* The gate waits: a soak that had begun is forgotten.
Wait ==
  LET m == proc[Manager] IN
  /\ m.pc = "decide" /\ m.gate = "busy"
  /\ runtime' = IF m.run.left # None \/ m.run.active # m.active
                  THEN Reset(m.run, m.active) ELSE runtime
  /\ unseen' = unseen \ {m.active}
  /\ Done(Manager)
  /\ UNCHANGED <<clock, policy, state, deployment, work, calm, early, disturbed,
                 windows, dispatches, trouble>>

OnlyWhileLeft(m) == m.run.active = m.active /\ m.run.left > 0

Soaking(m) == m.run.active = m.active /\ m.run.left # None

\* The gate is ready: the soak begins, goes on ...
StartSoak ==
  LET m == proc[Manager] IN
  /\ m.pc = "decide" /\ m.gate = "ready" /\ ~Soaking(m)
  /\ runtime' = [Reset(m.run, m.active) EXCEPT !.left = Soak]
  /\ Done(Manager)
  /\ UNCHANGED <<clock, policy, state, deployment, work, history, trouble>>

KeepSoaking ==
  LET m == proc[Manager] IN
  /\ m.pc = "decide" /\ m.gate = "ready" /\ Soaking(m) /\ m.run.left > 0
  /\ Done(Manager)
  /\ UNCHANGED <<clock, policy, state, deployment, work, runtime, history,
                 trouble>>

\* ... or is over: the windows of the next phase are looked at, if there is one.
EndSoak ==
  LET m == proc[Manager] IN
  /\ m.pc = "decide" /\ m.gate = "ready" /\ Soaking(m) /\ m.run.left = 0
  /\ proc' = [proc EXCEPT ![Manager].next = NextPhase,
                ![Manager].pc = IF NextPhase = None THEN "advance"
                                                    ELSE "windows",
                ![Manager].todo = rows \cap Members(NextPhase)]
  /\ UNCHANGED <<clock, policy, state, deployment, work, runtime, history,
                 trouble>>

\* phase_maintenance_gate(): device by device, its own policy ...
ReadOwn(d) ==
  LET m == proc[Manager] IN
  /\ m.pc = "windows" /\ m.dev = {}
  /\ d \in m.todo /\ d = Least(m.todo)
  /\ proc' = [proc EXCEPT ![Manager].dev = {d},
                ![Manager].todo = @ \ {d},
                ![Manager].found = {policy[d]},
                ![Manager].keys = IF policy[d] = NoPolicy THEN GroupsOf[d]
                                                          ELSE {}]
  /\ UNCHANGED <<clock, policy, state, deployment, work, runtime, history,
                 trouble>>

\* ... and, without one, those of its groups, each read by itself.
ReadGroup(g) ==
  LET m == proc[Manager] IN
  /\ m.pc = "windows" /\ m.dev # {} /\ g \in m.keys
  /\ proc' = [proc EXCEPT ![Manager].keys = @ \ {g},
                          ![Manager].found = @ \cup {policy[g]}]
  /\ UNCHANGED <<clock, policy, state, deployment, work, runtime, history,
                 trouble>>

LastDecides(m) == ~Allowed({p \in m.found : p.enabled}, now)

\* One device outside its windows holds the phase.
Blocked(m) == m.blocked \/ ~Allowed({p \in m.found : p.enabled}, now)

JudgeDevice ==
  LET m == proc[Manager] IN
  /\ m.pc = "windows" /\ m.dev # {} /\ m.keys = {}
  /\ proc' = [proc EXCEPT ![Manager].dev = {}, ![Manager].found = {},
                ![Manager].blocked = Blocked(m)]
  /\ UNCHANGED <<clock, policy, state, deployment, work, runtime, history,
                 trouble>>

\* _maintenance_wait(): a blocked phase waits, and the copy is saved; so it is
\* when the wait is over.  The first phase is dispatched without reading a gate.
WindowsClosed ==
  LET m == proc[Manager] IN
  /\ m.pc = "windows" /\ m.dev = {} /\ m.todo = {} /\ m.blocked
  /\ runtime' = [m.run EXCEPT !.waited = TRUE]
  /\ Done(Manager)
  /\ UNCHANGED <<clock, policy, state, deployment, work, history, trouble>>

WindowsOpen ==
  LET m == proc[Manager] IN
  /\ m.pc = "windows" /\ m.dev = {} /\ m.todo = {} /\ ~m.blocked
  /\ LET run == [m.run EXCEPT !.waited = FALSE]
     IN /\ runtime' = IF m.run.waited THEN run ELSE runtime
        /\ proc' = [proc EXCEPT ![Manager].run = run,
                      ![Manager].pc = IF m.active = None THEN "list" ELSE "advance"]
  /\ UNCHANGED <<clock, policy, state, deployment, work, history, trouble>>

-----------------------------------------------------------------------------
(* advance_rollout() and dispatch_phase(), by the manager or an operator.  *)

\* The gate is read again.
Advance(t) ==
  /\ proc[t].pc = "advance"
  /\ \/ /\ Active # None /\ Gate(Active) = "broken"
        /\ state' = "paused"
        /\ Goto(t, "save")
     \/ /\ Active # None /\ Gate(Active) = "busy"
        /\ Done(t) /\ UNCHANGED state
     \/ /\ Active # None => Gate(Active) = "ready"
        /\ NextPhase = None
        /\ state' = IF Active # None /\ \A p \in Inserted : Gate(p) = "ready"
                      THEN "succeeded" ELSE state
        /\ Goto(t, "save")
     \/ /\ Active # None => Gate(Active) = "ready"
        /\ NextPhase # None
        /\ proc' = [proc EXCEPT ![t].pc = "list", ![t].phase = NextPhase]
        /\ UNCHANGED state
  /\ UNCHANGED <<clock, policy, deployment, work, runtime, history, trouble>>

\* Two of the settings that decide for the device were written.
Moved(d) == \E k, l \in touched \cap ({d} \cup GroupsOf[d]) : k # l

PlannedOf(p) == Members(p) \ commanded

\* The rows of a phase that have no command.
Uncommanded(p) == (rows \cap Members(p)) \ commanded

\* dispatch_phase() refuses a deployment that is paused or has ended, and
\* lists the rows of the phase.
List(t) ==
  LET p == proc[t].phase
      todo == Uncommanded(p)
      hasty == t = Manager /\ ~disturbed /\ p \notin Dispatched
               /\ \E q \in Dispatched : q = Active /\ calm[q] < Soak
                                        /\ q \notin unseen
  IN
  /\ proc[t].pc = "list"
  /\ IF state \in {"paused", "succeeded"}
       THEN Done(t) /\ UNCHANGED <<early, outside>>
       ELSE /\ proc' = [proc EXCEPT ![t].pc = "dispatch", ![t].todo = todo]
            /\ early' = IF hasty THEN early \cup {p} ELSE early
            /\ outside' = IF t = Manager /\ ~disturbed
                            THEN outside \cup {d \in todo \ (open \cup late) : ~Moved(d)}
                            ELSE outside
  /\ UNCHANGED <<clock, policy, state, deployment, work, runtime, calm,
                 unseen, disturbed, open, touched, dispatches, trouble>>

\* One row after the other gets its command.  A device that another thread
\* commanded meanwhile gets a second one, which may disturb a finished phase.
Command(t, d) ==
  /\ proc[t].pc = "dispatch"
  /\ d \in proc[t].todo /\ d = Least(proc[t].todo)
  /\ commanded' = commanded \cup {d}
  /\ \/ d \in commanded /\ UNCHANGED <<work, calm, unseen>>
     \/ work[Phase[d]] # "ready" /\ UNCHANGED <<work, calm, unseen>>
     \/ work[Phase[d]] = "ready" /\ Unsettle({Phase[d]}, "busy")
  /\ proc' = [proc EXCEPT ![t].todo = @ \ {d}]
  /\ UNCHANGED <<clock, policy, state, freezing, rows, runtime, early,
                 disturbed, windows, dispatches, trouble>>

StopsAfterOne(t) ==
  /\ proc[t].pc = "dispatch"
  /\ state' = "running"
  /\ Goto(t, "save")
  /\ UNCHANGED <<clock, policy, deployment, work, runtime, history, trouble>>

Dispatch(t) ==
  /\ proc[t].pc = "dispatch" /\ proc[t].todo = {}
  /\ state' = "running"
  /\ Goto(t, "save")
  /\ UNCHANGED <<clock, policy, deployment, work, runtime, history, trouble>>

\* The manager begins anew with the phase it opened.
Save(t) ==
  /\ proc[t].pc = "save"
  /\ runtime' = IF t = Operator THEN runtime
                ELSE IF proc[t].next = None THEN proc[t].run
                ELSE Reset(proc[t].run, proc[t].next)
  /\ Done(t)
  /\ UNCHANGED <<clock, policy, state, deployment, work, history, trouble>>

-----------------------------------------------------------------------------
(* Operators.                                                              *)

\* set_device_policy(), set_group_policy(), and the two that clear one.
SetPolicy(k, p) ==
  /\ Troubled
  /\ policy[k] # p
  /\ policy' = [policy EXCEPT ![k] = p]
  /\ open' = open \cup AllowedNow(policy')
  /\ touched' = touched \cup {k}
  /\ UNCHANGED <<clock, state, deployment, work, runtime, proc, soaks, disturbed,
                 outside, dispatches>>

AskAdvance ==
  /\ proc[Operator].pc = "idle" /\ Troubled
  /\ Goto(Operator, "advance")
  /\ disturbed' = TRUE
  /\ UNCHANGED <<clock, policy, state, deployment, work, runtime, soaks,
                 windows, dispatches>>

\* retry_failed(): the failed executions of these phases begin again.
Retry(failed) ==
  /\ proc[Operator].pc = "idle" /\ Troubled
  /\ state # "succeeded"
  /\ failed # {} /\ failed \subseteq {p \in Dispatched : work[p] # "busy"}
  /\ {p \in Dispatched : work[p] = "broken"} \subseteq failed
  /\ Unsettle(failed, "busy")
  /\ state' = "running"
  /\ Goto(Operator, "reset")
  /\ disturbed' = TRUE
  /\ UNCHANGED <<clock, policy, deployment, runtime, early, windows,
                 dispatches>>

\* resume_deployment(): not bounded, for only a retry makes it possible.
Resume ==
  /\ proc[Operator].pc = "idle"
  /\ state = "paused"
  /\ Active # None => Gate(Active) # "broken"
  /\ state' = "running"
  /\ Goto(Operator, "reset")
  /\ disturbed' = TRUE
  /\ UNCHANGED <<clock, policy, deployment, work, runtime, soaks, windows,
                 dispatches, trouble>>

\* _reset_runtime(): load, change, save.
ResetLoad ==
  /\ proc[Operator].pc = "reset"
  /\ proc' = [proc EXCEPT ![Operator].pc = "resetsave",
                          ![Operator].run = [runtime EXCEPT !.left = None]]
  /\ UNCHANGED <<clock, policy, state, deployment, work, runtime, history,
                 trouble>>

ResetSave ==
  /\ proc[Operator].pc = "resetsave"
  /\ runtime' = proc[Operator].run
  /\ unseen' = IF proc[Manager].pc = "idle" THEN {} ELSE unseen
  /\ Done(Operator)
  /\ UNCHANGED <<clock, policy, state, deployment, work, calm, early, disturbed,
                 windows, dispatches, trouble>>

-----------------------------------------------------------------------------
(* The rest of the world.                                                  *)

\* freeze_deployment() inserts the executions phase by phase, one by one.
Insert(d) ==
  /\ freezing /\ d \notin rows
  /\ \A e \in Devices \ rows :
       Phase[d] < Phase[e] \/ (Phase[d] = Phase[e] /\ d <= e)
  /\ rows' = rows \cup {d}
  /\ freezing' = (rows' # Devices)
  /\ late' = IF Phase[d] \in Dispatched
                \/ \E t \in Threads : Phase[d] \in {proc[t].phase, proc[t].next}
               THEN late \cup {d} ELSE late
  /\ UNCHANGED <<clock, policy, state, commanded, work, runtime, proc, soaks,
                 disturbed, windows, torn, trouble>>

\* The thread that freezes the deployment stops.
StopFreeze ==
  /\ freezing /\ Troubled
  /\ freezing' = FALSE
  /\ UNCHANGED <<clock, policy, state, rows, commanded, work, runtime, proc,
                 history>>

\* The commands of a phase end, well or not, or its devices are healthy again.
Finish(p, result) ==
  /\ p \in Dispatched
  /\ work[p] = "busy" \/ (work[p] = "unwell" /\ result = "ready")
  /\ work' = [work EXCEPT ![p] = result]
  /\ UNCHANGED <<clock, policy, state, deployment, runtime, proc, history,
                 trouble>>

\* A device of a finished phase is no longer healthy.
Regress(p) ==
  /\ Troubled
  /\ work[p] = "ready"
  /\ Unsettle({p}, "unwell")
  /\ disturbed' = TRUE
  /\ UNCHANGED <<clock, policy, state, deployment, runtime, proc, early,
                 windows, dispatches>>

\* The manager's process or the API's thread stops within a call.
Die(t) ==
  /\ proc[t].pc # "idle"
  /\ Troubled
  /\ torn' = IF proc[t].pc = "dispatch" THEN torn \cup {proc[t].phase} ELSE torn
  /\ Done(t)
  /\ UNCHANGED <<clock, policy, state, deployment, work, runtime, soaks,
                 disturbed, windows, late>>

\* A minute passes.
Tick ==
  LET Down(run) == [run EXCEPT !.left = IF @ > 0 THEN @ - 1 ELSE @] IN
  /\ ~freezing /\ \A t \in Threads : proc[t].pc = "idle"
  /\ looked \/ state \notin {"queued", "running"}
  /\ now' = (now + 1) % Week
  /\ looked' = FALSE
  /\ runtime' = Down(runtime)
  /\ calm' = [p \in Phases |->
                IF p = Active /\ work[p] = "ready" /\ calm[p] < Soak
                THEN calm[p] + 1 ELSE calm[p]]
  /\ open' = {} /\ touched' = {} /\ disturbed' = FALSE
  /\ UNCHANGED <<policy, state, deployment, work, proc, unseen, early, outside,
                 dispatches, trouble>>

-----------------------------------------------------------------------------
Continue(t) ==
  \/ Advance(t) \/ List(t) \/ Dispatch(t) \/ Save(t)
  \/ \E d \in Devices : Command(t, d)

ManagerStep ==
  \/ Begin \/ Status \/ Record
  \/ Pause \/ Wait \/ StartSoak \/ KeepSoaking \/ EndSoak
  \/ \E d \in Devices : ReadOwn(d)
  \/ \E g \in Groups : ReadGroup(g)
  \/ JudgeDevice \/ WindowsClosed \/ WindowsOpen
  \/ Continue(Manager)

OperatorStep ==
  \/ AskAdvance \/ Resume
  \/ \E failed \in SUBSET Phases : Retry(failed)
  \/ ResetLoad \/ ResetSave
  \/ Continue(Operator)

Next ==
  \/ ManagerStep \/ OperatorStep
  \/ \E k \in Settings, p \in Policies \cup {NoPolicy} : SetPolicy(k, p)
  \/ StopFreeze \/ \E d \in Devices : Insert(d)
  \/ \E p \in Phases : \/ \E result \in {"ready", "broken"} : Finish(p, result)
                       \/ Regress(p)
  \/ \E t \in Threads : Die(t)
  \/ Tick

Spec == Init /\ [][Next]_vars

\* The manager's loop, time, the freeze, the commands and the operators' calls
\* once begun go on.  Between two passes time comes again and again.
Fairness ==
  /\ WF_vars(ManagerStep)
  /\ WF_vars(ResetLoad \/ ResetSave \/ Continue(Operator))
  /\ SF_vars(Tick)
  /\ \A d \in Devices : WF_vars(Insert(d))
  /\ \A p \in Phases : WF_vars(\E result \in {"ready", "broken"} : Finish(p, result))

FairSpec == Spec /\ Fairness

-----------------------------------------------------------------------------
(* Properties.                                                             *)

Runtimes == [active : Phases \cup {None},
             seen : [Phases -> {"none", "busy", "ready", "broken"}],
             left : None..Soak, waited : BOOLEAN]

Pcs == {"idle", "status", "record", "decide", "windows", "advance", "list",
        "dispatch", "save", "reset", "resetsave"}
Gates == {"none", "busy", "ready", "broken"}
Passes == [pc : Pcs, run : Runtimes, active : Phases \cup {None},
           next : Phases \cup {None}, phase : Phases \cup {None}, gate : Gates,
           todo : SUBSET Devices, dev : SUBSET Devices, keys : SUBSET Groups,
           found : SUBSET (Policies \cup {NoPolicy}), blocked : BOOLEAN]

\* Every variable keeps its type, and only inserted executions are commanded.
TypeOK ==
  /\ now \in 0..(Week - 1) /\ looked \in BOOLEAN
  /\ policy \in [Settings -> Policies \cup {NoPolicy}]
  /\ state \in {"queued", "running", "paused", "succeeded"}
  /\ freezing \in BOOLEAN
  /\ rows \subseteq Devices /\ commanded \subseteq rows
  /\ work \in [Phases -> {"busy", "ready", "unwell", "broken"}]
  /\ runtime \in Runtimes
  /\ proc \in [Threads -> Passes]
  /\ \A t \in Threads : proc[t].todo \subseteq rows
  /\ calm \in [Phases -> 0..Soak]
  /\ unseen \subseteq Phases /\ early \subseteq Phases /\ torn \subseteq Phases
  /\ open \subseteq Devices /\ outside \subseteq Devices /\ late \subseteq Devices
  /\ touched \subseteq Settings /\ disturbed \in BOOLEAN
  /\ trouble \in 0..MaxTrouble

\* The manager opens a wave only when the active phase's gate has been ready
\* for soak_seconds on end (reconcile_deployment(), and in the hardware
\* validation "Health regression during soak resets the soak timer").  The
\* promise is the manager's own: an operator who advances by hand does not
\* wait.  It is not kept for a phase whose regression or retry no pass has
\* seen, whose retry was forgotten because a pass saved its older copy of the
\* runtime record over it, or that regresses during the very pass.
NextAfterSoak == early = {}

\* A device the manager commands was inside its maintenance windows at some
\* moment of the pass: by its own policy, or else by all of its groups'
\* (phase_maintenance_gate()).  The exceptions: two of the settings that
\* decide for the device were written during the pass, which reads them one
\* by one; its execution was inserted after the pass had looked at the phase;
\* an operator's request or a regression in the pass made it dispatch another
\* phase than the one it had looked at.
InWindow == outside = {}

\* A phase is dispatched whole: once nobody is dispatching, a device of a
\* dispatched phase lacks a command only if its execution was inserted when
\* the phase had been read already, or if a dispatch was cut short
\* (dispatch_phase() against freeze_deployment() and crashes).
DispatchedWhole ==
  (\A t \in Threads : proc[t].pc # "dispatch") =>
     \A d \in rows \ commanded :
       Phase[d] \in Dispatched => d \in late \/ Phase[d] \in torn

\* Whatever the minute, a window is open exactly if it began on one of its
\* days and has not come to its end since, also across midnight and from the
\* last day of the week to the first (_policy_open()).
WindowsMeanCovered == now \notin Mistaken

\* Whatever the minute, the time reported for a blocked phase (next_open_at of
\* phase_maintenance_gate()) is the first by which every blocked device has
\* had an opening, so the phase cannot be allowed earlier; and none is reported
\* exactly when a device never has one.  It may still be too early: a window
\* that opened first may have closed again by then.
ReportedOpening == now \notin Misreported

\* The manager brings every deployment to an end or to an operator: it is at
\* last paused or succeeded for good.  Otherwise no execution was ever
\* inserted, or a phase was dispatched in part, which its gate waits for for
\* ever, or a phase already left has failed, which no pass looks at.
Concludes ==
  <>[](\/ state \in {"paused", "succeeded"}
       \/ rows = {} \/ late # {} \/ torn # {}
       \/ \E p \in Phases : p < Active /\ Gate(p) = "broken")
=============================================================================
