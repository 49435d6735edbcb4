---------------------------- MODULE RebootSchedule ----------------------------
(***************************************************************************)
(* One reboot schedule from the operator to the devices:                   *)
(* controller/lghs/maintenance.py creates, cancels and reconciles it, the  *)
(* rollout manager calls the last every two seconds and the API's threads  *)
(* call all three; student/lghs-command-executor arms the reboot.          *)
(*                                                                         *)
(* A schedule is one row of the settings table.  Every call loads the row, *)
(* works through the devices in transactions of their own, and writes the  *)
(* whole row back at its end, without looking at what others wrote.        *)
(***************************************************************************)
EXTENDS Integers, Sequences

CONSTANTS Devices,      \* numbered in the order of their names
          Callers,      \* threads that may work on the schedule
          Manager,      \* the one of the rollout manager
          MaxCommands,  \* bound: reboot commands per device
          MaxBoots,     \* bound: boots of a device
          MaxTrouble    \* bound: faults, and calls of the other threads

ASSUME RebootAssumption ==
  /\ Devices \subseteq Nat
  /\ Manager \in Callers
  /\ MaxCommands \in Nat /\ MaxBoots \in Nat \ {0} /\ MaxTrouble \in Nat

VARIABLES
  \* the controller
  sched,     \* the schedule as saved
  cmds,      \* the reboot commands of each device, oldest first
  call,      \* what each thread is doing, with the schedule it loaded
  due,       \* the time, or the maintenance window, allows a dispatch
  expected,  \* <<device, boot>> with an expected_reboot lifecycle record
  reported,  \* the boot in each device's row
  \* the devices
  boot,      \* the boot a device is in
  delayed,   \* a boot whose last report is still on its way, 0 when none
  inbox,     \* commands the agent is to pass on to the executor
  armed,     \* the transient timers of systemd-run
  marker,    \* reboot-pending.json: its command and boot
  seen,      \* executor-seen.json
  \* history and bounds
  reboots,   \* how often a command rebooted its device
  torn,      \* <<device, command>> whose timer fired before seen had the command
  raced,     \* devices whose row was overwritten, or never saved
  slipped,   \* devices whose command was delivered while being revoked
  misled,    \* devices dispatched on, or judged by, the boot of an old report
  trouble    \* faults and other threads' calls so far

controller == <<sched, cmds, call, due, expected, reported>>
devices == <<boot, delayed, inbox, armed, marker, seen>>
history == <<reboots, torn, raced, slipped, misled>>
vars == <<controller, devices, history, trouble>>

Terminal == {"succeeded", "failed", "canceled"}
RowStates == {"queued", "dispatched", "reboot_pending"} \cup Terminal
ScheduleStates == {"absent", "queued", "running", "canceling"} \cup Terminal

\* The command's states as the schedule tells them apart: "delivered" stands
\* for received, "accepted" for running, "failed" for timed out and rejected.
CommandTerminal == {"succeeded", "failed", "canceled"}
CommandStates == {"queued", "delivered", "accepted"} \cup CommandTerminal
FailedCommand == {"failed", "canceled"}

Boots == 1..MaxBoots
Numbers == 1..MaxCommands

\* The rows of the commands table, as the protocol sees them.
CommandRows ==
  [c \in Devices \X Numbers |->
     IF c[2] \in DOMAIN cmds[c[1]] THEN cmds[c[1]][c[2]].state ELSE "absent"]

Lifecycle == INSTANCE CommandLifecycle
  WITH Commands <- Devices \X Numbers, db <- CommandRows

Rows == [state : RowStates, before : Boots, cmd : 0..MaxCommands]
Schedules == [state : ScheduleStates, rows : [Devices -> Rows]]

NoSchedule ==
  [state |-> "absent",
   rows |-> [d \in Devices |-> [state |-> "queued", before |-> 1, cmd |-> 0]]]

\* A thread at rest, or in a call: the schedule as loaded and as edited, the
\* devices still to visit, and the device it is writing for.
Idle == [pc |-> "idle", op |-> "none", base |-> NoSchedule,
         copy |-> NoSchedule, todo |-> {}, dev |-> {}, due |-> FALSE]
NoMarker == [cmd |-> 0, boot |-> 0]

Init ==
  /\ sched = NoSchedule
  /\ cmds = [d \in Devices |-> <<>>]
  /\ call = [t \in Callers |-> Idle]
  /\ due = FALSE
  /\ expected = {}
  /\ reported = [d \in Devices |-> 1]
  /\ boot = [d \in Devices |-> 1]
  /\ delayed = [d \in Devices |-> 0]
  /\ inbox = [d \in Devices |-> {}]
  /\ armed = [d \in Devices |-> {}]
  /\ marker = [d \in Devices |-> NoMarker]
  /\ seen = [d \in Devices |-> {}]
  /\ reboots = [d \in Devices |-> [i \in Numbers |-> 0]]
  /\ torn = {}
  /\ raced = {}
  /\ slipped = {}
  /\ misled = {}
  /\ trouble = 0

\* A fault, or a call by a thread other than the manager's.
Troubled == trouble < MaxTrouble /\ trouble' = trouble + 1

-----------------------------------------------------------------------------
(* The controller's threads.                                               *)

\* create_reboot_schedule(): one row, written once.
Create ==
  /\ sched.state = "absent"
  /\ sched' = [state |-> "queued",
               rows |-> [d \in Devices |-> [state |-> "queued",
                                            before |-> reported[d],
                                            cmd |-> 0]]]
  /\ UNCHANGED <<cmds, call, due, expected, reported, devices,
                 history, trouble>>

\* The call's first read.  A schedule that has ended is left alone.
Load(t, op) ==
  /\ call[t].pc = "idle"
  /\ sched.state \notin Terminal \cup {"absent"}
  /\ IF t = Manager
       THEN op = "reconcile" /\ UNCHANGED trouble
       ELSE Troubled
  /\ call' = [call EXCEPT ![t] =
                [pc |-> "loop", op |-> op, base |-> sched, copy |-> sched,
                 todo |-> {d \in Devices :
                             sched.rows[d].state \notin Terminal},
                 dev |-> {}, due |-> due]]
  /\ UNCHANGED <<sched, cmds, due, expected, reported, devices,
                 history>>

\* The next device in the loop of a call, which follows the saved order.
Visits(t, op, d) ==
  /\ call[t].pc = "loop"
  /\ call[t].op = op
  /\ d \in call[t].todo /\ \A e \in call[t].todo : d <= e

RowOf(t, d) == call[t].copy.rows[d]
StateOf(d, i) == cmds[d][i].state

\* The thread has finished with device d, whose row is now r.
Visited(t, d, r) ==
  call' = [call EXCEPT ![t].pc = "loop", ![t].copy.rows[d] = r,
                       ![t].todo = @ \ {d}, ![t].dev = {}]

\* The thread goes on to write for device d.
Writes(t, d, pc) == call' = [call EXCEPT ![t].pc = pc, ![t].dev = {d}]

Rebooted(d, r) == reported[d] # r.before

AcceptedIsSuccess(d, r, late) ==
  LET s == StateOf(d, r.cmd) IN
  CASE Rebooted(d, r) \/ s = "accepted" -> [r EXCEPT !.state = "succeeded"]
    [] ~Rebooted(d, r) /\ s # "accepted" /\ (s \in FailedCommand \/ late)
         -> [r EXCEPT !.state = "failed"]
    [] OTHER -> r

NeverLate(d, r, late) ==
  LET s == StateOf(d, r.cmd) IN
  CASE Rebooted(d, r) -> [r EXCEPT !.state = "succeeded"]
    [] ~Rebooted(d, r) /\ s \in FailedCommand -> [r EXCEPT !.state = "failed"]
    [] OTHER -> [r EXCEPT !.state =
                   IF s = "accepted" THEN "reboot_pending" ELSE @]

\* The row of a dispatched device, from its boot, its command and whether
\* verify_timeout_seconds have passed.
Judged(d, r, late) ==
  LET s == StateOf(d, r.cmd) IN
  CASE Rebooted(d, r) -> [r EXCEPT !.state = "succeeded"]
    [] ~Rebooted(d, r) /\ (s \in FailedCommand \/ late)
         -> [r EXCEPT !.state = "failed"]
    [] OTHER -> [r EXCEPT !.state =
                   IF s = "accepted" THEN "reboot_pending" ELSE @]

\* reconcile_reboot_schedule(), a device that has its command.  A new boot
\* completes the command, unless it has ended otherwise.
Examine(t, d, late) ==
  /\ Visits(t, "reconcile", d)
  /\ RowOf(t, d).cmd # 0
  /\ LET r == RowOf(t, d)
         i == r.cmd
     IN /\ Visited(t, d, Judged(d, r, late))
        /\ cmds' = IF Rebooted(d, r) /\ StateOf(d, i) \notin CommandTerminal
                     THEN [cmds EXCEPT ![d][i].state = "succeeded"]
                     ELSE cmds
  /\ UNCHANGED <<sched, due, expected, reported, devices, history,
                 trouble>>

\* Nothing to do yet for a device without a command.
Wait(t, d) ==
  /\ Visits(t, "reconcile", d)
  /\ RowOf(t, d).cmd = 0
  /\ call[t].base.state = "canceling" \/ ~call[t].due
  /\ Visited(t, d, RowOf(t, d))
  /\ UNCHANGED <<sched, cmds, due, expected, reported, devices,
                 history, trouble>>

AnnouncesFirstBoot(t, d) ==
  /\ Visits(t, "reconcile", d)
  /\ RowOf(t, d).cmd = 0
  /\ call[t].base.state # "canceling" /\ call[t].due
  /\ Len(cmds[d]) < MaxCommands
  /\ expected' = expected \cup {<<d, RowOf(t, d).before>>}
  /\ call' = [call EXCEPT ![t].pc = "dispatch", ![t].dev = {d},
                          ![t].copy.rows[d].before = reported[d]]
  /\ UNCHANGED <<sched, cmds, due, reported, devices, history, trouble>>

\* The boot to compare with is read, the reboot is announced ...
Announce(t, d) ==
  /\ Visits(t, "reconcile", d)
  /\ RowOf(t, d).cmd = 0
  /\ call[t].base.state # "canceling" /\ call[t].due
  /\ Len(cmds[d]) < MaxCommands
  /\ expected' = expected \cup {<<d, reported[d]>>}
  /\ call' = [call EXCEPT ![t].pc = "dispatch", ![t].dev = {d},
                          ![t].copy.rows[d].before = reported[d]]
  /\ UNCHANGED <<sched, cmds, due, reported, devices, history,
                 trouble>>

\* ... and _dispatch_reboot() creates the command.
Dispatch(t, d) ==
  /\ call[t].pc = "dispatch" /\ d \in call[t].dev
  /\ Len(cmds[d]) < MaxCommands
  /\ LET r == RowOf(t, d) IN
     /\ cmds' = [cmds EXCEPT ![d] =
                   Append(@, [state |-> "queued", at |-> boot[d]])]
     /\ Visited(t, d, [r EXCEPT !.state = "dispatched",
                                !.cmd = Len(cmds[d]) + 1])
     /\ misled' = IF r.before = boot[d] THEN misled ELSE misled \cup {d}
  /\ UNCHANGED <<sched, due, expected, reported, devices, reboots,
                 torn, raced, slipped, trouble>>

CancelsDelivered(t, d) ==
  /\ Visits(t, "cancel", d)
  /\ LET r == RowOf(t, d) IN
     IF r.cmd # 0 /\ StateOf(d, r.cmd) = "queued"
       THEN Writes(t, d, "revoke")
       ELSE Visited(t, d, [r EXCEPT !.state = "canceled"])
  /\ UNCHANGED <<sched, cmds, due, expected, reported, devices,
                 history, trouble>>

\* cancel_reboot_schedule(): a device without a command is canceled, one
\* whose command is no longer queued continues ...
CancelRow(t, d) ==
  /\ Visits(t, "cancel", d)
  /\ LET r == RowOf(t, d) IN
     \/ /\ r.cmd = 0
        /\ Visited(t, d, [r EXCEPT !.state = "canceled"])
     \/ /\ r.cmd # 0 /\ StateOf(d, r.cmd) # "queued"
        /\ Visited(t, d, r)
     \/ /\ r.cmd # 0 /\ StateOf(d, r.cmd) = "queued"
        /\ Writes(t, d, "revoke")
  /\ UNCHANGED <<sched, cmds, due, expected, reported, devices,
                 history, trouble>>

\* ... and a queued command is canceled in a second transaction, which a
\* command that has ended meanwhile refuses: the call fails, unsaved.
Revoke(t, d) ==
  /\ call[t].pc = "revoke" /\ d \in call[t].dev
  /\ LET r == RowOf(t, d)
         s == StateOf(d, r.cmd)
     IN IF s \in CommandTerminal \ {"canceled"}
          THEN /\ call' = [call EXCEPT ![t] = Idle]
               /\ UNCHANGED <<cmds, slipped>>
          ELSE /\ cmds' = [cmds EXCEPT ![d][r.cmd].state = "canceled"]
               /\ Visited(t, d, [r EXCEPT !.state = "canceled"])
               /\ slipped' = IF s \in {"delivered", "accepted"}
                               THEN slipped \cup {d} ELSE slipped
  /\ UNCHANGED <<sched, due, expected, reported, devices, reboots,
                 torn, raced, misled, trouble>>

StateOfRows(op, base, rows) ==
  LET states == {rows[d].state : d \in Devices} IN
  IF op = "cancel" THEN "canceling"
  ELSE IF \E s \in RowStates : states = {s}
         THEN CHOOSE s \in RowStates : states = {s}
         ELSE base.state

\* The schedule's own state at the end of a call.
Concluded(op, base, rows) ==
  LET states == {rows[d].state : d \in Devices} IN
  IF op = "cancel"
    THEN IF states \subseteq Terminal THEN "canceled" ELSE "canceling"
    ELSE IF states = {"succeeded"} THEN "succeeded"
    ELSE IF states \subseteq Terminal /\ base.state = "canceling" THEN "canceled"
    ELSE IF states \subseteq Terminal /\ "failed" \in states THEN "failed"
    ELSE IF states \cap {"dispatched", "reboot_pending"} # {}
            /\ base.state # "canceling" THEN "running"
    ELSE base.state

ChangedState(c, s) == c.op = "cancel" \/ s \in Terminal

\* A cancellation always writes, a reconciliation when it changed something.
Changed(c, s) ==
  c.op = "cancel" \/ c.copy.rows # c.base.rows \/ s \in Terminal

\* The whole row is written back.
Save(t) ==
  /\ call[t].pc = "loop" /\ call[t].todo = {}
  /\ LET c == call[t]
         s == Concluded(c.op, c.base, c.copy.rows)
         changed == Changed(c, s)
     IN /\ sched' = IF changed THEN [c.copy EXCEPT !.state = s] ELSE sched
        /\ raced' = IF changed
                      THEN raced \cup {d \in Devices :
                                         sched.rows[d] # c.base.rows[d]}
                      ELSE raced
  /\ call' = [call EXCEPT ![t] = Idle]
  /\ UNCHANGED <<cmds, due, expected, reported, devices, reboots,
                 torn, slipped, misled, trouble>>

\* The thread's process ends, or a write fails, in the middle of a call.
Die(t) ==
  /\ call[t].pc # "idle"
  /\ Troubled
  /\ raced' = raced \cup {d \in Devices :
                            RowOf(t, d).cmd # call[t].base.rows[d].cmd}
  /\ call' = [call EXCEPT ![t] = Idle]
  /\ UNCHANGED <<sched, cmds, due, expected, reported, devices,
                 reboots, torn, slipped, misled>>

\* scheduled_at passes, or a maintenance window opens.  Its closing would only
\* make a device wait again.
Window ==
  /\ ~due
  /\ due' = TRUE
  /\ UNCHANGED <<sched, cmds, call, expected, reported, devices,
                 history, trouble>>

-----------------------------------------------------------------------------
(* Reports and deliveries.                                                 *)

\* record_telemetry(): the sequence number protects only against older
\* reports of the same boot.
Report(d, b) ==
  /\ b \in {boot[d], delayed[d]}
  /\ reported' = [reported EXCEPT ![d] = b]
  /\ delayed' = IF b = boot[d] THEN delayed ELSE [delayed EXCEPT ![d] = 0]
  /\ misled' = IF b < reported[d] THEN misled \cup {d} ELSE misled
  /\ UNCHANGED <<sched, cmds, call, due, expected, boot, inbox,
                 armed, marker, seen, reboots, torn, raced, slipped,
                 trouble>>

HandsOutOpen(d, late) ==
  {i \in DOMAIN cmds[d] : StateOf(d, i) \notin CommandTerminal} \ late

\* What a poll hands out, with the deadline of the commands in late passed.
HandedOut(d, late) ==
  {i \in DOMAIN cmds[d] : StateOf(d, i) \in {"queued", "delivered"}} \ late

AfterPoll(d, late) ==
  [i \in DOMAIN cmds[d] |->
     [cmds[d][i] EXCEPT !.state =
        IF i \in late THEN "failed"
        ELSE IF i \in HandedOut(d, late) THEN "delivered" ELSE @]]

\* commands_for_delivery().  An answer that is lost stays in the inbox for ever.
Poll(d, late) ==
  /\ late \subseteq {i \in DOMAIN cmds[d] :
                       StateOf(d, i) \notin CommandTerminal}
  /\ late \cup HandedOut(d, late) # {}
  /\ cmds' = [cmds EXCEPT ![d] = AfterPoll(d, late)]
  /\ inbox' = [inbox EXCEPT ![d] = @ \cup HandedOut(d, late)]
  /\ UNCHANGED <<sched, call, due, expected, reported, boot,
                 delayed, armed, marker, seen, history, trouble>>

\* A report says that the device accepted the command.
ReportAccepted(d, i) ==
  /\ i \in seen[d] /\ StateOf(d, i) = "delivered"
  /\ cmds' = [cmds EXCEPT ![d][i].state = "accepted"]
  /\ UNCHANGED <<sched, call, due, expected, reported, devices,
                 history, trouble>>

-----------------------------------------------------------------------------
(* The device.                                                             *)

OnlyMarked(d, i) == marker[d].cmd = i

\* What handle() takes for a repeated request.
AlreadyAccepted(d, i) == i \in seen[d] \/ marker[d].cmd = i

\* handle(): what was accepted before is accepted again, without arming.
ExecKnown(d, i) ==
  /\ i \in inbox[d] /\ AlreadyAccepted(d, i)
  /\ seen' = [seen EXCEPT ![d] = @ \cup {i}]
  /\ inbox' = [inbox EXCEPT ![d] = @ \ {i}]
  /\ UNCHANGED <<controller, boot, delayed, armed, marker, history, trouble>>

\* A new command: the timer is started, the marker written, the command
\* recorded as seen.  The executor may be killed, or systemd-run time out,
\* after any of the three.  The unit's name is made from the command's id:
\* while a timer exists, systemd-run refuses a second one and nothing happens.
ExecArm(d, i, last) ==
  /\ i \in inbox[d] \ armed[d] /\ ~AlreadyAccepted(d, i)
  /\ inbox' = [inbox EXCEPT ![d] = @ \ {i}]
  /\ armed' = [armed EXCEPT ![d] = @ \cup {i}]
  /\ marker' = IF last = "armed" THEN marker
               ELSE [marker EXCEPT ![d] = [cmd |-> i, boot |-> boot[d]]]
  /\ IF last = "seen"
       THEN /\ seen' = [seen EXCEPT ![d] = @ \cup {i}]
            /\ UNCHANGED trouble
       ELSE /\ Troubled
            /\ UNCHANGED seen
  /\ UNCHANGED <<controller, boot, delayed, history>>

\* reboot_status() removes the marker of an earlier boot.
Unmark(d) ==
  /\ marker[d].cmd # 0 /\ marker[d].boot # boot[d]
  /\ marker' = [marker EXCEPT ![d] = NoMarker]
  /\ UNCHANGED <<controller, boot, delayed, inbox, armed, seen, history,
                 trouble>>

\* A new boot: timers and the agent's rows are gone.
Restart(d) ==
  /\ boot[d] < MaxBoots
  /\ boot' = [boot EXCEPT ![d] = @ + 1]
  /\ inbox' = [inbox EXCEPT ![d] = {}]
  /\ armed' = [armed EXCEPT ![d] = {}]
  /\ UNCHANGED <<controller, marker, seen, raced, slipped, misled>>

\* The old boot's last report may be on its way for longer than the boot.
TimerFires(d, i) ==
  /\ i \in armed[d]
  /\ Restart(d)
  /\ reboots' = [reboots EXCEPT ![d][i] = @ + 1]
  /\ torn' = IF i \in seen[d] THEN torn ELSE torn \cup {<<d, i>>}
  /\ \/ UNCHANGED <<delayed, trouble>>
     \/ /\ Troubled
        /\ delayed' = [delayed EXCEPT ![d] = boot[d]]

PowerCut(d) ==
  /\ Troubled
  /\ Restart(d)
  /\ UNCHANGED <<delayed, reboots, torn>>

-----------------------------------------------------------------------------
(* The specification.                                                      *)

\* The steps of a call once begun.
Continue(t) ==
  \/ \E d \in Devices :
       \/ Wait(t, d) \/ Announce(t, d) \/ Dispatch(t, d)
       \/ CancelRow(t, d) \/ Revoke(t, d)
       \/ \E late \in BOOLEAN : Examine(t, d, late)
  \/ Save(t)

ThreadStep(t) ==
  \/ \E op \in {"reconcile", "cancel"} : Load(t, op)
  \/ Continue(t)
  \/ Die(t)

Delivery(d) ==
  \/ \E b \in Boots : Report(d, b)
  \/ \E late \in SUBSET Numbers : Poll(d, late)
  \/ \E i \in Numbers : ReportAccepted(d, i)

DeviceStep(d) ==
  \/ \E i \in Numbers :
       \/ ExecKnown(d, i) \/ TimerFires(d, i)
       \/ \E last \in {"armed", "marked", "seen"} : ExecArm(d, i, last)
  \/ Unmark(d) \/ PowerCut(d)

Next ==
  \/ Create
  \/ \E t \in Callers : ThreadStep(t)
  \/ \E d \in Devices : Delivery(d) \/ DeviceStep(d)
  \/ Window

Spec == Init /\ [][Next]_vars

\* The manager's loop goes on, the schedule is created, the hour comes, and
\* the manager looks again after verify_timeout_seconds.  Nothing is assumed
\* of the devices, the network, the operators or the API's threads.
Fairness ==
  /\ WF_vars(Create \/ Window)
  /\ WF_vars(Load(Manager, "reconcile") \/ Continue(Manager))
  /\ \A d \in Devices : SF_vars(Examine(Manager, d, TRUE))

FairSpec == Spec /\ Fairness

-----------------------------------------------------------------------------
(* Properties.                                                             *)

Calls == [pc : {"idle", "loop", "dispatch", "revoke"},
          op : {"none", "reconcile", "cancel"},
          base : Schedules, copy : Schedules, todo : SUBSET Devices,
          dev : SUBSET Devices, due : BOOLEAN]

\* Every variable keeps its type.
TypeOK ==
  /\ sched \in Schedules
  /\ cmds \in [Devices -> Seq([state : CommandStates, at : Boots])]
  /\ \A d \in Devices : Len(cmds[d]) <= MaxCommands
  /\ call \in [Callers -> Calls]
  /\ due \in BOOLEAN
  /\ expected \subseteq Devices \X Boots
  /\ reported \in [Devices -> Boots] /\ boot \in [Devices -> Boots]
  /\ delayed \in [Devices -> 0..MaxBoots]
  /\ inbox \in [Devices -> SUBSET Numbers]
  /\ armed \in [Devices -> SUBSET Numbers]
  /\ marker \in [Devices -> [cmd : 0..MaxCommands, boot : 0..MaxBoots]]
  /\ seen \in [Devices -> SUBSET Numbers]
  /\ reboots \in [Devices -> [Numbers -> Nat]]
  /\ torn \subseteq Devices \X Numbers
  /\ raced \subseteq Devices /\ slipped \subseteq Devices
  /\ misled \subseteq Devices
  /\ trouble \in 0..MaxTrouble

\* A delivery may be repeated, the executor killed and the device restarted:
\* a command reboots its device a second time only if the first reboot came
\* before executor-seen.json had the command.  For that the request must be cut
\* off after arming the timer (with the marker written or not: reboot_status()
\* removes it after the boot) and no repeated one be answered from the marker
\* before the timer fires (lghs-command-executor, handle()).
OneRebootPerCommand ==
  \A d \in Devices, i \in Numbers :
    reboots[d][i] > 1 => <<d, i>> \in torn

Quiet == \A t \in Callers : call[t].pc = "idle"

\* A schedule dispatches one command to a device, by however many calls it is
\* reconciled.  Only a lost row leads to a second: one written over by a
\* thread that loaded it earlier, or never saved (reconcile and cancel work on
\* a snapshot).
SecondNeedsLostRow ==
  Quiet => \A d \in Devices \ raced : Len(cmds[d]) <= 1

\* A device reported as canceled is not rebooted, now or later.  The two
\* exceptions are a lost row and a command handed to the device between
\* get_command and transition_command of cancel_reboot_schedule().
CanceledNeverReboots ==
  Quiet => \A d \in Devices \ (raced \cup slipped) :
    sched.rows[d].state = "canceled"
      => \A i \in DOMAIN cmds[d] : reboots[d][i] = 0 /\ i \notin armed[d]

\* A reboot that the schedule calls verified took place after the command was
\* created, if the reports it went by were those of the device's last boot.
SucceededWasRebooted ==
  \A d \in Devices \ misled :
    LET r == sched.rows[d] IN
    r.state = "succeeded" => boot[d] > cmds[d][r.cmd].at

\* The same without a condition, as the validation plan and the test of a
\* natural reboot before dispatch have it.
SuccessIsPostDispatch ==
  \A d \in Devices :
    LET r == sched.rows[d] IN
    r.state = "succeeded" => boot[d] > cmds[d][r.cmd].at

\* The fleet is told of a reboot before it is commanded: for every command in
\* a row there is an expected_reboot record with the boot it is judged by.
AnnouncedFirst ==
  \A d \in Devices :
    sched.rows[d].cmd # 0 => <<d, sched.rows[d].before>> \in expected

\* Polls, reports, the verification of a reboot and its cancellation, whose
\* writers each read before they write, only ever advance a command, and one
\* that has ended stays as it ended (transition_command()).
KeepsLifecycle == Lifecycle!Spec

\* Whatever devices, network and other threads do, a schedule ends and stays
\* ended: no overwritten row brings it back for ever, and no unreachable
\* device keeps it open.
Ended == <>[](sched.state \in Terminal)
=============================================================================
