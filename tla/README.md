# LGHS fleet: TLA+ models, model checking and proofs

LGHS manages a classroom of Raspberry Pi computers ("students") from one
controller.  This directory holds TLA+ specifications of the parts where
processes, messages and power cuts interleave, the TLC configurations that
model-check them, and TLAPS proofs of the most important theorems.

    tlc -workers 2 -config CommandPlane_faults.cfg MCCommandPlane.tla
    tlapm NetQueue_proofs.tla

## 1. The system

### Components, their state and their operations

| component | code | state | operations |
|---|---|---|---|
| command states | `controller/lghs/protocol.py` | – | order of the states, `state_can_advance` |
| command store | `controller/lghs/database.py` | SQLite, one `BEGIN IMMEDIATE` transaction per call: devices, commands and their events, deployments and executions, telemetry, lifecycle, warnings | `create_command`, `transition_command`, `reconcile_reported_commands`, `commands_for_delivery`, `record_telemetry`, `record_lifecycle_event`, `set_warning`, ... |
| fleet API | `controller/lghs-fleet-api` | none of its own; one thread per request | report, long poll, lifecycle notice, admin requests |
| agent | `student/lghs-agent` (unprivileged) | `agent-state.json`: boot ID, sequence, command rows, audit cursors | `accept`, `update_progress`, reporter, long poll, sudo watcher |
| executor | `student/lghs-command-executor` (root) | `executor-seen.json`, the reboot marker | status, command, audit chunk; one request at a time |
| job queue | `updater/lghs-netqueue` | one file per job, the ledger `idempotency.json` | `enqueue`, `drain`, `retry` |
| updater | `updater/lghs-update`, `lghs-os-update`, `lghs-reconcile` | `lghs-status.json`, a lock, current/source/pending commit, release sequence | one run: check, install, validate, roll back |
| rollouts | `controller/lghs/rollout.py`, `rollout_manager.py` | deployments, executions, a runtime record per deployment in the settings table | plan phases, dispatch, gate, advance, reconcile |
| recovery | `controller/lghs/recovery.py` | the same | retry failed, resume, cancel remaining, roll back |
| maintenance | `controller/lghs/maintenance.py` | rows of the settings table: policies, reboot schedules | window gates; create, cancel, reconcile a reboot schedule |
| releases | `controller/lghs/release.py`, `student/lghs-release-verify` | sequence counters on both sides | sign, verify |
| health, warnings | `controller/lghs/health.py` | warnings table | evaluate a report |
| audit | `controller/lghs/audit.py` | offset per device and file | ingest, acknowledge |
| sudo approval | `student/sudo`, `lghs-sudo-broker`, `lghs-sudo-admin`, `lghs-approved-exec`, `controller/lghs/sudo_state.py` | one JSON file per request, a lock | request, approve, deny, cancel, expire, execute |
| Bluetooth provisioning | `controller/lghs-bt-provision`, `student/lghs-bt-bootstrap` | bootstrap and fleet tokens on both sides | handshake, tunnel, enrolment |
| lifecycle notices | `student/lghs-lifecycle-notify` | – | announce a planned shutdown |
| consoles, CLI, installation, tunnels | `controller/lghs-console*`, `lghsctl`, `install.sh`, ... | – | display and one-shot scripts |

### How they interact

    operator -> fleet API -> commands table -> long poll / report answer -> agent
      -> Unix socket -> executor -> netqueue enqueue -> ledger and job file
      -> netqueue drain (every 60 s) -> lghs-update -> lghs-status.json
      -> executor status -> agent rows -> report -> commands table
      -> deployment execution -> rollout manager

Calls over HTTPS and over the executor's socket may fail after they had their
effect.  The device's parts share files, not locks.  The controller's request
threads, its rollout manager and its command-line tools share the database and
one table of settings, each a JSON value that is read and written whole.

### What is hard, and what would be correct

* **Job queue.** Three programs rewrite one ledger without a lock and may stop
  between any two writes.  A job whose enqueue succeeded must not be lost, and
  one that may have had its effect must not be run again unasked.
* **Command plane.** Two agent threads deliver the same commands to the
  executor; answers are lost or late; handlers run in parallel; the agent judges
  commands from a status file any updater run may write.  States must only
  advance, an accepted command must be durable, and success must be the
  command's own.
* **Rollouts and recovery.** The manager, the operator and reports interleave
  between transactions.  A device must be dispatched once per attempt, a
  canceled deployment must stay canceled, a phase must not open before its gate,
  its soak and its windows, and it must be dispatched whole.
* **Reboot schedules.** Load-modify-save of one settings row, and a command created
  before the schedule that owns it is saved.  One reboot per schedule and device.
* **Releases.** The sequence must never go back, and a rollback cut short must
  be recoverable.
* **Sudo.** A request runs at most once, only if approved, only before it expires.
* **Provisioning.** The two sides' tokens must agree whenever a connection drops.
* **Audit.** Every line is ingested once, whatever is rotated or repeated.
* **Lifecycle and telemetry.** Reports of an old boot must not bring it back.

The full list of hazards, with their lines, is in `PROJECT.json`.

## 2. Modules

| module | models | role |
|---|---|---|
| `JobPromise` | what the queue promises for a key | abstract specification |
| `NetQueue` | `lghs-netqueue`, step by step | detailed specification, implements `JobPromise` |
| `CommandLifecycle` | `protocol.py`'s order of states | abstract specification |
| `CommandPlane` | database, API handlers, agent, executor, updater; the queue as `JobPromise` | detailed specification, implements `CommandLifecycle` |
| `Rollout` | one deployment: rollout manager, operators' requests, handlers of polls and reports | detailed specification, its commands implement `CommandLifecycle` |
| `PhasePlan` | `normalize_strategy`, `plan_phases` | operators, with a reference definition |
| `MaintenanceWindow` | one window, a policy, several policies, the gate of a phase | operators, with a reference definition |
| `RolloutManager` | freezing, the manager's pass step by step, the soak, the windows, policies set meanwhile | detailed specification on `MaintenanceWindow` |
| `RebootSchedule` | one reboot schedule: create, cancel, reconcile, its commands, the executor, the boots | detailed specification, its commands implement `CommandLifecycle` |
| `AuditCursor` | one audit log from the device's file to `audit_events` | detailed specification |
| `NetQueue_proofs`, `CommandPlane_proofs`, `Rollout_proofs`, `PhasePlan_proofs`, `MaintenanceWindow_proofs`, `RolloutManager_proofs`, `RebootSchedule_proofs`, `AuditCursor_proofs` | – | theorems |
| `MCNetQueue`, `MCCommandPlane`, `MCRollout`, `MCRolloutManager`, `MCRebootSchedule`, `MCAuditCursor` | – | instances for TLC; `MCRollout` also enumerates strategies, `MCRolloutManager` windows |

How they compose: the command plane contains the queue by its abstract
specification, `JobPromise`; `NetQueue_proofs` shows that the queue keeps it
(`ImplementsPromise`) and `CommandPlane_proofs` that the other parts do nothing to a
job it does not allow (`JobsKeepPromise`).  A rollout, and a reboot schedule, contain
the command plane by what can happen to a command's state: all three are shown to
implement `CommandLifecycle`, each with its own table of commands.  `RolloutManager` contains
`Rollout` by one word per phase: its gate waits, is ready, or has failed.

### NetQueue

`ledger[k]` is the state of a key's entry in `idempotency.json`, `jobs[k]` its
job file (absent, due now, or deferred by its backoff).  `proc[p]` is the
executor's enqueue, the operator's retry or the drain: where it stands, its key,
the ledger it loaded (`base`) and its edited `copy`.  `Load` is `load_ledger()`,
`Save` is `save_ledger()` with its pruning; each is one step because the code
reads a file in one go and replaces it atomically.  Everything between two file
operations is in the same step.  `crashes` and `retries` are bounds; `effect`,
`accepted`, `retried`, `stale`, `evicted` and `repeated` are history variables
no action's guard reads.

Other keys' entries are represented by the room they leave: at each save an
element of `Room` is chosen, the number of entries that fit beside theirs.  It is 0
when the ledger is full of entries that were never completed, so a run with one key
has every pruning that many keys could bring about.

The guarantees are stated for `Kept` keys: those whose entry was neither
overwritten by a stale copy nor pruned at the limit.  For the others they do not
hold, and a run shows it (section 4).  The mode of failure is thereby pinned
down: those are the *only* ways in which a job is repeated or lost.

### CommandPlane

`db` is the commands table; a report is the set of (command, state) pairs it
carries, and `reported` collects the pairs of all reports that could still have
an effect.  `Apply` takes any of them, at any time: handlers run in parallel, and
a delayed, repeated or rejected report is one whose pairs are applied late, again
or never.  Pairs that cannot change their row any more are dropped, which leaves
the reachable tables unchanged because rows only advance.

`rows[c]` are the agent's rows of a command (more than one when both threads add
one), `thread[t]` where the reporter and the long-poll thread stand, and
`sampled` the status the reporter has fetched and not yet judged.  `exec` is the
executor's single request; the calling thread may give up (`RpcFails`) while the
request goes on.  `seen` is `executor-seen.json`.  `Poll` goes through the commands
until it hands out `DeliveryLimit` of them; the code's order, by creation, is left open.

Time is abstracted to what `update_progress` compares: updater runs are numbered,
and `need` is the first run that may count for a row (`accepted_at` minus the
second of tolerance; `fresh` says the last run began within that second).

Three history variables say what success is made of: `completed` are the runs that
completed, `counted[c]` those whose status the agent took for a row of the command,
and `hasty` the commands whose row took one while it was still received.  Such a row
has no acceptance time, so every status counts for it, also one from before the
executor accepted the command (`lghs-agent:351`).

The queue is `JobPromise` without its state "lost": each command has one job.
`NetQueue` shows which interleavings break that; the command plane is checked
under the assumption that they did not happen.  The updater is the runs' common
status file and lock; a run installs its target, fails and is tried again, or is
killed and held.

### Rollout

`dep` is the deployment's state, `exec[d]` a device's execution (its state and
the number of the command it names, 0 for none), `cmds[d]` the states of all
commands ever created for the device.  `proc[t]` says where the manager's pass or
an operator's request stands: every one of them is a sequence of transactions
(`List`, `Create`, `Link`, `CancelRow`, `Revoke`, `Strike`, `Finish`), and what it
read in an earlier one (`todo`, `rows`, `phase`) is used in a later one.  The
decisions up to the first write (`Pass`, `Advance`, `Retry`, `Resume`, `Cancel`)
are one step each: they write nothing, and no property depends on the order of
their reads beyond what `List` and `CancelRow` re-read.

`SyncRead` and `SyncWrite` are the two halves of `sync_deployment_execution`: a
handler reads a command's state and writes it to the execution in a later
transaction, so `syncs` holds what parallel handlers are about to write, in any
order.  `known[d]` are the commands a device's agent still reports; only these,
and those a poll returns, are ever synchronised.  `target` and `healthy` are what
the gate reads of a device's last report, `converged` a history variable.

States the code treats alike are merged: "delivered" stands for delivered and
received, "running" for accepted and running, "failed" for failed and rejected.
Soak times and maintenance windows are delays of arbitrary length before a pass
that changes something, and the deployment is frozen completely before anything
else happens to it (`RolloutManager` has all three).  The policy has
`auto_advance`.  A device reaches the
target only after one of its commands was delivered.

Faults: a thread ends between two transactions (`Stop`), a command is timed out
(`Poll` with `late`), a device's new boot forgets its commands (`Forget`), a
device leaves the health gate (`Worsen`).

### PhasePlan and MaintenanceWindow

Both are operators only.  `InWaves` is `plan_phases()`: tagged devices first, the
canaries, then one phase per percentage, by recursion over the completed percentages
(`Plans` has the plan after each of them, `Wave` adds one).
`Divides`, `Gradual` and `TaggedFirst` say what a plan has to be in terms of the
strategy alone.  `WindowOpen` is one window of `_policy_open()`, `Allowed` and
`NextOpen` are `maintenance_state()`, `Effective` is `effective_policies()`,
`GateNext` the time `phase_maintenance_gate()` reports.  `Covered` is the reference:
the minutes a window means, counted forward from its opening.  Days and minutes of
the week are constants, so that a small week can be enumerated completely.

### RolloutManager

`rows` are the executions `freeze_deployment()` has inserted so far, `commanded`
those with a command.  `work[p]` stands for the commands and devices of a phase:
they are still busy, ready, unwell or broken.  `runtime` is the record the manager
keeps in the settings table: the active phase, the gate last seen per phase, the
minutes of soak left, whether it was waiting for a window.  `proc` holds the
manager's pass, each read and write of it a step (`Status`, `Record`, `ReadOwn`,
`ReadGroup`, `JudgeDevice`, `Advance`, `List`, `Command`, `Dispatch`, `Save`), with
the copy of the record it took at its beginning, and an operator's request
(advance, retry, resume, whose reset of the record is a load and a save).
`SetPolicy` is any change of a device's or a group's policy at any time.

The history variables say what was true while the pass was under way: `calm[p]`
counts the minutes a phase was active and ready; `open` are the devices allowed
at some moment of the pass.  The exceptions a property makes are history too:
`disturbed`, `unseen`, `touched`, `late`, `torn`.

### RebootSchedule

`sched` is the schedule's row of the settings table, with one entry per device.
`call[t]` is a call of the manager or of an API thread: the schedule it loaded
(`base`), its edited copy, and the devices still to visit.  Each device takes
transactions of its own (`Announce` and `Dispatch`, `CancelRow` and `Revoke`,
`Examine`); `Save` writes the whole copy.  `cmds[d]` are the reboot commands of a
device, `expected` the lifecycle records that announce a reboot, `reported` the boot
the controller knows.

On the device `armed` are systemd-run's timers, `marker` the file
`reboot-pending.json`, `seen` the executor's memory.  `ExecArm` arms, marks and
records, and may be cut off after any of the three.  `TimerFires` reboots;
`PowerCut` does so unasked.  An old boot's last report may be on its way longer
than the boot (`delayed`).

`torn`, `raced`, `slipped` and `misled` name the commands and devices for which
something went wrong that the code does not guard against, so that each property
says exactly what it depends on.  A command is `torn` when its timer fired before
`executor-seen.json` had it.  That takes an executor stopped after it armed the timer,
whether or not it had written the marker, and no repeated request until the timer
fires: one that finds the marker records the command.  After the boot
`reboot_status()` removes the marker, so a redelivered command is armed again.

### AuditCursor

The log's lines are numbered as they are written; `base` are those in earlier files,
`inode` the present file's.  `cursor` is the agent's saved state.  The reporter takes
the steps of one batch: `Stat` and `Read` of the executor's chunk, `StatAgain` when the
file is another one, `Record` at the controller, `Answer`.  `GiveUp` ends a report
without an answer, its chunk being lost, recorded, or still on its way (`late`,
`Arrive`).  `events` are the stored lines by their offset, which is what
`record_batches()` knows a chunk by.

## 3. Passing runs

| run | instance | distinct states | shows |
|---|---|---|---|
| `NetQueue_one` | 1 key, room for 0 or 1, 2 power cuts, 2 retries, fair | 399 621 | types, `RepeatNeedsLostEntry`, `AcceptedIsKept`, `KeepsPromise` (refinement), `AcceptedIsHandled` (liveness) |
| `CommandPlane_faults` | 1 command, 1 run, its own or the timer's, 1 reboot or restart, cancellation, deadline | 4 687 636 | types, `AcceptedIsDurable`, `QueuedIsUntouched`, `KeepsLifecycle` (refinement) |
| `CommandPlane_runs` | 1 command, 2 runs, each its own or the timer's | 9 326 456 | `LaterRunsCount`, `SuccessHasItsRun` |
| `CommandPlane_live` | 1 command, 1 fault, cancellation, deadline, fair | 47 062 | `Settles` (liveness) |
| `Rollout_gates` | canary and one wave, an operator with 1 request of any kind, or a retry and a resumption, 1 fault of any kind, 1 sync in progress | 3 804 435 | types, `WaveAfterGate`, `OpenIsTracked`, `EndIsTrue` |
| `Rollout_live` | canary, a wave of two, a last wave; 2 syncs in progress, fair | 112 428 | `WaveAfterGate`, `SuccessIsConvergence`, `Concludes` (liveness); `PlanDivides`, `PlanIsGradual` for every strategy of up to four devices |
| `Manager` | two canaries and a wave, one group, a week of two days of three minutes, soak of 2, 1 trouble, fair | 707 841 | types, `NextAfterSoak`, `InWindow`, `DispatchedWhole`, `Concludes` (liveness); `WindowsMeanCovered`, `ReportedOpening` for every window and every two groups |
| `Reboot` | 1 device, manager and administrator, 2 commands, 3 boots, 1 trouble, fair | 108 172 | types, `OneRebootPerCommand`, `SecondNeedsLostRow`, `CanceledNeverReboots`, `SucceededWasRebooted`, `AnnouncedFirst`, `KeepsLifecycle` (refinement), `Ended` (liveness) |
| `Audit` | 4 lines, chunks of 2, 3 inode numbers, 2 rotations, 2 troubles, fair | 631 278 | types, `AckedIsStored`, `StoredOnce`, `Collected` (liveness) |

Why the bounds are enough.  In the queue, every hazard needs two processes and
one key, or two keys whose processes overwrite each other's entries, or a full
ledger.  The last two reach a key only through its entry being gone, or old, at the
next load: the processes of one key already write stale copies of its own
entry, and `Room` decides at every save whether it fits.  Two power cuts let the
second one hit the recovery from the first.  That several keys do not disturb
each other in any further way is what the theorems show, for any set of keys.  In
the command plane a status can mislead about a command only through one run that
is not its own, so two runs suffice for `LaterRunsCount` and `SuccessHasItsRun`; one
fault of each kind at every point covers a reboot between any two steps.  Commands of
different IDs share the status file, the executor and the delivery limit only.  With
one command the limit is never reached by the runs; the theorems are for any set of
commands and any limit, and types, `AcceptedIsDurable` and `QueuedIsUntouched` were
also checked with two commands and a limit of 1 (3 665 044 states, no updater, no
fault).  Of `Settles` the limit is not checked.

In the rollout, two devices and one request beside the manager give every pair of
interleaved programs, and one fault ends or delays any of them anywhere; a paused
deployment is resumed only after a retry, hence the one second request that the
constraint `ThenResume` admits.
`Rollout_live` has four devices because a tolerated failure needs a wave of two,
and leaving a wave with a tolerated failure behind needs a third phase; its two
syncs of one command (`Overlap` is FALSE) let an older state be written after a
newer one.  The safety properties are also proved for any number of syncs of any
commands (section 5).

`Manager` has two canaries so that a freeze can be cut short, or read, in the middle
of a phase, and a canary outside the group of the wave's device, so that the phases
have different windows.  Its settings to begin with are bounded to three: none, one
for a device and one for its group, and one of a group that a device has switched
off.  Two minutes of soak are enough for a regression, a retry or a policy to fall
before, in and after them, and one trouble is any one fault, request or policy
change at any step.  With two troubles more than eleven million states were
explored without an error before the search was stopped; the proofs cover any
number.  The small week has every window that crosses midnight, and the one that
crosses the end of the week.

`Reboot` needs one device: threads meet at the row of a device and at the
schedule's state, and a second device only adds rows that nobody contends for.  A
second command is what `SecondNeedsLostRow` must be able to see, three boots are
one by the schedule, one by itself and one for a repetition.  `Audit` has two
rotations so that a third file may get the inode number of the first; its
invariants and liveness were also checked with five lines (2 489 793 states).

The bounds, all of them constants in the actions' guards: `MaxFaults`, `MaxTrouble`,
`MaxCrashes` and `MaxSyncs` limit what goes wrong or is under way at once,
`MaxRequests` and `MaxRetries` what operators ask for, `MaxRuns`, `MaxCommands`,
`MaxBoots`, `MaxLines` and `MaxRotations` what is created.  The theorems hold for every
value of them.

Nothing stronger than `SuccessHasItsRun` holds of a success: the timer is enabled on
students (`install.sh:285`), and the run that completed may be the timer's, without a
target, as `CommandPlane_success` shows.

### Fairness

`NetQueue` assumes weak fairness of the drain's steps (systemd starts it every
60 seconds and a child is abandoned after an hour) and of the backoff's end.
Neither the executor nor the operator is assumed to do anything, and power cuts
are bounded.  `CommandPlane` assumes weak fairness of the agent's two threads
(every call they make has a timeout) and of the deadline.  It assumes nothing of
the executor, the updater or the network: reports and answers may all be lost,
and a command is then settled by `commands_for_delivery`.

`Rollout` assumes that the manager's passes go on (a systemd service with a
loop), that a request once begun goes on to its end, that devices carry out what
they were given one way or another, and that what a handler read it writes.  A
device's commands are read again and again, because the agent repeats its rows in
every report; that is strong fairness, since a bounded number of syncs in
progress may be in the way each time.  Operators are not assumed to ask for
anything.

`RolloutManager` assumes the same of the manager, of a call once begun and of the
freeze, and that every command ends.  Time is strongly fair: between any two
passes a minute may go by (the manager's interval is two seconds), so it does in the
end.  `RebootSchedule` assumes that the schedule is created and its hour comes, that
the manager's loop goes on, and that for every device it looks again after
`verify_timeout_seconds`.  Nothing is assumed of devices, network, operators or the
API's threads.  `AuditCursor` assumes that the reporter goes on; reports end without an
answer a bounded number of times.

## 4. Where documents and code disagree

Three runs expect a violation.  Each checks what a document, a comment or a
message of the repository says; the findings in `PROJECT.json` quote it.

| run | what is said | what the code can do |
|---|---|---|
| `NetQueue_blind` | uncertain executions are held, not repeated | enqueue's confirmation replaces "executing" by the older "pending"; after a power cut the job runs again |
| `CommandPlane_success` | success is the end of local execution | the timer's run without a target completes and is taken for the command's |
| `Reboot_natural` | a natural reboot before dispatch does not satisfy the schedule | the boot the row is compared with is the one last *reported*; a boot reported after the dispatch counts, though it began before |

What else the models make visible restricts the properties, by the exceptions they
name, instead of having a run:

* *Queue.* The guarantees are for kept keys only (section 2).
* *Canceling a command.* `transition_command` cancels a received command whose job
  the device has queued already, and the job runs.  In the command plane a status of
  another run may already make a received command running, and the deadline also
  ends commands the device has accepted.
* *Progress of a received command.* A row that is still received takes any status,
  also one from before the acceptance while the executor's answer is on its way or
  lost: `LaterRunsCount` and `SuccessHasItsRun` name these commands (`hasty`).
* *Canceling a deployment.* A pass that has listed its rows before the cancellation
  creates their commands and sets the deployment to running again
  (`rollout.py:265`).
* *A canary that is timed out by a poll* is not synchronised unless its device
  reports the command: the execution stays open and its gate waits for ever, where
  `docs/0.6-RC-HARDWARE-VALIDATION.md:61` has the deployment pause.
* *Two dispatchers.* `OpenIsTracked` excludes killed threads and an operator's
  advance or dispatch beside the manager: a pass killed between creating a command
  and linking it leaves a command no execution names, and two dispatchers of one
  phase both create commands.
* *Freezing.* The manager may dispatch a phase whose executions are still being
  inserted; the ones that come late get no command and their gate waits for ever.
  So does a phase whose dispatch was cut short (`DispatchedWhole`, `Concludes`).
* *Soaks.* A regression that begins and ends between two passes is not seen, a
  retry's reset of the runtime record is lost when a pass saves its older copy, and
  a regression during the very pass comes too late (`NextAfterSoak`).  A phase that
  fails after it was left is never looked at again (`Concludes`).
* *Windows.* A device's policy and those of its groups are read one by one: with two
  of them changing at once a device may be commanded at a time no setting ever
  allowed (`InWindow`).  The time reported as the next opening of a phase is one by
  which every device had an opening, which may be over again by then.
* *Defaults.* `or` replaces a 0 as well as a missing value: a soak of 0 seconds is the
  default soak, a threshold of 0 the default threshold.
* *Reboots.* An executor stopped between arming and recording a reboot, also after it
  wrote the marker, arms it again after the boot when the command is delivered again; a cancellation that meets a
  reconciliation loses its rows, or the other's; a command delivered while it is being
  canceled reboots the device.
* *Audit.* A chunk is acknowledged although its offset is taken and its lines were
  not stored: the first chunk of every rotated log, and a chunk that grew after its
  first answer was lost.  A rotation between `stat` and `open` stores lines twice, and
  what was not read before a rotation is never read.
  `docs/FLEET-PROTOCOL.md:115` says that the controller acknowledges the highest accepted
  cursor.

## 5. Proofs

All theorems hold for every set of keys, commands, devices, callers or operators and
every value of the bounds, under the assumptions `NetQueueAssumption`,
`CommandPlaneAssumption`, `RolloutAssumption`, `WindowAssumption`, `ManagerAssumption`,
`RebootAssumption` and `AuditAssumption` (constants have the types their comments
give; a rollout has a finite set of devices and at least one; a soak lasts a
minute at least; the search for an opening goes on for a week).  Every invariant and
every refinement that a run checks is also proved.

`NetQueue_proofs` proves `TypeCorrect`, `NoBlindRepetition` and
`AcceptedJobsAreKept`.  Neither safety property is inductive: both depend on what
the processes hold in memory.  The invariant `IInv` adds

* `CopyInv` and `EditInv`: a process that is about to save holds the ledger it
  loaded, changed at its own key only, to the state its step decided on;
* `RunInv`: while the drain runs a job and for as long as nobody overwrote the
  entry, the entry of that key is "executing";
* `SafeInv`: an entry that lets the drain claim a kept key means that the key
  never ran, failed, or was released by an operator;
* `JobInv` and `AcceptedInv`: where a kept key's job file must exist, including
  in the middle of each program.

The step is proved action by action; a save of another process's copy is the one
hard case, and there a key either keeps its entry or enters `stale` or `evicted`.

`ImplementsPromise`, in the same module, follows: under the mapping `job`, every
step is a step of `JobPromise` or leaves it unchanged; the claim is the save that
starts a run, and lost entries map to "lost".

`CommandPlane_proofs` proves `LifecycleIsKept` (every transaction advances the
rows it touches or leaves them alone) and, from the invariant `SInv`, `TypeCorrect`,
`QueuedUntouched` and `AcceptanceIsDurable`.  What the invariants
depend on is spread over the network, two threads, the executor and the
updater; `SInv` has one part for each place:

* `CallInv`: what an agent's thread works on was handed out by the controller, and
  the rows it looked up are still there;
* `ExecInv`: the executor's request concerns such a command, belongs to the thread
  that still waits for it or to nobody, is not yet in the executor's memory until it
  is recorded, and has queued the job by then;
* `TraceInv`: every trace of a command on the device or in a report means that the
  controller's row has left "queued", and whatever says accepted means that the job is
  on disk;
* `RowInv`: a row of the agent that was accepted has the acceptance time that is in
  the executor's memory, which never changes once it is there;
* `CountInv`: a command has two rows at most, since each thread appends one when it
  had found none.

`LaterRunsOnly` and `SuccessNeedsRun` need `CountedInv` beside it.  A status travels
from the file to the sample, a row, a report and the controller, and may be
overtaken at each place; so one part of it (`Shows`) says that wherever a command
shows progress a run's status was counted, a completed run's if it shows success,
another that a status or a sample of it that says complete names a run that completed
(`Complete`), and `LaterInv` that what was counted is not from before the acceptance.
For the last, a row that took no status while it was received has its acceptance time
when it leaves that state (it is not `Hurried`).  None of it assumes anything of the
timer, the number of commands or of runs.

`JobsKeepPromise` is the other half of `ImplementsPromise`.  The queue implements
`JobPromise` from below; here the executor's acceptance, the updater's runs, reboots and
restarts are shown to make only moves that `JobPromise` has, so that the two sides
meet in one abstract specification.

`Rollout_proofs` proves `TypeCorrect`.  That references to commands never dangle
depends on what threads hold: `LinkInv` says that a thread about to link a command
has just created it, `RowsInv` that the rows listed by a cancellation name
existing commands.  The same step lemma gives `Forward`: commands are never
removed and one that has ended stays as it is.  The rest of the module builds two
invariants on it.

`GateInv` proves `WavesAfterGates` and `SuccessConverged`.  A gate is evaluated in
one transaction and acted on in later ones, so the invariant says of each thread
that the phases before the one it is dispatching, or all phases when it is about
to record success, have passed (`Sound`).  What has passed stays so because
`converged` only grows; that a ready gate means "passed" is a cardinality argument:
the missing devices are among the failed ones, and these are too few to pause.
Executions that already have a command witness the same for their phases
(`WaveInv`).

`CommandInv` proves `EndsAreTrue` and `OpenCommandsTracked`.  `SyncInv`: a sync in
progress that carries an end carries the command's own, which is final.
`DispatchInv` says who may be creating commands: the manager for executions that
have none, an operator's retry for those that have one, so the two never work on
the same execution.  `TrackedInv`: a retry only holds executions whose commands
have ended, so the link that replaces them loses nothing.  `Link` is the one hard
case.

`CommandsKeepLifecycle` takes the commands of all devices as one table, in which a row
that was not created yet is "absent", and shows that every handler, thread and fault
moves it as `CommandLifecycle` allows.  It rests on types alone: each handler checks the
state in the transaction that changes it, and what a thread read earlier is only
used to decide whether to try.

`PhasePlan_proofs` is about `plan_phases()` for any devices, tags, canaries and
percentages.  `RankLemma` says that ranks by tag and name are a permutation: a
device's rank is the size of a set that grows strictly with it, and an injection of
a finite set into itself is onto.  Hence `Ordered` lists every device once.
`PlansLemma` unfolds the recursion, and one invariant of it, `WellPlanned`, says that
the phases are consecutive stretches (`Stretches`) of that list whose ends are the canaries
or the share of a percentage seen so far, and that no such share was left out.
`ShareLemma` says that the rounded-up share is the least number of devices that makes up
the percentage.  As the last percentage is 100, the stretches end with the list:
`PlansDivide`.  As the percentages ascend, the ends do: `PlansAreGradual`.
`CanariesAreTagged`: every tagged device ranks before an untagged one, so if an untagged
device is a canary, they all are.  `DivisionIsPlanned` and `GradualIsPlanned` are the
instances that the run enumerates.

`MaintenanceWindow_proofs` is about a week and days of any length.  `OpenIsWhatIsMeant`
compares the code's test of a minute (the day, or the day before, and the minute of
the day) with the minutes counted forward from each opening, modulo the week.  The
arithmetic is in `DayOfMinute`, `WrapLemma` and `IntoWindow`: where the i-th minute of
a window falls, on its day, on the next one, or at the beginning of the week.
`ReportIsFirstOpening` says what the gate's time means: every blocked device has had
an opening by then and one has its first one then, or one has none for ever.  That
the search may stop at its horizon is `NeverAfterAWeek`: windows repeat every week, and
the horizon is one at least.

`RolloutManager_proofs` instantiates both (`WindowsAreMeant`, `OpeningsAreRight`) and
proves `TypeCorrect`, `SoakKept`, `WindowKept` and `PhaseWhole` from one invariant, `IInv`:

* `ThreadInv` and `DispatchInv`: what an idle thread has forgotten and an operator's
  never knows, and what a dispatch has still to do and a finished one has left, from
  which `PhaseWhole` follows;
* `SoakInv`: the minutes left in the runtime record, and in the pass's copy of it,
  and the minutes the phase has been ready make up the whole soak, as long as nobody
  touched the phase unseen;
* `PassInv`: what the pass knows of the gate and the record is still so, and from the
  windows on its copy says that the soak is over;
* `PhaseInv`: the phase about to be dispatched is the one whose windows were looked
  at, or the pass was disturbed;
* `ReadInv` and `WindowInv`: the policies read so far for a device, with those still to
  be read as they are now, let it be commanded only if it was allowed at some moment
  of the pass (`open`).  This is the hard part: several reads at different moments
  have to add up to one moment at which the device was allowed, which they do as long
  as at most one of its settings was written.

`RebootSchedule_proofs` proves `TypeCorrect`, five properties and a refinement.  `RebootsOnce` needs
`ArmedInv`: a command that is not torn and has a timer has not rebooted its device,
and one that has is remembered by the executor, so that no timer is armed for it
again.  The others
rest on `RowInv`, which is the types with `BootInv` (no report is of a boot to come),
`CallInv` (what a call's copy may have that its base has not) and `RowsInv` (a row, saved
or held by a call, names an existing command that was announced, and is judged by the
boot the command was created in unless the device was misled): `SuccessWasReboot` and
`RebootIsAnnounced`.  `TrackInv` says that every command is named by the saved row or by
a call's copy, unless the device was raced: `OneCommandPerDevice`.  `FreshInv` says that
a command that was never handed out, or canceled before, is nowhere on the device:
`CanceledStaysUp`.  `LifecycleIsKept` says of the reboot commands what
`CommandsKeepLifecycle` says of a rollout's.

`AuditCursor_proofs` proves `TypeCorrect`, `AcknowledgedIsStored` and `LinesStoredOnce`.
`ShapeInv` is the shape of chunks.  `LabelInv` says that a chunk labelled with the present
file's number begins where the label says, and that what the cursor has left behind
is stored or shadowed; `QuietInv` says that before the first rotation or lost answer
the reader's chunk comes after all that are stored.  `OnceInv` is for logs that were
not rotated between stat and open (`crossed`).  Lines of the present file are stored
only up to the cursor, or under the cursor's own offset (`StoredInv`), and the
same goes for chunks on their way (`LateInv`) and the reader's (`ReaderInv`); hence two
chunks that overlap have the same offset, and one of them is not stored (`ApartInv`).

Only model-checked: the liveness properties `AcceptedIsHandled`, `Settles`, both
`Concludes`, `Ended` and `Collected`.  Fairness and ENABLED are outside what the prover
handles.  Of `normalize_strategy()` and `normalize_policy()` the theorems assume what
these functions enforce (`ValidCanary`, `ValidWaves`, `Windows`).

## 6. Plan

What is left, in order of importance; each module is to be written like the others,
so that it can be proved about.

1. **`Rollout`**: `create_rollback`, which freezes a second deployment over the first.
2. **`ReleaseUpdate`** (`lghs-update`, `release.py`, `lghs-release-verify`): sequences, the three
   commit files and rollback under power cuts.
3. **`SudoRequest`**: the wrapper, the broker, the administrator's tools and the
   helper on one file; transitions under a lock, the completion outside it, and a
   power cut while a request executes.
4. **`Provisioning`**, **`Lifecycle`** (telemetry sequence, boots, planned shutdowns),
   **`Warnings`**.

Small modules share a run with a neighbour where they share a question, so that
the whole project stays at a dozen runs.

## 7. Not modelled

* Files that forget: `executor-seen.json` keeps the last 256 commands once it has 512
  (`lghs-command-executor:396`), and the agent saves its last 64 rows and reports the
  last 32 (`lghs-agent:378`); the models keep all.  A command so forgotten that is
  delivered again would be enqueued again, which the queue's ledger answers.
* Steps taken together: a reconciliation's reads of a device's boot and command and
  the transition that follows (`RebootSchedule`, `Examine`; the transition checks the
  state again); the creation of a command and its link to the execution
  (`RolloutManager`, `Command`; `Rollout` has them apart).
* Queue: unkeyed local jobs and the invalid-job path; a key reused with a different
  payload (keys are command IDs).
* Command plane: actions other than software updates and scheduled reboots, among
  them the installation of a release key, whose answer carries a terminal state
  and may be lost (`lghs-command-executor:401`); what happens inside an updater's run
  (`lghs-update:360`, rollback and restart).
* Rollouts: rollback deployments; the selectors that turn a request into a set of
  devices.
* Maintenance: a time zone whose offset changes.  The lifecycle record of a planned
  reboot is only what `AnnouncedFirst` needs; how it quiets warnings is not modelled.
* Telemetry: an old boot's report after the new boot's first one is accepted
  (`database.py:194`); `RebootSchedule` has its effect on schedules, nothing has its
  effect on health.
* Audit: the SSH fallback `lghs-audit-sync`, chunks that end within a line, the moment
  of a rotation without a file.
* Authentication, transport and cryptography; the consoles and the command-line
  tools, which keep no state of their own; installation, image building and tunnels,
  which are one-shot scripts.
