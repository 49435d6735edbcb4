------------------------ MODULE RebootSchedule_proofs ------------------------
(***************************************************************************)
(* Proofs about RebootSchedule, for any devices, any threads of the        *)
(* controller and any bounds.                                              *)
(***************************************************************************)
EXTENDS RebootSchedule, TLAPS

Commands == [state : CommandStates, at : Boots]

-----------------------------------------------------------------------------
(* What the updates of a thread's call and of a command do.                *)

LEMMA IdleLemma == Idle \in Calls /\ Idle.pc = "idle"
BY RebootAssumption DEF Idle, Calls, NoSchedule, Schedules, ScheduleStates,
   Rows, RowStates, Boots, Terminal

\* The thread goes on to the next device with one row of its copy replaced.
LEMMA VisitedLemma ==
  ASSUME TypeOK, NEW t \in Callers, NEW d \in Devices, NEW r \in Rows,
         Visited(t, d, r)
  PROVE  /\ call' \in [Callers -> Calls]
         /\ \A u \in Callers \ {t} : call'[u] = call[u]
         /\ call'[t].pc = "loop" /\ call'[t].op = call[t].op
         /\ call'[t].base = call[t].base /\ call'[t].due = call[t].due
         /\ call'[t].dev = {}
         /\ call'[t].copy.rows[d] = r
         /\ \A e \in Devices \ {d} :
              call'[t].copy.rows[e] = call[t].copy.rows[e]
<1> DEFINE c == call[t]
<1>1. c \in Calls
  BY DEF TypeOK
<1>2. c.copy.rows \in [Devices -> Rows] /\ c.copy.state \in ScheduleStates
  BY <1>1 DEF Calls, Schedules
<1> DEFINE n == [c EXCEPT !.pc = "loop", !.copy.rows[d] = r,
                          !.todo = @ \ {d}, !.dev = {}]
<1>3. n \in Calls /\ n.pc = "loop" /\ n.op = c.op /\ n.base = c.base
      /\ n.due = c.due /\ n.dev = {}
      /\ n.copy.rows = [c.copy.rows EXCEPT ![d] = r]
  BY <1>1, <1>2 DEF Calls, Schedules
<1>4. call' = [call EXCEPT ![t] = n]
  BY DEF Visited
<1>5. call \in [Callers -> Calls]
  BY DEF TypeOK
<1> HIDE DEF n
<1>6. call' \in [Callers -> Calls] /\ call'[t] = n
      /\ \A u \in Callers \ {t} : call'[u] = call[u]
  BY <1>3, <1>4, <1>5
<1>7. n.copy.rows[d] = r
      /\ \A e \in Devices \ {d} : n.copy.rows[e] = c.copy.rows[e]
  BY <1>2, <1>3
<1> QED BY <1>3, <1>6, <1>7

\* A command changes its state and stays the command of the same boot.
Moved(s, i, v) == [s EXCEPT ![i].state = v]

LEMMA MoveLemma ==
  ASSUME NEW s \in Seq(Commands), NEW i, NEW v \in CommandStates
  PROVE  /\ Moved(s, i, v) \in Seq(Commands)
         /\ Len(Moved(s, i, v)) = Len(s)
         /\ DOMAIN Moved(s, i, v) = DOMAIN s
         /\ \A j \in DOMAIN s :
              /\ Moved(s, i, v)[j].at = s[j].at
              /\ Moved(s, i, v)[j].state = IF j = i THEN v ELSE s[j].state
<1> DEFINE n == Moved(s, i, v)
<1>1. DOMAIN n = DOMAIN s
  BY DEF Moved
<1>2. \A j \in DOMAIN s : s[j] \in Commands
  OBVIOUS
<1>3. \A j \in DOMAIN s :
        n[j] \in Commands /\ n[j].at = s[j].at
        /\ n[j].state = IF j = i THEN v ELSE s[j].state
  BY <1>2 DEF Commands, Moved
<1>4. DOMAIN s = 1..Len(s) /\ Len(s) \in Nat
  OBVIOUS
<1>5. n \in [1..Len(s) -> Commands]
  BY <1>1, <1>3, <1>4 DEF Moved
<1> HIDE DEF n
<1>6. n \in Seq(Commands) /\ Len(n) = Len(s)
  BY <1>4, <1>5
<1> QED BY <1>1, <1>3, <1>6 DEF n

LEMMA PollLemma ==
  ASSUME NEW d, NEW late, cmds[d] \in Seq(Commands)
  PROVE  /\ AfterPoll(d, late) \in Seq(Commands)
         /\ Len(AfterPoll(d, late)) = Len(cmds[d])
         /\ DOMAIN AfterPoll(d, late) = DOMAIN cmds[d]
         /\ \A i \in DOMAIN cmds[d] :
              /\ AfterPoll(d, late)[i].at = cmds[d][i].at
              /\ AfterPoll(d, late)[i].state =
                   IF i \in late THEN "failed"
                   ELSE IF i \in HandedOut(d, late) THEN "delivered"
                   ELSE cmds[d][i].state
<1> DEFINE n == AfterPoll(d, late)
<1>1. DOMAIN n = DOMAIN cmds[d]
  BY DEF AfterPoll
<1>2. \A i \in DOMAIN cmds[d] : cmds[d][i] \in Commands
  OBVIOUS
<1>3. \A i \in DOMAIN cmds[d] :
        n[i] \in Commands /\ n[i].at = cmds[d][i].at
        /\ n[i].state = IF i \in late THEN "failed"
                        ELSE IF i \in HandedOut(d, late) THEN "delivered"
                        ELSE cmds[d][i].state
  BY <1>2 DEF Commands, CommandStates, CommandTerminal, AfterPoll
<1>4. DOMAIN cmds[d] = 1..Len(cmds[d]) /\ Len(cmds[d]) \in Nat
  OBVIOUS
<1>5. n \in [1..Len(cmds[d]) -> Commands]
  BY <1>1, <1>3, <1>4 DEF AfterPoll
<1> HIDE DEF n
<1>6. n \in Seq(Commands) /\ Len(n) = Len(cmds[d])
  BY <1>4, <1>5
<1> QED BY <1>1, <1>3, <1>6 DEF n

LEMMA TroubledLemma ==
  ASSUME TypeOK, Troubled PROVE trouble' \in 0..MaxTrouble
BY RebootAssumption DEF TypeOK, Troubled

-----------------------------------------------------------------------------
(* Types.                                                                  *)

LEMMA RowTypes ==
  ASSUME TypeOK, NEW t \in Callers, NEW d \in Devices
  PROVE  /\ RowOf(t, d) \in Rows /\ call[t] \in Calls
         /\ call[t].base.rows[d] \in Rows /\ sched.rows[d] \in Rows
         /\ cmds[d] \in Seq(Commands)
<1>1. call[t] \in Calls
  BY DEF TypeOK
<1>2. call[t].base \in Schedules /\ call[t].copy \in Schedules
      /\ sched \in Schedules
  BY <1>1 DEF TypeOK, Calls
<1>3. cmds[d] \in Seq(Commands)
  BY DEF TypeOK, Commands
<1> QED BY <1>1, <1>2, <1>3 DEF Schedules, RowOf

LEMMA BootTypes ==
  ASSUME TypeOK, NEW d \in Devices
  PROVE  /\ reported[d] \in Nat /\ boot[d] \in Nat /\ delayed[d] \in Nat
         /\ reported[d] \in Boots
BY DEF TypeOK, Boots

LEMMA InitType == Init => TypeOK
<1> SUFFICES ASSUME Init PROVE TypeOK
  OBVIOUS
<1>1. NoSchedule \in Schedules
  BY RebootAssumption DEF NoSchedule, Schedules, ScheduleStates, Rows,
     RowStates, Boots
<1>2. cmds \in [Devices -> Seq([state : CommandStates, at : Boots])]
      /\ \A d \in Devices : Len(cmds[d]) <= MaxCommands
  BY RebootAssumption DEF Init
<1>3. call \in [Callers -> Calls]
  BY IdleLemma DEF Init
<1>4. /\ reported \in [Devices -> Boots] /\ boot \in [Devices -> Boots]
      /\ delayed \in [Devices -> 0..MaxBoots]
      /\ marker \in [Devices -> [cmd : 0..MaxCommands, boot : 0..MaxBoots]]
  BY RebootAssumption DEF Init, NoMarker, Boots
<1>5. /\ inbox \in [Devices -> SUBSET Numbers]
      /\ armed \in [Devices -> SUBSET Numbers]
      /\ seen \in [Devices -> SUBSET Numbers]
      /\ reboots \in [Devices -> [Numbers -> Nat]]
  BY DEF Init
<1>6. sched \in Schedules /\ due \in BOOLEAN
      /\ expected \subseteq Devices \X Boots /\ torn \subseteq Devices \X Numbers
      /\ raced \subseteq Devices /\ slipped \subseteq Devices
      /\ misled \subseteq Devices /\ trouble \in 0..MaxTrouble
  <2>1. due \in BOOLEAN
    BY DEF Init
  <2>2. 0 \in 0..MaxTrouble
    BY RebootAssumption
  <2> QED BY <1>1, <2>1, <2>2, RebootAssumption DEF Init
<1> QED
  BY <1>2, <1>3, <1>4, <1>5, <1>6 DEF TypeOK

LEMMA JudgedType ==
  ASSUME NEW d, NEW r \in Rows, NEW late
  PROVE  /\ Judged(d, r, late) \in Rows
         /\ Judged(d, r, late).before = r.before
         /\ Judged(d, r, late).cmd = r.cmd
         /\ Judged(d, r, late).state = "canceled" => r.state = "canceled"
         /\ Judged(d, r, late).state = "succeeded"
              => r.state = "succeeded" \/ Rebooted(d, r)
BY DEF Judged, Rows, RowStates, Terminal

LEMMA ConcludedType ==
  ASSUME NEW op, NEW base \in Schedules, NEW rows
  PROVE  Concluded(op, base, rows) \in ScheduleStates
BY DEF Concluded, Schedules, ScheduleStates, Terminal

LEMMA ThreadType ==
  ASSUME TypeOK, NEW t \in Callers, ThreadStep(t)
  PROVE  TypeOK'
<1> USE RebootAssumption
<1>1. ASSUME NEW op \in {"reconcile", "cancel"}, Load(t, op)
      PROVE  TypeOK'
  <2> DEFINE n == [pc |-> "loop", op |-> op, base |-> sched, copy |-> sched,
                   todo |-> {d \in Devices :
                               sched.rows[d].state \notin Terminal},
                   dev |-> {}, due |-> due]
  <2>1. n \in Calls
    BY DEF TypeOK, Calls
  <2>2. call' = [call EXCEPT ![t] = n]
    BY <1>1 DEF Load
  <2>3. call' \in [Callers -> Calls]
    BY <2>1, <2>2 DEF TypeOK
  <2>4. trouble' \in 0..MaxTrouble
    BY <1>1, TroubledLemma DEF Load, TypeOK
  <2> QED BY <1>1, <2>3, <2>4 DEF Load, TypeOK, devices, history
<1>2. ASSUME NEW d \in Devices, NEW late \in BOOLEAN, Examine(t, d, late)
      PROVE  TypeOK'
  <2>1. call' \in [Callers -> Calls]
    BY <1>2, VisitedLemma, JudgedType, RowTypes DEF Examine
  <2>2. cmds' = cmds
        \/ cmds' = [cmds EXCEPT ![d] =
                      Moved(cmds[d], RowOf(t, d).cmd, "succeeded")]
    BY <1>2 DEF Examine, Moved
  <2>3. /\ cmds' \in [Devices -> Seq([state : CommandStates, at : Boots])]
        /\ \A e \in Devices : Len(cmds'[e]) <= MaxCommands
    <3> DEFINE s == Moved(cmds[d], RowOf(t, d).cmd, "succeeded")
    <3>1. s \in Seq(Commands) /\ Len(s) = Len(cmds[d])
      <4>1. cmds[d] \in Seq(Commands) /\ "succeeded" \in CommandStates
        BY RowTypes DEF CommandStates, CommandTerminal
      <4> QED BY <4>1, MoveLemma
    <3>2. cmds' = cmds \/ cmds' = [cmds EXCEPT ![d] = s]
      BY <2>2
    <3> HIDE DEF s
    <3> QED BY <3>1, <3>2 DEF TypeOK, Commands
  <2> QED BY <1>2, <2>1, <2>3 DEF Examine, TypeOK, devices, history
<1>3. ASSUME NEW d \in Devices, Wait(t, d)
      PROVE  TypeOK'
  <2>1. call' \in [Callers -> Calls]
    BY <1>3, VisitedLemma, RowTypes DEF Wait
  <2> QED BY <1>3, <2>1 DEF Wait, TypeOK, devices, history
<1>4. ASSUME NEW d \in Devices, Announce(t, d)
      PROVE  TypeOK'
  <2> DEFINE n == [call[t] EXCEPT !.pc = "dispatch", !.dev = {d},
                                  !.copy.rows[d].before = reported[d]]
  <2>1. call[t] \in Calls /\ reported[d] \in Boots
        /\ call[t].copy \in Schedules /\ RowOf(t, d) \in Rows
    BY RowTypes DEF TypeOK, Calls
  <2>2. [RowOf(t, d) EXCEPT !.before = reported[d]] \in Rows
    BY <2>1 DEF Rows
  <2>3. [call[t].copy.rows EXCEPT ![d].before = reported[d]]
          \in [Devices -> Rows]
    BY <2>1, <2>2 DEF Schedules, RowOf
  <2>4. [call[t].copy EXCEPT !.rows[d].before = reported[d]] \in Schedules
    BY <2>1, <2>3 DEF Schedules
  <2>5. n \in Calls
    BY <2>1, <2>4 DEF Calls
  <2>6. call' = [call EXCEPT ![t] = n]
    BY <1>4 DEF Announce
  <2>7. call' \in [Callers -> Calls]
    BY <2>5, <2>6 DEF TypeOK
  <2>8. expected' \subseteq Devices \X Boots
    BY <1>4, <2>1 DEF Announce, TypeOK
  <2> QED BY <1>4, <2>7, <2>8 DEF Announce, TypeOK, devices, history
<1>5. ASSUME NEW d \in Devices, Dispatch(t, d)
      PROVE  TypeOK'
  <2> DEFINE r == [RowOf(t, d) EXCEPT !.state = "dispatched",
                                      !.cmd = Len(cmds[d]) + 1]
             c == [state |-> "queued", at |-> boot[d]]
  <2>1. /\ RowOf(t, d) \in Rows /\ cmds[d] \in Seq(Commands)
        /\ Len(cmds[d]) < MaxCommands
    BY <1>5, RowTypes DEF Dispatch
  <2>2. Len(cmds[d]) \in Nat /\ Len(cmds[d]) + 1 \in 0..MaxCommands
    BY <2>1
  <2>3. r \in Rows
    BY <2>1, <2>2 DEF Rows, RowStates
  <2>4. call' \in [Callers -> Calls]
    BY <1>5, <2>3, VisitedLemma DEF Dispatch
  <2>5. c \in Commands
    BY DEF TypeOK, Commands, CommandStates
  <2>6. Append(cmds[d], c) \in Seq(Commands)
        /\ Len(Append(cmds[d], c)) <= MaxCommands
    BY <2>1, <2>2, <2>5
  <2>7. /\ cmds' \in [Devices -> Seq([state : CommandStates, at : Boots])]
        /\ \A e \in Devices : Len(cmds'[e]) <= MaxCommands
    BY <1>5, <2>6 DEF Dispatch, TypeOK, Commands
  <2>8. misled' \subseteq Devices
    BY <1>5 DEF Dispatch, TypeOK
  <2> QED BY <1>5, <2>4, <2>7, <2>8 DEF Dispatch, TypeOK, devices
<1>6. ASSUME NEW d \in Devices, CancelRow(t, d)
      PROVE  TypeOK'
  <2>1. RowOf(t, d) \in Rows
        /\ [RowOf(t, d) EXCEPT !.state = "canceled"] \in Rows
    BY RowTypes DEF Rows, RowStates, Terminal
  <2>2. CASE Writes(t, d, "revoke")
    <3>1. [call[t] EXCEPT !.pc = "revoke", !.dev = {d}] \in Calls
      BY RowTypes DEF Calls
    <3>2. call' \in [Callers -> Calls]
      BY <2>2, <3>1 DEF Writes, TypeOK
    <3> QED BY <1>6, <3>2 DEF CancelRow, TypeOK, devices, history
  <2>3. CASE ~Writes(t, d, "revoke")
    <3>1. call' \in [Callers -> Calls]
      BY <1>6, <2>1, <2>3, VisitedLemma DEF CancelRow
    <3> QED BY <1>6, <3>1 DEF CancelRow, TypeOK, devices, history
  <2> QED BY <2>2, <2>3
<1>7. ASSUME NEW d \in Devices, Revoke(t, d)
      PROVE  TypeOK'
  <2>1. RowOf(t, d) \in Rows
        /\ [RowOf(t, d) EXCEPT !.state = "canceled"] \in Rows
    BY RowTypes DEF Rows, RowStates, Terminal
  <2>2. call' = [call EXCEPT ![t] = Idle]
        \/ Visited(t, d, [RowOf(t, d) EXCEPT !.state = "canceled"])
    BY <1>7 DEF Revoke
  <2>3. call' \in [Callers -> Calls]
    <3>1. CASE call' = [call EXCEPT ![t] = Idle]
      BY <3>1, IdleLemma DEF TypeOK
    <3> QED BY <2>1, <2>2, <3>1, VisitedLemma
  <2> DEFINE s == Moved(cmds[d], RowOf(t, d).cmd, "canceled")
  <2>4. s \in Seq(Commands) /\ Len(s) = Len(cmds[d])
    <3>1. cmds[d] \in Seq(Commands) /\ "canceled" \in CommandStates
      BY RowTypes DEF CommandStates, CommandTerminal
    <3> QED BY <3>1, MoveLemma
  <2>5. cmds' = cmds \/ cmds' = [cmds EXCEPT ![d] = s]
    BY <1>7 DEF Revoke, Moved
  <2> HIDE DEF s
  <2>6. /\ cmds' \in [Devices -> Seq([state : CommandStates, at : Boots])]
        /\ \A e \in Devices : Len(cmds'[e]) <= MaxCommands
    BY <2>4, <2>5 DEF TypeOK, Commands
  <2>7. slipped' \subseteq Devices
    BY <1>7 DEF Revoke, TypeOK
  <2> QED BY <1>7, <2>3, <2>6, <2>7 DEF Revoke, TypeOK, devices
<1>8. ASSUME Save(t)
      PROVE  TypeOK'
  <2>1. call' \in [Callers -> Calls]
    BY <1>8, IdleLemma DEF Save, TypeOK
  <2> DEFINE s == Concluded(call[t].op, call[t].base, call[t].copy.rows)
  <2>2. call[t].base \in Schedules /\ call[t].copy \in Schedules
    BY RowTypes DEF TypeOK, Calls
  <2>3. s \in ScheduleStates
    BY <2>2, ConcludedType
  <2> HIDE DEF s
  <2>4. [call[t].copy EXCEPT !.state = s] \in Schedules
    BY <2>2, <2>3 DEF Schedules
  <2>5. sched' \in {sched, [call[t].copy EXCEPT !.state = s]}
    BY <1>8 DEF Save, s
  <2>6. raced' \subseteq Devices
    BY <1>8 DEF Save, TypeOK
  <2> QED BY <1>8, <2>1, <2>4, <2>5, <2>6 DEF Save, TypeOK, devices
<1>9. ASSUME Die(t)
      PROVE  TypeOK'
  <2>1. call' \in [Callers -> Calls]
    BY <1>9, IdleLemma DEF Die, TypeOK
  <2>2. raced' \subseteq Devices /\ trouble' \in 0..MaxTrouble
    BY <1>9, TroubledLemma DEF Die, TypeOK
  <2> QED BY <1>9, <2>1, <2>2 DEF Die, TypeOK, devices
<1> QED
  BY <1>1, <1>2, <1>3, <1>4, <1>5, <1>6, <1>7, <1>8, <1>9
  DEF ThreadStep, Continue

LEMMA RestartType ==
  ASSUME TypeOK, NEW d \in Devices, Restart(d)
  PROVE  /\ boot' \in [Devices -> Boots]
         /\ inbox' \in [Devices -> SUBSET Numbers]
         /\ armed' \in [Devices -> SUBSET Numbers]
BY RebootAssumption DEF TypeOK, Restart, Boots

LEMMA DeviceType ==
  ASSUME TypeOK, NEW d \in Devices, Delivery(d) \/ DeviceStep(d)
  PROVE  TypeOK'
<1> USE RebootAssumption
<1>1. ASSUME NEW b \in Boots, Report(d, b)
      PROVE  TypeOK'
  <2>1. /\ reported' \in [Devices -> Boots]
        /\ delayed' \in [Devices -> 0..MaxBoots]
        /\ misled' \subseteq Devices
    BY <1>1 DEF Report, TypeOK
  <2> QED BY <1>1, <2>1 DEF Report, TypeOK
<1>2. ASSUME NEW late \in SUBSET Numbers, Poll(d, late)
      PROVE  TypeOK'
  <2>1. cmds[d] \in Seq(Commands) /\ Len(cmds[d]) <= MaxCommands
    BY DEF TypeOK, Commands
  <2>2. AfterPoll(d, late) \in Seq(Commands)
        /\ Len(AfterPoll(d, late)) = Len(cmds[d])
    BY <2>1, PollLemma
  <2>3. /\ cmds' = [cmds EXCEPT ![d] = AfterPoll(d, late)]
        /\ inbox' = [inbox EXCEPT ![d] = @ \cup HandedOut(d, late)]
    BY <1>2 DEF Poll
  <2>4. HandedOut(d, late) \subseteq Numbers
    BY <2>1 DEF Numbers, HandedOut
  <2>9. /\ cmds' \in [Devices -> Seq([state : CommandStates, at : Boots])]
        /\ \A e \in Devices : Len(cmds'[e]) <= MaxCommands
        /\ inbox' \in [Devices -> SUBSET Numbers]
    BY <2>1, <2>2, <2>3, <2>4 DEF TypeOK, Commands
  <2> QED BY <1>2, <2>9 DEF Poll, TypeOK, history
<1>3. ASSUME NEW i \in Numbers, ReportAccepted(d, i)
      PROVE  TypeOK'
  <2> DEFINE s == Moved(cmds[d], i, "accepted")
  <2>1. cmds[d] \in Seq(Commands) /\ "accepted" \in CommandStates
    BY DEF TypeOK, Commands, CommandStates
  <2>2. s \in Seq(Commands) /\ Len(s) = Len(cmds[d])
    BY <2>1, MoveLemma
  <2>3. cmds' = [cmds EXCEPT ![d] = s]
    BY <1>3 DEF ReportAccepted, Moved
  <2> HIDE DEF s
  <2>4. /\ cmds' \in [Devices -> Seq([state : CommandStates, at : Boots])]
        /\ \A e \in Devices : Len(cmds'[e]) <= MaxCommands
    BY <2>2, <2>3 DEF TypeOK, Commands
  <2> QED BY <1>3, <2>4 DEF ReportAccepted, TypeOK, devices, history
<1>4. ASSUME NEW i \in Numbers, ExecKnown(d, i)
      PROVE  TypeOK'
  BY <1>4 DEF ExecKnown, TypeOK, controller, history
<1>5. ASSUME NEW i \in Numbers, NEW last \in {"armed", "marked", "seen"},
             ExecArm(d, i, last)
      PROVE  TypeOK'
  <2>1. marker' \in [Devices -> [cmd : 0..MaxCommands, boot : 0..MaxBoots]]
    BY <1>5 DEF ExecArm, TypeOK, Numbers, Boots
  <2>2. /\ inbox' \in [Devices -> SUBSET Numbers]
        /\ armed' \in [Devices -> SUBSET Numbers]
        /\ seen' \in [Devices -> SUBSET Numbers]
    BY <1>5 DEF ExecArm, TypeOK
  <2>3. trouble' \in 0..MaxTrouble
    BY <1>5, TroubledLemma DEF ExecArm, TypeOK
  <2> QED BY <1>5, <2>1, <2>2, <2>3 DEF ExecArm, TypeOK, controller, history
<1>6. ASSUME NEW i \in Numbers, TimerFires(d, i)
      PROVE  TypeOK'
  <2>1. reboots' \in [Devices -> [Numbers -> Nat]]
    BY <1>6 DEF TimerFires, TypeOK
  <2>2. delayed' \in [Devices -> 0..MaxBoots]
    <3>1. boot[d] \in 0..MaxBoots
      BY DEF TypeOK, Boots
    <3>2. delayed' = delayed \/ delayed' = [delayed EXCEPT ![d] = boot[d]]
      BY <1>6 DEF TimerFires
    <3> QED BY <3>1, <3>2 DEF TypeOK
  <2>3. trouble' \in 0..MaxTrouble
    BY <1>6, TroubledLemma DEF TimerFires, TypeOK
  <2>4. torn' \subseteq Devices \X Numbers
    BY <1>6 DEF TimerFires, TypeOK
  <2>5. Restart(d)
    BY <1>6 DEF TimerFires
  <2>6. UNCHANGED <<controller, marker, seen, raced, slipped, misled>>
    BY <2>5 DEF Restart
  <2>7. /\ boot' \in [Devices -> Boots]
        /\ inbox' \in [Devices -> SUBSET Numbers]
        /\ armed' \in [Devices -> SUBSET Numbers]
    BY <2>5, RestartType
  <2> QED BY <2>1, <2>2, <2>3, <2>4, <2>6, <2>7 DEF TypeOK, controller
<1>7. ASSUME Unmark(d)
      PROVE  TypeOK'
  <2>1. NoMarker \in [cmd : 0..MaxCommands, boot : 0..MaxBoots]
    BY DEF NoMarker
  <2>2. marker' \in [Devices -> [cmd : 0..MaxCommands, boot : 0..MaxBoots]]
    BY <1>7, <2>1 DEF Unmark, TypeOK
  <2> QED BY <1>7, <2>2 DEF Unmark, TypeOK, controller, history
<1>8. ASSUME PowerCut(d)
      PROVE  TypeOK'
  <2>1. Restart(d) /\ trouble' \in 0..MaxTrouble
    BY <1>8, TroubledLemma DEF PowerCut
  <2> QED BY <1>8, <2>1, RestartType DEF PowerCut, Restart, TypeOK, controller
<1> QED
  BY <1>1, <1>2, <1>3, <1>4, <1>5, <1>6, <1>7, <1>8 DEF Delivery, DeviceStep

LEMMA TypeStep == TypeOK /\ [Next]_vars => TypeOK'
<1> SUFFICES ASSUME TypeOK, [Next]_vars PROVE TypeOK'
  OBVIOUS
<1>1. CASE Create
  <2> DEFINE n == [d \in Devices |-> [state |-> "queued",
                                       before |-> reported[d], cmd |-> 0]]
  <2>1. n \in [Devices -> Rows]
    BY RebootAssumption DEF TypeOK, Rows, RowStates
  <2>2. sched' = [state |-> "queued", rows |-> n]
    BY <1>1 DEF Create
  <2>3. sched' \in Schedules
    BY <2>1, <2>2 DEF Schedules, ScheduleStates
  <2> QED BY <1>1, <2>3 DEF Create, TypeOK, devices, history
<1>2. CASE Window
  BY <1>2 DEF Window, TypeOK, devices, history
<1>3. CASE UNCHANGED vars
  BY <1>3 DEF vars, controller, devices, history, TypeOK
<1> QED BY <1>1, <1>2, <1>3, ThreadType, DeviceType DEF Next

\* Every variable keeps its type, however many threads and devices.
THEOREM TypeCorrect == Spec => []TypeOK
<1> QED BY InitType, TypeStep, PTL DEF Spec

-----------------------------------------------------------------------------
(* One reboot per command: what has rebooted its device is remembered, and *)
(* what is remembered is not armed again.                                  *)

ArmedInv == \A d \in Devices, i \in Numbers : <<d, i>> \notin torn =>
  /\ i \in armed[d] => reboots[d][i] = 0
  /\ reboots[d][i] # 0 => i \in seen[d]
  /\ reboots[d][i] <= 1

LEMMA ThreadFrame ==
  ASSUME NEW t \in Callers, ThreadStep(t)
  PROVE  UNCHANGED <<boot, delayed, inbox, armed, marker, seen, reboots, torn,
                     reported, due>>
<1>1. ASSUME NEW d \in Devices,
             Wait(t, d) \/ Announce(t, d) \/ Dispatch(t, d)
             \/ CancelRow(t, d) \/ Revoke(t, d)
      PROVE  UNCHANGED <<boot, delayed, inbox, armed, marker, seen, reboots,
                         torn, reported, due>>
  BY <1>1 DEF Wait, Announce, Dispatch, CancelRow, Revoke, devices, history
<1>2. ASSUME NEW d \in Devices, NEW late \in BOOLEAN, Examine(t, d, late)
      PROVE  UNCHANGED <<boot, delayed, inbox, armed, marker, seen, reboots,
                         torn, reported, due>>
  BY <1>2 DEF Examine, devices, history
<1>3. ASSUME (\E op \in {"reconcile", "cancel"} : Load(t, op))
             \/ Save(t) \/ Die(t)
      PROVE  UNCHANGED <<boot, delayed, inbox, armed, marker, seen, reboots,
                         torn, reported, due>>
  BY <1>3 DEF Load, Save, Die, devices, history
<1> QED BY <1>1, <1>2, <1>3 DEF ThreadStep, Continue

LEMMA ArmedStep == TypeOK /\ ArmedInv /\ [Next]_vars => ArmedInv'
<1> SUFFICES ASSUME TypeOK, ArmedInv, [Next]_vars PROVE ArmedInv'
  OBVIOUS
<1>1. ASSUME UNCHANGED <<armed, seen, reboots, torn>>
      PROVE  ArmedInv'
  BY <1>1 DEF ArmedInv
<1>2. ASSUME NEW d \in Devices, NEW i \in Numbers, ExecKnown(d, i)
      PROVE  ArmedInv'
  BY <1>2 DEF ExecKnown, ArmedInv, TypeOK, history
<1>3. ASSUME NEW d \in Devices, NEW i \in Numbers,
             NEW last \in {"armed", "marked", "seen"}, ExecArm(d, i, last)
      PROVE  ArmedInv'
  <2>1. /\ armed' = [armed EXCEPT ![d] = @ \cup {i}]
        /\ i \notin seen[d] /\ reboots' = reboots /\ torn' = torn
    BY <1>3 DEF ExecArm, AlreadyAccepted, history
  <2>2. seen' = seen \/ seen' = [seen EXCEPT ![d] = @ \cup {i}]
    BY <1>3 DEF ExecArm
  <2>3. SUFFICES ASSUME NEW e \in Devices, NEW j \in Numbers,
                        <<e, j>> \notin torn'
                 PROVE  /\ j \in armed'[e] => reboots[e][j] = 0
                        /\ reboots[e][j] # 0 => j \in seen'[e]
                        /\ reboots[e][j] <= 1
    BY <2>1 DEF ArmedInv
  <2>4. /\ j \in armed[e] => reboots[e][j] = 0
        /\ reboots[e][j] # 0 => j \in seen[e]
        /\ reboots[e][j] <= 1
    BY <2>1, <2>3 DEF ArmedInv
  <2>5. CASE e = d /\ j = i
    BY <2>1, <2>2, <2>3, <2>4, <2>5 DEF TypeOK
  <2>6. CASE ~(e = d /\ j = i)
    BY <2>1, <2>2, <2>4, <2>6 DEF TypeOK
  <2> QED BY <2>5, <2>6
<1>4. ASSUME NEW d \in Devices, NEW i \in Numbers, TimerFires(d, i)
      PROVE  ArmedInv'
  <2>1. /\ armed' = [armed EXCEPT ![d] = {}] /\ i \in armed[d]
        /\ reboots' = [reboots EXCEPT ![d][i] = @ + 1]
        /\ seen' = seen
        /\ torn' = IF i \in seen[d] THEN torn ELSE torn \cup {<<d, i>>}
    BY <1>4 DEF TimerFires, Restart
  <2>2. SUFFICES ASSUME NEW e \in Devices, NEW j \in Numbers,
                        <<e, j>> \notin torn'
                 PROVE  /\ j \in armed'[e] => reboots'[e][j] = 0
                        /\ reboots'[e][j] # 0 => j \in seen[e]
                        /\ reboots'[e][j] <= 1
    BY <2>1 DEF ArmedInv
  <2>3. /\ j \in armed[e] => reboots[e][j] = 0
        /\ reboots[e][j] # 0 => j \in seen[e]
        /\ reboots[e][j] <= 1
    BY <2>1, <2>2 DEF ArmedInv
  <2>4. CASE e = d /\ j = i
    <3>1. j \in seen[e] /\ reboots[e][j] = 0 /\ armed'[e] = {}
      BY <2>1, <2>2, <2>3, <2>4 DEF TypeOK
    <3>2. reboots'[e][j] = 1
      BY <2>1, <2>4, <3>1 DEF TypeOK
    <3> QED BY <3>1, <3>2
  <2>5. CASE ~(e = d /\ j = i)
    BY <2>1, <2>3, <2>5 DEF TypeOK
  <2> QED BY <2>4, <2>5
<1>5. ASSUME NEW d \in Devices, PowerCut(d)
      PROVE  ArmedInv'
  BY <1>5 DEF PowerCut, Restart, ArmedInv, TypeOK
<1>6. CASE Create \/ Window \/ UNCHANGED vars
  BY <1>1, <1>6 DEF Create, Window, vars, devices, history
<1>7. ASSUME NEW d \in Devices, Delivery(d) \/ Unmark(d)
      PROVE  UNCHANGED <<armed, seen, reboots, torn>>
  BY <1>7 DEF Delivery, Report, Poll, ReportAccepted, Unmark, devices, history
<1> QED
  BY <1>1, <1>2, <1>3, <1>4, <1>5, <1>6, <1>7, ThreadFrame
  DEF Next, DeviceStep

\* However often a command is delivered again, and whenever the executor is
\* killed or the device restarts, it reboots its device a second time only if
\* the first reboot came before executor-seen.json had the command.
THEOREM RebootsOnce == Spec => []OneRebootPerCommand
<1>1. Init => ArmedInv
  BY DEF Init, ArmedInv
<1>2. TypeOK /\ ArmedInv => OneRebootPerCommand
  BY DEF ArmedInv, OneRebootPerCommand, TypeOK
<1> QED BY <1>1, <1>2, ArmedStep, TypeCorrect, PTL DEF Spec

-----------------------------------------------------------------------------
(* What a step never takes back.                                           *)

Forward(d) ==
  /\ DOMAIN cmds[d] \subseteq DOMAIN cmds'[d]
  /\ \A i \in DOMAIN cmds[d] :
       /\ cmds'[d][i].at = cmds[d][i].at
       /\ cmds[d][i].state = "canceled" => cmds'[d][i].state = "canceled"
  /\ expected \subseteq expected' /\ misled \subseteq misled'
  /\ d \notin misled' => reported[d] <= reported'[d]
  /\ boot[d] <= boot'[d]

\* The commands are left alone, or one of them moves on.
LEMMA MovesForward ==
  ASSUME TypeOK, NEW d \in Devices, NEW i, NEW v \in CommandStates,
         cmds' = [cmds EXCEPT ![d] = Moved(cmds[d], i, v)],
         i \in DOMAIN cmds[d] => v = "canceled" \/ cmds[d][i].state # "canceled",
         NEW e \in Devices
  PROVE  /\ DOMAIN cmds'[e] = DOMAIN cmds[e]
         /\ \A j \in DOMAIN cmds[e] :
              /\ cmds'[e][j].at = cmds[e][j].at
              /\ cmds[e][j].state = "canceled" => cmds'[e][j].state = "canceled"
<1>1. cmds[d] \in Seq(Commands)
  BY DEF TypeOK, Commands
<1>2. e # d => cmds'[e] = cmds[e]
  BY DEF TypeOK
<1>3. cmds'[d] = Moved(cmds[d], i, v)
  BY DEF TypeOK
<1>4. CASE e = d
  BY <1>1, <1>3, <1>4, MoveLemma
<1> QED BY <1>2, <1>4

LEMMA ThreadForward ==
  ASSUME TypeOK, NEW t \in Callers, ThreadStep(t), NEW e \in Devices
  PROVE  Forward(e)
<1>0. /\ reported' = reported /\ boot' = boot
      /\ reported[e] \in Nat /\ boot[e] \in Nat
  BY ThreadFrame DEF TypeOK, Boots
<1>1. ASSUME NEW d \in Devices, NEW late \in BOOLEAN, Examine(t, d, late)
      PROVE  Forward(e)
  <2>1. expected' = expected /\ misled' = misled
    BY <1>1 DEF Examine, history
  <2> DEFINE i == RowOf(t, d).cmd
  <2>2. CASE cmds' = cmds
    BY <1>0, <2>1, <2>2 DEF Forward
  <2>3. CASE cmds' # cmds
    <3>1. /\ cmds' = [cmds EXCEPT ![d] = Moved(cmds[d], i, "succeeded")]
          /\ cmds[d][i].state # "canceled" /\ "succeeded" \in CommandStates
      BY <1>1, <2>3
      DEF Examine, Moved, StateOf, CommandTerminal, CommandStates
    <3> HIDE DEF i
    <3>2. /\ DOMAIN cmds'[e] = DOMAIN cmds[e]
          /\ \A j \in DOMAIN cmds[e] :
               /\ cmds'[e][j].at = cmds[e][j].at
               /\ cmds[e][j].state = "canceled" => cmds'[e][j].state = "canceled"
      BY <3>1, MovesForward
    <3> QED BY <1>0, <2>1, <3>2 DEF Forward
  <2> QED BY <2>2, <2>3
<1>2. ASSUME NEW d \in Devices, Dispatch(t, d)
      PROVE  Forward(e)
  <2> DEFINE c == [state |-> "queued", at |-> boot[d]]
  <2>1. /\ cmds' = [cmds EXCEPT ![d] = Append(cmds[d], c)]
        /\ expected' = expected /\ misled \subseteq misled'
    BY <1>2 DEF Dispatch
  <2> HIDE DEF c
  <2>2. cmds[d] \in Seq(Commands) /\ cmds[e] \in Seq(Commands)
    BY DEF TypeOK, Commands
  <2>3. cmds'[e] = IF e = d THEN Append(cmds[d], c) ELSE cmds[e]
    BY <2>1 DEF TypeOK
  <2>4. DOMAIN cmds[e] \subseteq DOMAIN cmds'[e]
        /\ \A i \in DOMAIN cmds[e] : cmds'[e][i] = cmds[e][i]
    BY <2>2, <2>3
  <2> QED BY <1>0, <2>1, <2>4 DEF Forward
<1>3. ASSUME NEW d \in Devices, Revoke(t, d)
      PROVE  Forward(e)
  <2>1. expected' = expected /\ misled' = misled
    BY <1>3 DEF Revoke
  <2>2. CASE cmds' = cmds
    BY <1>0, <2>1, <2>2 DEF Forward
  <2>3. CASE cmds' # cmds
    <3>1. /\ cmds' = [cmds EXCEPT ![d] =
                        Moved(cmds[d], RowOf(t, d).cmd, "canceled")]
          /\ "canceled" \in CommandStates
      BY <1>3, <2>3 DEF Revoke, Moved, CommandTerminal, CommandStates
    <3>2. /\ DOMAIN cmds'[e] = DOMAIN cmds[e]
          /\ \A j \in DOMAIN cmds[e] :
               /\ cmds'[e][j].at = cmds[e][j].at
               /\ cmds[e][j].state = "canceled" => cmds'[e][j].state = "canceled"
      BY <3>1, MovesForward
    <3> QED BY <1>0, <2>1, <3>2 DEF Forward
  <2> QED BY <2>2, <2>3
<1>4. ASSUME NEW d \in Devices, Wait(t, d) \/ Announce(t, d) \/ CancelRow(t, d)
      PROVE  Forward(e)
  <2>1. cmds' = cmds /\ expected \subseteq expected' /\ misled' = misled
    BY <1>4 DEF Wait, Announce, CancelRow, history
  <2> QED BY <1>0, <2>1 DEF Forward
<1>5. ASSUME (\E op \in {"reconcile", "cancel"} : Load(t, op))
             \/ Save(t) \/ Die(t)
      PROVE  Forward(e)
  <2>1. cmds' = cmds /\ expected' = expected /\ misled' = misled
    BY <1>5 DEF Load, Save, Die, history
  <2> QED BY <1>0, <2>1 DEF Forward
<1> QED BY <1>1, <1>2, <1>3, <1>4, <1>5 DEF ThreadStep, Continue

LEMMA StepForward ==
  ASSUME TypeOK, [Next]_vars, NEW e \in Devices
  PROVE  Forward(e)
<1>0. reported[e] \in Nat /\ boot[e] \in Nat
  BY DEF TypeOK, Boots
<1>1. ASSUME UNCHANGED <<cmds, expected, misled, reported, boot>>
      PROVE  Forward(e)
  BY <1>0, <1>1 DEF Forward
<1>2. ASSUME NEW d \in Devices, NEW b \in Boots, Report(d, b)
      PROVE  Forward(e)
  <2>1. /\ UNCHANGED <<cmds, expected, boot>> /\ misled \subseteq misled'
        /\ reported' = [reported EXCEPT ![d] = b]
        /\ b < reported[d] => d \in misled'
    BY <1>2 DEF Report
  <2>2. b \in Nat
    BY DEF Boots
  <2>3. e \notin misled' => reported[e] <= reported'[e]
    BY <1>0, <2>1, <2>2 DEF TypeOK
  <2> QED BY <1>0, <2>1, <2>3 DEF Forward
<1>3. ASSUME NEW d \in Devices, NEW late \in SUBSET Numbers, Poll(d, late)
      PROVE  Forward(e)
  <2>1. cmds[d] \in Seq(Commands)
    BY DEF TypeOK, Commands
  <2>2. /\ cmds' = [cmds EXCEPT ![d] = AfterPoll(d, late)]
        /\ UNCHANGED <<expected, boot, reported, misled>>
        /\ \A i \in late : cmds[d][i].state # "canceled"
    BY <1>3 DEF Poll, history, StateOf, CommandTerminal
  <2>3. \A i \in HandedOut(d, late) : cmds[d][i].state # "canceled"
    BY DEF HandedOut, StateOf
  <2>4. cmds'[e] = IF e = d THEN AfterPoll(d, late) ELSE cmds[e]
    BY <2>2 DEF TypeOK
  <2>5. DOMAIN cmds'[e] = DOMAIN cmds[e]
        /\ \A j \in DOMAIN cmds[e] :
             /\ cmds'[e][j].at = cmds[e][j].at
             /\ cmds[e][j].state = "canceled" => cmds'[e][j].state = "canceled"
    <3>1. CASE e # d
      BY <2>4, <3>1
    <3>2. CASE e = d
      BY <2>1, <2>2, <2>3, <2>4, <3>2, PollLemma
    <3> QED BY <3>1, <3>2
  <2> QED BY <1>0, <2>2, <2>5 DEF Forward
<1>4. ASSUME NEW d \in Devices, NEW i \in Numbers, ReportAccepted(d, i)
      PROVE  Forward(e)
  <2>1. /\ cmds' = [cmds EXCEPT ![d] = Moved(cmds[d], i, "accepted")]
        /\ cmds[d][i].state # "canceled" /\ "accepted" \in CommandStates
        /\ UNCHANGED <<expected, misled, reported, boot>>
    BY <1>4 DEF ReportAccepted, Moved, StateOf, CommandStates, devices, history
  <2>2. /\ DOMAIN cmds'[e] = DOMAIN cmds[e]
        /\ \A j \in DOMAIN cmds[e] :
             /\ cmds'[e][j].at = cmds[e][j].at
             /\ cmds[e][j].state = "canceled" => cmds'[e][j].state = "canceled"
    BY <2>1, MovesForward
  <2> QED BY <1>0, <2>1, <2>2 DEF Forward
<1>5. ASSUME NEW d \in Devices, Restart(d), misled' = misled
      PROVE  Forward(e)
  <2>1. boot' = [boot EXCEPT ![d] = @ + 1]
        /\ UNCHANGED <<cmds, expected, reported, misled>>
    BY <1>5 DEF Restart, controller
  <2> QED BY <1>0, <2>1 DEF Forward, TypeOK
<1>6. ASSUME NEW d \in Devices, DeviceStep(d)
      PROVE  Forward(e)
  <2>1. (Restart(d) /\ misled' = misled)
        \/ UNCHANGED <<cmds, expected, misled, reported, boot>>
    BY <1>6 DEF DeviceStep, ExecKnown, ExecArm, TimerFires, Unmark, PowerCut,
       Restart, controller, history
  <2> QED BY <1>1, <1>5, <2>1
<1>7. CASE Create \/ Window \/ UNCHANGED vars
  BY <1>1, <1>7 DEF Create, Window, vars, controller, devices, history
<1> QED
  BY <1>2, <1>3, <1>4, <1>6, <1>7, ThreadForward DEF Next, Delivery

-----------------------------------------------------------------------------
(* The invariant.                                                          *)

\* What is true of a row, whether saved or held by a thread.
RowGood(d, r) ==
  /\ r.cmd # 0 => r.cmd \in DOMAIN cmds[d] /\ <<d, r.before>> \in expected
  /\ r.cmd # 0 /\ d \notin misled
       => r.before = cmds[d][r.cmd].at /\ r.before <= reported[d]
  /\ r.state = "canceled" /\ r.cmd # 0 => cmds[d][r.cmd].state = "canceled"
  /\ r.state = "succeeded"
       => r.cmd # 0 /\ (d \notin misled => cmds[d][r.cmd].at < boot[d])

\* A device's boot is never older than what is known or under way of it.
BootInv == \A d \in Devices : reported[d] <= boot[d] /\ delayed[d] <= boot[d]

\* What is true of a thread's call.
CallGood(c) ==
  /\ c.pc # "idle" => c.base.state # "absent"
  /\ c.pc = "dispatch" =>
       /\ c.op = "reconcile"
       /\ \A d \in c.dev : LET r == c.copy.rows[d] IN
            /\ r.cmd = 0 /\ <<d, r.before>> \in expected
            /\ d \notin misled => r.before <= reported[d]
  /\ c.pc = "revoke" => c.op = "cancel"
  /\ \A d \in Devices :
       c.copy.rows[d].cmd # c.base.rows[d].cmd
         => c.base.rows[d].cmd = 0 /\ c.op = "reconcile"

CallInv == \A t \in Callers : CallGood(call[t])

RowsInv == \A d \in Devices :
  /\ RowGood(d, sched.rows[d])
  /\ sched.state = "absent" => sched.rows[d].cmd = 0
  /\ \A t \in Callers : RowGood(d, RowOf(t, d)) /\ RowGood(d, call[t].base.rows[d])

\* Every command of a device is held by the saved row or by a thread, and
\* whoever works for the device began with no command or with the saved one.
TrackInv == \A d \in Devices \ raced :
  /\ \A i \in DOMAIN cmds[d] :
       i = sched.rows[d].cmd \/ \E t \in Callers : i = RowOf(t, d).cmd
  /\ \A t \in Callers : call[t].base.rows[d].cmd \in {0, sched.rows[d].cmd}
  /\ \A t \in Callers : call[t].pc = "idle" => RowOf(t, d).cmd = 0

\* A command that was not yet handed out, or was revoked in time, is nowhere on
\* the device.
Untouched(d, i) == i \notin inbox[d] /\ i \notin armed[d] /\ reboots[d][i] = 0

FreshInv == \A d \in Devices, i \in Numbers :
  /\ i \notin DOMAIN cmds[d] => Untouched(d, i)
  /\ i \in DOMAIN cmds[d] =>
       /\ cmds[d][i].state = "queued" => Untouched(d, i)
       /\ cmds[d][i].state = "canceled" /\ d \notin slipped => Untouched(d, i)

RowInv == TypeOK /\ BootInv /\ CallInv /\ RowsInv

LEMMA BootStep == TypeOK /\ BootInv /\ [Next]_vars => BootInv'
<1> SUFFICES ASSUME TypeOK, BootInv, [Next]_vars PROVE BootInv'
  OBVIOUS
<1>0. \A e \in Devices :
        reported[e] \in Nat /\ boot[e] \in Nat /\ delayed[e] \in Nat
  BY DEF TypeOK, Boots
<1>1. ASSUME UNCHANGED <<reported, boot, delayed>>
      PROVE  BootInv'
  BY <1>1 DEF BootInv
<1>2. ASSUME NEW d \in Devices, NEW b \in Boots, Report(d, b)
      PROVE  BootInv'
  <2>1. /\ boot' = boot /\ reported' = [reported EXCEPT ![d] = b]
        /\ b = boot[d] \/ b = delayed[d]
        /\ delayed' = delayed \/ delayed' = [delayed EXCEPT ![d] = 0]
    BY <1>2 DEF Report
  <2> QED BY <1>0, <2>1 DEF BootInv, TypeOK
<1>3. ASSUME NEW d \in Devices, DeviceStep(d)
      PROVE  BootInv'
  <2>1. CASE UNCHANGED <<reported, boot, delayed>>
    BY <1>1, <2>1
  <2>2. CASE ~UNCHANGED <<reported, boot, delayed>>
    <3>1. /\ reported' = reported /\ boot' = [boot EXCEPT ![d] = @ + 1]
          /\ delayed' = delayed \/ delayed' = [delayed EXCEPT ![d] = boot[d]]
      BY <1>3, <2>2 DEF DeviceStep, ExecKnown, ExecArm, TimerFires, Unmark,
         PowerCut, Restart, controller
    <3> QED BY <1>0, <3>1 DEF BootInv, TypeOK
  <2> QED BY <2>1, <2>2
<1>4. ASSUME NEW t \in Callers, ThreadStep(t)
      PROVE  BootInv'
  BY <1>1, <1>4, ThreadFrame
<1>5. CASE Create \/ Window \/ UNCHANGED vars
  BY <1>1, <1>5 DEF Create, Window, vars, controller, devices
<1>6. ASSUME NEW d \in Devices, Delivery(d), ~\E b \in Boots : Report(d, b)
      PROVE  BootInv'
  BY <1>1, <1>6 DEF Delivery, Poll, ReportAccepted, devices
<1> QED BY <1>2, <1>3, <1>4, <1>5, <1>6 DEF Next, Delivery

\* A row that was good before a step, as it is after it.
GoodAfter(d, r) ==
  /\ r.cmd # 0 => r.cmd \in DOMAIN cmds'[d] /\ <<d, r.before>> \in expected'
  /\ r.cmd # 0 /\ d \notin misled'
       => r.before = cmds'[d][r.cmd].at /\ r.before <= reported'[d]
  /\ r.state = "canceled" /\ r.cmd # 0 => cmds'[d][r.cmd].state = "canceled"
  /\ r.state = "succeeded"
       => r.cmd # 0 /\ (d \notin misled' => cmds'[d][r.cmd].at < boot'[d])

LEMMA GoodStays ==
  ASSUME TypeOK, TypeOK', NEW d \in Devices, NEW r \in Rows, Forward(d),
         RowGood(d, r)
  PROVE  GoodAfter(d, r)
<1>1. /\ reported[d] \in Nat /\ reported'[d] \in Nat
      /\ boot[d] \in Nat /\ boot'[d] \in Nat
      /\ r.before \in Nat
  BY DEF TypeOK, Boots, Rows
<1>2. cmds[d] \in Seq(Commands)
  BY DEF TypeOK, Commands
<1>3. \A i \in DOMAIN cmds[d] : cmds[d][i].at \in Nat
  <2>1. \A i \in DOMAIN cmds[d] : cmds[d][i] \in Commands
    BY <1>2
  <2> QED BY <2>1 DEF Commands, Boots
<1> QED BY <1>1, <1>3 DEF Forward, RowGood, GoodAfter

NewRowsGood(e) ==
  /\ GoodAfter(e, sched'.rows[e])
  /\ sched'.state = "absent" => sched'.rows[e].cmd = 0
  /\ \A u \in Callers : GoodAfter(e, call'[u].copy.rows[e])
                        /\ GoodAfter(e, call'[u].base.rows[e])

LEMMA RowsStep == RowInv /\ TypeOK' /\ [Next]_vars => RowsInv'
<1> SUFFICES ASSUME RowInv, TypeOK', [Next]_vars PROVE RowsInv'
  OBVIOUS
<1>0. TypeOK /\ BootInv /\ CallInv /\ RowsInv
  BY DEF RowInv
<1>1. \A e \in Devices :
        /\ GoodAfter(e, sched.rows[e])
        /\ \A u \in Callers : GoodAfter(e, RowOf(u, e))
                              /\ GoodAfter(e, call[u].base.rows[e])
  <2>1. SUFFICES ASSUME NEW e \in Devices
                 PROVE  /\ GoodAfter(e, sched.rows[e])
                        /\ \A u \in Callers :
                             /\ GoodAfter(e, RowOf(u, e))
                             /\ GoodAfter(e, call[u].base.rows[e])
    OBVIOUS
  <2>2. Forward(e)
    BY <1>0, StepForward
  <2>3. sched.rows[e] \in Rows
    BY <1>0 DEF TypeOK, Schedules
  <2>4. /\ RowGood(e, sched.rows[e])
        /\ \A u \in Callers : RowGood(e, RowOf(u, e))
                              /\ RowGood(e, call[u].base.rows[e])
    BY <1>0 DEF RowsInv
  <2>5. \A u \in Callers : RowOf(u, e) \in Rows /\ call[u].base.rows[e] \in Rows
    BY <1>0, RowTypes
  <2> QED BY <1>0, <2>2, <2>3, <2>4, <2>5, GoodStays
<1>2. \A e \in Devices : GoodAfter(e, NoSchedule.rows[e])
  BY DEF NoSchedule, GoodAfter
<1>3. SUFFICES ASSUME NEW e \in Devices
               PROVE  NewRowsGood(e)
  BY DEF RowsInv, RowGood, GoodAfter, RowOf, NewRowsGood
<1>4. CASE UNCHANGED <<sched, call>>
  BY <1>0, <1>1, <1>4 DEF RowsInv, RowOf, NewRowsGood
\* A thread's step that replaces the row of one device in its copy.
<1>5. ASSUME NEW t \in Callers, NEW d \in Devices, NEW r \in Rows,
             Visited(t, d, r), sched' = sched, GoodAfter(d, r)
      PROVE  NewRowsGood(e)
  <2>1. /\ \A u \in Callers \ {t} : call'[u] = call[u]
        /\ call'[t].base = call[t].base /\ call'[t].copy.rows[d] = r
        /\ e # d => call'[t].copy.rows[e] = call[t].copy.rows[e]
    BY <1>0, <1>5, VisitedLemma
  <2> QED BY <1>0, <1>1, <1>5, <2>1 DEF RowsInv, RowOf, NewRowsGood
\* One that leaves its copy or takes it from elsewhere.
<1>6. ASSUME NEW t \in Callers, NEW c \in Calls, call' = [call EXCEPT ![t] = c],
             sched' = sched,
             \/ c.base = sched /\ c.copy = sched
             \/ c = Idle
             \/ c.base = call[t].base /\ c.copy = call[t].copy
      PROVE  NewRowsGood(e)
  <2>1. (\A u \in Callers \ {t} : call'[u] = call[u]) /\ call'[t] = c
    BY <1>0, <1>6 DEF TypeOK
  <2>2. c = Idle => c.base = NoSchedule /\ c.copy = NoSchedule
    BY DEF Idle
  <2>3. GoodAfter(e, c.base.rows[e]) /\ GoodAfter(e, c.copy.rows[e])
    BY <1>1, <1>2, <1>6, <2>2 DEF RowOf
  <2> QED BY <1>0, <1>1, <1>6, <2>1, <2>3 DEF RowsInv, RowOf, NewRowsGood
<1>7. ASSUME NEW t \in Callers, NEW op \in {"reconcile", "cancel"}, Load(t, op)
      PROVE  NewRowsGood(e)
  <2> DEFINE c == [pc |-> "loop", op |-> op, base |-> sched, copy |-> sched,
                   todo |-> {d \in Devices :
                               sched.rows[d].state \notin Terminal},
                   dev |-> {}, due |-> due]
  <2>1. c \in Calls /\ c.base = sched /\ c.copy = sched
    BY <1>0 DEF TypeOK, Calls
  <2>2. call' = [call EXCEPT ![t] = c] /\ sched' = sched
    BY <1>7 DEF Load
  <2> HIDE DEF c
  <2> QED BY <1>6, <2>1, <2>2
<1>8. ASSUME NEW t \in Callers, NEW d \in Devices, NEW late \in BOOLEAN,
             Examine(t, d, late)
      PROVE  NewRowsGood(e)
  <2> DEFINE r == RowOf(t, d)
             n == Judged(d, r, late)
  <2>1. r \in Rows /\ RowGood(d, r) /\ GoodAfter(d, r) /\ r.cmd # 0
    BY <1>0, <1>1, <1>8, RowTypes DEF RowsInv, Examine
  <2>2. /\ n \in Rows /\ n.before = r.before /\ n.cmd = r.cmd
        /\ n.state = "canceled" => r.state = "canceled"
        /\ n.state = "succeeded" => r.state = "succeeded" \/ Rebooted(d, r)
    BY <2>1, JudgedType
  <2>3. /\ Visited(t, d, n) /\ sched' = sched
        /\ UNCHANGED <<reported, boot, misled>>
    BY <1>8 DEF Examine, devices, history
  <2>4. /\ reported[d] \in Nat /\ boot[d] \in Nat /\ r.before \in Nat
        /\ reported[d] <= boot[d]
    <3>1. r.before \in Nat
      BY <2>1 DEF Rows, Boots
    <3> QED BY <1>0, <3>1, BootTypes DEF BootInv
  <2> HIDE DEF r, n
  <2>5. GoodAfter(d, n)
    BY <2>1, <2>2, <2>3, <2>4 DEF GoodAfter, Rebooted
  <2> QED BY <1>5, <2>2, <2>3, <2>5
<1>9. ASSUME NEW t \in Callers, NEW d \in Devices,
             Wait(t, d) \/ Announce(t, d) \/ Dispatch(t, d)
             \/ CancelRow(t, d) \/ Revoke(t, d)
      PROVE  NewRowsGood(e)
  <2> DEFINE r == RowOf(t, d)
  <2>0. r \in Rows /\ call[t] \in Calls /\ GoodAfter(d, r) /\ RowGood(d, r)
    BY <1>0, <1>1, RowTypes DEF RowsInv
  <2>1. CASE Wait(t, d)
    BY <1>5, <2>0, <2>1 DEF Wait
  <2>2. CASE Announce(t, d)
    <3>1. /\ \A u \in Callers \ {t} : call'[u] = call[u]
          /\ call'[t] = [call[t] EXCEPT !.pc = "dispatch", !.dev = {d},
                                 !.copy.rows[d].before = reported[d]]
          /\ sched' = sched /\ r.cmd = 0 /\ cmds' = cmds /\ misled' = misled
      BY <1>0, <2>2 DEF Announce, TypeOK, history
    <3>2. call'[t].base = call[t].base
          /\ call'[t].copy.rows = [call[t].copy.rows EXCEPT
                                     ![d].before = reported[d]]
      BY <2>0, <3>1 DEF Calls, Schedules
    <3>3. call[t].copy.rows \in [Devices -> Rows]
      BY <2>0 DEF Calls, Schedules
    <3> DEFINE n == [r EXCEPT !.before = reported[d]]
    <3>4. n.cmd = 0 /\ n.state = r.state
      BY <2>0, <3>1 DEF Rows
    <3>5. GoodAfter(d, n)
      BY <2>0, <3>1, <3>4 DEF GoodAfter
    <3>6. call'[t].copy.rows[e] = IF e = d THEN n ELSE call[t].copy.rows[e]
      BY <3>2, <3>3 DEF RowOf
    <3> HIDE DEF n
    <3> QED BY <1>0, <1>1, <3>1, <3>2, <3>5, <3>6 DEF RowsInv, RowOf, NewRowsGood
  <2>3. CASE Dispatch(t, d)
    <3> DEFINE n == [r EXCEPT !.state = "dispatched", !.cmd = Len(cmds[d]) + 1]
               c == [state |-> "queued", at |-> boot[d]]
    <3>1. /\ Visited(t, d, n) /\ sched' = sched
          /\ cmds' = [cmds EXCEPT ![d] = Append(cmds[d], c)]
          /\ UNCHANGED <<expected, reported, boot>>
          /\ misled' = IF r.before = boot[d] THEN misled ELSE misled \cup {d}
          /\ Len(cmds[d]) < MaxCommands
          /\ call[t].pc = "dispatch" /\ d \in call[t].dev
      BY <2>3 DEF Dispatch, devices
    <3>2. cmds[d] \in Seq(Commands) /\ Len(cmds[d]) \in Nat
      BY <1>0, RowTypes
    <3>3. n \in Rows /\ n.before = r.before /\ n.cmd = Len(cmds[d]) + 1
          /\ n.state = "dispatched"
      <4>1. Len(cmds[d]) + 1 \in 0..MaxCommands
        BY <3>1, <3>2, RebootAssumption
      <4> HIDE DEF r
      <4> QED BY <2>0, <4>1 DEF Rows, RowStates
    <3>4. cmds'[d] = Append(cmds[d], c)
      BY <1>0, <3>1 DEF TypeOK
    <3> HIDE DEF c
    <3>5. Len(cmds[d]) + 1 \in DOMAIN cmds'[d]
          /\ cmds'[d][Len(cmds[d]) + 1] = c
      BY <3>2, <3>4
    <3>6. c.at = boot[d]
      BY DEF c
    <3>7. /\ <<d, r.before>> \in expected
          /\ d \notin misled => r.before <= reported[d]
      BY <1>0, <3>1 DEF CallInv, CallGood, RowOf
    <3> HIDE DEF n, r
    <3>8. GoodAfter(d, n)
      BY <3>1, <3>3, <3>5, <3>6, <3>7 DEF GoodAfter
    <3> QED BY <1>5, <3>1, <3>3, <3>8
  <2>4. CASE CancelRow(t, d)
    <3> DEFINE n == [r EXCEPT !.state = "canceled"]
    <3>1. n \in Rows /\ n.cmd = r.cmd /\ n.state = "canceled"
      BY <2>0 DEF Rows, RowStates, Terminal
    <3>2. sched' = sched
      BY <2>4 DEF CancelRow
    <3>3. CASE Writes(t, d, "revoke")
      <4> DEFINE c == [call[t] EXCEPT !.pc = "revoke", !.dev = {d}]
      <4>1. c \in Calls /\ c.base = call[t].base /\ c.copy = call[t].copy
        BY <2>0 DEF Calls
      <4>2. call' = [call EXCEPT ![t] = c]
        BY <3>3 DEF Writes
      <4> HIDE DEF c
      <4> QED BY <1>6, <3>2, <4>1, <4>2
    <3>4. CASE Visited(t, d, r)
      BY <1>5, <2>0, <3>2, <3>4
    <3>5. CASE r.cmd = 0 /\ Visited(t, d, n)
      <4>1. GoodAfter(d, n)
        BY <3>1, <3>5 DEF GoodAfter
      <4> QED BY <1>5, <3>1, <3>2, <3>5, <4>1
    <3> QED BY <2>4, <3>3, <3>4, <3>5 DEF CancelRow
  <2>5. CASE Revoke(t, d)
    <3> DEFINE n == [r EXCEPT !.state = "canceled"]
    <3>1. /\ n \in Rows /\ n.cmd = r.cmd /\ n.before = r.before
          /\ n.state = "canceled"
      BY <2>0 DEF Rows, RowStates, Terminal
    <3>2. sched' = sched
      BY <2>5 DEF Revoke
    <3>3. CASE call' = [call EXCEPT ![t] = Idle]
      BY <1>6, <3>2, <3>3, IdleLemma
    <3>4. CASE call' # [call EXCEPT ![t] = Idle]
      <4>1. /\ Visited(t, d, n)
            /\ cmds' = [cmds EXCEPT ![d] = Moved(cmds[d], r.cmd, "canceled")]
        BY <2>5, <3>4 DEF Revoke, Moved
      <4>2. cmds[d] \in Seq(Commands) /\ "canceled" \in CommandStates
        BY <1>0, RowTypes DEF CommandStates, CommandTerminal
      <4>3. cmds'[d] = Moved(cmds[d], r.cmd, "canceled")
        BY <1>0, <4>1 DEF TypeOK
      <4>4. r.cmd # 0 => r.cmd \in DOMAIN cmds[d]
                         /\ cmds'[d][r.cmd].state = "canceled"
        BY <2>0, <4>2, <4>3, MoveLemma DEF RowGood
      <4>5. GoodAfter(d, n)
        BY <2>0, <3>1, <4>4 DEF GoodAfter
      <4> QED BY <1>5, <3>1, <3>2, <4>1, <4>5
    <3> QED BY <3>3, <3>4
  <2> QED BY <1>9, <2>1, <2>2, <2>3, <2>4, <2>5
<1>10. ASSUME NEW t \in Callers, Save(t)
      PROVE  NewRowsGood(e)
  <2> DEFINE s == Concluded(call[t].op, call[t].base, call[t].copy.rows)
  <2>1. /\ sched' = sched \/ sched' = [call[t].copy EXCEPT !.state = s]
        /\ call' = [call EXCEPT ![t] = Idle] /\ call[t].pc # "idle"
    BY <1>10 DEF Save
  <2>2. call[t].copy \in Schedules
    BY <1>0 DEF TypeOK, Calls
  <2>3. s # "absent"
    BY <1>0, <2>1 DEF CallInv, CallGood, Concluded
  <2> HIDE DEF s
  <2>4. /\ sched'.rows[e] \in {sched.rows[e], RowOf(t, e)}
        /\ sched'.state = "absent" => sched' = sched
    BY <2>1, <2>2, <2>3 DEF Schedules, RowOf
  <2>5. \A u \in Callers : call'[u] = IF u = t THEN Idle ELSE call[u]
    BY <1>0, <2>1 DEF TypeOK
  <2>6. Idle.base = NoSchedule /\ Idle.copy = NoSchedule
    BY DEF Idle
  <2> QED BY <1>0, <1>1, <1>2, <2>4, <2>5, <2>6 DEF RowsInv, RowOf, NewRowsGood
<1>11. ASSUME NEW t \in Callers, Die(t)
      PROVE  NewRowsGood(e)
  BY <1>6, <1>11, IdleLemma DEF Die
<1>12. CASE Create
  <2>1. /\ call' = call
        /\ sched'.rows[e] = [state |-> "queued", before |-> reported[e], cmd |-> 0]
    BY <1>12 DEF Create
  <2>2. GoodAfter(e, sched'.rows[e]) /\ sched'.rows[e].cmd = 0
    BY <2>1 DEF GoodAfter
  <2> QED BY <1>1, <2>1, <2>2 DEF RowOf, NewRowsGood
<1>13. ASSUME NEW d \in Devices, Delivery(d) \/ DeviceStep(d)
       PROVE  UNCHANGED <<sched, call>>
  BY <1>13 DEF Delivery, DeviceStep, Report, Poll, ReportAccepted, ExecKnown,
     ExecArm, TimerFires, Unmark, PowerCut, Restart, controller
<1>14. CASE Window \/ UNCHANGED vars
  BY <1>4, <1>14 DEF Window, vars, controller
<1> QED
  BY <1>4, <1>7, <1>8, <1>9, <1>10, <1>11, <1>12, <1>13, <1>14
  DEF Next, ThreadStep, Continue

-----------------------------------------------------------------------------
(* What a thread holds.                                                    *)

CallAfter(c) ==
  /\ c.pc # "idle" => c.base.state # "absent"
  /\ c.pc = "dispatch" =>
       /\ c.op = "reconcile"
       /\ \A d \in c.dev : LET r == c.copy.rows[d] IN
            /\ r.cmd = 0 /\ <<d, r.before>> \in expected'
            /\ d \notin misled' => r.before <= reported'[d]
  /\ c.pc = "revoke" => c.op = "cancel"
  /\ \A d \in Devices :
       c.copy.rows[d].cmd # c.base.rows[d].cmd
         => c.base.rows[d].cmd = 0 /\ c.op = "reconcile"

LEMMA CallStays ==
  ASSUME TypeOK, TypeOK', NEW c \in Calls, CallGood(c),
         \A d \in Devices : Forward(d)
  PROVE  CallAfter(c)
<1>1. \A d \in Devices : /\ reported[d] \in Nat /\ reported'[d] \in Nat
                         /\ c.copy.rows[d].before \in Nat
  <2>1. c.copy.rows \in [Devices -> Rows]
    BY DEF Calls, Schedules
  <2>2. \A d \in Devices : c.copy.rows[d].before \in Nat
    BY <2>1 DEF Rows, Boots
  <2> QED BY <2>2 DEF TypeOK, Boots
<1>2. c.dev \subseteq Devices
  BY DEF Calls
<1>3. ASSUME NEW d \in c.dev, c.pc = "dispatch"
      PROVE  LET r == c.copy.rows[d] IN
             /\ r.cmd = 0 /\ <<d, r.before>> \in expected'
             /\ d \notin misled' => r.before <= reported'[d]
  BY <1>1, <1>2, <1>3 DEF CallGood, Forward
<1> QED BY <1>3 DEF CallGood, CallAfter

\* A row replaced in the loop.
LEMMA VisitedAfter ==
  ASSUME TypeOK, CallInv, NEW t \in Callers, NEW d \in Devices, NEW r \in Rows,
         Visited(t, d, r), call[t].pc # "idle",
         r.cmd # RowOf(t, d).cmd => RowOf(t, d).cmd = 0 /\ call[t].op = "reconcile"
  PROVE  CallAfter(call'[t])
<1>1. /\ call'[t].pc = "loop" /\ call'[t].op = call[t].op
      /\ call'[t].base = call[t].base /\ call'[t].copy.rows[d] = r
      /\ \A e \in Devices \ {d} : call'[t].copy.rows[e] = RowOf(t, e)
  BY VisitedLemma DEF RowOf
<1>2. CallGood(call[t])
  BY DEF CallInv
<1>3. ASSUME NEW e \in Devices,
             call'[t].copy.rows[e].cmd # call'[t].base.rows[e].cmd
      PROVE  call'[t].base.rows[e].cmd = 0 /\ call'[t].op = "reconcile"
  BY <1>1, <1>2, <1>3 DEF CallGood, RowOf
<1> QED BY <1>1, <1>2, <1>3 DEF CallGood, CallAfter

LEMMA IdleAfter == CallAfter(Idle)
BY DEF CallAfter, Idle, NoSchedule

LEMMA CallStep == RowInv /\ TypeOK' /\ [Next]_vars => CallInv'
<1> SUFFICES ASSUME RowInv, TypeOK', [Next]_vars PROVE CallInv'
  OBVIOUS
<1>0. TypeOK /\ CallInv /\ \A d \in Devices : Forward(d)
  BY StepForward DEF RowInv
<1>1. \A u \in Callers : CallAfter(call[u])
  BY <1>0, CallStays DEF CallInv, TypeOK
<1>2. SUFFICES ASSUME NEW u \in Callers PROVE CallAfter(call'[u])
  BY DEF CallInv, CallGood, CallAfter
<1>3. CASE call' = call
  BY <1>1, <1>3
<1>4. ASSUME NEW t \in Callers, ThreadStep(t)
      PROVE  CallAfter(call'[u])
  <2>0. call[t] \in Calls /\ CallGood(call[t])
    BY <1>0 DEF TypeOK, CallInv
  <2>1. ASSUME NEW c, call' = [call EXCEPT ![t] = c], CallAfter(c)
        PROVE  CallAfter(call'[u])
    BY <1>0, <1>1, <2>1 DEF TypeOK
  <2>2. ASSUME NEW d \in Devices, NEW r \in Rows, Visited(t, d, r),
               call[t].pc # "idle",
               r.cmd # RowOf(t, d).cmd
                 => RowOf(t, d).cmd = 0 /\ call[t].op = "reconcile"
        PROVE  CallAfter(call'[u])
    BY <1>0, <1>1, <2>2, VisitedLemma, VisitedAfter
  <2>3. ASSUME NEW op \in {"reconcile", "cancel"}, Load(t, op)
        PROVE  CallAfter(call'[u])
    <3> DEFINE c == [pc |-> "loop", op |-> op, base |-> sched, copy |-> sched,
                     todo |-> {d \in Devices :
                                 sched.rows[d].state \notin Terminal},
                     dev |-> {}, due |-> due]
    <3>1. call' = [call EXCEPT ![t] = c] /\ sched.state # "absent"
      BY <2>3 DEF Load
    <3>2. CallAfter(c)
      BY <3>1 DEF CallAfter
    <3> HIDE DEF c
    <3> QED BY <2>1, <3>1, <3>2
  <2>4. ASSUME NEW d \in Devices, NEW late \in BOOLEAN, Examine(t, d, late)
        PROVE  CallAfter(call'[u])
    <3>1. Visited(t, d, Judged(d, RowOf(t, d), late)) /\ call[t].pc # "idle"
      BY <2>4 DEF Examine, Visits
    <3>2. RowOf(t, d) \in Rows
      BY <1>0, RowTypes
    <3> QED BY <2>2, <3>1, <3>2, JudgedType
  <2>5. ASSUME NEW d \in Devices, Wait(t, d)
        PROVE  CallAfter(call'[u])
    <3>1. Visited(t, d, RowOf(t, d)) /\ call[t].pc # "idle"
      BY <2>5 DEF Wait, Visits
    <3> QED BY <1>0, <2>2, <3>1, RowTypes
  <2>6. ASSUME NEW d \in Devices, Announce(t, d)
        PROVE  CallAfter(call'[u])
    <3> DEFINE c == [call[t] EXCEPT !.pc = "dispatch", !.dev = {d},
                                    !.copy.rows[d].before = reported[d]]
    <3>1. /\ call' = [call EXCEPT ![t] = c] /\ RowOf(t, d).cmd = 0
          /\ call[t].pc = "loop" /\ call[t].op = "reconcile"
          /\ <<d, reported[d]>> \in expected' /\ reported' = reported
      BY <2>6 DEF Announce, Visits
    <3>2. /\ c.pc = "dispatch" /\ c.op = call[t].op /\ c.base = call[t].base
          /\ c.dev = {d}
          /\ c.copy.rows = [call[t].copy.rows EXCEPT ![d].before = reported[d]]
      BY <2>0 DEF Calls, Schedules
    <3>3. call[t].copy.rows \in [Devices -> Rows]
      BY <2>0 DEF Calls, Schedules
    <3> HIDE DEF c
    <3>4. /\ \A e \in Devices : c.copy.rows[e].cmd = call[t].copy.rows[e].cmd
          /\ c.copy.rows[d].before = reported[d]
      BY <3>2, <3>3 DEF Rows
    <3>5. reported'[d] \in Nat
      BY <1>0, <3>1, BootTypes
    <3>6. CallAfter(c)
      BY <2>0, <3>1, <3>2, <3>4, <3>5 DEF CallAfter, CallGood, RowOf
    <3> QED BY <2>1, <3>1, <3>6
  <2>7. ASSUME NEW d \in Devices, Dispatch(t, d)
        PROVE  CallAfter(call'[u])
    <3> DEFINE r == [RowOf(t, d) EXCEPT !.state = "dispatched",
                                        !.cmd = Len(cmds[d]) + 1]
    <3>1. Visited(t, d, r) /\ call[t].pc = "dispatch" /\ d \in call[t].dev
          /\ Len(cmds[d]) < MaxCommands
      BY <2>7 DEF Dispatch
    <3>2. cmds[d] \in Seq(Commands) /\ RowOf(t, d) \in Rows
      BY <1>0, RowTypes
    <3>3. Len(cmds[d]) + 1 \in 0..MaxCommands
      BY <3>1, <3>2, RebootAssumption
    <3>4. r \in Rows
      BY <3>2, <3>3 DEF Rows, RowStates
    <3>5. RowOf(t, d).cmd = 0 /\ call[t].op = "reconcile"
      BY <2>0, <3>1 DEF CallGood, RowOf
    <3> HIDE DEF r
    <3> QED BY <2>2, <3>1, <3>4, <3>5
  <2>8. ASSUME NEW d \in Devices, CancelRow(t, d)
        PROVE  CallAfter(call'[u])
    <3>1. /\ RowOf(t, d) \in Rows
          /\ [RowOf(t, d) EXCEPT !.state = "canceled"] \in Rows
          /\ [RowOf(t, d) EXCEPT !.state = "canceled"].cmd = RowOf(t, d).cmd
      BY <1>0, RowTypes DEF Rows, RowStates, Terminal
    <3>2. call[t].pc = "loop" /\ call[t].op = "cancel"
      BY <2>8 DEF CancelRow, Visits
    <3>3. CASE Writes(t, d, "revoke")
      <4> DEFINE c == [call[t] EXCEPT !.pc = "revoke", !.dev = {d}]
      <4>1. /\ c.pc = "revoke" /\ c.op = "cancel" /\ c.base = call[t].base
            /\ c.copy = call[t].copy
        BY <2>0, <3>2 DEF Calls
      <4>2. call' = [call EXCEPT ![t] = c]
        BY <3>3 DEF Writes
      <4> HIDE DEF c
      <4>3. CallAfter(c)
        BY <2>0, <3>2, <4>1 DEF CallGood, CallAfter
      <4> QED BY <2>1, <4>2, <4>3
    <3>4. CASE ~Writes(t, d, "revoke")
      <4>1. Visited(t, d, RowOf(t, d))
            \/ Visited(t, d, [RowOf(t, d) EXCEPT !.state = "canceled"])
        BY <2>8, <3>4 DEF CancelRow
      <4> QED BY <2>2, <3>1, <3>2, <4>1
    <3> QED BY <3>3, <3>4
  <2>9. ASSUME NEW d \in Devices, Revoke(t, d)
        PROVE  CallAfter(call'[u])
    <3>1. /\ [RowOf(t, d) EXCEPT !.state = "canceled"] \in Rows
          /\ [RowOf(t, d) EXCEPT !.state = "canceled"].cmd = RowOf(t, d).cmd
      BY <1>0, RowTypes DEF Rows, RowStates, Terminal
    <3>2. call' = [call EXCEPT ![t] = Idle]
          \/ Visited(t, d, [RowOf(t, d) EXCEPT !.state = "canceled"])
      BY <2>9 DEF Revoke
    <3>3. call[t].pc # "idle"
      BY <2>9 DEF Revoke
    <3> QED BY <2>1, <2>2, <3>1, <3>2, <3>3, IdleAfter
  <2>10. ASSUME Save(t) \/ Die(t)
         PROVE  CallAfter(call'[u])
    <3>1. call' = [call EXCEPT ![t] = Idle]
      BY <2>10 DEF Save, Die
    <3> QED BY <2>1, <3>1, IdleAfter
  <2> QED BY <1>4, <2>3, <2>4, <2>5, <2>6, <2>7, <2>8, <2>9, <2>10
      DEF ThreadStep, Continue
<1>5. ASSUME NEW d \in Devices, Delivery(d) \/ DeviceStep(d)
      PROVE  call' = call
  BY <1>5 DEF Delivery, DeviceStep, Report, Poll, ReportAccepted, ExecKnown,
     ExecArm, TimerFires, Unmark, PowerCut, Restart, controller
<1>6. CASE Create \/ Window \/ UNCHANGED vars
  BY <1>3, <1>6 DEF Create, Window, vars, controller
<1> QED BY <1>3, <1>4, <1>5, <1>6 DEF Next

LEMMA RowInitially == Init => RowInv
<1> SUFFICES ASSUME Init PROVE RowInv
  OBVIOUS
<1>1. TypeOK
  BY InitType
<1>2. \A d \in Devices : NoSchedule.rows[d].cmd = 0
                         /\ NoSchedule.rows[d].state = "queued"
  BY DEF NoSchedule
<1>3. /\ Idle.pc = "idle" /\ Idle.base = NoSchedule /\ Idle.copy = NoSchedule
  BY DEF Idle
<1>4. CallInv
  BY <1>3 DEF Init, CallInv, CallGood
<1>5. RowsInv
  BY <1>2, <1>3 DEF Init, RowsInv, RowGood, RowOf
<1>6. BootInv
  <2>1. SUFFICES ASSUME NEW d \in Devices
                 PROVE  reported[d] <= boot[d] /\ delayed[d] <= boot[d]
    BY DEF BootInv
  <2>2. reported[d] = 1 /\ boot[d] = 1 /\ delayed[d] = 0
    BY DEF Init
  <2>3. 1 <= 1 /\ 0 <= 1
    OBVIOUS
  <2> QED BY <2>2, <2>3
<1> QED BY <1>1, <1>4, <1>5, <1>6 DEF RowInv

LEMMA RowAlways == Spec => []RowInv
<1>1. RowInv /\ [Next]_vars => RowInv'
  <2> SUFFICES ASSUME RowInv, [Next]_vars PROVE RowInv'
    OBVIOUS
  <2>1. TypeOK' /\ BootInv'
    BY TypeStep, BootStep DEF RowInv
  <2> QED BY <2>1, CallStep, RowsStep DEF RowInv
<1> QED BY <1>1, RowInitially, PTL DEF Spec

\* A reboot the schedule calls verified took place after its command was
\* created, unless the controller went by the reports of an earlier boot.
THEOREM SuccessWasReboot == Spec => []SucceededWasRebooted
<1>1. RowInv => SucceededWasRebooted
  <2> SUFFICES ASSUME RowInv, NEW d \in Devices \ misled,
                      sched.rows[d].state = "succeeded"
               PROVE  boot[d] > cmds[d][sched.rows[d].cmd].at
    BY DEF SucceededWasRebooted
  <2>1. sched.rows[d].cmd \in DOMAIN cmds[d]
        /\ cmds[d][sched.rows[d].cmd].at < boot[d]
    BY DEF RowInv, RowsInv, RowGood
  <2>2. cmds[d] \in Seq(Commands) /\ boot[d] \in Nat
    BY BootTypes DEF RowInv, TypeOK, Commands
  <2>3. cmds[d][sched.rows[d].cmd] \in Commands
    BY <2>1, <2>2
  <2> QED BY <2>1, <2>2, <2>3 DEF Commands, Boots
<1> QED BY <1>1, RowAlways, PTL

\* Every command in a saved row was announced, with the boot it is judged by.
THEOREM RebootIsAnnounced == Spec => []AnnouncedFirst
<1>1. RowInv => AnnouncedFirst
  BY DEF RowInv, RowsInv, RowGood, AnnouncedFirst
<1> QED BY <1>1, RowAlways, PTL

-----------------------------------------------------------------------------
(* Commands and who knows of them.                                         *)

LEMMA RacedGrows ==
  ASSUME [Next]_vars PROVE raced \subseteq raced'
<1>1. ASSUME NEW t \in Callers, ThreadStep(t)
      PROVE  raced \subseteq raced'
  <2>1. ASSUME Save(t) \/ Die(t)
        PROVE  raced \subseteq raced'
    BY <2>1 DEF Save, Die
  <2>2. ASSUME NEW d \in Devices, NEW late \in BOOLEAN, Examine(t, d, late)
        PROVE  raced' = raced
    BY <2>2 DEF Examine, history
  <2>3. ASSUME NEW d \in Devices,
               Wait(t, d) \/ Announce(t, d) \/ Dispatch(t, d)
               \/ CancelRow(t, d) \/ Revoke(t, d)
        PROVE  raced' = raced
    BY <2>3 DEF Wait, Announce, Dispatch, CancelRow, Revoke, history
  <2>4. ASSUME NEW op \in {"reconcile", "cancel"}, Load(t, op)
        PROVE  raced' = raced
    BY <2>4 DEF Load, history
  <2> QED BY <1>1, <2>1, <2>2, <2>3, <2>4 DEF ThreadStep, Continue
<1>2. ASSUME NEW d \in Devices, Delivery(d) \/ DeviceStep(d)
      PROVE  raced' = raced
  BY <1>2 DEF Delivery, DeviceStep, Report, Poll, ReportAccepted, ExecKnown,
     ExecArm, TimerFires, Unmark, PowerCut, Restart, history
<1>3. CASE Create \/ Window \/ UNCHANGED vars
  BY <1>3 DEF Create, Window, vars, history
<1> QED BY <1>1, <1>2, <1>3 DEF Next

TrackGood(e) ==
  /\ \A i \in DOMAIN cmds[e] :
       i = sched.rows[e].cmd \/ \E t \in Callers : i = RowOf(t, e).cmd
  /\ \A t \in Callers : call[t].base.rows[e].cmd \in {0, sched.rows[e].cmd}
  /\ \A t \in Callers : call[t].pc = "idle" => RowOf(t, e).cmd = 0

TrackAfter(e) ==
  /\ \A i \in DOMAIN cmds'[e] :
       i = sched'.rows[e].cmd \/ \E t \in Callers : i = call'[t].copy.rows[e].cmd
  /\ \A t \in Callers : call'[t].base.rows[e].cmd \in {0, sched'.rows[e].cmd}
  /\ \A t \in Callers :
       call'[t].pc = "idle" => call'[t].copy.rows[e].cmd = 0

LEMMA DomainStays ==
  ASSUME TypeOK, NEW e \in Devices, NEW d \in Devices, NEW i,
         NEW v \in CommandStates,
         cmds' = cmds \/ cmds' = [cmds EXCEPT ![d] = Moved(cmds[d], i, v)]
  PROVE  DOMAIN cmds'[e] = DOMAIN cmds[e]
<1>1. DOMAIN Moved(cmds[d], i, v) = DOMAIN cmds[d]
  BY DEF Moved
<1> HIDE DEF Moved
<1> QED BY <1>1 DEF TypeOK

LEMMA TrackStep == RowInv /\ TrackInv /\ [Next]_vars => TrackInv'
<1> SUFFICES ASSUME RowInv, TrackInv, [Next]_vars, NEW e \in Devices \ raced'
             PROVE  TrackAfter(e)
  BY DEF TrackInv, TrackAfter, RowOf
<1>0. /\ TypeOK /\ CallInv /\ RowsInv /\ e \in Devices /\ e \notin raced
      /\ TrackGood(e)
  BY RacedGrows DEF RowInv, TrackInv, TrackGood
<1>00. \A i \in DOMAIN cmds[e] : i # 0
  BY <1>0 DEF TypeOK
\* Nobody comes or goes.
<1>1. ASSUME sched' = sched, call' = call, DOMAIN cmds'[e] = DOMAIN cmds[e]
      PROVE  TrackAfter(e)
  BY <1>0, <1>1 DEF TrackGood, TrackAfter, RowOf
<1>2. ASSUME NEW t \in Callers, ThreadStep(t)
      PROVE  TrackAfter(e)
  <2>0. call[t] \in Calls /\ CallGood(call[t])
    BY <1>0 DEF TypeOK, CallInv
  \* A step within a call that keeps the command.
  <2>1. ASSUME NEW c, call' = [call EXCEPT ![t] = c], sched' = sched,
               c.base = call[t].base, c.pc # "idle",
               c.copy.rows[e].cmd = RowOf(t, e).cmd,
               DOMAIN cmds'[e] = DOMAIN cmds[e]
        PROVE  TrackAfter(e)
    <3>1. \A u \in Callers : call'[u] = IF u = t THEN c ELSE call[u]
      BY <1>0, <2>1 DEF TypeOK
    <3> QED BY <1>0, <2>1, <3>1 DEF TrackGood, TrackAfter, RowOf
  <2>2. ASSUME NEW d \in Devices, NEW r \in Rows, Visited(t, d, r),
               r.cmd = RowOf(t, d).cmd, sched' = sched,
               DOMAIN cmds'[e] = DOMAIN cmds[e]
        PROVE  TrackAfter(e)
    <3>1. /\ \A u \in Callers \ {t} : call'[u] = call[u]
          /\ call'[t].pc = "loop" /\ call'[t].base = call[t].base
          /\ call'[t].copy.rows[e].cmd = RowOf(t, e).cmd
      BY <1>0, <2>2, VisitedLemma DEF RowOf
    <3> QED BY <1>0, <2>2, <3>1 DEF TrackGood, TrackAfter, RowOf
  \* The end of a call that has nothing to save.
  <2>3. ASSUME call' = [call EXCEPT ![t] = Idle], sched' = sched, cmds' = cmds,
               RowOf(t, e).cmd = call[t].base.rows[e].cmd
        PROVE  TrackAfter(e)
    <3>1. \A u \in Callers : call'[u] = IF u = t THEN Idle ELSE call[u]
      BY <1>0, <2>3 DEF TypeOK
    <3>2. Idle.base.rows[e].cmd = 0 /\ Idle.copy.rows[e].cmd = 0
      BY <1>0 DEF Idle, NoSchedule
    <3>3. RowOf(t, e).cmd \in {0, sched.rows[e].cmd}
      BY <1>0, <2>3 DEF TrackGood
    <3> QED BY <1>0, <1>00, <2>3, <3>1, <3>2, <3>3 DEF TrackGood, TrackAfter, RowOf
  <2>4. ASSUME NEW op \in {"reconcile", "cancel"}, Load(t, op)
        PROVE  TrackAfter(e)
    <3> DEFINE c == [pc |-> "loop", op |-> op, base |-> sched, copy |-> sched,
                     todo |-> {d \in Devices :
                                 sched.rows[d].state \notin Terminal},
                     dev |-> {}, due |-> due]
    <3>1. /\ call' = [call EXCEPT ![t] = c] /\ sched' = sched /\ cmds' = cmds
          /\ call[t].pc = "idle"
      BY <2>4 DEF Load
    <3>2. c.pc = "loop" /\ c.base = sched /\ c.copy = sched
      OBVIOUS
    <3> HIDE DEF c
    <3>3. \A u \in Callers : call'[u] = IF u = t THEN c ELSE call[u]
      BY <1>0, <3>1 DEF TypeOK
    <3> QED BY <1>0, <1>00, <3>1, <3>2, <3>3 DEF TrackGood, TrackAfter, RowOf
  <2>5. ASSUME NEW d \in Devices, NEW late \in BOOLEAN, Examine(t, d, late)
        PROVE  TrackAfter(e)
    <3>1. Visited(t, d, Judged(d, RowOf(t, d), late)) /\ sched' = sched
      BY <2>5 DEF Examine
    <3>2. cmds' = cmds
          \/ cmds' = [cmds EXCEPT ![d] =
                        Moved(cmds[d], RowOf(t, d).cmd, "succeeded")]
      BY <2>5 DEF Examine, Moved
    <3>3. DOMAIN cmds'[e] = DOMAIN cmds[e]
      BY <1>0, <3>2, DomainStays DEF CommandStates, CommandTerminal
    <3>4. RowOf(t, d) \in Rows
      BY <1>0, RowTypes
    <3> QED BY <2>2, <3>1, <3>3, <3>4, JudgedType
  <2>6. ASSUME NEW d \in Devices, Wait(t, d)
        PROVE  TrackAfter(e)
    BY <1>0, <2>2, <2>6, RowTypes DEF Wait
  <2>7. ASSUME NEW d \in Devices, Announce(t, d)
        PROVE  TrackAfter(e)
    <3> DEFINE c == [call[t] EXCEPT !.pc = "dispatch", !.dev = {d},
                                    !.copy.rows[d].before = reported[d]]
    <3>1. call' = [call EXCEPT ![t] = c] /\ sched' = sched /\ cmds' = cmds
      BY <2>7 DEF Announce
    <3>2. /\ c.pc = "dispatch" /\ c.base = call[t].base
          /\ c.copy.rows = [call[t].copy.rows EXCEPT ![d].before = reported[d]]
      BY <2>0 DEF Calls, Schedules
    <3>3. call[t].copy.rows \in [Devices -> Rows]
      BY <2>0 DEF Calls, Schedules
    <3> HIDE DEF c
    <3>4. c.copy.rows[e].cmd = RowOf(t, e).cmd
      BY <1>0, <3>2, <3>3 DEF Rows, RowOf
    <3> QED BY <2>1, <3>1, <3>2, <3>4
  <2>8. ASSUME NEW d \in Devices, Dispatch(t, d)
        PROVE  TrackAfter(e)
    <3> DEFINE r == [RowOf(t, d) EXCEPT !.state = "dispatched",
                                        !.cmd = Len(cmds[d]) + 1]
               c == [state |-> "queued", at |-> boot[d]]
    <3>1. /\ Visited(t, d, r) /\ sched' = sched
          /\ cmds' = [cmds EXCEPT ![d] = Append(cmds[d], c)]
          /\ call[t].pc = "dispatch" /\ d \in call[t].dev
          /\ Len(cmds[d]) < MaxCommands
      BY <2>8 DEF Dispatch
    <3> HIDE DEF c
    <3>2. cmds[d] \in Seq(Commands) /\ RowOf(t, d) \in Rows
      BY <1>0, RowTypes
    <3>3. Len(cmds[d]) + 1 \in 0..MaxCommands
      BY <3>1, <3>2, RebootAssumption
    <3>4. r \in Rows /\ r.cmd = Len(cmds[d]) + 1
      BY <3>2, <3>3 DEF Rows, RowStates
    <3>5. RowOf(t, d).cmd = 0
      BY <2>0, <3>1 DEF CallGood, RowOf
    <3>6. /\ \A u \in Callers \ {t} : call'[u] = call[u]
          /\ call'[t].pc = "loop" /\ call'[t].base = call[t].base
          /\ call'[t].copy.rows[d] = r
          /\ e # d => call'[t].copy.rows[e].cmd = RowOf(t, e).cmd
      BY <1>0, <3>1, <3>4, VisitedLemma DEF RowOf
    <3>7. \A i \in DOMAIN cmds'[e] :
            i \in DOMAIN cmds[e] \/ (e = d /\ i = Len(cmds[d]) + 1)
      BY <1>0, <3>1, <3>2 DEF TypeOK
    <3> HIDE DEF r
    <3>8. CASE e = d
      BY <1>0, <1>00, <3>1, <3>4, <3>5, <3>6, <3>7, <3>8
      DEF TrackGood, TrackAfter, RowOf
    <3>9. CASE e # d
      BY <1>0, <1>00, <3>1, <3>6, <3>7, <3>9
      DEF TrackGood, TrackAfter, RowOf
    <3> QED BY <3>8, <3>9
  <2>9. ASSUME NEW d \in Devices, CancelRow(t, d)
        PROVE  TrackAfter(e)
    <3>1. /\ RowOf(t, d) \in Rows
          /\ [RowOf(t, d) EXCEPT !.state = "canceled"] \in Rows
          /\ [RowOf(t, d) EXCEPT !.state = "canceled"].cmd = RowOf(t, d).cmd
      BY <1>0, RowTypes DEF Rows, RowStates, Terminal
    <3>2. sched' = sched /\ cmds' = cmds
      BY <2>9 DEF CancelRow
    <3>3. CASE Writes(t, d, "revoke")
      <4> DEFINE c == [call[t] EXCEPT !.pc = "revoke", !.dev = {d}]
      <4>1. c.pc = "revoke" /\ c.base = call[t].base /\ c.copy = call[t].copy
        BY <2>0 DEF Calls
      <4>2. call' = [call EXCEPT ![t] = c]
        BY <3>3 DEF Writes
      <4> HIDE DEF c
      <4> QED BY <2>1, <3>2, <4>1, <4>2 DEF RowOf
    <3>4. CASE ~Writes(t, d, "revoke")
      <4>1. Visited(t, d, RowOf(t, d))
            \/ Visited(t, d, [RowOf(t, d) EXCEPT !.state = "canceled"])
        BY <2>9, <3>4 DEF CancelRow
      <4> QED BY <2>2, <3>1, <3>2, <4>1
    <3> QED BY <3>3, <3>4
  <2>10. ASSUME NEW d \in Devices, Revoke(t, d)
         PROVE  TrackAfter(e)
    <3>1. /\ [RowOf(t, d) EXCEPT !.state = "canceled"] \in Rows
          /\ [RowOf(t, d) EXCEPT !.state = "canceled"].cmd = RowOf(t, d).cmd
      BY <1>0, RowTypes DEF Rows, RowStates, Terminal
    <3>2. sched' = sched
      BY <2>10 DEF Revoke
    <3>3. CASE call' = [call EXCEPT ![t] = Idle] /\ cmds' = cmds
      <4>1. call[t].op = "cancel"
        BY <2>0, <2>10 DEF Revoke, CallGood
      <4>2. RowOf(t, e).cmd = call[t].base.rows[e].cmd
        BY <1>0, <2>0, <4>1 DEF CallGood, RowOf
      <4> QED BY <2>3, <3>2, <3>3, <4>2
    <3>4. CASE ~(call' = [call EXCEPT ![t] = Idle] /\ cmds' = cmds)
      <4>1. /\ Visited(t, d, [RowOf(t, d) EXCEPT !.state = "canceled"])
            /\ cmds' = [cmds EXCEPT ![d] =
                          Moved(cmds[d], RowOf(t, d).cmd, "canceled")]
        BY <2>10, <3>4 DEF Revoke, Moved
      <4>2. DOMAIN cmds'[e] = DOMAIN cmds[e]
        BY <1>0, <4>1, DomainStays DEF CommandStates, CommandTerminal
      <4> QED BY <2>2, <3>1, <3>2, <4>1, <4>2
    <3> QED BY <3>3, <3>4
  <2>11. ASSUME Save(t)
         PROVE  TrackAfter(e)
    <3>1. call' = [call EXCEPT ![t] = Idle] /\ cmds' = cmds
      BY <2>11 DEF Save
    <3>2. CASE sched' = sched /\ call[t].copy.rows = call[t].base.rows
      BY <2>3, <3>1, <3>2 DEF RowOf
    <3>3. CASE ~(sched' = sched /\ call[t].copy.rows = call[t].base.rows)
      <4> DEFINE s == Concluded(call[t].op, call[t].base, call[t].copy.rows)
      <4>1. /\ sched' = [call[t].copy EXCEPT !.state = s]
            /\ e \notin raced' => sched.rows[e] = call[t].base.rows[e]
        BY <1>0, <2>11, <3>3 DEF Save, Changed
      <4> HIDE DEF s
      <4>2. sched'.rows = call[t].copy.rows
        BY <2>0, <4>1 DEF Calls, Schedules
      <4>3. \A u \in Callers : call'[u] = IF u = t THEN Idle ELSE call[u]
        BY <1>0, <3>1 DEF TypeOK
      <4>4. Idle.base.rows[e].cmd = 0 /\ Idle.copy.rows[e].cmd = 0
        BY <1>0 DEF Idle, NoSchedule
      <4>5. sched'.rows[e].cmd = RowOf(t, e).cmd
            /\ (sched.rows[e].cmd = 0 \/ sched.rows[e].cmd = RowOf(t, e).cmd)
        BY <1>0, <2>0, <4>1, <4>2 DEF CallGood, RowOf
      <4> QED BY <1>0, <1>00, <3>1, <4>3, <4>4, <4>5, SMTT(20)
          DEF TrackGood, TrackAfter, RowOf
    <3> QED BY <3>2, <3>3
  <2>12. ASSUME Die(t)
         PROVE  TrackAfter(e)
    <3>1. /\ call' = [call EXCEPT ![t] = Idle] /\ sched' = sched /\ cmds' = cmds
          /\ RowOf(t, e).cmd = call[t].base.rows[e].cmd
      BY <1>0, <2>12 DEF Die
    <3> QED BY <2>3, <3>1
  <2> QED BY <1>2, <2>4, <2>5, <2>6, <2>7, <2>8, <2>9, <2>10, <2>11, <2>12
      DEF ThreadStep, Continue
<1>3. CASE Create
  <2>1. /\ sched.rows[e].cmd = 0 /\ sched'.rows[e].cmd = 0
        /\ call' = call /\ cmds' = cmds
    BY <1>0, <1>3 DEF Create, RowsInv
  <2> QED BY <1>0, <2>1 DEF TrackGood, TrackAfter, RowOf
<1>4. ASSUME NEW d \in Devices, Delivery(d)
      PROVE  TrackAfter(e)
  <2>1. sched' = sched /\ call' = call
    BY <1>4 DEF Delivery, Report, Poll, ReportAccepted
  <2>2. DOMAIN cmds'[e] = DOMAIN cmds[e]
    <3>1. CASE \E late \in SUBSET Numbers :
                 cmds' = [cmds EXCEPT ![d] = AfterPoll(d, late)]
      BY <1>0, <3>1 DEF TypeOK, AfterPoll
    <3>2. CASE cmds' = cmds
                \/ \E i \in Numbers :
                     cmds' = [cmds EXCEPT ![d] = Moved(cmds[d], i, "accepted")]
      BY <1>0, <3>2, DomainStays DEF CommandStates
    <3> QED BY <1>4, <3>1, <3>2 DEF Delivery, Report, Poll, ReportAccepted, Moved
  <2> QED BY <1>1, <2>1, <2>2
<1>5. ASSUME NEW d \in Devices, DeviceStep(d)
      PROVE  TrackAfter(e)
  <2>1. UNCHANGED <<sched, call, cmds>>
    BY <1>5 DEF DeviceStep, ExecKnown, ExecArm, TimerFires, Unmark, PowerCut,
       Restart, controller
  <2> QED BY <1>1, <2>1
<1>6. CASE Window \/ UNCHANGED vars
  BY <1>1, <1>6 DEF Window, vars, controller
<1> QED BY <1>2, <1>3, <1>4, <1>5, <1>6 DEF Next

-----------------------------------------------------------------------------
(* What was never handed out is nowhere on the device.                     *)

FreshGood(d) == \A i \in Numbers :
  /\ i \notin DOMAIN cmds[d] => Untouched(d, i)
  /\ i \in DOMAIN cmds[d] =>
       /\ cmds[d][i].state = "queued" => Untouched(d, i)
       /\ cmds[d][i].state = "canceled" /\ d \notin slipped => Untouched(d, i)

\* What a step on device d may do: the commands stay, and nothing comes to the
\* device that was untouched.
LEMMA DeviceKeeps ==
  ASSUME TypeOK, FreshInv, cmds' = cmds, slipped \subseteq slipped',
         \A d \in Devices, i \in Numbers : Untouched(d, i) => Untouched(d, i)'
  PROVE  FreshInv'
BY DEF FreshInv

\* A command moves on and the devices stay.
LEMMA CommandKeeps ==
  ASSUME TypeOK, FreshInv, NEW d \in Devices, NEW i, NEW v \in CommandStates,
         cmds' = [cmds EXCEPT ![d] = Moved(cmds[d], i, v)],
         UNCHANGED <<inbox, armed, reboots>>, slipped \subseteq slipped',
         v # "queued",
         i \in DOMAIN cmds[d] /\ v = "canceled" =>
           cmds[d][i].state \in {"queued", "canceled"} \/ d \in slipped'
  PROVE  FreshInv'
<1>1. cmds[d] \in Seq(Commands)
  BY DEF TypeOK, Commands
<1>2. cmds'[d] = Moved(cmds[d], i, v)
      /\ \A e \in Devices \ {d} : cmds'[e] = cmds[e]
  BY DEF TypeOK
<1>3. /\ DOMAIN cmds'[d] = DOMAIN cmds[d]
      /\ \A j \in DOMAIN cmds[d] :
           cmds'[d][j].state = IF j = i THEN v ELSE cmds[d][j].state
  BY <1>1, <1>2, MoveLemma
<1>4. \A e \in Devices, j \in Numbers : Untouched(e, j)' <=> Untouched(e, j)
  BY DEF Untouched
<1>5. ASSUME NEW e \in Devices, NEW j \in Numbers
      PROVE  /\ j \notin DOMAIN cmds'[e] => Untouched(e, j)
             /\ j \in DOMAIN cmds'[e] =>
                  /\ cmds'[e][j].state = "queued" => Untouched(e, j)
                  /\ cmds'[e][j].state = "canceled" /\ e \notin slipped'
                       => Untouched(e, j)
  BY <1>2, <1>3, <1>5 DEF FreshInv
<1> QED BY <1>4, <1>5 DEF FreshInv

LEMMA FreshStep == RowInv /\ FreshInv /\ [Next]_vars => FreshInv'
<1> SUFFICES ASSUME RowInv, FreshInv, [Next]_vars PROVE FreshInv'
  OBVIOUS
<1>0. TypeOK /\ RowsInv
  BY DEF RowInv
<1>1. ASSUME UNCHANGED <<cmds, inbox, armed, reboots, slipped>>
      PROVE  FreshInv'
  BY <1>1 DEF FreshInv, Untouched
<1>2. ASSUME NEW t \in Callers, ThreadStep(t)
      PROVE  FreshInv'
  <2>0. UNCHANGED <<inbox, armed, reboots>>
    BY <1>2, ThreadFrame
  <2>1. ASSUME NEW d \in Devices, NEW late \in BOOLEAN, Examine(t, d, late)
        PROVE  FreshInv'
    <3>1. /\ slipped' = slipped /\ "succeeded" \in CommandStates
          /\ cmds' = cmds
             \/ cmds' = [cmds EXCEPT ![d] =
                           Moved(cmds[d], RowOf(t, d).cmd, "succeeded")]
      BY <2>1 DEF Examine, Moved, history, CommandStates, CommandTerminal
    <3> QED BY <1>0, <1>1, <2>0, <3>1, CommandKeeps
  <2>2. ASSUME NEW d \in Devices, Dispatch(t, d)
        PROVE  FreshInv'
    <3> DEFINE c == [state |-> "queued", at |-> boot[d]]
    <3>1. cmds' = [cmds EXCEPT ![d] = Append(cmds[d], c)] /\ slipped' = slipped
      BY <2>2 DEF Dispatch
    <3> HIDE DEF c
    <3>2. cmds[d] \in Seq(Commands)
      BY <1>0 DEF TypeOK, Commands
    <3>3. /\ \A e \in Devices \ {d} : cmds'[e] = cmds[e]
          /\ \A j \in DOMAIN cmds'[d] :
               j \notin DOMAIN cmds[d] \/ cmds'[d][j] = cmds[d][j]
          /\ DOMAIN cmds[d] \subseteq DOMAIN cmds'[d]
      BY <1>0, <3>1, <3>2 DEF TypeOK
    <3>4. ASSUME NEW e \in Devices, NEW j \in Numbers
          PROVE  /\ j \notin DOMAIN cmds'[e] => Untouched(e, j)
                 /\ j \in DOMAIN cmds'[e] =>
                      /\ cmds'[e][j].state = "queued" => Untouched(e, j)
                      /\ cmds'[e][j].state = "canceled" /\ e \notin slipped'
                           => Untouched(e, j)
      BY <3>1, <3>3, <3>4 DEF FreshInv
    <3> QED BY <2>0, <3>4 DEF FreshInv, Untouched
  <2>3. ASSUME NEW d \in Devices, Revoke(t, d)
        PROVE  FreshInv'
    <3> DEFINE i == RowOf(t, d).cmd
    <3>1. CASE cmds' = cmds /\ slipped' = slipped
      BY <1>1, <2>0, <3>1
    <3>2. CASE ~(cmds' = cmds /\ slipped' = slipped)
      <4>1. /\ cmds' = [cmds EXCEPT ![d] = Moved(cmds[d], i, "canceled")]
            /\ slipped \subseteq slipped'
            /\ cmds[d][i].state \notin CommandTerminal \ {"canceled"}
            /\ cmds[d][i].state \in {"delivered", "accepted"} => d \in slipped'
        BY <2>3, <3>2 DEF Revoke, Moved, StateOf
      <4>2. cmds[d] \in Seq(Commands)
        BY <1>0 DEF TypeOK, Commands
      <4>3. i \in DOMAIN cmds[d] => cmds[d][i].state \in CommandStates
        <5>1. i \in DOMAIN cmds[d] => cmds[d][i] \in Commands
          BY <4>2
        <5> QED BY <5>1 DEF Commands
      <4>4. "canceled" \in CommandStates
        BY DEF CommandStates, CommandTerminal
      <4> HIDE DEF i
      <4>5. i \in DOMAIN cmds[d] =>
              cmds[d][i].state \in {"queued", "canceled"} \/ d \in slipped'
        BY <4>1, <4>3 DEF CommandStates, CommandTerminal
      <4> QED BY <1>0, <2>0, <4>1, <4>4, <4>5, CommandKeeps
    <3> QED BY <3>1, <3>2
  <2>4. ASSUME NEW d \in Devices, Wait(t, d) \/ Announce(t, d) \/ CancelRow(t, d)
        PROVE  FreshInv'
    <3>1. cmds' = cmds /\ slipped' = slipped
      BY <2>4 DEF Wait, Announce, CancelRow, history
    <3> QED BY <1>1, <2>0, <3>1
  <2>5. ASSUME (\E op \in {"reconcile", "cancel"} : Load(t, op))
               \/ Save(t) \/ Die(t)
        PROVE  FreshInv'
    <3>1. cmds' = cmds /\ slipped' = slipped
      BY <2>5 DEF Load, Save, Die, history
    <3> QED BY <1>1, <2>0, <3>1
  <2> QED BY <1>2, <2>1, <2>2, <2>3, <2>4, <2>5 DEF ThreadStep, Continue
<1>3. ASSUME NEW d \in Devices, NEW late \in SUBSET Numbers, Poll(d, late)
      PROVE  FreshInv'
  <2>1. /\ cmds' = [cmds EXCEPT ![d] = AfterPoll(d, late)]
        /\ inbox' = [inbox EXCEPT ![d] = @ \cup HandedOut(d, late)]
        /\ UNCHANGED <<armed, reboots, slipped>>
    BY <1>3 DEF Poll, history
  <2>2. cmds[d] \in Seq(Commands)
    BY <1>0 DEF TypeOK, Commands
  <2>3. /\ DOMAIN AfterPoll(d, late) = DOMAIN cmds[d]
        /\ \A i \in DOMAIN cmds[d] :
             AfterPoll(d, late)[i].state =
               IF i \in late THEN "failed"
               ELSE IF i \in HandedOut(d, late) THEN "delivered"
               ELSE cmds[d][i].state
    BY <2>2, PollLemma
  <2>4. /\ cmds'[d] = AfterPoll(d, late) /\ inbox'[d] = inbox[d] \cup HandedOut(d, late)
        /\ \A e \in Devices \ {d} : cmds'[e] = cmds[e] /\ inbox'[e] = inbox[e]
    BY <1>0, <2>1 DEF TypeOK
  <2>5. HandedOut(d, late) \subseteq DOMAIN cmds[d]
        /\ \A i \in HandedOut(d, late) : i \notin late
    BY DEF HandedOut
  <2>6. ASSUME NEW e \in Devices, NEW j \in Numbers
        PROVE  /\ j \notin DOMAIN cmds'[e] => Untouched(e, j)'
               /\ j \in DOMAIN cmds'[e] =>
                    /\ cmds'[e][j].state = "queued" => Untouched(e, j)'
                    /\ cmds'[e][j].state = "canceled" /\ e \notin slipped'
                         => Untouched(e, j)'
    BY <2>1, <2>3, <2>4, <2>5, <2>6 DEF FreshInv, Untouched
  <2> QED BY <2>6 DEF FreshInv
<1>4. ASSUME NEW d \in Devices, NEW i \in Numbers, ReportAccepted(d, i)
      PROVE  FreshInv'
  <2>1. /\ cmds' = [cmds EXCEPT ![d] = Moved(cmds[d], i, "accepted")]
        /\ "accepted" \in CommandStates
        /\ UNCHANGED <<inbox, armed, reboots, slipped>>
    BY <1>4 DEF ReportAccepted, Moved, CommandStates, devices, history
  <2> QED BY <1>0, <2>1, CommandKeeps
<1>5. ASSUME NEW d \in Devices, NEW i \in Numbers, ExecKnown(d, i)
      PROVE  FreshInv'
  <2>1. /\ UNCHANGED <<cmds, armed, reboots, slipped>>
        /\ inbox' = [inbox EXCEPT ![d] = @ \ {i}]
    BY <1>5 DEF ExecKnown, controller, history
  <2>2. \A e \in Devices, j \in Numbers : Untouched(e, j) => Untouched(e, j)'
    BY <1>0, <2>1 DEF Untouched, TypeOK
  <2> QED BY <1>0, <2>1, <2>2, DeviceKeeps
<1>6. ASSUME NEW d \in Devices, NEW i \in Numbers,
             NEW last \in {"armed", "marked", "seen"}, ExecArm(d, i, last)
      PROVE  FreshInv'
  <2>1. /\ UNCHANGED <<cmds, reboots, slipped>> /\ i \in inbox[d]
        /\ inbox' = [inbox EXCEPT ![d] = @ \ {i}]
        /\ armed' = [armed EXCEPT ![d] = @ \cup {i}]
    BY <1>6 DEF ExecArm, controller, history
  <2>2. \A e \in Devices, j \in Numbers : Untouched(e, j) => Untouched(e, j)'
    BY <1>0, <2>1 DEF Untouched, TypeOK
  <2> QED BY <1>0, <2>1, <2>2, DeviceKeeps
<1>7. ASSUME NEW d \in Devices, NEW i \in Numbers, TimerFires(d, i)
      PROVE  FreshInv'
  <2>1. /\ UNCHANGED <<cmds, slipped>> /\ i \in armed[d]
        /\ inbox' = [inbox EXCEPT ![d] = {}] /\ armed' = [armed EXCEPT ![d] = {}]
        /\ reboots' = [reboots EXCEPT ![d][i] = @ + 1]
    BY <1>7 DEF TimerFires, Restart, controller
  <2>2. \A e \in Devices, j \in Numbers : Untouched(e, j) => Untouched(e, j)'
    BY <1>0, <2>1 DEF Untouched, TypeOK
  <2> QED BY <1>0, <2>1, <2>2, DeviceKeeps
<1>8. ASSUME NEW d \in Devices, PowerCut(d)
      PROVE  FreshInv'
  <2>1. /\ UNCHANGED <<cmds, slipped, reboots>>
        /\ inbox' = [inbox EXCEPT ![d] = {}] /\ armed' = [armed EXCEPT ![d] = {}]
    BY <1>8 DEF PowerCut, Restart, controller
  <2>2. \A e \in Devices, j \in Numbers : Untouched(e, j) => Untouched(e, j)'
    BY <1>0, <2>1 DEF Untouched, TypeOK
  <2> QED BY <1>0, <2>1, <2>2, DeviceKeeps
<1>9. ASSUME NEW d \in Devices, NEW b \in Boots, Report(d, b)
      PROVE  FreshInv'
  BY <1>1, <1>9 DEF Report
<1>10. ASSUME NEW d \in Devices, Unmark(d)
       PROVE  FreshInv'
  BY <1>1, <1>10 DEF Unmark, controller, history
<1>11. CASE Create \/ Window \/ UNCHANGED vars
  BY <1>1, <1>11 DEF Create, Window, vars, controller, devices, history
<1> QED
  BY <1>2, <1>3, <1>4, <1>5, <1>6, <1>7, <1>8, <1>9, <1>10, <1>11
  DEF Next, Delivery, DeviceStep

LEMMA AllAlways == Spec => [](RowInv /\ TrackInv /\ FreshInv)
<1>1. Init => TrackInv /\ FreshInv
  <2> SUFFICES ASSUME Init PROVE TrackInv /\ FreshInv
    OBVIOUS
  <2>1. /\ \A d \in Devices : NoSchedule.rows[d].cmd = 0
        /\ Idle.base = NoSchedule /\ Idle.copy = NoSchedule
    BY DEF NoSchedule, Idle
  <2>2. \A d \in Devices : DOMAIN cmds[d] = {}
    <3>1. SUFFICES ASSUME NEW d \in Devices PROVE DOMAIN cmds[d] = {}
      OBVIOUS
    <3>2. cmds[d] = <<>>
      BY DEF Init
    <3>3. cmds[d] \in Seq(Commands) /\ Len(cmds[d]) = 0
      BY <3>2
    <3>4. DOMAIN cmds[d] = 1..0
      BY <3>3
    <3> QED BY <3>4
  <2>3. TrackInv
    BY <2>1, <2>2 DEF Init, TrackInv, RowOf
  <2>4. FreshInv
    BY <2>2 DEF Init, FreshInv, Untouched
  <2> QED BY <2>3, <2>4
<1> QED BY <1>1, RowAlways, TrackStep, FreshStep, PTL DEF Spec

LEMMA OnlyItsOwn ==
  ASSUME RowInv, TrackInv, Quiet, NEW d \in Devices \ raced,
         NEW i \in DOMAIN cmds[d]
  PROVE  i = sched.rows[d].cmd
<1>1. i # 0
  BY DEF RowInv, TypeOK
<1>2. \A t \in Callers : RowOf(t, d).cmd = 0
  BY DEF TrackInv, Quiet
<1> QED BY <1>1, <1>2 DEF TrackInv

\* However many calls reconcile a schedule, a device gets a second command only
\* after its row was lost.
THEOREM OneCommandPerDevice == Spec => []SecondNeedsLostRow
<1>1. RowInv /\ TrackInv => SecondNeedsLostRow
  <2> SUFFICES ASSUME RowInv, TrackInv, Quiet, NEW d \in Devices \ raced,
                      ~(Len(cmds[d]) <= 1)
               PROVE  FALSE
    BY DEF SecondNeedsLostRow
  <2>1. cmds[d] \in Seq(Commands)
    BY DEF RowInv, TypeOK, Commands
  <2>2. 1 \in DOMAIN cmds[d] /\ 2 \in DOMAIN cmds[d]
    BY <2>1
  <2> QED BY <2>2, OnlyItsOwn
<1> QED BY <1>1, AllAlways, PTL

\* What the schedule reports as canceled was not rebooted and will not be,
\* unless its row was lost or its command handed out while it was revoked.
THEOREM CanceledStaysUp == Spec => []CanceledNeverReboots
<1>1. RowInv /\ TrackInv /\ FreshInv => CanceledNeverReboots
  <2> SUFFICES ASSUME RowInv, TrackInv, FreshInv, Quiet,
                      NEW d \in Devices \ (raced \cup slipped),
                      sched.rows[d].state = "canceled",
                      NEW i \in DOMAIN cmds[d]
               PROVE  reboots[d][i] = 0 /\ i \notin armed[d]
    BY DEF CanceledNeverReboots
  <2>1. i = sched.rows[d].cmd
    BY OnlyItsOwn
  <2>2. i # 0 /\ i \in Numbers
    <3>1. cmds[d] \in Seq(Commands) /\ Len(cmds[d]) <= MaxCommands
      BY DEF RowInv, TypeOK, Commands
    <3>2. i \in 1..Len(cmds[d]) /\ Len(cmds[d]) \in Nat
      BY <3>1
    <3> QED BY <3>1, <3>2, RebootAssumption DEF Numbers
  <2>3. cmds[d][i].state = "canceled"
    BY <2>1, <2>2 DEF RowInv, RowsInv, RowGood
  <2> QED BY <2>2, <2>3 DEF FreshInv, Untouched
<1> QED BY <1>1, AllAlways, PTL

-----------------------------------------------------------------------------
(* The commands of a schedule keep the lifecycle of the protocol.          *)

StatesAdvance(d) ==
  /\ DOMAIN cmds[d] \subseteq DOMAIN cmds'[d]
  /\ \A i \in DOMAIN cmds[d] :
       \/ cmds'[d][i].state = cmds[d][i].state
       \/ Lifecycle!Moves(cmds[d][i].state, cmds'[d][i].state)
  /\ \A i \in DOMAIN cmds'[d] \ DOMAIN cmds[d] : cmds'[d][i].state = "queued"

LEMMA SameStates == ASSUME UNCHANGED cmds, NEW d PROVE StatesAdvance(d)
BY DEF StatesAdvance

\* An open command may be delivered, unless it was accepted, and end in any
\* way; one that has ended may be said to end so again.
LEMMA MovesLemma ==
  /\ \A s \in CommandStates \ CommandTerminal, r \in CommandTerminal :
       Lifecycle!Moves(s, r)
  /\ \A s \in {"queued", "delivered"} : Lifecycle!Moves(s, "delivered")
  /\ Lifecycle!Moves("delivered", "accepted")
BY DEF CommandStates, CommandTerminal, Lifecycle!Moves, Lifecycle!CanAdvance,
       Lifecycle!Terminal, Lifecycle!Order

LEMMA StatesLemma ==
  ASSUME NEW f \in [Devices -> Seq([state : CommandStates, at : Boots])]
  PROVE  \A d \in Devices : \A i \in DOMAIN f[d] : f[d][i].state \in CommandStates
<1> SUFFICES ASSUME NEW d \in Devices, NEW i \in DOMAIN f[d]
             PROVE  f[d][i].state \in CommandStates
  OBVIOUS
<1>1. f[d] \in Seq(Commands)
  BY DEF Commands
<1>2. f[d][i] \in Commands
  BY <1>1
<1> QED BY <1>2 DEF Commands

LEMMA MovedAdvances ==
  ASSUME TypeOK, NEW d \in Devices, NEW i, NEW v \in CommandStates,
         cmds' = [cmds EXCEPT ![d] = Moved(cmds[d], i, v)],
         i \in DOMAIN cmds[d] => \/ v = cmds[d][i].state
                                 \/ Lifecycle!Moves(cmds[d][i].state, v),
         NEW e \in Devices
  PROVE  StatesAdvance(e)
<1>1. cmds[d] \in Seq(Commands)
  BY DEF TypeOK, Commands
<1>2. CASE e = d
  <2>1. cmds'[d] = Moved(cmds[d], i, v)
    BY DEF TypeOK
  <2>2. /\ DOMAIN cmds'[d] = DOMAIN cmds[d]
        /\ \A j \in DOMAIN cmds[d] :
             cmds'[d][j].state = IF j = i THEN v ELSE cmds[d][j].state
    BY <1>1, <2>1, MoveLemma
  <2> QED BY <1>2, <2>2 DEF StatesAdvance
<1>3. CASE e # d
  <2>1. cmds'[e] = cmds[e]
    BY <1>3 DEF TypeOK
  <2> QED BY <2>1 DEF StatesAdvance
<1> QED BY <1>2, <1>3

LEMMA ThreadAdvances ==
  ASSUME TypeOK, NEW t \in Callers, ThreadStep(t), NEW e \in Devices
  PROVE  StatesAdvance(e)
<1>1. ASSUME NEW d \in Devices, NEW late \in BOOLEAN, Examine(t, d, late)
      PROVE  StatesAdvance(e)
  <2> DEFINE i == RowOf(t, d).cmd
  <2>1. CASE cmds' = cmds
    BY <2>1, SameStates
  <2>2. CASE cmds' # cmds
    <3>1. /\ cmds' = [cmds EXCEPT ![d] = Moved(cmds[d], i, "succeeded")]
          /\ cmds[d][i].state \notin CommandTerminal
          /\ "succeeded" \in CommandTerminal /\ "succeeded" \in CommandStates
      BY <1>1, <2>2
      DEF Examine, Moved, StateOf, CommandTerminal, CommandStates
    <3> HIDE DEF i
    <3>2. i \in DOMAIN cmds[d] => cmds[d][i].state \in CommandStates
      BY StatesLemma DEF TypeOK
    <3>3. i \in DOMAIN cmds[d] => Lifecycle!Moves(cmds[d][i].state, "succeeded")
      BY <3>1, <3>2, MovesLemma
    <3> QED BY <3>1, <3>3, MovedAdvances
  <2> QED BY <2>1, <2>2
<1>2. ASSUME NEW d \in Devices, Dispatch(t, d)
      PROVE  StatesAdvance(e)
  <2> DEFINE c == [state |-> "queued", at |-> boot[d]]
  <2>1. cmds' = [cmds EXCEPT ![d] = Append(cmds[d], c)] /\ c.state = "queued"
    BY <1>2 DEF Dispatch
  <2> HIDE DEF c
  <2>2. cmds[d] \in Seq(Commands) /\ cmds[e] \in Seq(Commands)
    BY DEF TypeOK, Commands
  <2>3. cmds'[e] = IF e = d THEN Append(cmds[d], c) ELSE cmds[e]
    BY <2>1 DEF TypeOK
  <2>4. /\ DOMAIN cmds[e] \subseteq DOMAIN cmds'[e]
        /\ \A i \in DOMAIN cmds[e] : cmds'[e][i] = cmds[e][i]
        /\ \A i \in DOMAIN cmds'[e] \ DOMAIN cmds[e] : cmds'[e][i] = c
    BY <2>2, <2>3
  <2> QED BY <2>1, <2>4 DEF StatesAdvance
<1>3. ASSUME NEW d \in Devices, Revoke(t, d)
      PROVE  StatesAdvance(e)
  <2> DEFINE i == RowOf(t, d).cmd
  <2>1. CASE cmds' = cmds
    BY <2>1, SameStates
  <2>2. CASE cmds' # cmds
    <3>1. /\ cmds' = [cmds EXCEPT ![d] = Moved(cmds[d], i, "canceled")]
          /\ cmds[d][i].state \notin CommandTerminal \ {"canceled"}
          /\ "canceled" \in CommandTerminal /\ "canceled" \in CommandStates
      BY <1>3, <2>2
      DEF Revoke, Moved, StateOf, CommandTerminal, CommandStates
    <3> HIDE DEF i
    <3>2. i \in DOMAIN cmds[d] => cmds[d][i].state \in CommandStates
      BY StatesLemma DEF TypeOK
    <3>3. i \in DOMAIN cmds[d] =>
            \/ "canceled" = cmds[d][i].state
            \/ Lifecycle!Moves(cmds[d][i].state, "canceled")
      BY <3>1, <3>2, MovesLemma
    <3> QED BY <3>1, <3>3, MovedAdvances
  <2> QED BY <2>1, <2>2
<1>4. ASSUME \/ \E d \in Devices : Wait(t, d) \/ Announce(t, d) \/ CancelRow(t, d)
             \/ \E op \in {"reconcile", "cancel"} : Load(t, op)
             \/ Save(t) \/ Die(t)
      PROVE  StatesAdvance(e)
  <2>1. UNCHANGED cmds
    BY <1>4 DEF Wait, Announce, CancelRow, Load, Save, Die
  <2> QED BY <2>1, SameStates
<1> QED BY <1>1, <1>2, <1>3, <1>4 DEF ThreadStep, Continue

LEMMA PollAdvances ==
  ASSUME TypeOK, NEW d \in Devices, NEW late \in SUBSET Numbers, Poll(d, late),
         NEW e \in Devices
  PROVE  StatesAdvance(e)
<1>1. cmds[d] \in Seq(Commands)
  BY DEF TypeOK, Commands
<1>2. cmds' = [cmds EXCEPT ![d] = AfterPoll(d, late)]
  BY DEF Poll
<1>3. CASE e = d
  <2>1. cmds'[d] = AfterPoll(d, late)
    BY <1>2 DEF TypeOK
  <2>2. /\ DOMAIN cmds'[d] = DOMAIN cmds[d]
        /\ \A i \in DOMAIN cmds[d] :
             cmds'[d][i].state = IF i \in late THEN "failed"
                                 ELSE IF i \in HandedOut(d, late) THEN "delivered"
                                 ELSE cmds[d][i].state
    BY <1>1, <2>1, PollLemma
  <2>3. ASSUME NEW i \in late PROVE Lifecycle!Moves(cmds[d][i].state, "failed")
    <3>1. i \in DOMAIN cmds[d] /\ cmds[d][i].state \notin CommandTerminal
      BY DEF Poll, StateOf
    <3>2. cmds[d][i].state \in CommandStates /\ "failed" \in CommandTerminal
      BY <3>1, StatesLemma DEF TypeOK, CommandTerminal
    <3> QED BY <3>1, <3>2, MovesLemma
  <2>4. \A i \in HandedOut(d, late) : Lifecycle!Moves(cmds[d][i].state, "delivered")
    BY MovesLemma DEF HandedOut, StateOf
  <2> QED BY <1>3, <2>2, <2>3, <2>4 DEF StatesAdvance
<1>4. CASE e # d
  <2>1. cmds'[e] = cmds[e]
    BY <1>2, <1>4 DEF TypeOK
  <2> QED BY <2>1 DEF StatesAdvance
<1> QED BY <1>3, <1>4

LEMMA StepAdvances ==
  ASSUME TypeOK, [Next]_vars, NEW e \in Devices
  PROVE  StatesAdvance(e)
<1>1. ASSUME NEW d \in Devices, NEW i \in Numbers, ReportAccepted(d, i)
      PROVE  StatesAdvance(e)
  <2>1. /\ cmds' = [cmds EXCEPT ![d] = Moved(cmds[d], i, "accepted")]
        /\ cmds[d][i].state = "delivered" /\ "accepted" \in CommandStates
    BY <1>1 DEF ReportAccepted, Moved, StateOf, CommandStates
  <2>2. Lifecycle!Moves(cmds[d][i].state, "accepted")
    BY <2>1, MovesLemma
  <2> QED BY <2>1, <2>2, MovedAdvances
<1>2. ASSUME NEW d \in Devices, (\E b \in Boots : Report(d, b)) \/ DeviceStep(d)
      PROVE  StatesAdvance(e)
  <2>1. UNCHANGED cmds
    BY <1>2 DEF Report, DeviceStep, ExecKnown, ExecArm, TimerFires, Unmark,
                PowerCut, Restart, controller
  <2> QED BY <2>1, SameStates
<1>3. CASE Create \/ Window \/ UNCHANGED vars
  <2>1. UNCHANGED cmds
    BY <1>3 DEF Create, Window, vars, controller
  <2> QED BY <2>1, SameStates
<1> QED BY <1>1, <1>2, <1>3, PollAdvances, ThreadAdvances DEF Next, Delivery

LEMMA LifecycleStep ==
  ASSUME TypeOK, TypeOK', [Next]_vars
  PROVE  Lifecycle!Next
<1> DEFINE DbStates == Lifecycle!CommandStates \cup {"absent"}
           Keys == Devices \X Numbers
<1>1. CommandStates \subseteq Lifecycle!CommandStates
  BY DEF CommandStates, CommandTerminal, Lifecycle!CommandStates,
         Lifecycle!Open, Lifecycle!Terminal
<1>2. \A d \in Devices : \A i \in DOMAIN cmds'[d] :
        cmds'[d][i].state \in CommandStates
  BY StatesLemma DEF TypeOK
<1>3. \A c \in Keys :
        /\ CommandRows[c] = IF c[2] \in DOMAIN cmds[c[1]]
                              THEN cmds[c[1]][c[2]].state ELSE "absent"
        /\ CommandRows'[c] = IF c[2] \in DOMAIN cmds'[c[1]]
                               THEN cmds'[c[1]][c[2]].state ELSE "absent"
  BY DEF CommandRows
<1>4. \A c \in Keys : c[1] \in Devices
  OBVIOUS
<1>5. CommandRows' \in [Keys -> DbStates]
  <2>1. \A c \in Keys : CommandRows'[c] \in DbStates
    BY <1>1, <1>2, <1>3, <1>4
  <2>2. CommandRows' = [c \in Keys |-> CommandRows'[c]]
    BY DEF CommandRows
  <2> HIDE DEF DbStates, Keys
  <2> QED BY <2>1, <2>2
<1>6. ASSUME NEW c \in Keys
      PROVE  \/ CommandRows'[c] = CommandRows[c]
             \/ Lifecycle!Moves(CommandRows[c], CommandRows'[c])
  <2>1. StatesAdvance(c[1])
    BY <1>4, StepAdvances
  <2>2. CASE c[2] \in DOMAIN cmds[c[1]]
    BY <1>3, <2>1, <2>2 DEF StatesAdvance
  <2>3. CASE c[2] \notin DOMAIN cmds[c[1]]
    BY <1>3, <2>1, <2>3 DEF StatesAdvance, Lifecycle!Moves
  <2> QED BY <2>2, <2>3
<1> QED BY <1>5, <1>6 DEF Lifecycle!Next

\* Whatever polls, reports, verifications and cancellations overlap, and
\* wherever they are cut short, a reboot command only advances, and ends for
\* good: RebootSchedule implements CommandLifecycle (transition_command(),
\* commands_for_delivery(), reconcile_reboot_schedule()).
THEOREM LifecycleIsKept == Spec => KeepsLifecycle
<1>1. Init => Lifecycle!Init
  BY DEF Init, Lifecycle!Init, CommandRows
<1>2. TypeOK /\ TypeOK' /\ [Next]_vars => [Lifecycle!Next]_CommandRows
  BY LifecycleStep
<1> QED BY <1>1, <1>2, TypeCorrect, PTL DEF Spec, KeepsLifecycle, Lifecycle!Spec
=============================================================================
