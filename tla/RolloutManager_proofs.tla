------------------------ MODULE RolloutManager_proofs ------------------------
(***************************************************************************)
(* Proofs about RolloutManager, for any devices, phases, groups, policies, *)
(* weeks and soak times, any settings to begin with and any bound.         *)
(***************************************************************************)
EXTENDS RolloutManager, MaintenanceWindow_proofs

manager == proc[Manager]
operator == proc[Operator]

-----------------------------------------------------------------------------
(* The inductive invariant.                                                *)

\* An idle thread has forgotten its call; only an operator resets, and no
\* operator's copy of the runtime record knows of a soak.
ThreadInv ==
  /\ \A t \in Threads : /\ proc[t].pc = "idle" => proc[t] = Idle
                        /\ proc[t].pc = "list" => proc[t].phase \in Phases
  /\ manager.pc \notin {"reset", "resetsave"}
  /\ manager.pc # "windows" => manager.dev = {}
  /\ operator.pc \in {"idle", "advance", "list", "dispatch", "save", "reset",
                      "resetsave"}
  /\ operator.run.left = None

\* What a dispatch has still to do, and what a finished one has left.
DispatchInv ==
  /\ \A t \in Threads : proc[t].pc = "dispatch" =>
       /\ proc[t].phase \in Phases /\ proc[t].todo \subseteq Members(proc[t].phase)
       /\ \A d \in rows \cap Members(proc[t].phase) :
            d \in commanded \/ d \in proc[t].todo \/ d \in late
  /\ \A d \in rows \ commanded : Phase[d] \in Dispatched =>
       \/ d \in late \/ Phase[d] \in torn
       \/ \E t \in Threads : proc[t].pc = "dispatch" /\ proc[t].phase = Phase[d]

\* The soak that a copy of the runtime record counts was indeed calm.
Good(run) ==
  run.left # None =>
    /\ run.active \in Dispatched
    /\ run.active = Active /\ Active \notin unseen =>
         work[Active] = "ready" /\ calm[Active] + run.left >= Soak

SoakInv == Good(runtime) /\ Good(manager.run)

\* What the pass knows of the gate and of the record is still so.
PassInv ==
  /\ manager.pc \in {"status", "record", "decide"} /\ manager.run.left = None
       => runtime.left = None
  /\ manager.pc \in {"record", "decide"} /\ manager.gate = "ready" =>
       /\ manager.active \in Dispatched
       /\ manager.active \in unseen \/ work[manager.active] = "ready"
  /\ manager.pc \in {"windows", "advance", "list"} /\ manager.active # None
       => manager.run.left = 0 /\ manager.run.active = manager.active
  /\ manager.pc \in {"record", "decide", "advance"} => manager.active # None
  /\ manager.pc # "idle" /\ ~disturbed =>
       /\ operator.pc = "idle"
       /\ manager.pc \in {"record", "decide", "windows", "advance", "list"}
            => manager.active = Active

Counting(run) == run.left \notin {None, Soak}

\* The phase the pass will dispatch is the one whose windows it looks at.
PhaseInv ==
  /\ Counting(runtime) \/ Counting(manager.run) => ~freezing
  /\ manager.pc \in {"record", "decide"} /\ ~disturbed
       /\ manager.gate = "ready" /\ Counting(manager.run) => Gate(Active) = "ready"
  /\ manager.pc \in {"windows", "advance"} /\ ~disturbed /\ manager.active # None
       => Gate(Active) = "ready" /\ manager.next = NextPhase
  /\ manager.pc = "windows" =>
       manager.next # None /\ (manager.active = None => manager.phase = manager.next)
  /\ manager.pc = "list" /\ ~disturbed
       => manager.next # None /\ manager.phase = manager.next

Rest(m) == m.found \cup {policy[k] : k \in m.keys}
Enabled(policies) == {p \in policies : p.enabled}
Deciding(d) == {d} \cup GroupsOf[d]

\* The windows of a device that were read are those of a moment of the pass.
ReadInv ==
  /\ manager.pc # "idle" => AllowedNow(policy) \subseteq open
  /\ manager.pc = "windows" => \A d \in manager.dev :
       /\ manager.keys \subseteq GroupsOf[d]
       /\ Moved(d) \/ d \in open \/ ~Allowed(Enabled(Rest(manager)), now)
       /\ manager.keys # {} /\ touched \cap Deciding(d) \subseteq manager.keys =>
            /\ policy[d] = NoPolicy
            /\ manager.found = {NoPolicy} \cup {policy[k] : k \in GroupsOf[d] \ manager.keys}

Cleared(d) == d \in open \/ d \in late \/ Moved(d)

WindowInv ==
  /\ manager.pc = "windows" /\ ~manager.blocked =>
       \A d \in rows \cap Members(manager.next) :
         d \in manager.todo \/ d \in manager.dev \/ Cleared(d)
  /\ manager.pc \in {"advance", "list"} /\ manager.next # None =>
       \A d \in rows \cap Members(manager.next) : Cleared(d)
  /\ outside = {}

IInv ==
  /\ TypeOK /\ ThreadInv /\ DispatchInv /\ SoakInv /\ PassInv /\ PhaseInv
  /\ ReadInv /\ WindowInv /\ early = {}

-----------------------------------------------------------------------------
(* The phases: a finite set of numbers.                                    *)

LEMMA PhasesLemma ==
  Phases \subseteq Nat /\ IsFiniteSet(Phases) /\ \A d \in Devices : Phase[d] \in Phases
<1>1. Phases = {Phase[d] : d \in Devices} /\ Phases \subseteq Nat
  BY ManagerAssumption DEF Phases
<1>2. IsFiniteSet({Phase[d] : d \in Devices})
  <2>1. Phase \in Surjection(Devices, {Phase[d] : d \in Devices})
    BY ManagerAssumption DEF Surjection
  <2> QED BY <2>1, ManagerAssumption, FS_Surjection
<1> QED BY <1>1, <1>2

LEMMA LeastLemma ==
  ASSUME NEW S \in SUBSET Phases, S # {}
  PROVE  Least(S) \in S /\ \A m \in S : Least(S) <= m
BY BelowLemma, PhasesLemma, FS_Subset DEF Least

LEMMA GreatestLemma ==
  ASSUME NEW S \in SUBSET Phases, S # {}
  PROVE  Greatest(S) \in S /\ \A m \in S : m <= Greatest(S)
BY AboveLemma, PhasesLemma, FS_Subset DEF Greatest

\* The active phase is the last of those dispatched.
LEMMA ActiveLemma ==
  ASSUME rows \subseteq Devices, commanded \subseteq rows
  PROVE  /\ Dispatched \subseteq Phases /\ Inserted \subseteq Phases
         /\ Active = None <=> Dispatched = {}
         /\ Active # None => Active \in Dispatched /\ \A p \in Dispatched : p <= Active
         /\ Active \in Phases \cup {None}
<1>1. Dispatched \subseteq Phases /\ Inserted \subseteq Phases
  BY PhasesLemma DEF Dispatched, Inserted
<1>2. None \notin Phases
  BY PhasesLemma DEF None
<1> QED BY <1>1, <1>2, GreatestLemma DEF Active

\* The next phase has a row.
LEMMA NextPhaseLemma ==
  ASSUME rows \subseteq Devices, commanded \subseteq rows
  PROVE  /\ NextPhase \in Phases \cup {None}
         /\ NextPhase # None => NextPhase \in Inserted
         /\ Active = None /\ Inserted # {} => NextPhase # None
<1>1. Inserted \subseteq Phases /\ Later \subseteq Inserted
  BY ActiveLemma DEF Later
<1>2. None \notin Phases
  BY PhasesLemma DEF None
<1>3. Later # {} => Least(Later) \in Later
  BY <1>1, LeastLemma
<1>4. Inserted # {} => Least(Inserted) \in Inserted
  BY <1>1, LeastLemma
<1> QED BY <1>1, <1>2, <1>3, <1>4 DEF NextPhase

LEMMA GateLemma ==
  ASSUME NEW p PROVE Gate(p) \in {"busy", "ready", "broken"}
                     /\ (Gate(p) = "ready" => work[p] = "ready")
BY DEF Gate

-----------------------------------------------------------------------------
(* What a step of one thread does to the two, and what stays.              *)

LEMMA ThreadsLemma ==
  TypeOK => /\ manager \in Passes /\ operator \in Passes
            /\ manager.run \in Runtimes /\ operator.run \in Runtimes
            /\ manager.todo \subseteq rows /\ operator.todo \subseteq rows
<1> SUFFICES ASSUME TypeOK
             PROVE  manager \in Passes /\ operator \in Passes
                    /\ manager.run \in Runtimes /\ operator.run \in Runtimes
                    /\ manager.todo \subseteq rows /\ operator.todo \subseteq rows
  OBVIOUS
<1>1. manager \in Passes /\ operator \in Passes
  BY DEF TypeOK, Threads, manager, operator
<1>2. manager.run \in Runtimes /\ operator.run \in Runtimes
  BY <1>1 DEF Passes
<1> QED BY <1>1, <1>2 DEF TypeOK, Threads, manager, operator

LEMMA IdleLemma ==
  NoRuntime \in Runtimes /\ Idle \in Passes /\ Idle.todo = {} /\ Idle.pc = "idle"
  /\ Idle.run.left = None /\ Idle.dev = {}
<1>1. NoRuntime \in Runtimes /\ NoRuntime.left = None
  BY ManagerAssumption DEF NoRuntime, Runtimes, None
<1> QED BY <1>1 DEF Idle, Passes, Pcs, Gates

\* The manager's pass becomes n.
LEMMA ManagerLemma ==
  ASSUME TypeOK, NEW n, proc' = [proc EXCEPT ![Manager] = n]
  PROVE  /\ manager' = n /\ operator' = operator
         /\ n \in Passes => proc' \in [Threads -> Passes]
         /\ \A t \in Threads : t # Manager => proc'[t] = proc[t]
BY DEF TypeOK, Threads, manager, operator, Manager, Operator

LEMMA OperatorLemma ==
  ASSUME TypeOK, NEW n, proc' = [proc EXCEPT ![Operator] = n]
  PROVE  /\ operator' = n /\ manager' = manager
         /\ n \in Passes => proc' \in [Threads -> Passes]
         /\ \A t \in Threads : t # Operator => proc'[t] = proc[t]
BY DEF TypeOK, Threads, manager, operator, Manager, Operator

LEMMA SameDeployment ==
  ASSUME UNCHANGED deployment
  PROVE  /\ Active' = Active /\ Dispatched' = Dispatched /\ Inserted' = Inserted
         /\ rows' = rows /\ commanded' = commanded /\ freezing' = freezing
BY DEF deployment, Active, Dispatched, Inserted

LEMMA SameStatus ==
  ASSUME UNCHANGED <<deployment, work>>
  PROVE  NextPhase' = NextPhase /\ \A p : Gate(p)' = Gate(p)
<1>1. \A p : Gate(p)' = Gate(p)
  BY DEF deployment, Gate
<1> QED BY <1>1, SameDeployment DEF NextPhase, Later

\* A step of threads that are not dispatching, and begin no dispatch.
LEMMA DispatchKept ==
  ASSUME DispatchInv, UNCHANGED <<deployment, dispatches>>,
         \A t \in Threads : \/ proc'[t] = proc[t]
                            \/ proc[t].pc # "dispatch" /\ proc'[t].pc # "dispatch"
  PROVE  DispatchInv'
BY DEF DispatchInv, deployment, dispatches, Dispatched

\* The types that a step of a thread keeps when it changes only these.
LEMMA TypeKept ==
  ASSUME TypeOK, proc' \in [Threads -> Passes],
         \A t \in Threads : proc'[t].todo \subseteq rows,
         state' \in {"queued", "running", "paused", "succeeded"},
         runtime' \in Runtimes, unseen' \subseteq Phases,
         UNCHANGED <<clock, policy, deployment, work, calm, early, disturbed,
                     windows, dispatches, trouble>>
  PROVE  TypeOK'
BY DEF TypeOK, clock, deployment, windows, dispatches

-----------------------------------------------------------------------------
(* The manager's steps.                                                    *)

LEMMA BeginKeeps ==
  ASSUME IInv, Begin PROVE IInv'
<1> DEFINE n == [Idle EXCEPT !.pc = "status", !.run = runtime]
<1> USE DEF IInv
<1>1. proc' = [proc EXCEPT ![Manager] = n] /\ manager.pc = "idle"
  BY DEF Begin, manager
<1>2. n \in Passes /\ n.pc = "status" /\ n.run = runtime /\ n.todo = {}
      /\ n.dev = {}
  BY IdleLemma DEF TypeOK, Passes, Pcs
<1> HIDE DEF n
<1>3. manager' = n /\ operator' = operator /\ proc' \in [Threads -> Passes]
      /\ \A t \in Threads : t # Manager => proc'[t] = proc[t]
  BY <1>1, <1>2, ManagerLemma
<1>4. Active' = Active /\ Dispatched' = Dispatched /\ rows' = rows
      /\ freezing' = freezing /\ NextPhase' = NextPhase
      /\ \A p : Gate(p)' = Gate(p)
  BY SameDeployment, SameStatus DEF Begin
<1>5. TypeOK'
  <2>1. AllowedNow(policy) \subseteq Devices
    BY DEF AllowedNow
  <2>2. \A t \in Threads : proc'[t].todo \subseteq rows
    BY <1>2, <1>3 DEF TypeOK, manager
  <2>3. looked' \in BOOLEAN /\ disturbed' \in BOOLEAN
    BY DEF Begin
  <2> QED BY <1>3, <2>1, <2>2, <2>3 DEF Begin, TypeOK, deployment, soaks, dispatches
<1>6. ThreadInv'
  BY <1>2, <1>3 DEF ThreadInv, manager, operator, Threads
<1>7. DispatchInv'
  <2>1. \A t \in Threads : \/ proc'[t] = proc[t]
                           \/ proc[t].pc # "dispatch" /\ proc'[t].pc # "dispatch"
    BY <1>1, <1>2, <1>3 DEF manager
  <2> QED BY <2>1, DispatchKept DEF Begin
<1>8. SoakInv'
  BY <1>2, <1>3, <1>4 DEF Begin, SoakInv, Good, soaks
<1>9. PassInv'
  <2>1. operator' = operator /\ (~disturbed' => operator.pc = "idle")
    BY <1>3 DEF Begin, operator
  <2> QED BY <1>2, <1>3, <2>1 DEF Begin, PassInv
<1>10. PhaseInv'
  BY <1>2, <1>3, <1>4 DEF Begin, PhaseInv, Counting
<1>11. ReadInv'
  BY <1>2, <1>3 DEF Begin, ReadInv, AllowedNow
<1>12. WindowInv' /\ early' = {}
  BY <1>2, <1>3 DEF Begin, WindowInv, soaks
<1> QED BY <1>5, <1>6, <1>7, <1>8, <1>9, <1>10, <1>11, <1>12

\* Most steps of a pass change the pass and perhaps the deployment's state,
\* the record and what is unseen.
ByManager(n) ==
  /\ proc' = [proc EXCEPT ![Manager] = n]
  /\ manager.pc # "idle"
  /\ UNCHANGED <<clock, policy, deployment, work, calm, early, disturbed,
                 windows, dispatches, trouble>>

LEMMA ManagerStepLemma ==
  ASSUME IInv, NEW n \in Passes, ByManager(n), n.todo \subseteq rows,
         n.pc \notin {"reset", "resetsave"}, n.pc = "idle" => n = Idle,
         n.pc # "windows" => n.dev = {}, n.pc = "list" => n.phase \in Phases,
         state' \in {"queued", "running", "paused", "succeeded"},
         runtime' \in Runtimes, unseen' \subseteq Phases
  PROVE  /\ TypeOK' /\ ThreadInv'
         /\ manager.pc # "dispatch" /\ n.pc # "dispatch" => DispatchInv'
         /\ manager' = n /\ operator' = operator
         /\ Active' = Active /\ Dispatched' = Dispatched /\ rows' = rows
         /\ freezing' = freezing /\ NextPhase' = NextPhase
         /\ \A p : Gate(p)' = Gate(p)
         /\ work' = work /\ calm' = calm /\ now' = now /\ policy' = policy
         /\ open' = open /\ touched' = touched /\ late' = late
         /\ disturbed' = disturbed /\ early' = {} /\ outside' = {}
<1> USE DEF IInv, ByManager
<1>1. manager' = n /\ operator' = operator /\ proc' \in [Threads -> Passes]
      /\ \A t \in Threads : t # Manager => proc'[t] = proc[t]
  BY ManagerLemma
<1>2. TypeOK'
  <2>1. \A t \in Threads : proc'[t].todo \subseteq rows
    BY <1>1 DEF TypeOK, manager
  <2> QED BY <1>1, <2>1, TypeKept
<1>3. ThreadInv'
  BY <1>1 DEF ThreadInv, manager, operator, Threads
<1>4. ASSUME manager.pc # "dispatch", n.pc # "dispatch" PROVE DispatchInv'
  <2>1. \A t \in Threads : \/ proc'[t] = proc[t]
                           \/ proc[t].pc # "dispatch" /\ proc'[t].pc # "dispatch"
    BY <1>1, <1>4 DEF manager
  <2> QED BY <2>1, DispatchKept
<1>5. Active' = Active /\ Dispatched' = Dispatched /\ rows' = rows
      /\ freezing' = freezing /\ NextPhase' = NextPhase
      /\ \A p : Gate(p)' = Gate(p)
  BY SameDeployment, SameStatus
<1> QED BY <1>1, <1>2, <1>3, <1>4, <1>5 DEF clock, windows, dispatches, WindowInv

\* A copy of the record that knew of a calm soak still does.
LEMMA SameGood ==
  ASSUME UNCHANGED <<deployment, work, calm>>, unseen \subseteq unseen',
         NEW run, Good(run)
  PROVE  run.left # None =>
           /\ run.active \in Dispatched'
           /\ run.active = Active' /\ Active' \notin unseen' =>
                work'[Active'] = "ready" /\ calm'[Active'] + run.left >= Soak
BY SameDeployment DEF Good

LEMMA ManagerSoakLemma ==
  ASSUME IInv, NEW n, ByManager(n), manager' = n, runtime' = runtime,
         unseen \subseteq unseen', n.run = manager.run
  PROVE  SoakInv'
BY SameGood DEF IInv, SoakInv, Good, ByManager

LEMMA ManagerReadLemma ==
  ASSUME IInv, NEW n, ByManager(n), manager' = n,
         n.pc = "windows" => n.dev = {}
  PROVE  ReadInv'
BY DEF IInv, ReadInv, ByManager, AllowedNow, windows, clock

\* The pass ends.
LEMMA ManagerEndsLemma ==
  ASSUME IInv, ByManager(Idle), manager.pc # "dispatch", runtime' \in Runtimes, unseen' \subseteq Phases,
         state' \in {"queued", "running", "paused", "succeeded"},
         Good(runtime)', Counting(runtime)' => ~freezing
  PROVE  IInv'
<1>1. TypeOK' /\ ThreadInv' /\ DispatchInv' /\ manager' = Idle /\ freezing' = freezing
      /\ early' = {} /\ outside' = {}
  BY IdleLemma, ManagerStepLemma
<1>2. SoakInv'
  BY <1>1, IdleLemma DEF SoakInv, Good
<1>3. PassInv'
  BY <1>1, IdleLemma DEF PassInv
<1>4. PhaseInv'
  BY <1>1, IdleLemma DEF PhaseInv, Counting
<1>5. ReadInv' /\ WindowInv'
  BY <1>1, IdleLemma DEF ReadInv, WindowInv
<1> QED BY <1>1, <1>2, <1>3, <1>4, <1>5 DEF IInv

LEMMA StatusKeeps ==
  ASSUME IInv, Status PROVE IInv'
<1> USE DEF IInv
<1>0. rows \subseteq Devices /\ commanded \subseteq rows /\ manager \in Passes
      /\ manager.pc = "status" /\ manager.dev = {}
  BY ThreadsLemma DEF TypeOK, Status, ThreadInv, manager
<1>1. runtime \in Runtimes /\ unseen \subseteq Phases /\ runtime' = runtime
      /\ unseen' = unseen
      /\ state' \in {"queued", "running", "paused", "succeeded"}
  BY DEF TypeOK, Status, history, soaks
<1> DEFINE gate == IF Active = None THEN "none" ELSE Gate(Active)
           seen == [manager EXCEPT !.active = Active, !.gate = gate, !.next = NextPhase]
           first == [seen EXCEPT !.pc = "windows", !.phase = NextPhase,
                                 !.todo = rows \cap Members(NextPhase)]
<1>2. gate \in Gates /\ (gate = "ready" => Active # None /\ Gate(Active) = "ready"
                                            /\ work[Active] = "ready")
  BY GateLemma DEF Gates
<1>3. seen \in Passes /\ seen.run = manager.run /\ seen.todo = manager.todo
      /\ seen.active = Active /\ seen.gate = gate /\ seen.next = NextPhase
      /\ seen.dev = {}
  BY <1>0, <1>2, ActiveLemma, NextPhaseLemma DEF Passes
<1>4. CASE Active = None /\ Inserted = {} /\ Done(Manager)
  <2>1. ByManager(Idle)
    BY <1>0, <1>4 DEF ByManager, Done, Status, history, soaks
  <2>2. Good(runtime)' /\ (Counting(runtime)' => ~freezing)
    BY <1>1, <2>1, SameGood DEF SoakInv, Good, PhaseInv, Counting, ByManager
  <2> QED BY <1>0, <1>1, <2>1, <2>2, ManagerEndsLemma
<1>5. CASE /\ Active = None /\ Inserted # {}
           /\ proc' = [proc EXCEPT ![Manager] = first]
  <2>1. first \in Passes /\ first.pc = "windows" /\ first.run = manager.run
        /\ first.next = NextPhase /\ first.active = None /\ first.dev = {}
        /\ first.phase = NextPhase
        /\ first.todo = rows \cap Members(NextPhase) /\ NextPhase # None
    BY <1>0, <1>3, <1>5, NextPhaseLemma, ZenonT(30) DEF Passes, Pcs
  <2>2. ByManager(first)
    BY <1>0, <1>5 DEF ByManager, Status, history, soaks
  <2> HIDE DEF first, seen, gate
  <2>3. TypeOK' /\ ThreadInv' /\ DispatchInv' /\ SoakInv' /\ ReadInv' /\ early' = {}
    BY <1>0, <1>1, <2>1, <2>2, ManagerStepLemma, ManagerSoakLemma, ManagerReadLemma
  <2>4. PassInv'
    BY <1>0, <1>1, <1>5, <2>1, <2>2, ManagerStepLemma DEF PassInv
  <2>5. PhaseInv'
    BY <1>0, <1>1, <2>1, <2>2, ManagerStepLemma DEF PhaseInv, Counting
  <2>6. WindowInv'
    BY <1>0, <1>1, <2>1, <2>2, ManagerStepLemma DEF WindowInv
  <2> QED BY <2>3, <2>4, <2>5, <2>6
<1>6. CASE \E pc \in {"record", "decide"} :
             /\ Active # None
             /\ proc' = [proc EXCEPT ![Manager] = [seen EXCEPT !.pc = pc]]
  <2>1. PICK pc \in {"record", "decide"} :
          proc' = [proc EXCEPT ![Manager] = [seen EXCEPT !.pc = pc]]
    BY <1>6
  <2> DEFINE n == [seen EXCEPT !.pc = pc]
  <2>2. n \in Passes /\ n.pc = pc /\ n.run = manager.run /\ n.next = NextPhase
        /\ n.active = Active /\ n.gate = gate /\ n.todo = manager.todo /\ n.dev = {}
    BY <1>3 DEF Passes, Pcs
  <2>3. ByManager(n)
    BY <1>0, <2>1 DEF ByManager, Status, history, soaks
  <2>4. Active \in Dispatched /\ (gate = "ready" => Gate(Active) = "ready"
                                                     /\ work[Active] = "ready")
    BY <1>0, <1>2, <1>6, ActiveLemma
  <2>5. n.todo \subseteq rows
    BY <2>2, ThreadsLemma
  <2> HIDE DEF n, seen, gate
  <2>6. TypeOK' /\ ThreadInv' /\ DispatchInv' /\ SoakInv' /\ ReadInv' /\ early' = {}
    BY <1>0, <1>1, <2>2, <2>3, <2>5, ManagerStepLemma, ManagerSoakLemma,
       ManagerReadLemma
  <2>7. PassInv'
    BY <1>0, <1>1, <1>6, <2>2, <2>3, <2>4, <2>5, ManagerStepLemma DEF PassInv
  <2>8. PhaseInv'
    BY <1>0, <1>1, <2>2, <2>3, <2>4, <2>5, ManagerStepLemma DEF PhaseInv, Counting
  <2>9. WindowInv'
    BY <1>0, <1>1, <2>2, <2>3, <2>5, ManagerStepLemma DEF WindowInv
  <2> QED BY <2>6, <2>7, <2>8, <2>9
<1> QED
  BY <1>4, <1>5, <1>6 DEF Status, manager

LEMMA RunLemma ==
  ASSUME NEW run \in Runtimes, NEW p \in Phases \cup {None}
  PROVE  /\ Reset(run, p) \in Runtimes
         /\ Reset(run, p).left = None /\ Reset(run, p).active = p
         /\ [Reset(run, p) EXCEPT !.left = Soak] \in Runtimes
         /\ [run EXCEPT !.left = None] \in Runtimes
         /\ \A b \in BOOLEAN :
              /\ [run EXCEPT !.waited = b] \in Runtimes
              /\ [run EXCEPT !.waited = b].left = run.left
              /\ [run EXCEPT !.waited = b].active = run.active
<1>1. None \in None..Soak /\ Soak \in None..Soak
  BY ManagerAssumption DEF None
<1>2. Reset(run, p) \in Runtimes
      /\ Reset(run, p).left = None /\ Reset(run, p).active = p
  BY <1>1 DEF Reset, Runtimes
<1>3. \A r \in Runtimes, left \in None..Soak : [r EXCEPT !.left = left] \in Runtimes
  BY DEF Runtimes
<1>4. \A b \in BOOLEAN :
        /\ [run EXCEPT !.waited = b] \in Runtimes
        /\ [run EXCEPT !.waited = b].left = run.left
        /\ [run EXCEPT !.waited = b].active = run.active
  BY DEF Runtimes
<1> QED BY <1>1, <1>2, <1>3, <1>4

LEMMA RecordKeeps ==
  ASSUME IInv, Record PROVE IInv'
<1> USE DEF IInv
<1> DEFINE run == [manager.run EXCEPT !.seen[manager.active] = manager.gate]
           n == [manager EXCEPT !.pc = "decide", !.run = run]
<1>1. manager \in Passes /\ manager.run \in Runtimes /\ manager.pc = "record"
      /\ manager.todo \subseteq rows /\ manager.dev = {}
  BY ThreadsLemma DEF Record, ThreadInv, manager
<1>2. run \in Runtimes /\ run.left = manager.run.left
      /\ run.active = manager.run.active
  BY <1>1 DEF Runtimes, Passes, Gates
<1>3. n \in Passes /\ n.pc = "decide" /\ n.run = run /\ n.active = manager.active
      /\ n.gate = manager.gate /\ n.todo = manager.todo /\ n.dev = {}
  BY <1>1, <1>2 DEF Passes, Pcs
<1>4. ByManager(n) /\ runtime' = run /\ unseen' = unseen /\ state' = state
  BY <1>1 DEF Record, ByManager, manager, history, soaks
<1>5. unseen \subseteq Phases /\ state \in {"queued", "running", "paused", "succeeded"}
  BY DEF TypeOK
<1> HIDE DEF run, n
<1>6. /\ TypeOK' /\ ThreadInv' /\ DispatchInv'
      /\ manager' = n /\ operator' = operator
      /\ Active' = Active /\ Dispatched' = Dispatched /\ freezing' = freezing
      /\ \A p : Gate(p)' = Gate(p)
      /\ work' = work /\ disturbed' = disturbed /\ early' = {} /\ outside' = {}
  BY <1>1, <1>2, <1>3, <1>4, <1>5, ManagerStepLemma
<1>7. SoakInv'
  BY <1>2, <1>3, <1>4, <1>6, SameGood DEF SoakInv, Good, ByManager
<1>8. PassInv'
  BY <1>1, <1>2, <1>3, <1>4, <1>6 DEF PassInv
<1>9. PhaseInv'
  BY <1>1, <1>2, <1>3, <1>4, <1>6 DEF PhaseInv, Counting
<1>10. ReadInv' /\ WindowInv'
  BY <1>1, <1>3, <1>4, <1>6, ManagerReadLemma DEF WindowInv
<1> QED BY <1>6, <1>7, <1>8, <1>9, <1>10

LEMMA PauseKeeps ==
  ASSUME IInv, Pause PROVE IInv'
<1> USE DEF IInv
<1> DEFINE n == [manager EXCEPT !.pc = "save", !.run = Reset(@, manager.active)]
<1>1. manager \in Passes /\ manager.run \in Runtimes /\ manager.pc = "decide"
      /\ manager.todo \subseteq rows /\ manager.dev = {}
  BY ThreadsLemma DEF Pause, ThreadInv, manager
<1>2. Reset(manager.run, manager.active) \in Runtimes
      /\ Reset(manager.run, manager.active).left = None
  BY <1>1, RunLemma DEF Passes
<1>3. n \in Passes /\ n.pc = "save" /\ n.run.left = None /\ n.todo = manager.todo
      /\ n.dev = {}
  BY <1>1, <1>2 DEF Passes, Pcs
<1>4. ByManager(n) /\ runtime' = runtime /\ unseen' = unseen /\ state' = "paused"
  BY <1>1 DEF Pause, ByManager, manager, history, soaks
<1>5. unseen \subseteq Phases /\ runtime \in Runtimes
  BY DEF TypeOK
<1> HIDE DEF n
<1>6. /\ TypeOK' /\ ThreadInv' /\ DispatchInv'
      /\ manager' = n /\ operator' = operator
      /\ freezing' = freezing /\ disturbed' = disturbed
      /\ early' = {} /\ outside' = {}
  BY <1>1, <1>3, <1>4, <1>5, ManagerStepLemma
<1>7. SoakInv'
  BY <1>3, <1>4, <1>6, SameGood DEF SoakInv, Good, ByManager
<1>8. PassInv'
  BY <1>1, <1>3, <1>4, <1>6 DEF PassInv
<1>9. PhaseInv'
  BY <1>1, <1>3, <1>4, <1>6 DEF PhaseInv, Counting
<1>10. ReadInv' /\ WindowInv'
  BY <1>1, <1>3, <1>4, <1>6, ManagerReadLemma DEF WindowInv
<1> QED BY <1>6, <1>7, <1>8, <1>9, <1>10

LEMMA WaitKeeps ==
  ASSUME IInv, Wait PROVE IInv'
<1> USE DEF IInv
<1>1. manager \in Passes /\ manager.run \in Runtimes /\ manager.pc = "decide"
      /\ ByManager(Idle) /\ unseen' \subseteq Phases /\ state' = state
      /\ runtime' = IF manager.run.left # None \/ manager.run.active # manager.active
                      THEN Reset(manager.run, manager.active) ELSE runtime
  BY ThreadsLemma DEF Wait, manager, ByManager, Done, TypeOK
<1>2. runtime' \in Runtimes /\ runtime'.left = None
  BY <1>1, RunLemma DEF PassInv, TypeOK, Passes
<1>3. Good(runtime)' /\ ~Counting(runtime)'
  BY <1>2 DEF Good, Counting
<1> QED BY <1>1, <1>2, <1>3, ManagerEndsLemma DEF TypeOK

LEMMA StartSoakKeeps ==
  ASSUME IInv, StartSoak PROVE IInv'
<1> USE DEF IInv
<1> DEFINE run == [Reset(manager.run, manager.active) EXCEPT !.left = Soak]
<1>1. manager \in Passes /\ manager.run \in Runtimes /\ manager.pc = "decide"
      /\ manager.gate = "ready" /\ ByManager(Idle) /\ unseen' = unseen
      /\ state' = state /\ runtime' = run
  BY ThreadsLemma DEF StartSoak, manager, ByManager, Done, TypeOK, history, soaks
<1>2. run \in Runtimes /\ run.left = Soak /\ run.active = manager.active
  <2> DEFINE r == Reset(manager.run, manager.active)
  <2>1. r \in Runtimes /\ r.active = manager.active
        /\ [r EXCEPT !.left = Soak] \in Runtimes
    BY <1>1, RunLemma DEF Passes
  <2> HIDE DEF r
  <2>2. [r EXCEPT !.left = Soak].left = Soak
        /\ [r EXCEPT !.left = Soak].active = r.active
    BY <2>1 DEF Runtimes
  <2> QED BY <2>1, <2>2 DEF r
<1> HIDE DEF run
<1>3. Good(runtime)'
  <2>1. manager.active \in Dispatched
        /\ (manager.active \in unseen \/ work[manager.active] = "ready")
    BY <1>1 DEF PassInv
  <2>2. Active' = Active /\ Dispatched' = Dispatched /\ Dispatched \subseteq Phases
        /\ work' = work /\ calm' = calm
    BY <1>1, SameDeployment, ActiveLemma DEF ByManager, TypeOK
  <2>3. calm[manager.active] \in Nat /\ Soak \in Nat
    BY <2>1, <2>2, ManagerAssumption DEF TypeOK
  <2>4. calm[manager.active] + Soak >= Soak
    BY <2>3
  <2> QED BY <1>1, <1>2, <2>1, <2>2, <2>4 DEF Good
<1> QED BY <1>1, <1>2, <1>3, ManagerEndsLemma DEF TypeOK, Counting

LEMMA KeepSoakingKeeps ==
  ASSUME IInv, KeepSoaking PROVE IInv'
<1> USE DEF IInv
<1>1. ByManager(Idle) /\ manager.pc = "decide"
      /\ unseen' = unseen /\ state' = state /\ runtime' = runtime
  BY DEF KeepSoaking, manager, ByManager, Done, history, soaks
<1>2. Good(runtime)' /\ (Counting(runtime)' => ~freezing)
  BY <1>1, SameGood DEF SoakInv, Good, PhaseInv, Counting, ByManager
<1> QED BY <1>1, <1>2, ManagerEndsLemma DEF TypeOK

LEMMA EndSoakKeeps ==
  ASSUME IInv, EndSoak PROVE IInv'
<1> USE DEF IInv
<1> DEFINE n == [manager EXCEPT !.next = NextPhase,
                   !.pc = IF NextPhase = None THEN "advance" ELSE "windows",
                   !.todo = rows \cap Members(NextPhase)]
<1>1. manager \in Passes /\ manager.run \in Runtimes /\ manager.pc = "decide"
      /\ manager.dev = {} /\ manager.gate = "ready" /\ manager.run.left = 0
      /\ manager.run.active = manager.active /\ manager.active # None
  BY ThreadsLemma DEF EndSoak, ThreadInv, PassInv, manager, Soaking
<1>2. n \in Passes /\ n.next = NextPhase /\ n.run = manager.run
      /\ n.active = manager.active /\ n.dev = {}
      /\ n.todo = rows \cap Members(NextPhase)
      /\ n.pc = IF NextPhase = None THEN "advance" ELSE "windows"
  <2>1. NextPhase \in Phases \cup {None} /\ rows \subseteq Devices
    BY NextPhaseLemma DEF TypeOK
  <2> QED BY <1>1, <2>1 DEF Passes, Pcs
<1>3. ByManager(n) /\ runtime' = runtime /\ unseen' = unseen /\ state' = state
  BY <1>1 DEF EndSoak, ByManager, manager, history, soaks
<1>4. /\ unseen \subseteq Phases /\ runtime \in Runtimes
      /\ state \in {"queued", "running", "paused", "succeeded"}
  BY DEF TypeOK
<1> HIDE DEF n
<1>5. /\ TypeOK' /\ ThreadInv' /\ DispatchInv'
      /\ manager' = n /\ operator' = operator
      /\ Active' = Active /\ freezing' = freezing /\ NextPhase' = NextPhase
      /\ rows' = rows /\ \A p : Gate(p)' = Gate(p)
      /\ disturbed' = disturbed /\ early' = {} /\ outside' = {}
  BY <1>1, <1>2, <1>3, <1>4, ManagerStepLemma
<1>6. SoakInv' /\ ReadInv'
  BY <1>2, <1>3, <1>5, ManagerSoakLemma, ManagerReadLemma
<1>7. PassInv'
  BY <1>1, <1>2, <1>3, <1>5 DEF PassInv
<1>8. PhaseInv'
  <2>1. Counting(manager.run)
    BY <1>1, ManagerAssumption DEF Counting, None
  <2> QED BY <1>1, <1>2, <1>3, <1>5, <2>1 DEF PhaseInv
<1>9. WindowInv'
  BY <1>1, <1>2, <1>3, <1>5 DEF WindowInv
<1> QED BY <1>5, <1>6, <1>7, <1>8, <1>9

-----------------------------------------------------------------------------
(* Reading the windows.                                                    *)

\* What the pass reads of a device is its settings.
LEMMA RestLemma ==
  ASSUME NEW d \in Devices, policy[d] = NoPolicy
  PROVE  Enabled({NoPolicy} \cup {policy[k] : k \in GroupsOf[d]})
           = Effective(policy[d], {policy[k] : k \in GroupsOf[d]})
<1>1. ~NoPolicy.enabled
  BY DEF NoPolicy
<1> QED BY <1>1 DEF Enabled, Effective

LEMMA OwnLemma ==
  ASSUME NEW d \in Devices, policy[d] # NoPolicy
  PROVE  Enabled({policy[d]}) = Effective(policy[d], {policy[k] : k \in GroupsOf[d]})
BY DEF Enabled, Effective

\* A step within the reading.
LEMMA ReadingLemma ==
  ASSUME IInv, NEW n \in Passes, ByManager(n), manager.pc = "windows",
         n.pc = "windows", n.run = manager.run, n.active = manager.active,
         n.next = manager.next, n.phase = manager.phase, n.todo \subseteq rows,
         UNCHANGED <<runtime, state, unseen>>
  PROVE  /\ TypeOK' /\ ThreadInv' /\ DispatchInv' /\ SoakInv' /\ PassInv' /\ PhaseInv'
         /\ manager' = n /\ rows' = rows /\ now' = now /\ policy' = policy
         /\ open' = open /\ touched' = touched /\ late' = late
         /\ early' = {} /\ outside' = {}
<1> USE DEF IInv
<1>1. /\ unseen \subseteq Phases /\ runtime \in Runtimes
      /\ state \in {"queued", "running", "paused", "succeeded"}
  BY DEF TypeOK
<1>2. /\ TypeOK' /\ ThreadInv' /\ DispatchInv'
      /\ manager' = n /\ operator' = operator
      /\ Active' = Active /\ freezing' = freezing /\ NextPhase' = NextPhase
      /\ rows' = rows /\ \A p : Gate(p)' = Gate(p)
      /\ now' = now /\ policy' = policy
      /\ open' = open /\ touched' = touched /\ late' = late
      /\ disturbed' = disturbed /\ early' = {} /\ outside' = {}
  BY <1>1, ManagerStepLemma
<1>3. SoakInv'
  BY <1>2, ManagerSoakLemma
<1>4. PassInv'
  BY <1>2 DEF PassInv
<1>5. PhaseInv'
  BY <1>2 DEF PhaseInv, Counting
<1> QED BY <1>2, <1>3, <1>4, <1>5

LEMMA ReadOwnKeeps ==
  ASSUME IInv, NEW d \in Devices, ReadOwn(d) PROVE IInv'
<1> USE DEF IInv
<1> DEFINE n == [manager EXCEPT !.dev = {d}, !.todo = @ \ {d}, !.found = {policy[d]},
                   !.keys = IF policy[d] = NoPolicy THEN GroupsOf[d] ELSE {}]
<1>1. manager \in Passes /\ manager.pc = "windows" /\ manager.todo \subseteq rows
      /\ manager.dev = {} /\ ByManager(n) /\ UNCHANGED <<runtime, state, unseen>>
  BY ThreadsLemma DEF ReadOwn, manager, ByManager, history, soaks
<1>2. policy[d] \in Policies \cup {NoPolicy} /\ GroupsOf[d] \subseteq Groups
  BY ManagerAssumption DEF TypeOK, Settings
<1>3. n \in Passes /\ n.pc = "windows" /\ n.run = manager.run
      /\ n.active = manager.active /\ n.next = manager.next /\ n.phase = manager.phase
      /\ n.todo = manager.todo \ {d} /\ n.dev = {d} /\ n.found = {policy[d]}
      /\ n.keys = (IF policy[d] = NoPolicy THEN GroupsOf[d] ELSE {})
      /\ n.blocked = manager.blocked
  BY <1>1, <1>2 DEF Passes
<1> HIDE DEF n
<1>4. /\ TypeOK' /\ ThreadInv' /\ DispatchInv' /\ SoakInv' /\ PassInv' /\ PhaseInv'
      /\ manager' = n /\ rows' = rows /\ now' = now /\ policy' = policy
      /\ open' = open /\ touched' = touched /\ late' = late
      /\ early' = {} /\ outside' = {}
  BY <1>1, <1>3, ReadingLemma
<1>5. Enabled({policy[d]} \cup {policy[k] : k \in n.keys})
        = Effective(policy[d], {policy[k] : k \in GroupsOf[d]})
  <2>1. CASE policy[d] = NoPolicy
    BY <1>3, <2>1, RestLemma
  <2>2. CASE policy[d] # NoPolicy
    <3>1. {policy[d]} \cup {policy[k] : k \in n.keys} = {policy[d]}
      BY <1>3, <2>2
    <3> QED BY <2>2, <3>1, OwnLemma
  <2> QED BY <2>1, <2>2
<1>6. d \in open \/ ~Allowed(Enabled({policy[d]} \cup {policy[k] : k \in n.keys}), now)
  BY <1>1, <1>5 DEF ReadInv, AllowedNow
<1>7. ReadInv'
  <2>1. Rest(manager)' = {policy[d]} \cup {policy[k] : k \in n.keys}
    BY <1>3, <1>4 DEF Rest
  <2>2. AllowedNow(policy)' \subseteq open'
    BY <1>1, <1>4 DEF ReadInv, AllowedNow
  <2>3. Moved(d)' = Moved(d)
    BY <1>4 DEF Moved
  <2>4. d \in open' \/ ~Allowed(Enabled(Rest(manager)), now)'
    BY <1>4, <1>6, <2>1 DEF Enabled, Allowed
  <2>5. n.keys # {} => n.found = {NoPolicy} \cup {policy[k] : k \in GroupsOf[d] \ n.keys}
                       /\ policy[d] = NoPolicy
    BY <1>3
  <2>6. manager'.dev = {d} /\ manager'.keys = n.keys /\ manager'.found = n.found
        /\ n.keys \subseteq GroupsOf[d]
    BY <1>3, <1>4
  <2> QED BY <1>4, <2>2, <2>4, <2>5, <2>6 DEF ReadInv, Deciding
<1>8. WindowInv'
  BY <1>1, <1>3, <1>4 DEF WindowInv, Cleared, Moved
<1> QED BY <1>4, <1>7, <1>8

LEMMA ReadGroupKeeps ==
  ASSUME IInv, NEW k \in Groups, ReadGroup(k) PROVE IInv'
<1> USE DEF IInv
<1> DEFINE n == [manager EXCEPT !.keys = @ \ {k}, !.found = @ \cup {policy[k]}]
<1>1. manager \in Passes /\ manager.pc = "windows" /\ manager.todo \subseteq rows
      /\ k \in manager.keys /\ ByManager(n) /\ UNCHANGED <<runtime, state, unseen>>
  BY ThreadsLemma DEF ReadGroup, manager, ByManager, history, soaks
<1>2. policy[k] \in Policies \cup {NoPolicy}
  BY DEF TypeOK, Settings
<1>3. n \in Passes /\ n.pc = "windows" /\ n.run = manager.run
      /\ n.active = manager.active /\ n.next = manager.next /\ n.phase = manager.phase
      /\ n.todo = manager.todo /\ n.dev = manager.dev
      /\ n.found = manager.found \cup {policy[k]} /\ n.keys = manager.keys \ {k}
      /\ n.blocked = manager.blocked
  BY <1>1, <1>2 DEF Passes
<1> HIDE DEF n
<1>4. /\ TypeOK' /\ ThreadInv' /\ DispatchInv' /\ SoakInv' /\ PassInv' /\ PhaseInv'
      /\ manager' = n /\ rows' = rows /\ now' = now /\ policy' = policy
      /\ open' = open /\ touched' = touched /\ late' = late
      /\ early' = {} /\ outside' = {}
  BY <1>1, <1>3, ReadingLemma
<1>5. ReadInv'
  <2>1. n.found \cup {policy[j] : j \in n.keys} = Rest(manager)
    BY <1>1, <1>3 DEF Rest
  <2>2. AllowedNow(policy)' \subseteq open'
    BY <1>1, <1>4 DEF ReadInv, AllowedNow
  <2> SUFFICES ASSUME NEW d \in manager.dev
               PROVE  /\ n.keys \subseteq GroupsOf[d]
                      /\ Moved(d) \/ d \in open \/ ~Allowed(Enabled(Rest(manager)), now)
                      /\ n.keys # {} /\ touched \cap Deciding(d) \subseteq n.keys =>
                           /\ policy[d] = NoPolicy
                           /\ n.found = {NoPolicy} \cup {policy[j] : j \in GroupsOf[d] \ n.keys}
    <3>1. Rest(manager)' = Rest(manager)
      BY <1>4, <2>1 DEF Rest
    <3> QED BY <1>3, <1>4, <2>2, <3>1 DEF ReadInv, Moved, Enabled, Deciding
  <2>3. manager.keys \subseteq GroupsOf[d]
        /\ (Moved(d) \/ d \in open \/ ~Allowed(Enabled(Rest(manager)), now))
        /\ (touched \cap Deciding(d) \subseteq manager.keys =>
              /\ policy[d] = NoPolicy
              /\ manager.found = {NoPolicy} \cup {policy[j] : j \in GroupsOf[d] \ manager.keys})
    BY <1>1 DEF ReadInv
  <2>4. GroupsOf[d] \ n.keys = (GroupsOf[d] \ manager.keys) \cup {k}
    BY <1>1, <1>3, <2>3
  <2>5. {policy[j] : j \in GroupsOf[d] \ n.keys}
          = {policy[j] : j \in GroupsOf[d] \ manager.keys} \cup {policy[k]}
    BY <2>4
  <2> QED BY <1>3, <2>3, <2>5
<1>6. WindowInv'
  BY <1>1, <1>3, <1>4 DEF WindowInv, Cleared, Moved
<1> QED BY <1>4, <1>5, <1>6

LEMMA JudgeDeviceKeeps ==
  ASSUME IInv, JudgeDevice PROVE IInv'
<1> USE DEF IInv
<1> DEFINE n == [manager EXCEPT !.dev = {}, !.found = {}, !.blocked = Blocked(manager)]
<1>1. manager \in Passes /\ manager.pc = "windows" /\ manager.todo \subseteq rows
      /\ manager.keys = {} /\ ByManager(n) /\ UNCHANGED <<runtime, state, unseen>>
  BY ThreadsLemma DEF JudgeDevice, manager, ByManager, history, soaks
<1>2. Blocked(manager) \in BOOLEAN
  BY DEF Blocked
<1>3. n \in Passes /\ n.pc = "windows" /\ n.run = manager.run
      /\ n.active = manager.active /\ n.next = manager.next /\ n.phase = manager.phase
      /\ n.todo = manager.todo /\ n.dev = {} /\ n.blocked = Blocked(manager)
  BY <1>1, <1>2 DEF Passes
<1> HIDE DEF n
<1>4. /\ TypeOK' /\ ThreadInv' /\ DispatchInv' /\ SoakInv' /\ PassInv' /\ PhaseInv'
      /\ manager' = n /\ rows' = rows /\ now' = now /\ policy' = policy
      /\ open' = open /\ touched' = touched /\ late' = late
      /\ early' = {} /\ outside' = {}
  BY <1>1, <1>3, ReadingLemma
<1>5. ReadInv'
  BY <1>1, <1>3, <1>4, ManagerReadLemma
<1>6. ~Blocked(manager) => ~manager.blocked /\ \A d \in manager.dev : Moved(d) \/ d \in open
  <2>1. Enabled(Rest(manager)) = {p \in manager.found : p.enabled}
    BY <1>1 DEF Rest, Enabled
  <2> QED BY <1>1, <2>1 DEF Blocked, ReadInv
<1>7. WindowInv'
  BY <1>1, <1>3, <1>4, <1>6 DEF WindowInv, Cleared, Moved
<1> QED BY <1>4, <1>5, <1>7

LEMMA WindowsClosedKeeps ==
  ASSUME IInv, WindowsClosed PROVE IInv'
<1> USE DEF IInv
<1> DEFINE run == [manager.run EXCEPT !.waited = TRUE]
<1>1. manager.run \in Runtimes /\ manager.pc = "windows" /\ ByManager(Idle)
      /\ unseen' = unseen /\ state' = state /\ runtime' = run
  BY ThreadsLemma DEF WindowsClosed, manager, ByManager, Done, history, soaks
<1>2. run \in Runtimes /\ run.left = manager.run.left
      /\ run.active = manager.run.active
  BY <1>1, RunLemma
<1> HIDE DEF run
<1>3. Good(runtime)' /\ (Counting(runtime)' => ~freezing)
  BY <1>1, <1>2, SameGood DEF SoakInv, Good, PhaseInv, Counting, ByManager
<1> QED BY <1>1, <1>2, <1>3, ManagerEndsLemma DEF TypeOK

LEMMA WindowsOpenKeeps ==
  ASSUME IInv, WindowsOpen PROVE IInv'
<1> USE DEF IInv
<1> DEFINE run == [manager.run EXCEPT !.waited = FALSE]
           n == [manager EXCEPT !.run = run,
                   !.pc = IF manager.active = None THEN "list" ELSE "advance"]
<1>1. manager \in Passes /\ manager.run \in Runtimes /\ manager.pc = "windows"
      /\ manager.dev = {} /\ manager.todo = {} /\ ~manager.blocked
      /\ manager.next # None
      /\ (manager.active = None => manager.phase = manager.next)
  BY ThreadsLemma DEF WindowsOpen, PhaseInv, manager
<1>2. run \in Runtimes /\ run.left = manager.run.left
      /\ run.active = manager.run.active
  BY <1>1, RunLemma
<1>3. n \in Passes /\ n.run = run /\ n.active = manager.active
      /\ n.next = manager.next /\ n.phase = manager.phase /\ n.todo = {}
      /\ n.dev = {} /\ n.pc = IF manager.active = None THEN "list" ELSE "advance"
  BY <1>1, <1>2 DEF Passes, Pcs
<1>4. ByManager(n) /\ runtime' \in {run, runtime} /\ unseen' = unseen /\ state' = state
  BY <1>1 DEF WindowsOpen, ByManager, manager, history, soaks
<1>5. /\ unseen \subseteq Phases /\ runtime \in Runtimes
      /\ state \in {"queued", "running", "paused", "succeeded"}
  BY DEF TypeOK
<1>6. n.pc = "list" => n.phase \in Phases
  BY <1>1, <1>3 DEF Passes
<1> HIDE DEF n, run
<1>7. /\ TypeOK' /\ ThreadInv' /\ DispatchInv'
      /\ manager' = n /\ operator' = operator
      /\ Active' = Active /\ freezing' = freezing /\ NextPhase' = NextPhase
      /\ rows' = rows /\ open' = open /\ touched' = touched /\ late' = late
      /\ \A p : Gate(p)' = Gate(p)
      /\ disturbed' = disturbed /\ early' = {} /\ outside' = {}
  BY <1>1, <1>2, <1>3, <1>4, <1>5, <1>6, ManagerStepLemma
<1>8. SoakInv' /\ ReadInv'
  BY <1>2, <1>3, <1>4, <1>7, SameGood, ManagerReadLemma
     DEF SoakInv, Good, ByManager
<1>9. PassInv'
  BY <1>1, <1>2, <1>3, <1>4, <1>7 DEF PassInv
<1>10. PhaseInv'
  BY <1>1, <1>2, <1>3, <1>4, <1>7 DEF PhaseInv, Counting
<1>11. WindowInv'
  BY <1>1, <1>3, <1>7 DEF WindowInv, Cleared, Moved
<1> QED BY <1>7, <1>8, <1>9, <1>10, <1>11

-----------------------------------------------------------------------------
(* advance_rollout() and dispatch_phase(), by the manager.                 *)

\* The pass goes on to save.
LEMMA ManagerSavesLemma ==
  ASSUME IInv, manager.pc = "advance", Goto(Manager, "save"),
         state' \in {"queued", "running", "paused", "succeeded"},
         UNCHANGED <<clock, policy, deployment, work, runtime, history, trouble>>
  PROVE  IInv'
<1> USE DEF IInv
<1> DEFINE n == [manager EXCEPT !.pc = "save"]
<1>1. manager \in Passes /\ manager.todo \subseteq rows /\ manager.dev = {}
  BY ThreadsLemma DEF ThreadInv
<1>2. n \in Passes /\ n.run = manager.run /\ n.todo = manager.todo
      /\ n.dev = {} /\ n.pc = "save"
  BY <1>1 DEF Passes, Pcs
<1>3. ByManager(n) /\ unseen' = unseen /\ runtime' = runtime
  BY DEF Goto, ByManager, manager, history, soaks
<1>4. unseen \subseteq Phases /\ runtime \in Runtimes
  BY DEF TypeOK
<1> HIDE DEF n
<1>5. /\ TypeOK' /\ ThreadInv' /\ DispatchInv'
      /\ manager' = n /\ operator' = operator /\ freezing' = freezing
      /\ disturbed' = disturbed /\ early' = {} /\ outside' = {}
  BY <1>1, <1>2, <1>3, <1>4, ManagerStepLemma
<1>6. SoakInv' /\ ReadInv'
  BY <1>2, <1>3, <1>5, ManagerSoakLemma, ManagerReadLemma
<1>7. PassInv'
  BY <1>2, <1>5 DEF PassInv
<1>8. PhaseInv'
  BY <1>2, <1>3, <1>5 DEF PhaseInv, Counting
<1>9. WindowInv'
  BY <1>2, <1>5 DEF WindowInv
<1> QED BY <1>5, <1>6, <1>7, <1>8, <1>9

LEMMA ManagerAdvanceKeeps ==
  ASSUME IInv, Advance(Manager) PROVE IInv'
<1> USE DEF IInv
<1>1. manager \in Passes /\ manager.pc = "advance" /\ manager.active # None
      /\ manager.todo \subseteq rows /\ manager.dev = {}
      /\ UNCHANGED <<clock, policy, deployment, work, runtime, history, trouble>>
  BY ThreadsLemma DEF Advance, PassInv, ThreadInv, manager
<1>2. /\ unseen \subseteq Phases /\ runtime \in Runtimes
      /\ state \in {"queued", "running", "paused", "succeeded"}
      /\ unseen' = unseen /\ runtime' = runtime
  BY <1>1 DEF TypeOK, history, soaks
<1>3. CASE Goto(Manager, "save") /\ state' \in {state, "paused", "succeeded"}
  BY <1>1, <1>2, <1>3, ManagerSavesLemma
<1>4. CASE Done(Manager) /\ UNCHANGED state
  <2>1. ByManager(Idle)
    BY <1>1, <1>4 DEF ByManager, Done, manager, history, soaks
  <2>2. Good(runtime)' /\ (Counting(runtime)' => ~freezing)
    BY <1>2, <2>1, SameGood DEF SoakInv, Good, PhaseInv, Counting, ByManager
  <2> QED BY <1>1, <1>2, <1>4, <2>1, <2>2, ManagerEndsLemma
<1>5. CASE /\ NextPhase # None /\ UNCHANGED state
           /\ proc' = [proc EXCEPT ![Manager].pc = "list",
                                   ![Manager].phase = NextPhase]
  <2> DEFINE n == [manager EXCEPT !.pc = "list", !.phase = NextPhase]
  <2>1. NextPhase \in Phases
    BY <1>5, NextPhaseLemma DEF TypeOK
  <2>2. n \in Passes /\ n.pc = "list" /\ n.phase = NextPhase /\ n.run = manager.run
        /\ n.next = manager.next /\ n.active = manager.active
        /\ n.todo = manager.todo /\ n.dev = {}
    BY <1>1, <2>1 DEF Passes, Pcs
  <2>3. ByManager(n)
    BY <1>1, <1>5 DEF ByManager, manager, history, soaks
  <2> HIDE DEF n
  <2>4. /\ TypeOK' /\ ThreadInv' /\ DispatchInv'
        /\ manager' = n /\ operator' = operator
        /\ Active' = Active /\ freezing' = freezing
        /\ rows' = rows /\ open' = open /\ touched' = touched /\ late' = late
        /\ disturbed' = disturbed /\ early' = {} /\ outside' = {}
    BY <1>1, <1>2, <1>5, <2>1, <2>2, <2>3, ManagerStepLemma
  <2>5. SoakInv' /\ ReadInv'
    BY <1>2, <2>2, <2>3, <2>4, ManagerSoakLemma, ManagerReadLemma
  <2>6. PassInv'
    BY <1>1, <2>2, <2>4 DEF PassInv
  <2>7. PhaseInv'
    BY <1>1, <1>2, <1>5, <2>2, <2>4 DEF PhaseInv, Counting
  <2>8. WindowInv'
    BY <1>1, <2>2, <2>4 DEF WindowInv, Cleared, Moved
  <2> QED BY <2>4, <2>5, <2>6, <2>7, <2>8
<1> QED
  BY <1>3, <1>4, <1>5 DEF Advance

LEMMA BeginsDispatchLemma ==
  ASSUME IInv, NEW t \in Threads, proc[t].pc # "dispatch",
         proc'[t].pc = "dispatch", proc'[t].phase \in Phases,
         proc'[t].todo = Uncommanded(proc'[t].phase),
         \A u \in Threads : u # t => proc'[u] = proc[u],
         UNCHANGED <<deployment, dispatches>>
  PROVE  DispatchInv'
<1> USE DEF IInv
<1>1. rows' = rows /\ commanded' = commanded /\ late' = late /\ torn' = torn
      /\ Dispatched' = Dispatched
  BY SameDeployment DEF dispatches
<1>2. ASSUME NEW u \in Threads, proc'[u].pc = "dispatch"
      PROVE  /\ proc'[u].phase \in Phases
             /\ proc'[u].todo \subseteq Members(proc'[u].phase)
             /\ \A d \in rows \cap Members(proc'[u].phase) :
                  d \in commanded \/ d \in proc'[u].todo \/ d \in late
  <2>1. CASE u = t
    BY <2>1 DEF Uncommanded
  <2>2. CASE u # t
    BY <1>2, <2>2 DEF DispatchInv
  <2> QED BY <2>1, <2>2
<1>3. ASSUME NEW d \in rows \ commanded, Phase[d] \in Dispatched
      PROVE  \/ d \in late \/ Phase[d] \in torn
             \/ \E u \in Threads : proc'[u].pc = "dispatch" /\ proc'[u].phase = Phase[d]
  BY <1>3 DEF DispatchInv
<1> QED BY <1>1, <1>2, <1>3 DEF DispatchInv

LEMMA ManagerListKeeps ==
  ASSUME IInv, List(Manager) PROVE IInv'
<1> USE DEF IInv
<1>1. manager \in Passes /\ manager.run \in Runtimes /\ manager.pc = "list"
      /\ manager.dev = {} /\ manager.phase \in Phases
  <2>1. manager.pc = "list" /\ Manager \in Threads
    BY DEF List, manager, Threads
  <2> QED BY <2>1, ThreadsLemma DEF ThreadInv, manager
<1>2. /\ unseen \subseteq Phases /\ runtime \in Runtimes /\ calm \in [Phases -> 0..Soak]
      /\ state \in {"queued", "running", "paused", "succeeded"}
      /\ rows \subseteq Devices /\ commanded \subseteq rows
  BY DEF TypeOK
<1>3. /\ unseen' = unseen /\ runtime' = runtime /\ state' = state
      /\ UNCHANGED <<clock, policy, deployment, work, calm, disturbed, open, touched,
                     dispatches, trouble>>
  BY DEF List
<1>4. CASE Done(Manager) /\ UNCHANGED <<early, outside>>
  <2>1. ByManager(Idle)
    BY <1>1, <1>3, <1>4 DEF ByManager, Done, manager, windows
  <2>2. Good(runtime)' /\ (Counting(runtime)' => ~freezing)
    BY <1>3, <2>1, SameGood DEF SoakInv, Good, PhaseInv, Counting, ByManager
  <2> QED BY <1>1, <1>2, <1>3, <2>1, <2>2, ManagerEndsLemma
<1> DEFINE p == manager.phase
           n == [manager EXCEPT !.pc = "dispatch", !.todo = Uncommanded(p)]
           hasty == ~disturbed /\ p \notin Dispatched
                    /\ \E q \in Dispatched : q = Active /\ calm[q] < Soak
                                             /\ q \notin unseen
           wrong == {d \in Uncommanded(p) \ (open \cup late) : ~Moved(d)}
<1>5. CASE /\ proc' = [proc EXCEPT ![Manager] = n]
           /\ early' = IF hasty THEN early \cup {p} ELSE early
           /\ outside' = IF ~disturbed THEN outside \cup wrong ELSE outside
  <2>1. ~hasty
    <3>1. SUFFICES ASSUME hasty PROVE FALSE
      OBVIOUS
    <3>2. Active \in Dispatched /\ calm[Active] < Soak /\ Active \notin unseen
          /\ Active # None
      BY <1>2, <3>1, ActiveLemma
    <3>3. manager.active = Active
      BY <1>1, <3>1 DEF PassInv
    <3>4. manager.run.left = 0 /\ manager.run.active = Active
      BY <1>1, <3>2, <3>3 DEF PassInv
    <3>5. calm[Active] + 0 >= Soak
      BY <3>2, <3>4 DEF SoakInv, Good, None
    <3>6. calm[Active] \in Nat /\ Soak \in Nat
      BY <1>2, <3>2, ActiveLemma, ManagerAssumption
    <3> QED BY <3>2, <3>5, <3>6
  <2>2. ~disturbed => wrong = {}
    <3>1. SUFFICES ASSUME ~disturbed, NEW d \in Uncommanded(p) PROVE Cleared(d)
      BY DEF Cleared
    <3>2. manager.next # None /\ p = manager.next
      BY <1>1, <3>1 DEF PhaseInv
    <3> QED BY <1>1, <3>1, <3>2 DEF WindowInv, Uncommanded
  <2>3. ByManager(n) /\ early' = early /\ outside' = outside
    <3> HIDE DEF hasty, wrong
    <3>1. outside' = outside /\ early' = early
      BY <1>5, <2>1, <2>2
    <3> QED BY <1>1, <1>3, <1>5, <3>1 DEF ByManager, windows
  <2>4. n \in Passes /\ n.pc = "dispatch" /\ n.phase = p /\ n.run = manager.run
        /\ n.dev = {} /\ n.todo = Uncommanded(p) /\ n.todo \subseteq rows
    BY <1>1, <1>2 DEF Passes, Pcs, Uncommanded
  <2> HIDE DEF n, hasty, wrong, p
  <2>5. /\ TypeOK' /\ ThreadInv'
        /\ manager' = n /\ operator' = operator
        /\ Active' = Active /\ freezing' = freezing
        /\ disturbed' = disturbed /\ early' = {} /\ outside' = {}
    BY <1>2, <1>3, <2>3, <2>4, ManagerStepLemma
  <2>6. DispatchInv'
    <3>1. \A u \in Threads : u # Manager => proc'[u] = proc[u]
      BY <2>3 DEF ByManager, TypeOK
    <3>2. proc'[Manager] = n /\ proc[Manager].pc # "dispatch" /\ Manager \in Threads
      BY <1>1, <2>5 DEF manager, Threads
    <3> QED BY <1>1, <1>3, <2>4, <3>1, <3>2, BeginsDispatchLemma DEF p
  <2>7. SoakInv' /\ ReadInv'
    BY <1>3, <2>3, <2>4, <2>5, ManagerSoakLemma, ManagerReadLemma
  <2>8. PassInv'
    BY <1>1, <2>4, <2>5 DEF PassInv
  <2>9. PhaseInv'
    BY <1>1, <1>3, <2>4, <2>5 DEF PhaseInv, Counting
  <2>10. WindowInv'
    BY <2>4, <2>5 DEF WindowInv
  <2> QED BY <2>5, <2>6, <2>7, <2>8, <2>9, <2>10
<1>6. CASE state \in {"paused", "succeeded"}
  BY <1>4, <1>6 DEF List
<1>7. CASE state \notin {"paused", "succeeded"}
  BY <1>5, <1>7 DEF List, manager
<1> QED BY <1>6, <1>7

-----------------------------------------------------------------------------
(* A command, by either thread.                                            *)

LEMMA UnsettleLemma ==
  ASSUME TypeOK, NEW S \in SUBSET Phases, NEW how \in {"busy", "unwell"},
         Unsettle(S, how)
  PROVE  /\ work' \in [Phases -> {"busy", "ready", "unwell", "broken"}]
         /\ calm' \in [Phases -> 0..Soak] /\ unseen' \subseteq Phases
         /\ unseen \subseteq unseen' /\ S \subseteq unseen'
         /\ \A p \in Phases \ S : work'[p] = work[p] /\ calm'[p] = calm[p]
<1>1. 0 \in 0..Soak
  BY ManagerAssumption
<1> QED BY <1>1 DEF Unsettle, TypeOK

\* Phases but these are as they were, and those are not forgotten.
Unsettled(S) ==
  /\ unseen \subseteq unseen' /\ S \subseteq unseen'
  /\ \A p \in Phases \ S : work'[p] = work[p] /\ calm'[p] = calm[p]

\* A copy of the record stays good when phases are unsettled, and when
\* another one becomes the active phase.
LEMMA GoodLemma ==
  ASSUME TypeOK, NEW S, Unsettled(S), rows' \subseteq Devices,
         commanded' \subseteq rows', Dispatched \subseteq Dispatched',
         Active' = Active \/ Active' \notin Dispatched, NEW run, Good(run)
  PROVE  run.left # None =>
           /\ run.active \in Dispatched'
           /\ run.active = Active' /\ Active' \notin unseen' =>
                work'[Active'] = "ready" /\ calm'[Active'] + run.left >= Soak
<1>1. SUFFICES ASSUME run.left # None, run.active = Active', Active' \notin unseen'
               PROVE  /\ work'[Active'] = "ready"
                      /\ calm'[Active'] + run.left >= Soak
  BY DEF Good
<1>2. Active' = Active /\ run.active \in Dispatched /\ Active \in Phases
  BY <1>1, ActiveLemma DEF Good, TypeOK
<1> QED BY <1>1, <1>2 DEF Good, Unsettled

LEMMA CommandKeeps ==
  ASSUME IInv, NEW t \in Threads, NEW d \in Devices, Command(t, d)
  PROVE  IInv'
<1> USE DEF IInv
<1> DEFINE q == proc[t]
           n == [q EXCEPT !.todo = @ \ {d}]
           p == q.phase
<1>1. q \in Passes /\ q.pc = "dispatch" /\ q.todo \subseteq rows /\ d \in q.todo
      /\ rows \subseteq Devices /\ commanded \subseteq rows /\ proc \in [Threads -> Passes]
  BY DEF Command, TypeOK
<1>2. p \in Phases /\ Phase[d] = p
  BY <1>1 DEF DispatchInv, Members
<1>3. n \in Passes /\ n = [q EXCEPT !.todo = q.todo \ {d}] /\ n.todo = q.todo \ {d}
      /\ n.pc = q.pc /\ n.run = q.run /\ n.active = q.active /\ n.next = q.next
      /\ n.phase = q.phase /\ n.gate = q.gate /\ n.dev = q.dev /\ n.keys = q.keys
      /\ n.found = q.found /\ n.blocked = q.blocked
  BY <1>1 DEF Passes
<1>4. proc' = [proc EXCEPT ![t] = n] /\ proc' \in [Threads -> Passes] /\ proc'[t] = n
      /\ \A u \in Threads : u # t => proc'[u] = proc[u]
  BY <1>1, <1>3 DEF Command
<1>5. /\ commanded' = commanded \cup {d} /\ rows' = rows /\ freezing' = freezing
      /\ UNCHANGED <<clock, policy, state, runtime, early, disturbed, windows,
                     dispatches, trouble>>
  BY DEF Command
<1>6. /\ Unsettled({p})
      /\ work' \in [Phases -> {"busy", "ready", "unwell", "broken"}]
      /\ calm' \in [Phases -> 0..Soak] /\ unseen' \subseteq Phases
      \/ UNCHANGED <<work, calm, unseen>>
  <2>1. CASE Unsettle({p}, "busy")
    BY <1>2, <2>1, UnsettleLemma DEF Unsettled
  <2>2. CASE UNCHANGED <<work, calm, unseen>>
    BY <2>2
  <2> QED BY <1>2, <2>1, <2>2 DEF Command
<1> HIDE DEF n, q
<1>7. TypeOK'
  <2>1. /\ work' \in [Phases -> {"busy", "ready", "unwell", "broken"}]
        /\ calm' \in [Phases -> 0..Soak] /\ unseen' \subseteq Phases
    BY <1>6 DEF TypeOK
  <2>2. \A u \in Threads : proc'[u].todo \subseteq rows
    BY <1>1, <1>3, <1>4 DEF TypeOK
  <2> QED BY <1>1, <1>4, <1>5, <2>1, <2>2 DEF TypeOK, clock, windows, dispatches
<1>8. ThreadInv'
  <2>1. \A u \in Threads : /\ proc'[u].pc = proc[u].pc /\ proc'[u].run = proc[u].run
                           /\ proc'[u].dev = proc[u].dev /\ proc'[u].phase = proc[u].phase
                           /\ proc'[u].pc = "idle" => proc'[u] = proc[u]
    BY <1>1, <1>3, <1>4 DEF q
  <2> QED BY <2>1 DEF ThreadInv, manager, operator, Threads
<1>9. Dispatched' = Dispatched \cup {p}
  BY <1>2, <1>5 DEF Dispatched
<1>10. Active' = Active \/ Active' \notin Dispatched
  <2>1. CASE p \in Dispatched
    BY <1>9, <2>1 DEF Active
  <2>2. CASE p \notin Dispatched
    <3>1. /\ Dispatched \subseteq Phases
          /\ Active # None => Active \in Dispatched /\ \A k \in Dispatched : k <= Active
          /\ Active = None <=> Dispatched = {}
      BY <1>1, ActiveLemma
    <3>2. /\ Active' \in Dispatched' /\ \A k \in Dispatched' : k <= Active'
      <4>1. Dispatched' \in SUBSET Phases /\ Dispatched' # {}
        BY <1>2, <1>9, <3>1
      <4> QED BY <4>1, GreatestLemma DEF Active
    <3>3. CASE Active' # p
      <4>1. Active' \in Dispatched /\ Active \in Dispatched
        BY <1>9, <3>1, <3>2, <3>3
      <4>2. Active' <= Active /\ Active <= Active'
        BY <1>9, <3>1, <3>2, <4>1
      <4>3. Active \in Nat /\ Active' \in Nat
        BY <3>1, <4>1, PhasesLemma
      <4> QED BY <4>2, <4>3
    <3> QED BY <2>2, <3>3
  <2> QED BY <2>1, <2>2
<1>11. DispatchInv'
  <2>1. ASSUME NEW u \in Threads, proc'[u].pc = "dispatch"
        PROVE  /\ proc'[u].phase \in Phases
               /\ proc'[u].todo \subseteq Members(proc'[u].phase)
               /\ \A e \in rows \cap Members(proc'[u].phase) :
                    e \in commanded' \/ e \in proc'[u].todo \/ e \in late
    <3>1. proc[u].pc = "dispatch" /\ proc'[u].phase = proc[u].phase
          /\ proc'[u].todo \subseteq proc[u].todo
          /\ \A e \in proc[u].todo : e \in proc'[u].todo \/ e = d
      BY <1>1, <1>3, <1>4, <2>1 DEF q
    <3> QED BY <1>5, <3>1 DEF DispatchInv
  <2>2. ASSUME NEW e \in rows \ commanded', Phase[e] \in Dispatched'
        PROVE  \/ e \in late \/ Phase[e] \in torn
               \/ \E u \in Threads : proc'[u].pc = "dispatch" /\ proc'[u].phase = Phase[e]
    <3>1. CASE Phase[e] = p
      BY <1>1, <1>3, <1>4, <3>1
    <3>2. CASE Phase[e] # p
      <4>1. e \in rows \ commanded /\ Phase[e] \in Dispatched
        BY <1>5, <1>9, <2>2, <3>2
      <4>2. \A u \in Threads : proc'[u].pc = proc[u].pc /\ proc'[u].phase = proc[u].phase
        BY <1>3, <1>4 DEF q
      <4> QED BY <4>1, <4>2 DEF DispatchInv
    <3> QED BY <3>1, <3>2
  <2>3. late' = late /\ torn' = torn
    BY <1>5 DEF dispatches
  <2> QED BY <1>5, <2>1, <2>2, <2>3 DEF DispatchInv
<1>12. /\ manager'.pc = manager.pc /\ manager'.run = manager.run
       /\ manager'.active = manager.active /\ manager'.next = manager.next
       /\ manager'.phase = manager.phase /\ manager'.gate = manager.gate
       /\ manager'.dev = manager.dev /\ manager'.keys = manager.keys
       /\ manager'.found = manager.found /\ manager'.blocked = manager.blocked
       /\ operator'.pc = operator.pc
       /\ manager.pc = "dispatch" \/ (operator.pc = "dispatch" /\ manager' = manager)
  BY <1>1, <1>3, <1>4 DEF manager, operator, q, Threads, Manager, Operator
<1>13. unseen \subseteq unseen' /\ \A k \in Phases : work'[k] = work[k] \/ k \in unseen'
  BY <1>6 DEF Unsettled
<1>14. SoakInv'
  <2>1. Unsettled({p}) \/ Unsettled({})
    BY <1>6 DEF Unsettled
  <2>2. \A run : Good(run) => (run.left # None =>
           /\ run.active \in Dispatched'
           /\ run.active = Active' /\ Active' \notin unseen' =>
                work'[Active'] = "ready" /\ calm'[Active'] + run.left >= Soak)
    BY <1>1, <1>5, <1>9, <1>10, <2>1, GoodLemma DEF TypeOK
  <2>3. runtime' = runtime
    BY <1>5
  <2> QED BY <1>12, <2>2, <2>3 DEF SoakInv, Good
<1>15. PassInv'
  <2>1. disturbed' = disturbed /\ runtime' = runtime
    BY <1>5
  <2>2. manager.pc # "idle" /\ manager.pc # "dispatch" => disturbed
    BY <1>12 DEF PassInv
  <2>3. Dispatched \subseteq Phases
    BY <1>1, ActiveLemma
  <2> QED BY <1>9, <1>12, <1>13, <2>1, <2>2, <2>3 DEF PassInv
<1>16. PhaseInv'
  <2>1. disturbed' = disturbed /\ runtime' = runtime /\ freezing' = freezing
    BY <1>5
  <2>2. manager.pc # "idle" /\ manager.pc # "dispatch" => disturbed
    BY <1>12 DEF PassInv
  <2> QED BY <1>12, <2>1, <2>2 DEF PhaseInv, Counting
<1>17. ReadInv'
  <2>1. now' = now /\ policy' = policy /\ open' = open /\ touched' = touched
    BY <1>5 DEF windows, clock
  <2>2. Rest(manager)' = Rest(manager) /\ AllowedNow(policy)' = AllowedNow(policy)
        /\ \A e : Moved(e)' = Moved(e)
    BY <1>12, <2>1 DEF Rest, AllowedNow, Moved
  <2> QED BY <1>12, <2>1, <2>2 DEF ReadInv
<1>18. WindowInv' /\ early' = {}
  BY <1>5, <1>12 DEF WindowInv, Cleared, Moved, windows, dispatches
<1> QED BY <1>7, <1>8, <1>11, <1>14, <1>15, <1>16, <1>17, <1>18

\* A dispatch has commanded every row that was there when it began.
LEMMA EndsDispatchLemma ==
  ASSUME IInv, NEW t \in Threads, proc[t].pc = "dispatch", proc[t].todo = {},
         proc'[t].pc # "dispatch",
         \A u \in Threads : u # t => proc'[u] = proc[u],
         UNCHANGED <<deployment, dispatches>>
  PROVE  DispatchInv'
<1> USE DEF IInv
<1>1. rows' = rows /\ commanded' = commanded /\ late' = late /\ torn' = torn
      /\ Dispatched' = Dispatched
  BY SameDeployment DEF dispatches
<1>2. ASSUME NEW d \in rows \ commanded, Phase[d] \in Dispatched
      PROVE  \/ d \in late \/ Phase[d] \in torn
             \/ \E u \in Threads : proc'[u].pc = "dispatch" /\ proc'[u].phase = Phase[d]
  <2>1. CASE proc[t].phase = Phase[d]
    <3>1. d \in Members(proc[t].phase)
      BY <2>1 DEF Members, TypeOK
    <3> QED BY <3>1 DEF DispatchInv
  <2>2. CASE proc[t].phase # Phase[d]
    BY <1>2, <2>2 DEF DispatchInv
  <2> QED BY <2>1, <2>2
<1> QED BY <1>1, <1>2 DEF DispatchInv

LEMMA ManagerDispatchKeeps ==
  ASSUME IInv, Dispatch(Manager) PROVE IInv'
<1> USE DEF IInv
<1> DEFINE n == [manager EXCEPT !.pc = "save"]
<1>1. manager \in Passes /\ manager.pc = "dispatch" /\ manager.todo = {}
      /\ manager.dev = {}
  BY ThreadsLemma DEF ThreadInv, Dispatch, manager
<1>2. n \in Passes /\ n.run = manager.run /\ n.todo = {} /\ n.dev = {} /\ n.pc = "save"
  BY <1>1 DEF Passes, Pcs
<1>3. ByManager(n) /\ unseen' = unseen /\ runtime' = runtime /\ state' = "running"
  BY <1>1 DEF Dispatch, Goto, ByManager, manager, history, soaks
<1>4. unseen \subseteq Phases /\ runtime \in Runtimes
  BY DEF TypeOK
<1> HIDE DEF n
<1>5. /\ TypeOK' /\ ThreadInv'
      /\ manager' = n /\ operator' = operator /\ freezing' = freezing
      /\ disturbed' = disturbed /\ early' = {} /\ outside' = {}
  BY <1>1, <1>2, <1>3, <1>4, ManagerStepLemma
<1>6. DispatchInv'
  <2>1. \A u \in Threads : u # Manager => proc'[u] = proc[u]
    BY <1>3 DEF ByManager, TypeOK
  <2>2. proc'[Manager] = n /\ Manager \in Threads
    BY <1>5 DEF manager, Threads
  <2> QED BY <1>1, <1>2, <1>3, <2>1, <2>2, EndsDispatchLemma DEF manager, ByManager
<1>7. SoakInv' /\ ReadInv'
  BY <1>2, <1>3, <1>5, ManagerSoakLemma, ManagerReadLemma
<1>8. PassInv'
  BY <1>1, <1>2, <1>5 DEF PassInv
<1>9. PhaseInv'
  BY <1>2, <1>3, <1>5 DEF PhaseInv, Counting
<1>10. WindowInv'
  BY <1>2, <1>5 DEF WindowInv
<1> QED BY <1>5, <1>6, <1>7, <1>8, <1>9, <1>10

LEMMA ManagerSaveKeeps ==
  ASSUME IInv, Save(Manager) PROVE IInv'
<1> USE DEF IInv
<1>1. manager \in Passes /\ manager.run \in Runtimes /\ manager.pc = "save"
      /\ ByManager(Idle) /\ unseen' = unseen /\ state' = state
      /\ runtime' = IF manager.next = None THEN manager.run
                                           ELSE Reset(manager.run, manager.next)
  BY ThreadsLemma
     DEF Save, Done, ByManager, manager, Manager, Operator, history, soaks
<1>2. CASE runtime' = manager.run
  <2>1. Good(runtime)' /\ (Counting(runtime)' => ~freezing)
    BY <1>1, <1>2, SameGood DEF SoakInv, Good, PhaseInv, Counting, ByManager
  <2> QED BY <1>1, <1>2, <2>1, ManagerEndsLemma DEF TypeOK
<1>3. CASE runtime' = Reset(manager.run, manager.next)
  <2>1. runtime' \in Runtimes /\ runtime'.left = None
    <3>1. manager.next \in Phases \cup {None}
      BY <1>1 DEF Passes
    <3>2. /\ Reset(manager.run, manager.next) \in Runtimes
          /\ Reset(manager.run, manager.next).left = None
      BY <1>1, <3>1, RunLemma
    <3> QED BY <1>3, <3>2
  <2>2. Good(runtime)' /\ ~Counting(runtime)'
    BY <2>1 DEF Good, Counting
  <2> QED BY <1>1, <2>1, <2>2, ManagerEndsLemma DEF TypeOK
<1> QED BY <1>1, <1>2, <1>3

-----------------------------------------------------------------------------
(* Operators, and devices that regress.                                    *)

OperatorPcs == {"idle", "advance", "list", "dispatch", "save", "reset", "resetsave"}

\* A call changes its own thread and perhaps the deployment's state; it
\* unsettles phases or resets the soak; and a pass that is going on is
\* disturbed by it.
ByOperator(n, S) ==
  /\ proc' = [proc EXCEPT ![Operator] = n]
  /\ \/ Unsettled(S) /\ (runtime' = runtime \/ runtime'.left = None)
     \/ manager.pc = "idle" /\ runtime'.left = None /\ UNCHANGED <<work, calm>>
  /\ manager.pc # "idle" => disturbed'
  /\ UNCHANGED <<clock, policy, deployment, early, windows, dispatches>>

LEMMA OperatorStepLemma ==
  ASSUME IInv, NEW n \in Passes, NEW S, ByOperator(n, S),
         n.todo \subseteq rows, n.run.left = None, n.pc \in OperatorPcs,
         n.pc = "idle" => n = Idle, n.pc = "list" => n.phase \in Phases,
         work' \in [Phases -> {"busy", "ready", "unwell", "broken"}],
         calm' \in [Phases -> 0..Soak], unseen' \subseteq Phases,
         state' \in {"queued", "running", "paused", "succeeded"},
         runtime' \in Runtimes, disturbed' \in BOOLEAN, trouble' \in 0..MaxTrouble
  PROVE  /\ (DispatchInv' => IInv')
         /\ operator.pc # "dispatch" /\ n.pc # "dispatch" => IInv'
         /\ proc'[Operator] = n
         /\ \A t \in Threads : t # Operator => proc'[t] = proc[t]
<1> USE DEF IInv, ByOperator
<1>1. operator' = n /\ manager' = manager /\ proc' \in [Threads -> Passes]
      /\ \A t \in Threads : t # Operator => proc'[t] = proc[t]
  BY OperatorLemma
<1>2. proc'[Operator] = n
  BY <1>1 DEF operator
<1>3. /\ Active' = Active /\ Dispatched' = Dispatched /\ rows' = rows
      /\ commanded' = commanded /\ freezing' = freezing /\ now' = now /\ policy' = policy
      /\ open' = open /\ touched' = touched /\ late' = late /\ torn' = torn
      /\ early' = {} /\ outside' = {}
  BY SameDeployment DEF clock, windows, dispatches, WindowInv
<1>4. TypeOK'
  <2>1. \A t \in Threads : proc'[t].todo \subseteq rows
    BY <1>1, <1>2 DEF TypeOK
  <2> QED BY <1>1, <1>3, <2>1 DEF TypeOK, clock
<1>5. ThreadInv'
  BY <1>1, <1>2 DEF ThreadInv, OperatorPcs, manager, operator, Threads
<1>6. ASSUME operator.pc # "dispatch", n.pc # "dispatch" PROVE DispatchInv'
  <2>1. \A t \in Threads : \/ proc'[t] = proc[t]
                           \/ proc[t].pc # "dispatch" /\ proc'[t].pc # "dispatch"
    BY <1>1, <1>2, <1>6 DEF operator
  <2> QED BY <2>1, DispatchKept
<1>7. ASSUME Unsettled(S), runtime' = runtime \/ runtime'.left = None
      PROVE  SoakInv' /\ PassInv'
  <2>1. SoakInv'
    <3>1. rows' \subseteq Devices /\ commanded' \subseteq rows'
      BY <1>3 DEF TypeOK
    <3>2. \A run : Good(run) => (run.left # None =>
             /\ run.active \in Dispatched'
             /\ run.active = Active' /\ Active' \notin unseen' =>
                  work'[Active'] = "ready" /\ calm'[Active'] + run.left >= Soak)
      BY <1>3, <1>7, <3>1, GoodLemma
    <3> QED BY <1>1, <1>7, <3>2 DEF SoakInv, Good
  <2>2. PassInv'
    <3>1. unseen \subseteq unseen' /\ \A k \in Phases : work'[k] = work[k] \/ k \in unseen'
      BY <1>7 DEF Unsettled
    <3>2. Dispatched \subseteq Phases
      BY ActiveLemma DEF TypeOK
    <3> QED BY <1>1, <1>3, <1>7, <3>1, <3>2 DEF PassInv
  <2> QED BY <2>1, <2>2
<1>8. ASSUME manager.pc = "idle", runtime'.left = None, UNCHANGED <<work, calm>>
      PROVE  SoakInv' /\ PassInv'
  <2>1. manager.run.left = None
    BY <1>8, IdleLemma DEF ThreadInv, manager, Threads
  <2> QED BY <1>1, <1>8, <2>1 DEF SoakInv, Good, PassInv
<1>9. SoakInv' /\ PassInv'
  BY <1>7, <1>8
<1>10. PhaseInv'
  BY <1>1, <1>3 DEF PhaseInv, Counting
<1>11. ReadInv'
  <2>1. Rest(manager)' = Rest(manager) /\ AllowedNow(policy)' = AllowedNow(policy)
        /\ \A e : Moved(e)' = Moved(e)
    BY <1>1, <1>3 DEF Rest, AllowedNow, Moved
  <2> QED BY <1>1, <1>3, <2>1 DEF ReadInv
<1>12. WindowInv'
  BY <1>1, <1>3 DEF WindowInv, Cleared, Moved
<1> QED BY <1>1, <1>2, <1>3, <1>4, <1>5, <1>6, <1>9, <1>10, <1>11, <1>12

\* The facts about an operator's call that OperatorStepLemma asks for.
LEMMA CallLemma ==
  ASSUME IInv
  PROVE  /\ operator \in Passes /\ operator.todo \subseteq rows
         /\ operator.run.left = None /\ operator.run \in Runtimes
         /\ operator.pc \in OperatorPcs
         /\ operator.pc = "idle" => operator = Idle
         /\ operator.pc = "list" => operator.phase \in Phases
         /\ manager.pc # "idle" /\ operator.pc # "idle" => disturbed
         /\ work \in [Phases -> {"busy", "ready", "unwell", "broken"}]
         /\ calm \in [Phases -> 0..Soak] /\ unseen \subseteq Phases
         /\ state \in {"queued", "running", "paused", "succeeded"}
         /\ runtime \in Runtimes /\ disturbed \in BOOLEAN /\ trouble \in 0..MaxTrouble
         /\ rows \subseteq Devices /\ commanded \subseteq rows
<1>1. operator.pc = "idle" => operator = Idle
  BY DEF IInv, ThreadInv, operator, Threads
<1>2. operator.pc = "list" => operator.phase \in Phases
  BY DEF IInv, ThreadInv, operator, Threads
<1> QED
  BY <1>1, <1>2, ThreadsLemma DEF IInv, TypeOK, ThreadInv, PassInv, OperatorPcs

\* A step of a call that leaves the phases and what is unseen alone.
LEMMA QuietOperatorLemma ==
  ASSUME IInv, operator.pc # "idle", NEW n \in Passes,
         proc' = [proc EXCEPT ![Operator] = n],
         n.todo \subseteq rows, n.run.left = None, n.pc \in OperatorPcs,
         n.pc = "idle" => n = Idle, n.pc = "list" => n.phase \in Phases,
         state' \in {"queued", "running", "paused", "succeeded"},
         runtime' = runtime,
         UNCHANGED <<clock, policy, deployment, work, soaks, disturbed, windows,
                     dispatches, trouble>>
  PROVE  /\ (DispatchInv' => IInv')
         /\ operator.pc # "dispatch" /\ n.pc # "dispatch" => IInv'
         /\ proc'[Operator] = n
         /\ \A t \in Threads : t # Operator => proc'[t] = proc[t]
<1>1. ByOperator(n, {})
  BY CallLemma DEF ByOperator, Unsettled, soaks
<1> QED
  BY <1>1, CallLemma, OperatorStepLemma DEF soaks

LEMMA OperatorAdvanceKeeps ==
  ASSUME IInv, Advance(Operator) PROVE IInv'
<1>1. operator \in Passes /\ operator.pc = "advance" /\ operator.todo \subseteq rows
      /\ operator.run.left = None
      /\ state \in {"queued", "running", "paused", "succeeded"}
      /\ UNCHANGED <<clock, policy, deployment, work, runtime, soaks, disturbed,
                     windows, dispatches, trouble>>
  BY CallLemma DEF Advance, operator, history
<1>2. CASE Goto(Operator, "save") /\ state' \in {state, "paused", "succeeded"}
  <2> DEFINE n == [operator EXCEPT !.pc = "save"]
  <2>1. n \in Passes /\ n.pc = "save" /\ n.todo = operator.todo /\ n.run = operator.run
    BY <1>1 DEF Passes, Pcs
  <2>2. proc' = [proc EXCEPT ![Operator] = n]
    BY <1>2 DEF Goto, operator
  <2> HIDE DEF n
  <2> QED BY <1>1, <1>2, <2>1, <2>2, QuietOperatorLemma DEF OperatorPcs
<1>3. CASE Done(Operator) /\ UNCHANGED state
  <2>1. proc' = [proc EXCEPT ![Operator] = Idle]
    BY <1>3 DEF Done
  <2> QED BY <1>1, <1>3, <2>1, IdleLemma, QuietOperatorLemma DEF OperatorPcs
<1>4. CASE /\ NextPhase # None /\ UNCHANGED state
           /\ proc' = [proc EXCEPT ![Operator].pc = "list",
                                   ![Operator].phase = NextPhase]
  <2> DEFINE n == [operator EXCEPT !.pc = "list", !.phase = NextPhase]
  <2>1. NextPhase \in Phases
    BY <1>4, NextPhaseLemma, CallLemma
  <2>2. n \in Passes /\ n.pc = "list" /\ n.phase = NextPhase
        /\ n.todo = operator.todo /\ n.run = operator.run
    BY <1>1, <2>1 DEF Passes, Pcs
  <2>3. proc' = [proc EXCEPT ![Operator] = n]
    BY <1>4 DEF operator
  <2> HIDE DEF n
  <2> QED BY <1>1, <1>4, <2>1, <2>2, <2>3, QuietOperatorLemma DEF OperatorPcs
<1> QED
  BY <1>2, <1>3, <1>4 DEF Advance

LEMMA OperatorListKeeps ==
  ASSUME IInv, List(Operator) PROVE IInv'
<1>1. operator \in Passes /\ operator.pc = "list" /\ operator.phase \in Phases
      /\ operator.run.left = None /\ rows \subseteq Devices
      /\ state \in {"queued", "running", "paused", "succeeded"}
  BY CallLemma DEF List, operator
<1>2. UNCHANGED <<clock, policy, deployment, work, soaks, disturbed, windows,
                  dispatches, trouble>>
      /\ state' = state /\ runtime' = runtime
  BY DEF List, Manager, Operator, soaks, windows
<1>3. CASE Done(Operator)
  <2>1. proc' = [proc EXCEPT ![Operator] = Idle]
    BY <1>3 DEF Done
  <2> QED BY <1>1, <1>2, <2>1, IdleLemma, QuietOperatorLemma DEF OperatorPcs
<1> DEFINE n == [operator EXCEPT !.pc = "dispatch",
                                 !.todo = Uncommanded(operator.phase)]
<1>4. CASE proc' = [proc EXCEPT ![Operator] = n]
  <2>1. n \in Passes /\ n.pc = "dispatch" /\ n.phase = operator.phase
        /\ n.todo = Uncommanded(operator.phase) /\ n.run = operator.run
        /\ n.todo \subseteq rows
    BY <1>1 DEF Passes, Pcs, Uncommanded
  <2> HIDE DEF n
  <2>2. /\ (DispatchInv' => IInv') /\ proc'[Operator] = n
        /\ \A t \in Threads : t # Operator => proc'[t] = proc[t]
    BY <1>1, <1>2, <1>4, <2>1, QuietOperatorLemma DEF OperatorPcs
  <2>3. DispatchInv'
    BY <1>1, <1>2, <2>1, <2>2, BeginsDispatchLemma DEF operator, Threads
  <2> QED BY <2>2, <2>3
<1> QED
  BY <1>3, <1>4 DEF List, operator

LEMMA OperatorDispatchKeeps ==
  ASSUME IInv, Dispatch(Operator) PROVE IInv'
<1> DEFINE n == [operator EXCEPT !.pc = "save"]
<1>1. operator \in Passes /\ operator.pc = "dispatch" /\ operator.todo = {}
      /\ operator.run.left = None
      /\ UNCHANGED <<clock, policy, deployment, work, runtime, soaks, disturbed,
                     windows, dispatches, trouble>>
      /\ state' = "running"
  BY CallLemma DEF Dispatch, operator, history
<1>2. n \in Passes /\ n.pc = "save" /\ n.todo = {} /\ n.run = operator.run
  BY <1>1 DEF Passes, Pcs
<1>3. proc' = [proc EXCEPT ![Operator] = n]
  BY DEF Dispatch, Goto, operator
<1> HIDE DEF n
<1>4. /\ (DispatchInv' => IInv') /\ proc'[Operator] = n
      /\ \A t \in Threads : t # Operator => proc'[t] = proc[t]
  BY <1>1, <1>2, <1>3, QuietOperatorLemma DEF OperatorPcs
<1>5. DispatchInv'
  BY <1>1, <1>2, <1>4, EndsDispatchLemma DEF operator, Threads
<1> QED BY <1>4, <1>5

LEMMA OperatorSaveKeeps ==
  ASSUME IInv, Save(Operator) PROVE IInv'
<1>1. operator.pc = "save"
      /\ UNCHANGED <<clock, policy, deployment, work, runtime, soaks, disturbed,
                     windows, dispatches, trouble>>
      /\ state' = state /\ proc' = [proc EXCEPT ![Operator] = Idle]
  BY DEF Save, Done, operator, history
<1> QED
  BY <1>1, IdleLemma, CallLemma, QuietOperatorLemma DEF OperatorPcs

LEMMA AskAdvanceKeeps ==
  ASSUME IInv, AskAdvance PROVE IInv'
<1> DEFINE n == [operator EXCEPT !.pc = "advance"]
<1>1. operator \in Passes /\ operator.pc = "idle" /\ operator.run.left = None
      /\ operator.todo \subseteq rows
  BY CallLemma DEF AskAdvance, operator
<1>2. n \in Passes /\ n.pc = "advance" /\ n.todo = operator.todo /\ n.run = operator.run
  BY <1>1 DEF Passes, Pcs
<1>3. ByOperator(n, {})
  BY DEF AskAdvance, Goto, operator, ByOperator, Unsettled, soaks
<1>4. trouble' \in 0..MaxTrouble /\ disturbed' \in BOOLEAN
      /\ UNCHANGED <<work, soaks, state, runtime>>
  BY CallLemma, ManagerAssumption DEF AskAdvance, Troubled
<1> HIDE DEF n
<1> QED
  BY <1>1, <1>2, <1>3, <1>4, CallLemma, OperatorStepLemma DEF OperatorPcs, soaks

LEMMA ToResetLemma ==
  ASSUME IInv, NEW S \in SUBSET Phases, operator.pc = "idle", Goto(Operator, "reset"),
         Unsettled(S), runtime' = runtime, disturbed' = TRUE, state' = "running",
         work' \in [Phases -> {"busy", "ready", "unwell", "broken"}],
         calm' \in [Phases -> 0..Soak], unseen' \subseteq Phases,
         trouble' \in 0..MaxTrouble,
         UNCHANGED <<clock, policy, deployment, early, windows, dispatches>>
  PROVE  IInv'
<1> DEFINE n == [operator EXCEPT !.pc = "reset"]
<1>1. operator \in Passes /\ operator.run.left = None /\ operator.todo \subseteq rows
  BY CallLemma
<1>2. n \in Passes /\ n.pc = "reset" /\ n.todo = operator.todo /\ n.run = operator.run
  BY <1>1 DEF Passes, Pcs
<1>3. ByOperator(n, S)
  BY DEF Goto, operator, ByOperator
<1> HIDE DEF n
<1> QED
  BY <1>1, <1>2, <1>3, CallLemma, OperatorStepLemma DEF OperatorPcs

LEMMA RetryKeeps ==
  ASSUME IInv, NEW failed \in SUBSET Phases, Retry(failed) PROVE IInv'
<1>1. /\ Unsettled(failed)
      /\ work' \in [Phases -> {"busy", "ready", "unwell", "broken"}]
      /\ calm' \in [Phases -> 0..Soak] /\ unseen' \subseteq Phases
  BY UnsettleLemma DEF IInv, Retry, Unsettled
<1>2. operator.pc = "idle" /\ Goto(Operator, "reset") /\ disturbed' = TRUE
      /\ runtime' = runtime /\ state' = "running"
      /\ UNCHANGED <<clock, policy, deployment, early, windows, dispatches>>
  BY DEF Retry, operator
<1>3. trouble' \in 0..MaxTrouble
  BY CallLemma, ManagerAssumption DEF Retry, Troubled
<1> QED BY <1>1, <1>2, <1>3, ToResetLemma

LEMMA ResumeKeeps ==
  ASSUME IInv, Resume PROVE IInv'
<1>1. operator.pc = "idle" /\ Goto(Operator, "reset") /\ disturbed' = TRUE
      /\ runtime' = runtime /\ state' = "running"
      /\ UNCHANGED <<clock, policy, deployment, work, soaks, windows, dispatches,
                     trouble>>
  BY DEF Resume, operator
<1>2. Unsettled({})
  BY <1>1 DEF Unsettled, soaks
<1> QED BY <1>1, <1>2, CallLemma, ToResetLemma DEF soaks

LEMMA ResetLoadKeeps ==
  ASSUME IInv, ResetLoad PROVE IInv'
<1> DEFINE run == [runtime EXCEPT !.left = None]
           n == [operator EXCEPT !.pc = "resetsave", !.run = run]
<1>1. operator \in Passes /\ operator.pc = "reset" /\ operator.todo \subseteq rows
      /\ runtime \in Runtimes
      /\ state \in {"queued", "running", "paused", "succeeded"}
  BY CallLemma DEF ResetLoad, operator
<1>2. run \in Runtimes /\ run.left = None
  BY <1>1, RunLemma DEF Runtimes
<1>3. n \in Passes /\ n.pc = "resetsave" /\ n.run = run /\ n.todo = operator.todo
  BY <1>1, <1>2 DEF Passes, Pcs
<1>4. proc' = [proc EXCEPT ![Operator] = n] /\ runtime' = runtime /\ state' = state
      /\ UNCHANGED <<clock, policy, deployment, work, soaks, disturbed, windows,
                     dispatches, trouble>>
  BY DEF ResetLoad, operator, history
<1> HIDE DEF n, run
<1> QED BY <1>1, <1>2, <1>3, <1>4, QuietOperatorLemma DEF OperatorPcs

LEMMA ResetSaveKeeps ==
  ASSUME IInv, ResetSave PROVE IInv'
<1>1. operator.pc = "resetsave" /\ proc' = [proc EXCEPT ![Operator] = Idle]
      /\ runtime' = operator.run
      /\ unseen' = (IF manager.pc = "idle" THEN {} ELSE unseen)
      /\ UNCHANGED <<clock, policy, state, deployment, work, calm, early, disturbed,
                     windows, dispatches, trouble>>
  BY DEF ResetSave, Done, operator, manager
<1>2. ByOperator(Idle, {})
  BY <1>1, CallLemma DEF ByOperator, Unsettled
<1>3. unseen' \subseteq Phases
  BY <1>1, CallLemma
<1> QED
  BY <1>1, <1>2, <1>3, IdleLemma, CallLemma, OperatorStepLemma DEF OperatorPcs

LEMMA RegressKeeps ==
  ASSUME IInv, NEW p \in Phases, Regress(p) PROVE IInv'
<1>1. /\ Unsettled({p})
      /\ work' \in [Phases -> {"busy", "ready", "unwell", "broken"}]
      /\ calm' \in [Phases -> 0..Soak] /\ unseen' \subseteq Phases
  BY UnsettleLemma DEF IInv, Regress, Unsettled
<1>2. proc' = [proc EXCEPT ![Operator] = operator]
  BY DEF Regress, operator, IInv, TypeOK
<1>3. ByOperator(operator, {p})
  BY <1>1, <1>2 DEF Regress, ByOperator
<1>4. trouble' \in 0..MaxTrouble
  BY CallLemma, ManagerAssumption DEF Regress, Troubled
<1>5. DispatchInv'
  BY DispatchKept DEF Regress, IInv
<1> QED
  BY <1>1, <1>3, <1>4, <1>5, CallLemma, OperatorStepLemma DEF Regress

-----------------------------------------------------------------------------
(* The rest of the world.                                                  *)

LEMMA TroubledLemma ==
  ASSUME TypeOK, Troubled PROVE trouble' \in 0..MaxTrouble
BY ManagerAssumption DEF TypeOK, Troubled

LEMMA SetPolicyKeeps ==
  ASSUME IInv, NEW k \in Settings, NEW p \in Policies \cup {NoPolicy}, SetPolicy(k, p)
  PROVE  IInv'
<1> USE DEF IInv
<1>1. /\ policy' = [policy EXCEPT ![k] = p] /\ open' = open \cup AllowedNow(policy')
      /\ touched' = touched \cup {k} /\ Troubled
      /\ UNCHANGED <<clock, state, deployment, work, runtime, proc, soaks, disturbed,
                     outside, dispatches>>
  BY DEF SetPolicy
<1>2. /\ Active' = Active /\ Dispatched' = Dispatched /\ rows' = rows
      /\ commanded' = commanded /\ freezing' = freezing /\ NextPhase' = NextPhase
      /\ \A q : Gate(q)' = Gate(q)
      /\ now' = now /\ manager' = manager /\ operator' = operator /\ late' = late
      /\ proc' = proc /\ runtime' = runtime /\ disturbed' = disturbed
      /\ work' = work /\ calm' = calm /\ unseen' = unseen /\ early' = early
      /\ outside' = outside
  BY <1>1, SameDeployment, SameStatus DEF clock, soaks, dispatches, manager, operator
<1>3. AllowedNow(policy)' = AllowedNow(policy')
  BY <1>2 DEF AllowedNow
<1>4. TypeOK'
  <2>1. policy' \in [Settings -> Policies \cup {NoPolicy}]
    BY <1>1 DEF TypeOK
  <2>2. AllowedNow(policy') \subseteq Devices
    BY DEF AllowedNow
  <2>3. trouble' \in 0..MaxTrouble
    BY <1>1, TroubledLemma
  <2> QED BY <1>1, <2>1, <2>2, <2>3 DEF TypeOK, clock, deployment, soaks, dispatches
<1>5. ThreadInv' /\ DispatchInv'
  BY <1>1, <1>2, DispatchKept DEF ThreadInv
<1>6. SoakInv' /\ PassInv' /\ PhaseInv'
  BY <1>2 DEF SoakInv, Good, PassInv, PhaseInv, Counting
<1>7. \A d : (Moved(d) => Moved(d)') /\ (d \in open => d \in open')
  BY <1>1 DEF Moved
<1>8. ReadInv'
  <2>1. AllowedNow(policy)' \subseteq open'
    BY <1>1, <1>3
  <2> SUFFICES ASSUME manager.pc = "windows", NEW d \in manager.dev
               PROVE  /\ manager.keys \subseteq GroupsOf[d]
                      /\ Moved(d)' \/ d \in open' \/ ~Allowed(Enabled(Rest(manager)), now)'
                      /\ manager.keys # {} /\ touched' \cap Deciding(d) \subseteq manager.keys =>
                           /\ policy'[d] = NoPolicy
                           /\ manager.found = {NoPolicy} \cup {policy'[j] : j \in GroupsOf[d] \ manager.keys}
    BY <1>2, <2>1 DEF ReadInv, Deciding
  <2>2. /\ manager.keys \subseteq GroupsOf[d]
        /\ Moved(d) \/ d \in open \/ ~Allowed(Enabled(Rest(manager)), now)
        /\ manager.keys # {} /\ touched \cap Deciding(d) \subseteq manager.keys =>
             /\ policy[d] = NoPolicy
             /\ manager.found = {NoPolicy} \cup {policy[j] : j \in GroupsOf[d] \ manager.keys}
    BY DEF ReadInv
  <2>3. d \in Devices /\ GroupsOf[d] \subseteq Groups /\ Devices \cap Groups = {}
        /\ DOMAIN policy = Settings /\ d \in Settings /\ GroupsOf[d] \subseteq Settings
    BY ThreadsLemma, ManagerAssumption DEF TypeOK, Passes, Settings
  <2>4. \A j \in Settings : policy'[j] = IF j = k THEN p ELSE policy[j]
    BY <1>1, <2>3
  <2>5. ASSUME manager.keys # {}, touched' \cap Deciding(d) \subseteq manager.keys
        PROVE  /\ policy'[d] = NoPolicy
               /\ manager.found = {NoPolicy} \cup {policy'[j] : j \in GroupsOf[d] \ manager.keys}
    <3>1. touched \cap Deciding(d) \subseteq manager.keys
          /\ (k \in Deciding(d) => k \in manager.keys)
      BY <1>1, <2>5
    <3>2. k # d /\ \A j \in GroupsOf[d] \ manager.keys : j # k
      BY <2>2, <2>3, <3>1 DEF Deciding
    <3>3. policy'[d] = policy[d]
          /\ \A j \in GroupsOf[d] \ manager.keys : policy'[j] = policy[j]
      BY <2>3, <2>4, <3>2
    <3> QED BY <2>2, <2>5, <3>1, <3>3
  <2>6. Moved(d)' \/ d \in open' \/ ~Allowed(Enabled(Rest(manager)), now)'
    <3>1. CASE k \notin manager.keys
      <4>1. \A j \in manager.keys : policy'[j] = policy[j]
        BY <2>2, <2>3, <2>4, <3>1
      <4>2. Rest(manager)' = Rest(manager)
        BY <1>2, <4>1 DEF Rest
      <4> QED BY <1>2, <1>7, <2>2, <4>2 DEF Allowed, Enabled
    <3>2. CASE k \in manager.keys /\ ~(touched \cap Deciding(d) \subseteq manager.keys)
      <4>1. PICK l \in touched \cap Deciding(d) : l \notin manager.keys
        BY <3>2
      <4>2. k # l /\ {k, l} \subseteq touched' \cap ({d} \cup GroupsOf[d])
        BY <1>1, <2>2, <3>2, <4>1 DEF Deciding
      <4> QED BY <4>2 DEF Moved
    <3>3. CASE k \in manager.keys /\ touched \cap Deciding(d) \subseteq manager.keys
      <4>1. policy[d] = NoPolicy
            /\ manager.found = {NoPolicy} \cup {policy[j] : j \in GroupsOf[d] \ manager.keys}
        BY <2>2, <3>3
      <4>2. k # d /\ policy'[d] = NoPolicy
            /\ \A j \in GroupsOf[d] \ manager.keys : policy'[j] = policy[j]
        BY <2>2, <2>3, <2>4, <3>3, <4>1
      <4>3. Rest(manager)' = {NoPolicy} \cup {policy'[j] : j \in GroupsOf[d]}
        BY <1>2, <2>2, <4>1, <4>2 DEF Rest
      <4>4. Enabled({NoPolicy} \cup {policy'[j] : j \in GroupsOf[d]})
              = Effective(policy'[d], {policy'[j] : j \in GroupsOf[d]})
        <5>1. ~NoPolicy.enabled
          BY DEF NoPolicy
        <5> QED BY <4>2, <5>1 DEF Enabled, Effective
      <4>5. d \in open' \/ ~Allowed(Effective(policy'[d], {policy'[j] : j \in GroupsOf[d]}), now)
        BY <1>1, <2>3 DEF AllowedNow
      <4> QED BY <1>2, <4>3, <4>4, <4>5 DEF Allowed, Enabled
    <3> QED BY <3>1, <3>2, <3>3
  <2> QED BY <2>2, <2>5, <2>6
<1>9. WindowInv' /\ early' = {}
  BY <1>2, <1>7 DEF WindowInv, Cleared
<1> QED BY <1>4, <1>5, <1>6, <1>8, <1>9

LEMMA InsertKeeps ==
  ASSUME IInv, NEW d \in Devices, Insert(d) PROVE IInv'
<1> USE DEF IInv
<1>1. /\ freezing /\ rows' = rows \cup {d} /\ freezing' \in BOOLEAN
      /\ late' = (IF \/ Phase[d] \in Dispatched
                     \/ \E t \in Threads : Phase[d] \in {proc[t].phase, proc[t].next}
                    THEN late \cup {d} ELSE late)
      /\ UNCHANGED <<clock, policy, state, commanded, work, runtime, proc, soaks,
                     disturbed, windows, torn, trouble>>
  BY DEF Insert
<1>2. /\ Active' = Active /\ Dispatched' = Dispatched /\ manager' = manager
      /\ operator' = operator /\ now' = now /\ policy' = policy /\ open' = open
      /\ touched' = touched /\ outside' = outside /\ early' = early
      /\ work' = work /\ calm' = calm /\ unseen' = unseen
  BY <1>1 DEF Active, Dispatched, manager, operator, clock, windows, soaks
<1>3. ~Counting(runtime) /\ ~Counting(manager.run)
  BY <1>1 DEF PhaseInv
<1>4. manager.pc \in {"windows", "advance", "list"} => manager.active = None
  <2>1. 0 # Soak /\ 0 # None
    BY ManagerAssumption DEF None
  <2> QED BY <1>3, <2>1 DEF PassInv, Counting
<1>5. late \subseteq late'
  BY <1>1
<1>6. TypeOK'
  BY <1>1 DEF TypeOK, clock, soaks, windows
<1>7. ThreadInv'
  BY <1>1, <1>2 DEF ThreadInv
<1>8. DispatchInv'
  BY <1>1, <1>2 DEF DispatchInv, Members
<1>9. SoakInv' /\ PassInv'
  BY <1>1, <1>2 DEF SoakInv, Good, PassInv
<1>10. PhaseInv'
  BY <1>1, <1>2, <1>3, <1>4 DEF PhaseInv, Counting
<1>11. ReadInv'
  <2>1. Rest(manager)' = Rest(manager) /\ AllowedNow(policy)' = AllowedNow(policy)
        /\ \A e : Moved(e)' = Moved(e)
    BY <1>2 DEF Rest, AllowedNow, Moved
  <2> QED BY <1>2, <2>1 DEF ReadInv
<1>12. WindowInv' /\ early' = {}
  <2>1. \A e : Cleared(e) => Cleared(e)'
    BY <1>2, <1>5 DEF Cleared, Moved
  <2>2. d \in Members(manager.next) => Cleared(d)'
    BY <1>1 DEF Cleared, Members, manager, Threads
  <2> QED BY <1>1, <1>2, <2>1, <2>2 DEF WindowInv
<1> QED BY <1>6, <1>7, <1>8, <1>9, <1>10, <1>11, <1>12

LEMMA StopFreezeKeeps ==
  ASSUME IInv, StopFreeze PROVE IInv'
<1> USE DEF IInv
<1>1. /\ freezing' = FALSE /\ Troubled
      /\ UNCHANGED <<clock, policy, state, rows, commanded, work, runtime, proc, history>>
  BY DEF StopFreeze
<1>2. /\ Active' = Active /\ Dispatched' = Dispatched /\ manager' = manager
      /\ operator' = operator /\ Inserted' = Inserted /\ \A p : Gate(p)' = Gate(p)
  BY <1>1 DEF Active, Dispatched, Inserted, manager, operator, Gate
<1>3. NextPhase' = NextPhase
  BY <1>2 DEF NextPhase, Later
<1>4. TypeOK'
  BY <1>1, TroubledLemma DEF TypeOK, clock, history, soaks, windows, dispatches
<1>5. ThreadInv' /\ DispatchInv'
  BY <1>1, <1>2 DEF ThreadInv, DispatchInv, history, dispatches
<1>6. SoakInv' /\ PassInv' /\ PhaseInv'
  BY <1>1, <1>2, <1>3 DEF SoakInv, Good, PassInv, PhaseInv, Counting, history, soaks
<1>7. now' = now /\ policy' = policy /\ open' = open /\ touched' = touched
      /\ late' = late /\ outside' = outside /\ early' = early /\ rows' = rows
  BY <1>1 DEF clock, history, windows, dispatches, soaks
<1>8. ReadInv'
  <2>1. Rest(manager)' = Rest(manager) /\ AllowedNow(policy)' = AllowedNow(policy)
        /\ \A e : Moved(e)' = Moved(e)
    BY <1>2, <1>7 DEF Rest, AllowedNow, Moved
  <2> QED BY <1>2, <1>7, <2>1 DEF ReadInv
<1>9. WindowInv' /\ early' = {}
  BY <1>2, <1>7 DEF WindowInv, Cleared, Moved
<1> QED BY <1>4, <1>5, <1>6, <1>8, <1>9

LEMMA FinishKeeps ==
  ASSUME IInv, NEW p \in Phases, NEW result \in {"ready", "broken"}, Finish(p, result)
  PROVE  IInv'
<1> USE DEF IInv
<1>1. /\ work' = [work EXCEPT ![p] = result] /\ work[p] # "ready"
      /\ UNCHANGED <<clock, policy, state, deployment, runtime, proc, history, trouble>>
  BY DEF Finish
<1>2. /\ Active' = Active /\ Dispatched' = Dispatched /\ rows' = rows
      /\ commanded' = commanded /\ freezing' = freezing /\ Inserted' = Inserted
      /\ manager' = manager /\ operator' = operator
      /\ now' = now /\ policy' = policy /\ open' = open /\ touched' = touched
      /\ late' = late /\ outside' = outside /\ early' = early
      /\ calm' = calm /\ unseen' = unseen /\ disturbed' = disturbed
      /\ runtime' = runtime
  BY <1>1, SameDeployment
     DEF manager, operator, clock, history, soaks, windows, dispatches
<1>3. TypeOK'
  <2>1. work' \in [Phases -> {"busy", "ready", "unwell", "broken"}]
    BY <1>1 DEF TypeOK
  <2> QED BY <1>1, <2>1
       DEF TypeOK, clock, deployment, history, soaks, windows, dispatches
<1>4. \A q \in Phases : work[q] = "ready" => work'[q] = "ready"
  BY <1>1 DEF TypeOK
<1>5. \A q \in Phases : Gate(q) = "ready" => Gate(q)' = "ready"
  BY <1>2, <1>4 DEF Gate
<1>6. ThreadInv' /\ DispatchInv'
  BY <1>1, <1>2, DispatchKept DEF ThreadInv, history
<1>7. Dispatched \subseteq Phases /\ (Active # None => Active \in Phases)
  BY ActiveLemma DEF TypeOK
<1>8. SoakInv'
  BY <1>2, <1>4, <1>7 DEF SoakInv, Good
<1>9. PassInv'
  BY <1>2, <1>4, <1>7 DEF PassInv
<1>10. PhaseInv'
  <2>1. Active # None /\ Gate(Active) = "ready" => NextPhase' = NextPhase
    BY <1>2, <1>5, <1>7 DEF NextPhase, Later
  <2>2. manager.pc \in {"record", "decide", "windows", "advance"} /\ ~disturbed
          => manager.active = Active
    BY DEF PassInv
  <2>3. manager.pc \in {"record", "decide"} => manager.active # None
    BY DEF PassInv
  <2> QED BY <1>2, <1>5, <1>7, <2>1, <2>2, <2>3 DEF PhaseInv, Counting
<1>11. ReadInv'
  <2>1. Rest(manager)' = Rest(manager) /\ AllowedNow(policy)' = AllowedNow(policy)
        /\ \A e : Moved(e)' = Moved(e)
    BY <1>2 DEF Rest, AllowedNow, Moved
  <2> QED BY <1>2, <2>1 DEF ReadInv
<1>12. WindowInv' /\ early' = {}
  BY <1>2 DEF WindowInv, Cleared, Moved
<1> QED BY <1>3, <1>6, <1>8, <1>9, <1>10, <1>11, <1>12

LEMMA DieKeeps ==
  ASSUME IInv, NEW t \in Threads, Die(t) PROVE IInv'
<1> USE DEF IInv
<1>1. /\ proc' = [proc EXCEPT ![t] = Idle] /\ Troubled
      /\ torn' = (IF proc[t].pc = "dispatch" THEN torn \cup {proc[t].phase} ELSE torn)
      /\ UNCHANGED <<clock, policy, state, deployment, work, runtime, soaks,
                     disturbed, windows, late>>
  BY DEF Die, Done
<1>2. /\ Active' = Active /\ Dispatched' = Dispatched /\ rows' = rows
      /\ commanded' = commanded /\ freezing' = freezing /\ NextPhase' = NextPhase
      /\ \A p : Gate(p)' = Gate(p)
      /\ now' = now /\ policy' = policy /\ open' = open /\ touched' = touched
      /\ late' = late /\ outside' = outside /\ early' = early /\ work' = work
      /\ calm' = calm /\ unseen' = unseen /\ disturbed' = disturbed
      /\ runtime' = runtime
  BY <1>1, SameDeployment, SameStatus DEF clock, soaks, windows
<1>3. /\ proc' \in [Threads -> Passes] /\ proc'[t] = Idle
      /\ \A u \in Threads : u # t => proc'[u] = proc[u]
  BY <1>1, IdleLemma DEF TypeOK
<1>4. /\ manager' = manager \/ manager' = Idle
      /\ operator' = operator \/ operator' = Idle
  BY <1>3 DEF manager, operator, Threads
<1>5. TypeOK'
  <2>1. torn' \subseteq Phases
    BY <1>1 DEF DispatchInv, TypeOK
  <2>2. \A u \in Threads : proc'[u].todo \subseteq rows
    BY <1>3, IdleLemma DEF TypeOK
  <2>3. trouble' \in 0..MaxTrouble
    BY <1>1, TroubledLemma
  <2> QED BY <1>1, <1>3, <2>1, <2>2, <2>3 DEF TypeOK, clock, deployment, soaks, windows
<1>6. ThreadInv'
  <2>1. \A u \in Threads : /\ proc'[u].pc = "idle" => proc'[u] = Idle
                           /\ proc'[u].pc = "list" => proc'[u].phase \in Phases
    BY <1>3, IdleLemma DEF ThreadInv
  <2> QED BY <1>4, <2>1, IdleLemma DEF ThreadInv
<1>7. DispatchInv'
  <2>1. ASSUME NEW u \in Threads, proc'[u].pc = "dispatch"
        PROVE  proc'[u] = proc[u]
    BY <1>3, <2>1, IdleLemma
  <2>2. ASSUME NEW d \in rows \ commanded, Phase[d] \in Dispatched
        PROVE  \/ d \in late \/ Phase[d] \in torn'
               \/ \E u \in Threads : proc'[u].pc = "dispatch" /\ proc'[u].phase = Phase[d]
    <3>1. CASE d \in late \/ Phase[d] \in torn
      BY <1>1, <3>1
    <3>2. CASE \E u \in Threads : proc[u].pc = "dispatch" /\ proc[u].phase = Phase[d]
      BY <1>1, <1>3, <3>2
    <3> QED BY <2>2, <3>1, <3>2 DEF DispatchInv
  <2> QED BY <1>2, <2>1, <2>2 DEF DispatchInv
<1>8. SoakInv'
  BY <1>2, <1>4, IdleLemma DEF SoakInv, Good
<1>9. PassInv'
  BY <1>2, <1>4, IdleLemma DEF PassInv
<1>10. PhaseInv'
  BY <1>2, <1>4, IdleLemma DEF PhaseInv, Counting
<1>11. ReadInv'
  <2>1. CASE manager' = manager
    <3>1. Rest(manager)' = Rest(manager) /\ AllowedNow(policy)' = AllowedNow(policy)
          /\ \A e : Moved(e)' = Moved(e)
      BY <1>2, <2>1 DEF Rest, AllowedNow, Moved
    <3> QED BY <1>2, <2>1, <3>1 DEF ReadInv
  <2>2. CASE manager' = Idle
    BY <2>2, IdleLemma DEF ReadInv
  <2> QED BY <1>4, <2>1, <2>2
<1>12. WindowInv' /\ early' = {}
  BY <1>2, <1>4, IdleLemma DEF WindowInv, Cleared, Moved
<1> QED BY <1>5, <1>6, <1>7, <1>8, <1>9, <1>10, <1>11, <1>12

LEMMA TickKeeps ==
  ASSUME IInv, Tick PROVE IInv'
<1> USE DEF IInv
<1> DEFINE left == runtime.left
           down == IF left > 0 THEN left - 1 ELSE left
<1>1. /\ ~freezing /\ manager.pc = "idle" /\ operator.pc = "idle"
      /\ now' = (now + 1) % Week /\ looked' = FALSE
      /\ runtime' = [runtime EXCEPT !.left = down]
      /\ calm' = [p \in Phases |->
                    IF p = Active /\ work[p] = "ready" /\ calm[p] < Soak
                    THEN calm[p] + 1 ELSE calm[p]]
      /\ open' = {} /\ touched' = {} /\ disturbed' = FALSE
      /\ UNCHANGED <<policy, state, deployment, work, proc, unseen, early, outside,
                     dispatches, trouble>>
  BY DEF Tick, manager, operator, Threads
<1>2. runtime \in Runtimes /\ left \in None..Soak /\ Soak \in Nat
  BY ManagerAssumption DEF TypeOK, Runtimes
<1>3. down \in None..Soak /\ (left = None <=> down = None)
      /\ (left \in {None, Soak} \/ down # Soak)
  BY <1>2 DEF None
<1>4. runtime' \in Runtimes /\ runtime'.left = down /\ runtime'.active = runtime.active
  BY <1>1, <1>2, <1>3 DEF Runtimes
<1> HIDE DEF left, down
<1>5. /\ Active' = Active /\ Dispatched' = Dispatched /\ rows' = rows
      /\ freezing' = freezing /\ manager' = manager /\ operator' = operator
  BY <1>1, SameDeployment DEF manager, operator
<1>6. calm' \in [Phases -> 0..Soak]
  <2>1. \A p \in Phases : calm[p] \in 0..Soak
    BY DEF TypeOK
  <2>2. \A p \in Phases : calm[p] < Soak => calm[p] + 1 \in 0..Soak
    BY <1>2, <2>1
  <2> QED BY <1>1, <2>1, <2>2
<1>7. TypeOK'
  <2>1. now' \in 0..(Week - 1)
    BY <1>1, WeekLemma DEF TypeOK
  <2> QED BY <1>1, <1>4, <1>6, <2>1 DEF TypeOK, deployment, dispatches
<1>8. ThreadInv' /\ DispatchInv'
  BY <1>1, <1>5, DispatchKept DEF ThreadInv
<1>9. manager.run.left = None
  BY <1>1, IdleLemma DEF ThreadInv, manager, Threads
<1>10. SoakInv'
  <2>1. SUFFICES ASSUME down # None
                 PROVE  /\ runtime.active \in Dispatched
                        /\ runtime.active = Active /\ Active \notin unseen =>
                             work[Active] = "ready" /\ calm'[Active] + down >= Soak
    BY <1>1, <1>4, <1>5, <1>9 DEF SoakInv, Good
  <2>2. runtime.active \in Dispatched
        /\ (runtime.active = Active /\ Active \notin unseen =>
              work[Active] = "ready" /\ calm[Active] + left >= Soak)
    BY <1>3, <2>1 DEF SoakInv, Good, left
  <2>3. ASSUME runtime.active = Active, Active \notin unseen
        PROVE  calm'[Active] + down >= Soak
    <3>1. Active \in Phases /\ work[Active] = "ready" /\ calm[Active] + left >= Soak
      BY <2>2, <2>3, ActiveLemma DEF TypeOK
    <3>2. calm[Active] \in 0..Soak
      BY <3>1 DEF TypeOK
    <3>3. calm'[Active] = IF calm[Active] < Soak THEN calm[Active] + 1 ELSE calm[Active]
      BY <1>1, <3>1
    <3> QED BY <1>2, <2>1, <3>1, <3>2, <3>3 DEF left, down, None
  <2> QED BY <2>2, <2>3
<1>11. PassInv' /\ ReadInv'
  BY <1>1, <1>5 DEF PassInv, ReadInv
<1>12. PhaseInv'
  BY <1>1, <1>5 DEF PhaseInv, Counting
<1>13. WindowInv' /\ early' = {}
  BY <1>1, <1>5 DEF WindowInv
<1> QED BY <1>7, <1>8, <1>10, <1>11, <1>12, <1>13

-----------------------------------------------------------------------------
(* The theorems.                                                           *)

LEMMA InitInvariant == Init => IInv
<1> SUFFICES ASSUME Init PROVE IInv
  OBVIOUS
<1> USE DEF Init
<1>1. TypeOK
  <2>1. proc \in [Threads -> Passes] /\ \A t \in Threads : proc[t] = Idle
    BY IdleLemma
  <2>2. now \in 0..(Week - 1) /\ trouble \in 0..MaxTrouble /\ calm \in [Phases -> 0..Soak]
    BY WeekLemma, ManagerAssumption
  <2>3. runtime \in Runtimes /\ policy \in [Settings -> Policies \cup {NoPolicy}]
    BY IdleLemma, ManagerAssumption
  <2> QED BY <2>1, <2>2, <2>3, IdleLemma DEF TypeOK
<1>2. manager = Idle /\ operator = Idle /\ \A t \in Threads : proc[t] = Idle
  BY DEF manager, operator, Threads
<1>3. ThreadInv /\ DispatchInv
  BY <1>2, IdleLemma DEF ThreadInv, DispatchInv
<1>4. NoRuntime.left = None
  BY DEF NoRuntime
<1>5. SoakInv /\ PassInv /\ PhaseInv
  BY <1>2, <1>4, IdleLemma DEF SoakInv, Good, PassInv, PhaseInv, Counting
<1>6. ReadInv /\ WindowInv /\ early = {}
  BY <1>2, IdleLemma DEF ReadInv, WindowInv
<1> QED BY <1>1, <1>3, <1>5, <1>6 DEF IInv

LEMMA ManagerStepKeeps ==
  ASSUME IInv, ManagerStep PROVE IInv'
BY BeginKeeps, StatusKeeps, RecordKeeps, PauseKeeps, WaitKeeps, StartSoakKeeps,
   KeepSoakingKeeps, EndSoakKeeps, ReadOwnKeeps, ReadGroupKeeps, JudgeDeviceKeeps,
   WindowsClosedKeeps, WindowsOpenKeeps, ManagerAdvanceKeeps, ManagerListKeeps,
   ManagerDispatchKeeps, ManagerSaveKeeps, CommandKeeps
   DEF ManagerStep, Continue, Threads

LEMMA OperatorStepKeeps ==
  ASSUME IInv, OperatorStep PROVE IInv'
BY AskAdvanceKeeps, ResumeKeeps, RetryKeeps, ResetLoadKeeps, ResetSaveKeeps,
   OperatorAdvanceKeeps, OperatorListKeeps, OperatorDispatchKeeps,
   OperatorSaveKeeps, CommandKeeps
   DEF OperatorStep, Continue, Threads

LEMMA StutterKeeps ==
  ASSUME IInv, UNCHANGED vars PROVE IInv'
<1> USE DEF IInv, vars, clock, deployment, history, soaks, windows, dispatches
<1>1. TypeOK'
  BY DEF TypeOK
<1>2. Active' = Active /\ Dispatched' = Dispatched /\ NextPhase' = NextPhase
      /\ manager' = manager /\ operator' = operator /\ \A p : Gate(p)' = Gate(p)
  BY SameDeployment, SameStatus DEF manager, operator
<1>3. ThreadInv' /\ DispatchInv'
  BY <1>2, DispatchKept DEF ThreadInv
<1>4. SoakInv' /\ PassInv' /\ PhaseInv'
  BY <1>2 DEF SoakInv, Good, PassInv, PhaseInv, Counting
<1>5. Rest(manager)' = Rest(manager) /\ AllowedNow(policy)' = AllowedNow(policy)
      /\ \A e : Moved(e)' = Moved(e)
  BY <1>2 DEF Rest, AllowedNow, Moved
<1>6. ReadInv' /\ WindowInv'
  BY <1>2, <1>5 DEF ReadInv, WindowInv, Cleared
<1> QED BY <1>1, <1>3, <1>4, <1>6

LEMMA Inductive == IInv /\ [Next]_vars => IInv'
<1> SUFFICES ASSUME IInv, [Next]_vars PROVE IInv'
  OBVIOUS
<1>1. CASE ManagerStep
  BY <1>1, ManagerStepKeeps
<1>2. CASE OperatorStep
  BY <1>2, OperatorStepKeeps
<1>3. CASE \E k \in Settings, p \in Policies \cup {NoPolicy} : SetPolicy(k, p)
  BY <1>3, SetPolicyKeeps
<1>4. CASE StopFreeze \/ \E d \in Devices : Insert(d)
  BY <1>4, StopFreezeKeeps, InsertKeeps
<1>5. CASE \E p \in Phases : \/ \E result \in {"ready", "broken"} : Finish(p, result)
                             \/ Regress(p)
  BY <1>5, FinishKeeps, RegressKeeps
<1>6. CASE \E t \in Threads : Die(t)
  BY <1>6, DieKeeps
<1>7. CASE Tick
  BY <1>7, TickKeeps
<1>8. CASE UNCHANGED vars
  BY <1>8, StutterKeeps
<1> QED
  BY <1>1, <1>2, <1>3, <1>4, <1>5, <1>6, <1>7, <1>8 DEF Next

LEMMA Invariant == Spec => []IInv
BY InitInvariant, Inductive, PTL DEF Spec

\* Every variable keeps its type, and only inserted executions are commanded.
THEOREM TypeCorrect == Spec => []TypeOK
<1>1. IInv => TypeOK
  BY DEF IInv
<1> QED BY <1>1, Invariant, PTL

\* The manager opens a wave only after a calm soak, unless a regression or a
\* retry escaped every pass (reconcile_deployment(), _reset_soak()).
THEOREM SoakKept == Spec => []NextAfterSoak
<1>1. IInv => NextAfterSoak
  BY DEF IInv, NextAfterSoak
<1> QED BY <1>1, Invariant, PTL

\* The manager commands a device only inside its windows, unless they moved or
\* the phase grew or changed while it looked (phase_maintenance_gate()).
THEOREM WindowKept == Spec => []InWindow
<1>1. IInv => InWindow
  BY DEF IInv, WindowInv, InWindow
<1> QED BY <1>1, Invariant, PTL

\* A phase is dispatched whole, but for late rows and crashes (dispatch_phase()).
THEOREM PhaseWhole == Spec => []DispatchedWhole
<1>1. IInv => DispatchedWhole
  BY DEF IInv, DispatchInv, DispatchedWhole
<1> QED BY <1>1, Invariant, PTL

\* A window is open when it means to be, now as at any minute
\* (_policy_open()).
THEOREM WindowsAreMeant == Spec => []WindowsMeanCovered
<1>1. IInv => WindowsMeanCovered
  BY NoneMistaken DEF WindowsMeanCovered
<1> QED BY <1>1, Invariant, PTL

\* The next opening of a blocked phase is reported right, now as at any minute
\* (phase_maintenance_gate()).
THEOREM OpeningsAreRight == Spec => []ReportedOpening
<1>1. IInv => ReportedOpening
  BY NoneMisreported DEF ReportedOpening
<1> QED BY <1>1, Invariant, PTL
=============================================================================
