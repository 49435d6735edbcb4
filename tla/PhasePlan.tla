------------------------------- MODULE PhasePlan -------------------------------
(***************************************************************************)
(* How a deployment's devices are divided into phases:                     *)
(* controller/lghs/rollout.py, normalize_strategy() and plan_phases().     *)
(* A strategy is read once, when the deployment is frozen; what it says is *)
(* final, so a device left out is never updated and one listed twice would *)
(* be commanded twice.                                                     *)
(***************************************************************************)
EXTENDS Integers, FiniteSets, SequencesExt

-----------------------------------------------------------------------------
(* normalize_strategy(): what a phased strategy must be like.              *)

\* A count that is absent or 0 is replaced by its default.
OrDefault(value, default) == IF value = 0 THEN default ELSE value

ValidCanary(count, total) == count \in 1..total

ValidWaves(waves) ==
  /\ waves \in Seq(1..100) \ {<<>>}
  /\ \A i, j \in DOMAIN waves : i < j => waves[i] < waves[j]

\* The last wave reaches every device.
Completed(waves) == IF Last(waves) = 100 THEN waves ELSE Append(waves, 100)

\* The failed devices a phase stops at, by count and by percentage.
Thresholds(phased, count, percent) ==
  [count |-> LET n == OrDefault(count, 2)
                 least == IF phased THEN 1 ELSE 2
             IN IF n < least THEN least ELSE n,
   percent |-> OrDefault(percent, 10)]

-----------------------------------------------------------------------------
(* plan_phases().                                                          *)

\* Tagged devices come first; otherwise the order of the names is kept.
Before(i, j, devices, tagged) ==
  \/ devices[i] \in tagged /\ devices[j] \notin tagged
  \/ (devices[i] \in tagged <=> devices[j] \in tagged) /\ i < j

Rank(i, devices, tagged) ==
  Cardinality({j \in DOMAIN devices : Before(j, i, devices, tagged)}) + 1

Ordered(devices, tagged) ==
  [n \in DOMAIN devices |->
     devices[CHOOSE i \in DOMAIN devices : Rank(i, devices, tagged) = n]]

\* math.ceil(total * percentage / 100.0)
ShareRoundedDown(total, percentage) == (total * percentage) \div 100
Share(total, percentage) == (total * percentage + 99) \div 100

\* The devices commanded when a wave is, the canaries at least.
Reach(total, canaries, percentage) ==
  LET share == Share(total, percentage)
  IN IF share < canaries THEN canaries ELSE share

WaveOverlapping(ordered, canaries, plan, percentage) ==
  LET reach == Reach(Len(ordered), canaries, percentage)
  IN IF reach <= plan.assigned
       THEN plan
       ELSE [phases |-> Append(plan.phases, SubSeq(ordered, plan.assigned, reach)),
             assigned |-> reach]

\* One wave: the devices up to its share that no earlier phase has; none if
\* the canaries or an earlier wave cover the share.
Wave(ordered, canaries, plan, percentage) ==
  LET reach == Reach(Len(ordered), canaries, percentage)
  IN IF reach <= plan.assigned
       THEN plan
       ELSE [phases |-> Append(plan.phases,
                               SubSeq(ordered, plan.assigned + 1, reach)),
             assigned |-> reach]

\* The plan after each of the waves, which begins with the canaries.
Plans(ordered, canaries, waves) ==
  LET plan[i \in 0..Len(waves)] ==
        IF i = 0
          THEN [phases |-> <<SubSeq(ordered, 1, canaries)>>, assigned |-> canaries]
          ELSE Wave(ordered, canaries, plan[i - 1], waves[i])
  IN plan

\* The phases, as a sequence of sequences: phase 0 comes first.  The last
\* wave leaves nothing for the phase of the rest that the code has in reserve.
InWaves(devices, tagged, canaries, waves) ==
  LET all == Completed(waves)
  IN Plans(Ordered(devices, tagged), canaries, all)[Len(all)].phases

\* Without phases, everything is phase 0.
AllAtOnce(devices) == <<devices>>

\* deployment_executions.phase, counted from 0.
PhaseOf(phases) ==
  [d \in UNION {ToSet(phases[k]) : k \in DOMAIN phases} |->
     (CHOOSE k \in DOMAIN phases : d \in ToSet(phases[k])) - 1]

-----------------------------------------------------------------------------
(* What a plan has to be, in terms of the strategy alone.                  *)

\* Every device is in one place of one phase, and every phase has a device.
Divides(phases, devices) ==
  /\ \A d \in ToSet(devices) : \E k \in DOMAIN phases :
       \E i \in DOMAIN phases[k] :
         /\ phases[k][i] = d
         /\ \A l \in DOMAIN phases : \A j \in DOMAIN phases[l] :
              phases[l][j] = d => l = k /\ j = i
  /\ \A k \in DOMAIN phases :
       phases[k] # <<>> /\ ToSet(phases[k]) \subseteq ToSet(devices)

\* The least number of devices that makes up the percentage.
LeastShare(total, percentage) ==
  CHOOSE n \in 0..total : /\ 100 * n >= percentage * total
                          /\ n = 0 \/ 100 * (n - 1) < percentage * total

\* The devices commanded when phase k is.
Reached(phases, k) == Cardinality(UNION {ToSet(phases[j]) : j \in 1..k})

\* A phase ends where the strategy says: with the canaries, or with the share
\* of one of the percentages, and no percentage lacks its phase.
Gradual(phases, total, canaries, percentages) ==
  {Reached(phases, k) : k \in DOMAIN phases}
    = {canaries} \cup {n \in {LeastShare(total, p) : p \in percentages} :
                         n > canaries}

\* Devices without the canary tag are canaries only when the tagged ones
\* do not suffice.
TaggedFirst(phases, devices, tagged) ==
  \/ ToSet(phases[1]) \subseteq tagged
  \/ ToSet(devices) \cap tagged \subseteq ToSet(phases[1])
=============================================================================
