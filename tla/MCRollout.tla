------------------------------ MODULE MCRollout ------------------------------
(* Instances of Rollout for TLC: one canary, then waves.                   *)
EXTENDS Rollout, PhasePlan

CONSTANTS d1, d2, d3, d4, op

TwoDevices == {d1, d2}
FourDevices == {d1, d2, d3, d4}

\* The phases of the deployment under way, as planned for one canary.
PlannedForTwo == PhaseOf(InWaves(<<d1, d2>>, {}, 1, <<100>>))
PlannedForFour == PhaseOf(InWaves(<<d1, d2, d3, d4>>, {}, 1, <<75>>))
CanaryAndWave == PlannedForTwo
CanaryAndTwoWaves == PlannedForFour

OneOperator == {op}

\* The second request is a resumption after a retry.
ThenResume == requests > 1 => asked = {"retry", "resume"}

-----------------------------------------------------------------------------
(* Every strategy for up to four devices, with these percentages.          *)

Percentages == {1, 20, 41, 60, 99, 100}
WaveLists == {SetToSortSeq(s, <) : s \in (SUBSET Percentages) \ {{}}}

Strategies(total) ==
  {s \in [canaries : 1..total, tagged : SUBSET (1..total), waves : WaveLists] :
     ValidCanary(s.canaries, total) /\ ValidWaves(s.waves)}

Numbered1To(total) == [i \in 1..total |-> i]
PlanOf(total, s) == InWaves(Numbered1To(total), s.tagged, s.canaries, s.waves)

\* The numbers of devices for which some strategy's plan is no division of
\* the devices, or not the strategy's.
Undivided ==
  {total \in 1..4 : \E s \in Strategies(total) :
     ~Divides(PlanOf(total, s), Numbered1To(total))}

Steep ==
  {total \in 1..4 : \E s \in Strategies(total) :
     \/ ~Gradual(PlanOf(total, s), total, s.canaries, ToSet(Completed(s.waves)))
     \/ ~TaggedFirst(PlanOf(total, s), Numbered1To(total), s.tagged)}

\* Whatever devices are still to be updated, each gets exactly one phase when
\* they are frozen for another deployment, and no phase is empty, which no
\* gate would ever let pass (plan_phases()).
PlanDivides == Cardinality(Devices \ target) \notin Undivided

\* The canaries and the waves of such a deployment have the sizes of its
\* strategy, rounded up, and the canaries are tagged devices as far as there
\* are any (plan_phases()).
PlanIsGradual == Cardinality(Devices \ target) \notin Steep
=============================================================================
