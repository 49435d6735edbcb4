--------------------------- MODULE MCRolloutManager ---------------------------
(* An instance of RolloutManager for TLC: two canaries, one of them in the  *)
(* group of the wave's device.                                              *)
EXTENDS RolloutManager, TLC

CONSTANTS g

\* From the last minute of the first day to the first of the second.
Night == [enabled |-> TRUE, windows |-> {[days |-> {0}, start |-> 2, end |-> 1]}]
Off == [Night EXCEPT !.enabled = FALSE]
NightAndOff == {Night, Off}

ThreeDevices == {1, 2, 3}
TwoCanaries == [d \in {1, 2, 3} |-> IF d < 3 THEN 0 ELSE 1]
OneGroup == {g}
TwoInGroup == [d \in {1, 2, 3} |-> IF d = 1 THEN {} ELSE {g}]

\* Nobody has a policy; a device and the group have one; the group has one
\* that a device has switched off for itself.
SomeSettings ==
  LET With(f) == [k \in {1, 2, 3, g} |-> IF k \in DOMAIN f THEN f[k] ELSE NoPolicy]
  IN {With(f) : f \in {<<>>, 1 :> Night @@ g :> Night, 2 :> Off @@ g :> Night}}
=============================================================================
