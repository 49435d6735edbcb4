--------------------------- MODULE MaintenanceWindow ---------------------------
(***************************************************************************)
(* When a device may be touched: controller/lghs/maintenance.py, from a    *)
(* single window to the gate of a rollout's phase.                         *)
(*                                                                         *)
(* Time is counted in minutes of the policy's time zone from a midnight    *)
(* that begins a week; the code derives day and minute from the epoch.     *)
(* Changes of the zone's offset are not modelled.                          *)
(***************************************************************************)
EXTENDS Integers, FiniteSets

CONSTANTS WeekDays,    \* 7
          DayMinutes,  \* 1440
          HorizonDays  \* horizon_days of maintenance_state(), 21

\* The search for the next opening goes on for at least a week.
ASSUME WindowAssumption ==
  /\ WeekDays \in Nat \ {0} /\ DayMinutes \in Nat \ {0}
  /\ HorizonDays \in Nat /\ HorizonDays >= WeekDays

Week == WeekDays * DayMinutes
Days == 0..(WeekDays - 1)
Minutes == 0..(DayMinutes - 1)

\* normalize_policy(): no window without days, and none that starts when it
\* ends.  A window that ends before it starts crosses midnight.
Windows ==
  {w \in [days : SUBSET Days \ {{}}, start : Minutes, end : Minutes] :
     w.start # w.end}
IsPolicy(p) == p.enabled \in BOOLEAN /\ p.windows # {} /\ p.windows \subseteq Windows

Weekday(t) == (t \div DayMinutes) % WeekDays
MinuteOf(t) == t % DayMinutes

SameDayOnly(w, t) ==
  /\ Weekday(t) \in w.days
  /\ IF w.start < w.end THEN w.start <= MinuteOf(t) /\ MinuteOf(t) < w.end
                        ELSE MinuteOf(t) >= w.start \/ MinuteOf(t) < w.end

\* _policy_open(), one window: on its days, or on the morning after.
WindowOpen(w, t) ==
  LET weekday == Weekday(t)
      previous == (weekday - 1) % WeekDays
      minute == MinuteOf(t)
  IN \/ /\ w.start < w.end
        /\ weekday \in w.days /\ w.start <= minute /\ minute < w.end
     \/ /\ w.start >= w.end
        /\ \/ weekday \in w.days /\ minute >= w.start
           \/ previous \in w.days /\ minute < w.end

PolicyOpen(p, t) == \E w \in p.windows : WindowOpen(w, t)

\* maintenance_state(): all policies have to be open; without one, always.
Allowed(policies, t) == \A p \in policies : PolicyOpen(p, t)

Never == -1

\* next_open_at: now, or the first full minute found open.
NextOpen(policies, t) ==
  LET found == {n \in (t + 1)..(t + 1 + HorizonDays * DayMinutes) :
                  Allowed(policies, n)}
  IN IF Allowed(policies, t) THEN t
     ELSE IF found = {} THEN Never
     ELSE CHOOSE n \in found : \A m \in found : n <= m

\* effective_policies(): a device's own policy replaces its groups'; a
\* disabled one is as good as none.  NoPolicy stands for a missing setting.
NoPolicy == [enabled |-> FALSE, windows |-> {}]
Effective(own, ofGroups) ==
  {p \in (IF own # NoPolicy THEN {own} ELSE ofGroups) : p.enabled}

FirstOpening(blocked, next) ==
  IF \E d \in blocked : next[d] # Never
    THEN CHOOSE n \in {next[d] : d \in blocked} : \A d \in blocked : next[d] <= n
    ELSE Never

\* phase_maintenance_gate(): when the last of the blocked devices is allowed,
\* each by itself; unknown when one of them never is.
GateNext(blocked, next) ==
  IF \E d \in blocked : next[d] = Never THEN Never
  ELSE CHOOSE n \in {next[d] : d \in blocked} : \A d \in blocked : next[d] <= n

-----------------------------------------------------------------------------
(* What the windows mean.                                                  *)

\* A window opens at its start on each of its days and stays open until the
\* clock next shows its end, as minutes of the week.
Covered(w) ==
  UNION {{(day * DayMinutes + w.start + i) % Week :
            i \in 0..(((w.end - w.start) % DayMinutes) - 1)} : day \in w.days}

\* The minutes at which some window is not what it means.
Mistaken ==
  {t \in 0..(Week - 1) : \E w \in Windows : WindowOpen(w, t) # (t \in Covered(w))}

\* Every blocked device has been allowed in one of the minutes from t to n.
AllowedBy(blocked, policies, t, n) ==
  \A d \in blocked : \E k \in t..n : Allowed(policies[d], k)

\* The minutes at which a wrong time is reported for a phase of two devices,
\* one with the policies of two groups and one with that of a third.
Misreported ==
  {t \in 0..(Week - 1) : \E v, w, x \in Windows :
     LET policies == <<{[windows |-> {v}], [windows |-> {w}]},
                       {[windows |-> {x}]}>>
         blocked == {d \in {1, 2} : ~Allowed(policies[d], t)}
         report == GateNext(blocked,
                            [d \in {1, 2} |-> NextOpen(policies[d], t)])
     IN /\ blocked # {}
        /\ ~ IF report = Never
               THEN ~AllowedBy(blocked, policies, t, t + Week)
               ELSE /\ AllowedBy(blocked, policies, t, report)
                    /\ ~AllowedBy(blocked, policies, t, report - 1)}
=============================================================================
