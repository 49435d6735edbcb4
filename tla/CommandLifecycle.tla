--------------------------- MODULE CommandLifecycle ---------------------------
(***************************************************************************)
(* What the fleet protocol promises about the state of each command,       *)
(* whoever reports it and in whatever order: controller/lghs/protocol.py.  *)
(***************************************************************************)
EXTENDS Naturals

CONSTANT Commands

VARIABLE db   \* the state of each command's row, "absent" before it exists

\* COMMAND_ORDER: the five terminal states share the last rank.
Order == [queued |-> 0, delivered |-> 1, received |-> 2, accepted |-> 3,
          running |-> 4, succeeded |-> 5, failed |-> 5, timed_out |-> 5,
          rejected |-> 5, canceled |-> 5]

Terminal == {"succeeded", "failed", "timed_out", "rejected", "canceled"}
Open == {"queued", "delivered", "received", "accepted", "running"}
CommandStates == Open \cup Terminal

\* state_can_advance()
CanAdvance(old, new) ==
  IF old \in Terminal THEN old = new ELSE Order[new] >= Order[old]

Moves(old, new) ==
  \/ old = "absent" /\ new = "queued"
  \/ old # "absent" /\ CanAdvance(old, new)

Init == db = [c \in Commands |-> "absent"]

\* One transaction may move several commands.
Next ==
  /\ db' \in [Commands -> CommandStates \cup {"absent"}]
  /\ \A c \in Commands : db'[c] = db[c] \/ Moves(db[c], db'[c])

Spec == Init /\ [][Next]_db
=============================================================================
