------------------------- MODULE MCAccessLogCollector -------------------------
(***************************************************************************)
(* Model values for checking AccessLogCollector with TLC.                  *)
(***************************************************************************)
EXTENDS AccessLogCollector

CONSTANTS collector, command, noOne

Access == [name |-> "a", decision |-> "block"]
Listener == [name |-> "dns", decision |-> "allow"]
Filtered == [name |-> "f", decision |-> "block"]
Chatter == [name |-> "chatter"]

OneKey == {Access}
OneCommand == {command}
Unnamed == [name |-> "c", start |-> 0, rejected |-> FALSE, dns |-> FALSE, named |-> FALSE]
OneConnection == {Unnamed}
OneDay == {1}
=============================================================================
