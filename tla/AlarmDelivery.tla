--------------------------- MODULE AlarmDelivery ---------------------------
(***************************************************************************)
(* What the alarm listener promises the application: the alarms a device   *)
(* raises on one AlarmCR reach the callbacks one by one, in the order they *)
(* were raised, none twice and none passed over, except that one whose     *)
(* notification does not parse is accepted and dropped.                    *)
(***************************************************************************)
EXTENDS Naturals, Sequences

CONSTANTS
  MaxAlarms,   \* bound: alarms 1..MaxAlarms are raised
  Malformed    \* alarms whose notification block does not parse

VARIABLES
  raised,      \* how many alarms the device has raised
  accepted,    \* how many of them the listener has taken
  delivered    \* the alarms given to the callbacks, in order

absVars == <<raised, accepted, delivered>>

Init == raised = 0 /\ accepted = 0 /\ delivered = <<>>

Raise ==
  /\ raised < MaxAlarms
  /\ raised' = raised + 1
  /\ UNCHANGED <<accepted, delivered>>

Take ==
  /\ accepted < raised
  /\ accepted' = accepted + 1
  /\ delivered' = IF accepted' \in Malformed THEN delivered ELSE Append(delivered, accepted')
  /\ UNCHANGED raised

Next == Raise \/ Take

Spec == Init /\ [][Next]_absVars
=============================================================================
