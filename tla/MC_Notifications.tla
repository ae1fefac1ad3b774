--------------------------- MODULE MC_Notifications ---------------------------
(***************************************************************************)
(* A small instance of Notifications: two notices of different priority.   *)
(***************************************************************************)
EXTENDS Notifications

CONSTANTS n1, n2

TwoTypes == [n \in Notices |-> IF n = n1 THEN "verification_success" ELSE "security_alert_login"]
=============================================================================
