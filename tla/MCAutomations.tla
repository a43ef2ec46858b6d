---------------------------- MODULE MCAutomations ----------------------------
(* The one name's labels, for TLC: "back up notes" and its second spelling.  *)
EXTENDS Automations
CONSTANTS l1, l2
MCLabels == <<l1, l2>>
=============================================================================
