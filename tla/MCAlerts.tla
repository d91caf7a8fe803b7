------------------------------- MODULE MCAlerts -------------------------------
EXTENDS Alerts
CONSTANT a

(* From the alert sheet with the price far from the target, or as the MCP  *)
(* server asks: the alert must be new, and no price is known.              *)
Asked ==
  {[frequency |-> "once", base |-> "far", plan |-> None],
   [frequency |-> "every", base |-> None, plan |-> "new"]}
=============================================================================
