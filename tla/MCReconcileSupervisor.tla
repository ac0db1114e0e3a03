----------------------- MODULE MCReconcileSupervisor -----------------------
(* Instances of ReconcileSupervisor for TLC.  Products cannot be exchanged *)
(* for one another here: one of them fails, and progress is checked.       *)
EXTENDS ReconcileSupervisor
=============================================================================
