------------------------------- MODULE Status -------------------------------
(***************************************************************************)
(* The status the operator reports: the phase of the installation from     *)
(* the phases of its engines (derivePhase). Engine results are a function  *)
(* from the names of the engines that were deployed to their phases. The   *)
(* conditions (buildConditions) follow from the phase, but for their time, *)
(* which Reconciler's UpdateStatus accounts for.                           *)
(***************************************************************************)

Phases == {"Pending", "Installing", "Running", "Degraded", "Failed"}

\* derivePhase: an empty list is Pending, one failed engine degrades the whole.
DerivePhase(engines) ==
    IF DOMAIN engines = {} THEN "Pending"
    ELSE IF \E e \in DOMAIN engines : engines[e] = "Failed" THEN "Degraded"
    ELSE IF \A e \in DOMAIN engines : engines[e] \notin {"Degraded", "Installing", "Pending"}
    THEN "Running"
    ELSE "Installing"

ConditionTypes == {"Available", "Progressing", "Degraded", "Failed"}

\* buildConditions: the types of the conditions whose status is True.
Conditions(phase) ==
    CASE phase = "Running"  -> {"Available"}
      [] phase = "Degraded" -> {"Degraded", "Available"}
      [] phase = "Failed"   -> {"Failed"}
      [] OTHER              -> {"Progressing"}

StatusOf(engines) ==
    [phase |-> DerivePhase(engines), engines |-> engines,
     conditions |-> Conditions(DerivePhase(engines))]
=============================================================================
