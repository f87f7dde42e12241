------------------------------ MODULE CruiseMC ------------------------------
(***************************************************************************)
(* The inputs of a car of each kind that change in the runs of Cruise.     *)
(***************************************************************************)
EXTENDS Cruise

InputsOfKind ==
  [openpilot |-> {"enabled", "available", "road", "gas", "mode"},
   stock |-> {"enabled", "road", "dash", "limited"},
   alpha |-> {"enabled", "demand", "stockOn"}]
=============================================================================
