---------------------------- MODULE FaultBudget -----------------------------
(* How many faults a behaviour may have, and of which kinds.               *)
EXTENDS Naturals

CONSTANTS
  Faults,     \* the kinds of fault that may happen
  MaxFaults   \* bound on their number

VARIABLE faults  \* faults so far

Fault(kind) ==
  /\ kind \in Faults
  /\ faults < MaxFaults
  /\ faults' = faults + 1
=============================================================================
