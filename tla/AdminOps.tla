------------------------------ MODULE AdminOps ------------------------------
(***************************************************************************)
(* What other dextool commands do to the tables of the test phase: the     *)
(* operations of "dextool mutate admin" (backend/admin.d) and a new        *)
(* "dextool mutate analyze" (backend/analyze/package.d).                   *)
(***************************************************************************)
EXTENDS TimeoutFsm

CONSTANTS
    AdminOperation,     \* the operations that a run lets the user perform
    AdminStatus,        \* the statuses that the user gives mutants
    MaxAdminOps         \* bound: how many of them

ASSUME AdminAssumption ==
    /\ AdminOperation \subseteq {"resetMutant", "markMutant", "removeMarkedMutant",
                                 "stopTimeoutTest", "clearWorklist", "analyze"}
    /\ AdminStatus \subseteq Status
    /\ MaxAdminOps \in Nat

VARIABLES
    marked,     \* ids of the marked_mutant table
    adminOps    \* operations performed so far

adminVars == <<marked, adminOps>>

Perform(op) ==
    /\ op \in AdminOperation
    /\ adminOps < MaxAdminOps
    /\ adminOps' = adminOps + 1
    /\ ~InTransaction
-----------------------------------------------------------------------------
\* kinds selects any of the mutants.
ResetMutant ==
    /\ Perform("resetMutant")
    /\ \E kinds \in SUBSET Mutant, from \in Status, to \in AdminStatus :
          status' = [m \in Mutant |-> IF m \in kinds /\ status[m] = from
                                        THEN to ELSE status[m]]
    /\ UNCHANGED <<worklist, timeoutWl, memOverload, fsmVars, marked>>

MarkMutant ==
    /\ Perform("markMutant")
    /\ \E m \in Mutant, st \in AdminStatus :
          /\ marked' = marked \cup {m}
          /\ status' = [status EXCEPT ![m] = st]
    /\ UNCHANGED <<worklist, timeoutWl, memOverload, fsmVars>>

RemoveMarkedMutant ==
    /\ Perform("removeMarkedMutant")
    /\ \E m \in marked :
          /\ marked' = marked \ {m}
          /\ status' = [status EXCEPT ![m] = "unknown"]
    /\ UNCHANGED <<worklist, timeoutWl, memOverload, fsmVars>>

StopTimeoutTest ==
    /\ Perform("stopTimeoutTest")
    /\ status' = [m \in Mutant |-> IF timeoutWl[m] # NotListed
                                     THEN "timeout" ELSE status[m]]
    /\ timeoutWl' = ClearedTimeoutWl
    /\ worklist' = {}
    /\ ctx' = [iter |-> MaxTimeoutIterations, worklistCount |-> 0, state |-> "done"]
    /\ UNCHANGED <<memOverload, fsm, output, marked>>

ClearWorklist ==
    /\ Perform("clearWorklist")
    /\ worklist' = {}
    /\ UNCHANGED <<status, timeoutWl, memOverload, fsmVars, marked>>

\* The mutants of changed files are replaced by new ones: their rows go from
\* every worklist (ON DELETE CASCADE) and the timeout context is reset.
Analyze ==
    /\ Perform("analyze")
    /\ \E changed \in SUBSET Mutant \ {{}} :
          /\ status' = [m \in Mutant |-> IF m \in changed THEN "unknown" ELSE status[m]]
          /\ worklist' = worklist \ changed
          /\ timeoutWl' = [m \in Mutant |-> IF m \in changed THEN NotListed
                                                              ELSE timeoutWl[m]]
          /\ memOverload' = memOverload \ changed
          /\ marked' = marked \ changed
    /\ ctx' = InitCtx
    /\ UNCHANGED <<fsm, output>>

AdminStep ==
    \/ ResetMutant \/ MarkMutant \/ RemoveMarkedMutant
    \/ StopTimeoutTest \/ ClearWorklist

AdminInit == marked = {} /\ adminOps = 0

AdminTypeOK == marked \subseteq Mutant /\ adminOps \in 0 .. MaxAdminOps
=============================================================================
