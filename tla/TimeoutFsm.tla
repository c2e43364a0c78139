----------------------------- MODULE TimeoutFsm -----------------------------
(***************************************************************************)
(* The tables of the mutation database that steer the test phase, the SQL  *)
(* statements that change them, and the timeout state machine that runs    *)
(* over them (test_mutant/timeout.d).  Several dextool processes           *)
(* (Instance) may share one database.                                      *)
(*                                                                         *)
(* TimeoutFsm.execute runs in one database transaction.  Here every state  *)
(* of the machine is a step of its own and fsm[i] # "Idle" says that i has *)
(* the transaction open; nobody else touches the tables meanwhile, so ctx  *)
(* stands for the row in the database and for the copy that execute works  *)
(* on (self.global.ctx).                                                   *)
(***************************************************************************)
EXTENDS Integers, FiniteSets

CONSTANTS
    Mutant,                 \* the ids in the mutation_status table
    Instance,               \* the dextool processes on the database
    MaxTimeoutIterations,   \* timeout.d: 2
    SqlMayFail              \* a statement inside the transaction may throw

ASSUME MutantAssumption == IsFiniteSet(Mutant)

\* updateMutantStatus asserts that MaxTimeoutIterations - 1 > 0.
ASSUME IterationsAssumption ==
    MaxTimeoutIterations \in Nat /\ MaxTimeoutIterations - 1 > 0

ASSUME SqlMayFailAssumption == SqlMayFail \in BOOLEAN

VARIABLES
    status,       \* status column of mutation_status
    worklist,     \* ids of the worklist table: the mutants to test
    timeoutWl,    \* timeout worklist: mutant -> iter, or NotListed
    memOverload,  \* ids of the memory overload worklist
    ctx,          \* the MutantTimeoutCtx row
    fsm,          \* state of the instance's TimeoutFsm, "Idle" outside execute
    output        \* the instance's TimeoutFsm.output

tables  == <<status, worklist, timeoutWl, memOverload>>
fsmVars == <<ctx, fsm, output>>
-----------------------------------------------------------------------------
Status == {"unknown", "killed", "alive", "killedByCompiler", "timeout",
           "noCoverage", "equivalent", "skipped", "memOverload"}

FsmState == {"Idle", "Init", "ResetWorkList", "UpdateCtx", "Running",
             "PurgeChanged", "PurgeSame", "ClearWorkList", "Done"}

Iteration == 0 .. MaxTimeoutIterations

NotListed == -1

\* MutantTimeoutCtx.init: what an empty table means and what analyze writes.
InitCtx == [iter |-> 0, worklistCount |-> 0, state |-> "init_"]

\* The statements of DbWorklist, DbTimeout and DbMemOverload, as the value
\* that they leave in the table or return.
WithStatus(sts)     == {m \in Mutant : status[m] \in sts}
RowsOfIter(k)       == {m \in Mutant : timeoutWl[m] = k}
ReducedTimeoutWl    == [m \in Mutant |-> IF status[m] = "timeout"
                                           THEN timeoutWl[m] ELSE NotListed]
ClearedTimeoutWl    == [m \in Mutant |-> NotListed]
CountTimeoutWl(wl)  == Cardinality({m \in Mutant : wl[m] # NotListed})

\* The condition "noUnknown" of TimeoutFsm.step.
NoUnknown == WithStatus({"unknown"}) = {} /\ worklist = {}

InTransaction == \E i \in Instance : fsm[i] # "Idle"
-----------------------------------------------------------------------------
\* Mutants of UpdateMutantStatus: the row of a mutant that is tested again is
\* not updated, no row is put, the row counts the tests of the mutant.
UpdateMutantStatusPutOnly(m, st, usedIter) ==
    /\ timeoutWl' = [timeoutWl EXCEPT ![m] =
                        IF st = "timeout" /\ usedIter = 0 THEN usedIter ELSE @]
    /\ memOverload' = memOverload
    /\ status' = [status EXCEPT ![m] = st]

UpdateMutantStatusNoPut(m, st, usedIter) ==
    /\ timeoutWl' = [timeoutWl EXCEPT ![m] = IF @ # NotListed THEN usedIter ELSE @]
    /\ memOverload' = memOverload
    /\ status' = [status EXCEPT ![m] = st]

UpdateMutantStatusCountsTests(m, st, usedIter) ==
    /\ timeoutWl' = [timeoutWl EXCEPT ![m] =
                        IF @ # NotListed THEN usedIter + 1
                        ELSE IF st = "timeout" /\ usedIter = 0 THEN usedIter ELSE @]
    /\ memOverload' = memOverload
    /\ status' = [status EXCEPT ![m] = st]

(* timeout.d updateMutantStatus: how a test result reaches the tables.     *)
UpdateMutantStatus(m, st, usedIter) ==
    /\ timeoutWl' = [timeoutWl EXCEPT ![m] =
                        IF (st = "timeout" /\ usedIter = 0) \/ @ # NotListed
                          THEN usedIter ELSE @]
    /\ memOverload' = IF st = "memOverload" /\ usedIter < MaxTimeoutIterations - 1
                        THEN memOverload \cup {m} ELSE memOverload
    /\ status' = [status EXCEPT ![m] = st]
-----------------------------------------------------------------------------
(* The states of the machine.  Enter<S> is the opCall of S; the number of  *)
(* statements of an opCall that were executed before one threw is          *)
(* Executed(n), n when none did: execute only logs the exception and goes  *)
(* on with the next state.                                                 *)
Executed(n) == IF SqlMayFail THEN 0 .. n ELSE {n}

Enter(i, s) == fsm' = [fsm EXCEPT ![i] = s]
SetDone(i, b) == output' = [output EXCEPT ![i].done = b]

EnterInit(i) ==
    /\ Enter(i, "Init")
    /\ ctx' = InitCtx
    /\ SetDone(i, FALSE)
    /\ UNCHANGED tables

\* Mutant of EnterResetWorkList: the rows of the round to come are queued.
EnterResetWorkListNextIter(i) ==
    /\ Enter(i, "ResetWorkList")
    /\ worklist' = worklist \cup RowsOfIter(ctx.iter + 1) \cup memOverload
    /\ memOverload' = {}
    /\ UNCHANGED <<status, timeoutWl, ctx, output>>

EnterResetWorkList(i) ==
    /\ Enter(i, "ResetWorkList")
    /\ \E n \in Executed(3) :
          /\ worklist' = worklist \cup (IF n >= 1 THEN RowsOfIter(ctx.iter) ELSE {})
                                  \cup (IF n >= 2 THEN memOverload ELSE {})
          /\ memOverload' = IF n = 3 THEN {} ELSE memOverload
    /\ UNCHANGED <<status, timeoutWl, ctx, output>>

EnterUpdateCtx(i) ==
    /\ Enter(i, "UpdateCtx")
    /\ \E n \in Executed(1) :
          ctx' = [ctx EXCEPT !.iter = @ + 1,
                             !.worklistCount = IF n = 1 THEN CountTimeoutWl(timeoutWl) ELSE @]
    /\ UNCHANGED <<tables, output>>

EnterRunning(i) ==
    /\ Enter(i, "Running")
    /\ ctx' = [ctx EXCEPT !.state = "running"]
    /\ SetDone(i, FALSE)
    /\ UNCHANGED tables

\* Purge.ev is "changed" until the count has been compared.
EnterPurge(i) ==
    /\ \E n \in Executed(2) :
          /\ timeoutWl' = IF n >= 1 THEN ReducedTimeoutWl ELSE timeoutWl
          /\ Enter(i, IF n = 2 /\ CountTimeoutWl(ReducedTimeoutWl) = ctx.worklistCount
                        THEN "PurgeSame" ELSE "PurgeChanged")
    /\ UNCHANGED <<status, worklist, memOverload, ctx, output>>

EnterClearWorkList(i) ==
    /\ Enter(i, "ClearWorkList")
    /\ \E n \in Executed(3) :
          /\ timeoutWl' = IF n >= 1 THEN ClearedTimeoutWl ELSE timeoutWl
          /\ worklist' = IF n >= 2 THEN worklist \cup memOverload ELSE worklist
          /\ memOverload' = IF n = 3 THEN {} ELSE memOverload
    /\ UNCHANGED <<status, ctx, output>>

EnterDone(i) ==
    /\ Enter(i, "Done")
    /\ ctx' = [iter |-> 0, worklistCount |-> 0, state |-> "done"]
    /\ SetDone(i, TRUE)
    /\ UNCHANGED tables

\* Stop ends the loop; execute then writes ctx and commits.
EnterStop(i) ==
    /\ Enter(i, "Idle")
    /\ output' = [output EXCEPT ![i].iter = ctx.iter]
    /\ UNCHANGED <<tables, ctx>>
-----------------------------------------------------------------------------
(* TimeoutFsm.execute: the machine starts in the state that ctx names ...  *)
ExecuteBegin(i) ==
    /\ ~InTransaction
    /\ \/ ctx.state = "init_"   /\ EnterInit(i)
       \/ ctx.state = "running" /\ EnterRunning(i)
       \/ ctx.state = "done"    /\ EnterDone(i)

(* ... and steps until Stop.                                               *)
StepInit(i) ==
    /\ fsm[i] = "Init"
    /\ IF NoUnknown THEN EnterResetWorkList(i) ELSE EnterStop(i)

StepResetWorkList(i) == fsm[i] = "ResetWorkList" /\ EnterUpdateCtx(i)

StepUpdateCtx(i) == fsm[i] = "UpdateCtx" /\ EnterRunning(i)

StepRunning(i) ==
    /\ fsm[i] = "Running"
    /\ IF NoUnknown THEN EnterPurge(i) ELSE EnterStop(i)

\* Mutant of StepPurge: the bound on the rounds is missing.
StepPurgeUnbounded(i) ==
    \/ fsm[i] = "PurgeChanged" /\ EnterResetWorkList(i)
    \/ fsm[i] = "PurgeSame" /\ EnterClearWorkList(i)

StepPurge(i) ==
    \/ /\ fsm[i] = "PurgeChanged"
       /\ IF ctx.iter = MaxTimeoutIterations
            THEN EnterClearWorkList(i) ELSE EnterResetWorkList(i)
    \/ fsm[i] = "PurgeSame" /\ EnterClearWorkList(i)

StepClearWorkList(i) == fsm[i] = "ClearWorkList" /\ EnterDone(i)

\* An operation may have changed tested mutants to unknown since.
StepDone(i) ==
    /\ fsm[i] = "Done"
    /\ IF NoUnknown THEN EnterStop(i) ELSE EnterRunning(i)

ExecuteStep(i) ==
    \/ StepInit(i) \/ StepResetWorkList(i) \/ StepUpdateCtx(i) \/ StepRunning(i)
    \/ StepPurge(i) \/ StepClearWorkList(i) \/ StepDone(i)

FsmInit ==
    /\ ctx = InitCtx
    /\ fsm = [i \in Instance |-> "Idle"]
    /\ output = [i \in Instance |-> [iter |-> 0, done |-> FALSE]]

FsmTypeOK ==
    /\ status \in [Mutant -> Status]
    /\ worklist \subseteq Mutant
    /\ timeoutWl \in [Mutant -> Iteration \cup {NotListed}]
    /\ memOverload \subseteq Mutant
    /\ ctx \in [iter : Iteration, worklistCount : Nat,
                state : {"init_", "running", "done"}]
    /\ fsm \in [Instance -> FsmState]
    /\ output \in [Instance -> [iter : Iteration, done : BOOLEAN]]
=============================================================================
