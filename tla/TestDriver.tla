----------------------------- MODULE TestDriver -----------------------------
(***************************************************************************)
(* A test session: the state machine of "dextool mutate test" (TestDriver  *)
(* in test_mutant/package.d) over the shared database, with the actor that *)
(* saves its results, other sessions on the same database, the operations  *)
(* of the user, forced exits and restarts.                                 *)
(*                                                                         *)
(* pc[i] names the state whose handler runs next; an action is a handler   *)
(* together with the transition that execute_ takes out of it.  Handlers   *)
(* that touch nothing modelled here are folded into the state before them. *)
(***************************************************************************)
EXTENDS DbActor, AdminOps

CONSTANTS
    Config,         \* the configurations a session may be started with
    Outcome,        \* what testing a mutant may end in
    PromptSave,     \* a result is saved before its mutant is picked again, and
                    \* IsDone answered before the request for it times out
    ForcedExits,    \* a session may be killed
    AdminWhileTesting, \* the user may change the tables while a session runs
    MaxSessions,    \* bound: sessions started
    NoMutant

ConfigType ==
    [loadBehavior        : {"nothing", "slowdown", "halt"},
     limited             : BOOLEAN,     \* a max runtime or max alive is set
     useSkipMutant       : BOOLEAN,
     pullRequest         : BOOLEAN,     \* the constraint is not empty
     lines               : SUBSET Mutant, \* the mutants on its lines
     analyzeTestCmd      : BOOLEAN,
     removeTestCases     : BOOLEAN,
     resetAlive          : BOOLEAN,
     retestOld           : BOOLEAN,
     coverage            : BOOLEAN,
     schema              : BOOLEAN,
     stopAfterLastSchema : BOOLEAN,
     contCheck           : BOOLEAN,
     userTimeout         : BOOLEAN]

\* "noResult": the mutant could not be injected, or its test cases are unstable.
\* "filesysError": a source file could not be read, written or restored.
NoVerdict == {"noResult", "filesysError"}

ASSUME TestDriverAssumption ==
    /\ Config \subseteq ConfigType
    /\ Outcome \subseteq Status \cup NoVerdict
    /\ PromptSave \in BOOLEAN
    /\ ForcedExits \in BOOLEAN
    /\ AdminWhileTesting \in BOOLEAN
    /\ MaxSessions \in Nat
    /\ NoMutant \notin Mutant

VARIABLES
    pc,         \* the state of the session's machine
    conf,       \* its configuration
    local,      \* what its states keep between visits
    dirty,      \* its copy of the source code holds a mutant, or what is left of one
    scored,     \* the session has sampled the mutation score
    sessions    \* sessions started so far

sessionVars == <<conf, dirty, scored, sessions>>
dbVars == <<tables, fsmVars, actorVars>>
vars == <<pc, local, sessionVars, dbVars, adminVars>>

\* While CheckMutantsLeft and UpdateTimeout execute the TimeoutFsm, pc is
\* "AllMutantsTested" and "OverloadCheck".
State == {"NotStarted", "Initialize", "SanityCheck", "PreCompileSut",
          "AnalyzeTestCmdForTestCase", "UpdateAndResetAliveMutants", "ResetAlive",
          "RetestOldMutant", "AddOldMutants", "ResetTimeoutContext", "PullRequest",
          "CountWorklist", "CheckMutantsLeft", "AllMutantsTested", "MeasureTestSuite",
          "Coverage", "PropagateCoverage", "UpdateTimeout", "OverloadCheck",
          "ContinuesCheckTestSuite", "CheckPullRequestMutant",
          "NextSchemata", "SchemataTest", "NextMutant", "MutationTest", "Testing",
          "HandleTestResult", "CheckStopCond", "CheckTimeout", "Done", "WaitForDb",
          "SaveMutationScore", "Error", "Stop"}

LocalType ==
    [nextMutant       : Mutant \cup {NoMutant},
     lastTested       : Mutant \cup {NoMutant},
     result           : SUBSET [id : Mutant, st : Status],
     runSchema        : {"first", "runOnce", "done"},
     startWorklistCnt : Nat,
     stopAfter        : Nat,
     measured         : BOOLEAN,    \* the test suite, which has passed
     unrestored       : BOOLEAN]    \* a file, and the error was dropped

InitLocal ==
    [nextMutant |-> NoMutant, lastTested |-> NoMutant, result |-> {},
     runSchema |-> "first", startWorklistCnt |-> 0, stopAfter |-> 0,
     measured |-> FALSE, unrestored |-> FALSE]

\* The handler of state s of session i runs, and execute_ goes on to state t.
Handler(i, s, t) == pc[i] = s /\ pc' = [pc EXCEPT ![i] = t]

UnchangedButWorklist ==
    UNCHANGED <<status, timeoutWl, memOverload, fsmVars, actorVars, adminVars,
                local, sessionVars>>
UnchangedButLocal == UNCHANGED <<sessionVars, dbVars, adminVars>>
UnchangedButPc == UNCHANGED <<local, sessionVars, dbVars, adminVars>>

\* TestStopCheck.isHalt: a limit reached, or the load with LoadBehavior.halt.
MayHalt(i) == conf[i].limited \/ conf[i].loadBehavior = "halt"
-----------------------------------------------------------------------------
(* Starting a session.                                                     *)
StartSession(i) ==
    /\ sessions < MaxSessions
    /\ sessions' = sessions + 1
    /\ Handler(i, "NotStarted", "Initialize")
    /\ \E c \in Config : conf' = [conf EXCEPT ![i] = c]
    \* the user may have set up the source code anew
    /\ \E d \in {dirty[i], FALSE} : dirty' = [dirty EXCEPT ![i] = d]
    /\ local' = [local EXCEPT ![i] = InitLocal]
    /\ scored' = [scored EXCEPT ![i] = FALSE]
    /\ UNCHANGED <<dbVars, adminVars>>

ReducedWorklist(i) ==
    WithStatus({"unknown"} \cup IF conf[i].useSkipMutant THEN {} ELSE {"skipped"})

\* Mutant of Initialize: what is unknown is not queued.
InitializeKeepsWorklist(i) ==
    /\ ~InTransaction
    /\ Handler(i, "Initialize", "SanityCheck")
    /\ timeoutWl' = ReducedTimeoutWl
    /\ UNCHANGED <<status, worklist, memOverload, fsmVars, actorVars, adminVars, local,
                   sessionVars>>

Initialize(i) ==
    /\ ~InTransaction
    /\ \/ Handler(i, "Initialize", "SanityCheck")
       \/ /\ conf[i].loadBehavior = "halt"
          /\ Handler(i, "Initialize", "CheckStopCond")
    /\ worklist' = worklist \cup ReducedWorklist(i)
    /\ timeoutWl' = ReducedTimeoutWl
    /\ UNCHANGED <<status, memOverload, fsmVars, actorVars, adminVars, local, sessionVars>>

\* Mutant of SanityCheck: the checksums are not compared.
SanityCheckNoChecksum(i) ==
    Handler(i, "SanityCheck", "PreCompileSut") /\ UnchangedButPc

SanityCheck(i) ==
    /\ \/ ~dirty[i] /\ Handler(i, "SanityCheck", "PreCompileSut")
       \/ Handler(i, "SanityCheck", "Error")
    /\ UnchangedButPc

AfterReset(i) == IF conf[i].retestOld THEN "RetestOldMutant" ELSE "CheckMutantsLeft"

\* The state that ChooseMode leads to.
ChooseMode(i) ==
    IF conf[i].pullRequest THEN "PullRequest"
    ELSE IF conf[i].analyzeTestCmd THEN "AnalyzeTestCmdForTestCase"
    ELSE AfterReset(i)

PreCompileSut(i) ==
    /\ \E t \in {ChooseMode(i), "Error"} : Handler(i, "PreCompileSut", t)
    /\ UnchangedButPc

AnalyzeTestCmdForTestCase(i) ==
    /\ \E t \in {"UpdateAndResetAliveMutants", "Error"} :
          Handler(i, "AnalyzeTestCmdForTestCase", t)
    /\ UnchangedButPc

\* Mutant of UpdateAndResetAliveMutants: the unknown mutants are not queued.
ResetWithoutQueueing(i) ==
    /\ ~InTransaction
    /\ Handler(i, "UpdateAndResetAliveMutants", "ResetAlive")
    /\ \E orphaned \in SUBSET WithStatus({"killed"}) :
          status' = [m \in Mutant |-> IF m \in orphaned THEN "unknown" ELSE status[m]]
    /\ UNCHANGED <<worklist, timeoutWl, memOverload, fsmVars, actorVars, adminVars, local,
                   sessionVars>>

\* Test cases were removed: what only they killed becomes unknown.
UpdateAndResetAliveMutants(i) ==
    /\ ~InTransaction
    /\ Handler(i, "UpdateAndResetAliveMutants", "ResetAlive")
    /\ \E orphaned \in IF conf[i].removeTestCases
                         THEN SUBSET WithStatus({"killed"}) ELSE {{}} :
          /\ status' = [m \in Mutant |-> IF m \in orphaned THEN "unknown" ELSE status[m]]
          /\ worklist' = worklist \cup
                IF orphaned = {} THEN {}
                ELSE orphaned \cup WithStatus({"unknown", "skipped"})
    /\ UNCHANGED <<timeoutWl, memOverload, fsmVars, actorVars, adminVars, local, sessionVars>>

\* Test cases were added: what survived without them is tested again.
ResetAlive(i) ==
    /\ ~InTransaction
    /\ Handler(i, "ResetAlive", AfterReset(i))
    /\ worklist' \in {worklist} \cup
          IF conf[i].resetAlive
            THEN {worklist \cup WithStatus({"alive", "skipped", "noCoverage"})} ELSE {}
    /\ UnchangedButWorklist

\* Old mutants are only added to an empty worklist.  The statements are not in
\* one transaction: a crash may come before the context is reset.
RetestOldMutant(i) ==
    /\ ~InTransaction
    /\ \/ Handler(i, "RetestOldMutant", "CheckMutantsLeft")
       \/ worklist = {} /\ Handler(i, "RetestOldMutant", "AddOldMutants")
    /\ UnchangedButPc

AddOldMutants(i) ==
    /\ ~InTransaction
    /\ Handler(i, "AddOldMutants", "ResetTimeoutContext")
    /\ \E oldest \in SUBSET (Mutant \ WithStatus({"noCoverage"})) :
          worklist' = worklist \cup oldest
    /\ UnchangedButWorklist

ResetTimeoutContext(i) ==
    /\ ~InTransaction
    /\ Handler(i, "ResetTimeoutContext", "CheckMutantsLeft")
    /\ ctx' = InitCtx
    /\ UNCHANGED <<tables, fsm, output, actorVars, adminVars, local, sessionVars>>

PullRequest(i) ==
    /\ ~InTransaction
    /\ Handler(i, "PullRequest", "CountWorklist")
    /\ worklist' = worklist \cup conf[i].lines
    /\ UnchangedButWorklist

CountWorklist(i) ==
    /\ ~InTransaction
    /\ Handler(i, "CountWorklist", "CheckMutantsLeft")
    /\ local' = [local EXCEPT ![i].startWorklistCnt = Cardinality(worklist),
                              ![i].stopAfter = Cardinality(conf[i].lines)]
    /\ UnchangedButLocal

\* With the timeout of the user the test suite is not executed.
MeasureTestSuite(i) ==
    /\ \/ /\ ~conf[i].userTimeout
          /\ Handler(i, "MeasureTestSuite", "Error")
          /\ UNCHANGED local
       \/ /\ Handler(i, "MeasureTestSuite",
                     IF conf[i].coverage /\ ~conf[i].pullRequest
                       THEN "Coverage" ELSE "UpdateTimeout")
          /\ local' = [local EXCEPT ![i].measured = ~conf[i].userTimeout]
    /\ UnchangedButLocal

\* Up to date, gathered, or failed.
Coverage(i) ==
    /\ \E t \in {"UpdateTimeout", "PropagateCoverage", "Error"} : Handler(i, "Coverage", t)
    /\ UnchangedButPc

PropagateCoverage(i) ==
    /\ ~InTransaction
    /\ Handler(i, "PropagateCoverage", "UpdateTimeout")
    /\ \E notCovered \in SUBSET Mutant :
          /\ status' = [m \in Mutant |-> IF m \in notCovered THEN "noCoverage"
                                         ELSE IF status[m] = "noCoverage" THEN "unknown"
                                         ELSE status[m]]
          /\ worklist' = worklist \ notCovered
    /\ UNCHANGED <<timeoutWl, memOverload, fsmVars, actorVars, adminVars, local, sessionVars>>
-----------------------------------------------------------------------------
(* Executing the TimeoutFsm.                                               *)
CheckMutantsLeft(i) ==
    /\ Handler(i, "CheckMutantsLeft", "AllMutantsTested")
    /\ ExecuteBegin(i)
    /\ UNCHANGED <<actorVars, adminVars, local, sessionVars>>

UpdateTimeout(i) ==
    /\ Handler(i, "UpdateTimeout", "OverloadCheck")
    /\ ExecuteBegin(i)
    /\ UNCHANGED <<actorVars, adminVars, local, sessionVars>>

Execute(i) ==
    /\ ExecuteStep(i)
    /\ UNCHANGED <<pc, actorVars, adminVars, local, sessionVars>>

\* Mutant of AllMutantsTested: the test suite is not measured.
AllMutantsTestedNoMeasure(i) ==
    /\ fsm[i] = "Idle"
    /\ Handler(i, "AllMutantsTested", IF output[i].done THEN "Done" ELSE "UpdateTimeout")
    /\ UnchangedButPc

AllMutantsTested(i) ==
    /\ fsm[i] = "Idle"
    /\ Handler(i, "AllMutantsTested",
               IF output[i].done THEN "Done" ELSE "MeasureTestSuite")
    /\ UnchangedButPc
-----------------------------------------------------------------------------
(* The main loop.                                                          *)
OverloadCheck(i) ==
    /\ fsm[i] = "Idle"
    /\ \/ Handler(i, "OverloadCheck", "ContinuesCheckTestSuite")
       \/ conf[i].loadBehavior = "slowdown" /\ Handler(i, "OverloadCheck", "CheckStopCond")
    /\ UnchangedButPc

\* The periodic check fails: the latest results are rolled back.
RollBackLatest(i) ==
    /\ conf[i].contCheck
    /\ ~InTransaction
    /\ Handler(i, "ContinuesCheckTestSuite", "Error")
    /\ \E latest \in SUBSET Mutant :
          status' = [m \in Mutant |-> IF m \in latest THEN "unknown" ELSE status[m]]
    /\ UNCHANGED <<worklist, timeoutWl, memOverload, fsmVars, actorVars, adminVars,
                   local, sessionVars>>

\* The state that Cleanup leads to; without schemata NextSchemata only passes on.
Cleanup(i) ==
    IF conf[i].pullRequest THEN "CheckPullRequestMutant"
    ELSE IF conf[i].schema THEN "NextSchemata"
    ELSE "NextMutant"

ContinuesCheckTestSuite(i) ==
    \/ Handler(i, "ContinuesCheckTestSuite", Cleanup(i)) /\ UnchangedButPc
    \/ RollBackLatest(i)

CheckPullRequestMutant(i) ==
    /\ ~InTransaction
    /\ Handler(i, "CheckPullRequestMutant",
               IF local[i].startWorklistCnt - Cardinality(worklist) >= local[i].stopAfter
                 THEN "Done" ELSE "NextMutant")
    /\ UnchangedButPc

NextSchemata(i) ==
    LET run == IF local[i].runSchema = "first" THEN "runOnce" ELSE "done"
    IN  /\ Handler(i, "NextSchemata",
                   IF run = "runOnce" THEN "SchemataTest"
                   ELSE IF conf[i].stopAfterLastSchema THEN "Done" ELSE "NextMutant")
        /\ local' = [local EXCEPT ![i].runSchema = run]
        /\ UnchangedButLocal

\* A schema tester saves what it finds through the same actor.
SchemaResult(i) ==
    /\ pc[i] = "SchemataTest"
    /\ Len(mailbox[i]) < MaxUnsaved
    /\ \E m \in worklist \ UnsavedIds(i), st \in Outcome \ NoVerdict :
          mailbox' = [mailbox EXCEPT ![i] =
                        Append(@, Mail("save", [id |-> m, st |-> st], output[i].iter))]
    /\ UNCHANGED <<pc, local, sessionVars, tables, fsmVars, isDoneReply, savedIter, adminVars>>

SchemataTest(i) ==
    /\ \E t \in {"CheckStopCond", "Error"} : Handler(i, "SchemataTest", t)
    /\ UnchangedButPc

\* nextMutation: the mutants with the highest priority, in random order.
Candidates(i) ==
    IF conf[i].pullRequest /\ conf[i].lines \cap worklist # {}
      THEN conf[i].lines \cap worklist ELSE worklist

\* Mutant of NextMutant: what is picked is taken from the worklist.
NextMutantDequeues(i) ==
    /\ ~InTransaction
    /\ \/ /\ worklist = {}
          /\ Handler(i, "NextMutant", "CheckTimeout")
          /\ UNCHANGED <<local, worklist>>
       \/ \E m \in Candidates(i) :
            /\ Handler(i, "NextMutant", "MutationTest")
            /\ worklist' = worklist \ {m}
            /\ local' = [local EXCEPT ![i].nextMutant = m, ![i].lastTested = m]
    /\ UNCHANGED <<status, timeoutWl, memOverload, fsmVars, actorVars, adminVars, sessionVars>>

\* Picks another mutant than the last one, or after 30 s the same.
NextMutant(i) ==
    /\ ~InTransaction
    /\ \/ /\ worklist = {}
          /\ Handler(i, "NextMutant", "CheckTimeout")
          /\ local' = [local EXCEPT ![i].nextMutant = NoMutant]
       \/ \E m \in Candidates(i) :
            /\ m = local[i].lastTested => Candidates(i) = {m}
            /\ PromptSave => m \notin UnsavedIds(i)
            /\ Handler(i, "NextMutant", "MutationTest")
            /\ local' = [local EXCEPT ![i].nextMutant = m, ![i].lastTested = m]
    /\ UnchangedButLocal

\* MutationTestDriver: inject the mutant ...
MutationTest(i) ==
    /\ Handler(i, "MutationTest", "Testing")
    /\ dirty' = [dirty EXCEPT ![i] = TRUE]
    /\ UNCHANGED <<conf, scored, sessions, local, dbVars, adminVars>>

\* ... and test it; a verdict may cover other mutants that are unknown.  The file
\* is restored from what the session read at first, another one stays as it is.
Tested(i) ==
    /\ ~InTransaction
    /\ Handler(i, "Testing", "HandleTestResult")
    /\ \E st \in Outcome \ NoVerdict :
       \E covered \in IF conf[i].useSkipMutant
                        THEN SUBSET (WithStatus({"unknown"}) \ {local[i].nextMutant})
                        ELSE {{}} :
       \E d \in {FALSE, local[i].unrestored} :
          /\ local' = [local EXCEPT ![i].result =
                          {[id |-> local[i].nextMutant, st |-> st]}
                          \cup {[id |-> m, st |-> "skipped"] : m \in covered},
                       ![i].unrestored = d]
          /\ dirty' = [dirty EXCEPT ![i] = d]
    /\ UNCHANGED <<conf, scored, sessions, dbVars, adminVars>>

\* NoResultRestoreCode drops the error if the file cannot be restored.
TestedNoResult(i) ==
    /\ "noResult" \in Outcome
    /\ Handler(i, "Testing", "HandleTestResult")
    /\ \E d \in BOOLEAN :
          /\ dirty' = [dirty EXCEPT ![i] = d]
          /\ local' = [local EXCEPT ![i].unrestored = d]
    /\ UNCHANGED <<conf, scored, sessions, dbVars, adminVars>>

TestedFilesysError(i) ==
    /\ "filesysError" \in Outcome
    /\ Handler(i, "Testing", "Error")
    /\ \E d \in BOOLEAN : dirty' = [dirty EXCEPT ![i] = d]
    /\ UNCHANGED <<conf, scored, sessions, local, dbVars, adminVars>>

\* Sends the results one by one.
SendResult(i) ==
    /\ pc[i] = "HandleTestResult"
    /\ Len(mailbox[i]) < MaxUnsaved
    /\ \E r \in local[i].result :
          /\ mailbox' = [mailbox EXCEPT ![i] = Append(@, Mail("save2", r, output[i].iter))]
          /\ local' = [local EXCEPT ![i].result = @ \ {r}]
    /\ UNCHANGED <<pc, sessionVars, tables, fsmVars, isDoneReply, savedIter, adminVars>>

HandleTestResult(i) ==
    /\ local[i].result = {}
    /\ Handler(i, "HandleTestResult", "CheckStopCond")
    /\ UnchangedButPc

CheckStopCond(i) ==
    /\ \/ Handler(i, "CheckStopCond", "UpdateTimeout")
       \/ MayHalt(i) /\ Handler(i, "CheckStopCond", "Done")
    /\ UnchangedButPc

\* Mutant of CheckTimeout: an empty worklist is taken for the end.
CheckTimeoutOnce(i) == Handler(i, "CheckTimeout", "Done") /\ UnchangedButPc

CheckTimeout(i) ==
    /\ Handler(i, "CheckTimeout",
               IF conf[i].userTimeout \/ output[i].done THEN "Done" ELSE "UpdateTimeout")
    /\ UnchangedButPc
-----------------------------------------------------------------------------
(* The end of a session.                                                   *)
Done(i) ==
    /\ Handler(i, "Done", "WaitForDb")
    /\ mailbox' = [mailbox EXCEPT ![i] = Append(@, [type |-> "isDone"])]
    /\ isDoneReply' = [isDoneReply EXCEPT ![i] = "requested"]
    /\ UNCHANGED <<tables, fsmVars, savedIter, adminVars, local, sessionVars>>

WaitForDb(i) ==
    /\ isDoneReply[i] = "done" \/ ~PromptSave
    /\ Handler(i, "WaitForDb", "SaveMutationScore")
    /\ UnchangedButPc

\* Mutant of SaveMutationScore: the timeout worklist is not looked at.
SaveMutationScoreEarly(i) ==
    /\ ~InTransaction
    /\ Handler(i, "SaveMutationScore", "Stop")
    /\ scored' = [scored EXCEPT ![i] = WithStatus({"unknown"}) = {}]
    /\ UNCHANGED <<conf, dirty, sessions, local, dbVars, adminVars>>

SaveMutationScore(i) ==
    /\ ~InTransaction
    /\ Handler(i, "SaveMutationScore", "Stop")
    /\ scored' = [scored EXCEPT ![i] =
                    WithStatus({"unknown"}) = {} /\ CountTimeoutWl(timeoutWl) = 0]
    /\ UNCHANGED <<conf, dirty, sessions, local, dbVars, adminVars>>

Error(i) ==
    /\ Handler(i, "Error", "Stop")
    /\ UnchangedButPc

\* The actor and what is left in its mailbox end with the session.
Exit(i) ==
    /\ pc' = [pc EXCEPT ![i] = "NotStarted"]
    /\ mailbox' = [mailbox EXCEPT ![i] = << >>]
    /\ isDoneReply' = [isDoneReply EXCEPT ![i] = "none"]
    /\ local' = [local EXCEPT ![i] = InitLocal]
    /\ UNCHANGED <<tables, fsmVars, savedIter, adminVars, sessionVars>>

Stop(i) == pc[i] = "Stop" /\ Exit(i)

\* A signal, or exit(0) of TestStopCheck.startBgShutdown.  A transaction that
\* is open is rolled back: the exit is then as if it had come before it.
ForcedExit(i) ==
    /\ ForcedExits
    /\ pc[i] \notin {"NotStarted", "Stop"}
    /\ fsm[i] = "Idle"
    /\ Exit(i)
-----------------------------------------------------------------------------
DriverStep(i) ==
    \/ Initialize(i) \/ SanityCheck(i) \/ PreCompileSut(i)
    \/ AnalyzeTestCmdForTestCase(i) \/ UpdateAndResetAliveMutants(i) \/ ResetAlive(i)
    \/ RetestOldMutant(i) \/ AddOldMutants(i) \/ ResetTimeoutContext(i)
    \/ PullRequest(i) \/ CountWorklist(i)
    \/ MeasureTestSuite(i) \/ Coverage(i) \/ PropagateCoverage(i)
    \/ CheckMutantsLeft(i) \/ UpdateTimeout(i) \/ Execute(i) \/ AllMutantsTested(i)
    \/ OverloadCheck(i) \/ ContinuesCheckTestSuite(i)
    \/ CheckPullRequestMutant(i) \/ NextSchemata(i) \/ SchemataTest(i)
    \/ NextMutant(i) \/ MutationTest(i) \/ Tested(i) \/ TestedNoResult(i)
    \/ TestedFilesysError(i) \/ SendResult(i) \/ HandleTestResult(i) \/ CheckStopCond(i)
    \/ CheckTimeout(i) \/ Done(i) \/ WaitForDb(i) \/ SaveMutationScore(i)
    \/ Error(i) \/ Stop(i)

ActorStep(i) ==
    /\ DbActorStep(i)
    /\ UNCHANGED <<pc, local, sessionVars, adminVars>>

NoSession == \A i \in Instance : pc[i] = "NotStarted"

\* analyze needs the source code as it is, without a mutant in it.
UserStep ==
    /\ \/ AdminStep /\ (AdminWhileTesting \/ NoSession)
       \/ Analyze /\ NoSession
    /\ UNCHANGED <<pc, local, sessionVars, actorVars>>

Next ==
    \/ \E i \in Instance : StartSession(i) \/ DriverStep(i) \/ SchemaResult(i)
                           \/ ActorStep(i) \/ ForcedExit(i)
    \/ UserStep

Init ==
    /\ status = [m \in Mutant |-> "unknown"]
    /\ worklist = {}
    /\ timeoutWl = ClearedTimeoutWl
    /\ memOverload = {}
    /\ FsmInit
    /\ DbActorInit
    /\ AdminInit
    /\ pc = [i \in Instance |-> "NotStarted"]
    /\ conf \in [Instance -> Config]
    /\ local = [i \in Instance |-> InitLocal]
    /\ dirty = [i \in Instance |-> FALSE]
    /\ scored = [i \in Instance |-> FALSE]
    /\ sessions = 0

Spec == Init /\ [][Next]_vars

DriverTypeOK ==
    /\ pc \in [Instance -> State]
    /\ conf \in [Instance -> Config]
    /\ local \in [Instance -> LocalType]
    /\ dirty \in [Instance -> BOOLEAN]
    /\ scored \in [Instance -> BOOLEAN]
    /\ sessions \in 0 .. MaxSessions

TypeOK == FsmTypeOK /\ DbActorTypeOK /\ AdminTypeOK /\ DriverTypeOK

\* The driver runs on, and the actor gets through to the database: spinSql
\* retries a transaction until it does, however often the driver is faster.
Fairness ==
    \A i \in Instance : WF_vars(DriverStep(i)) /\ SF_vars(ActorStep(i))

FairSpec == Spec /\ Fairness
-----------------------------------------------------------------------------
(* Safety.                                                                 *)

MainLoop == {"UpdateTimeout", "OverloadCheck", "ContinuesCheckTestSuite",
             "CheckPullRequestMutant", "NextSchemata", "SchemataTest", "NextMutant", "MutationTest", "Testing",
             "HandleTestResult", "CheckStopCond", "CheckTimeout"}

\* When the TimeoutFsm (opCall(Purge)) compares the size of the timeout worklist
\* with that of the round before, every row in it stands for a mutant that
\* updateMutantStatus has been called for in this round.
PurgedAreCurrent ==
    \A i \in Instance : fsm[i] \in {"PurgeChanged", "PurgeSame"} =>
        \A m \in Mutant : timeoutWl[m] \in {NotListed, ctx.iter}

\* When the timeout is raised (opCall(UpdateCtx)), every mutant of the timeout
\* worklist is queued to be tested with it: copyMutantTimeoutWorklist(ctx.iter)
\* has missed none.
RaisedRoundIsComplete ==
    \A i \in Instance : fsm[i] = "UpdateCtx" =>
        \A m \in Mutant : timeoutWl[m] # NotListed => m \in worklist

\* When the timeout algorithm has ended (ctx.state is done), no mutant is left
\* with a timeout that was only seen with the shortest timeout, the one of
\* iteration 0: each was tested again with a longer one.
TimeoutsAreConfirmed ==
    ctx.state = "done" =>
        \A m \in Mutant : status[m] = "timeout" => savedIter[m] >= 1

\* Until the timeout algorithm has ended, a timeout that was only seen with the
\* first timeout stands in the timeout worklist, whatever the sessions on the
\* database do: updateMutantStatus and reduceMutantTimeoutWorklist lose none.
UnconfirmedIsListed ==
    ctx.state # "done" /\ ~InTransaction =>
        \A m \in Mutant : status[m] = "timeout" /\ savedIter[m] = 0
                            => timeoutWl[m] # NotListed

\* No row of the timeout worklist is ahead of the round that is running: the
\* iteration that updateMutantStatus writes comes from a session's copy of it,
\* and copyMutantTimeoutWorklist would not find a row that is ahead.
RowsNotAhead ==
    ctx.state = "running" => \A m \in Mutant : timeoutWl[m] <= ctx.iter

\* A session that ends because nothing is left to test (CheckTimeout goes to
\* Done) leaves, whatever other sessions on the database do, no mutant unknown
\* and none queued.
FinishedNothingLeft ==
    [][\A i \in Instance :
          pc[i] = "CheckTimeout" /\ pc'[i] = "Done" /\ ~conf[i].userTimeout =>
            NoUnknown]_vars

\* While a session tests, a mutant without a result is queued.  NextMutant takes
\* mutants from the worklist and TimeoutFsm.step waits for the unknown ones: one
\* that is not queued would keep the session going with nothing to test.
UnknownIsQueued ==
    (\E i \in Instance : pc[i] \in MainLoop) => WithStatus({"unknown"}) \subseteq worklist

\* A result that is still in the mailbox of the DbActor, where a crash or a
\* forced exit loses it, belongs to a mutant that is queued, so that the next
\* session tests it again: save removes it from the worklist, NextMutant not.
UnsavedIsQueued ==
    \A i \in Instance : UnsavedIds(i) \subseteq worklist

\* The timeout that a mutant is tested with, by MutationTest or SchemataTest, stands
\* for something: MeasureTestSuite has seen the test suite of this session pass and
\* has timed it, or the timeout is the user's, and then nobody has executed the suite.
MeasuredBeforeTesting ==
    \A i \in Instance : pc[i] \in {"MutationTest", "SchemataTest"} =>
        local[i].measured \/ conf[i].userTimeout

\* A mutant is only injected (MutateCode) into source code that holds no other
\* mutant.
CleanBaseline ==
    \A i \in Instance : pc[i] = "MutationTest" => ~dirty[i]

\* If it is injected into source code that holds another one, then this very session
\* has failed to restore that one after a test without a result (source_mutant.d:
\* 238-241): what a crash, an error or an earlier session left behind is found by the
\* checksums of SanityCheck, unless Initialize skips it (see CleanBaseline).
DirtIsOwn ==
    \A i \in Instance : pc[i] = "MutationTest" /\ dirty[i] => local[i].unrestored

\* A session that ends because nothing is left to test (CheckTimeout goes to
\* Done) leaves no mutant without a result, nothing queued, no timeout to
\* confirm, no memory overload to retest and no result in its mailbox.
FinishedIsComplete ==
    [][\A i \in Instance :
          pc[i] = "CheckTimeout" /\ pc'[i] = "Done" /\ ~conf[i].userTimeout =>
            /\ NoUnknown
            /\ timeoutWl = ClearedTimeoutWl
            /\ memOverload = {}
            /\ Unsaved(i) = {}]_vars

\* A session for a pull request only tests the mutants of the pull request:
\* CheckPullRequestMutant stops it before NextMutant picks another one.
PullRequestOnly ==
    \A i \in Instance : conf[i].pullRequest =>
        local[i].nextMutant \in conf[i].lines \cup {NoMutant}

\* The DbActor answers IsDone when every result sent before it has been saved.
DoneMeansSaved ==
    \A i \in Instance : isDoneReply[i] = "done" => Unsaved(i) = {}

\* SaveMutationScore does not sample the score while a timeout has yet to be
\* confirmed: such a mutant may still turn out to be alive.
ScoreIsFinal ==
    [][\A i \in Instance : ~scored[i] /\ scored'[i] /\ ~conf[i].userTimeout =>
          \A m \in Mutant : status[m] = "timeout" => savedIter[m] >= 1]_vars

\* What is on its way to the database was tested in the round that is running:
\* the TimeoutFsm copied into a message (saveTestResult) is as the database has
\* it when the result is saved.
ResultsAreCurrent ==
    ~InTransaction => \A i \in Instance : \A k \in Unsaved(i) :
        mailbox[i][k].iter = ctx.iter

\* A result of another round than the one that is running changes no status
\* (updateMutantStatus compares the local iteration with the one in the database).
StaleResultIsDropped ==
    [][\A i \in Instance, m \in Mutant :
          ctx.state = "running" /\ HasMail(i, "save") /\ Received(i).iter # ctx.iter
          /\ mailbox'[i] = Tail(mailbox[i])
            => status'[m] = status[m]]_vars

-----------------------------------------------------------------------------
(* Liveness.                                                               *)

\* Every session ends: the loop of CheckTimeout, UpdateTimeout and NextMutant is
\* left at last.
Terminates ==
    \A i \in Instance : pc[i] # "NotStarted" ~> pc[i] = "NotStarted"

\* A session that tests everything, and that nothing stops early, gives every
\* mutant a result: what the main loop finds unknown does not stay so.
EveryMutantIsTested ==
    \A i \in Instance, m \in Mutant :
        pc[i] \in MainLoop /\ ~MayHalt(i) /\ ~conf[i].pullRequest /\ status[m] = "unknown"
            ~> status[m] # "unknown"
=============================================================================
