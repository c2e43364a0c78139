----------------------------- MODULE RoundProofs -----------------------------
(***************************************************************************)
(* The rounds of the timeout algorithm (timeout.d): no timeout is missed   *)
(* by a round, lost, or left unconfirmed, and a session that ends because  *)
(* nothing is left to test has left nothing.                               *)
(***************************************************************************)
EXTENDS TestDriverProofs

\* One session at a time, that is not halted, whose SQL statements succeed and
\* that does not test old mutants again; between sessions the user changes the
\* statuses of mutants but makes none a timeout, stops no timeout test, empties
\* no worklist and does not analyze.
Steady ==
    /\ Undisturbed /\ NeverHalted
    /\ Instance # {}
    /\ ~SqlMayFail
    /\ \A c \in Config : ~c.retestOld
    /\ AdminOperation \subseteq {"resetMutant", "markMutant", "removeMarkedMutant"}
    /\ "timeout" \notin AdminStatus

\* The states after CheckMutantsLeft has executed the TimeoutFsm.
Measuring == {"MeasureTestSuite", "Coverage", "PropagateCoverage"}
Entered == {"AllMutantsTested"} \cup Measuring \cup MainLoop

\* Only RetestOldMutant leads to these.
Retesting == {"RetestOldMutant", "AddOldMutants", "ResetTimeoutContext"}

Listed == {m \in Mutant : timeoutWl[m] # NotListed}

\* What a session knows of the TimeoutFsm is what the database knows: nobody has
\* changed the context since the session executed the machine.
SessionInv ==
    \A i \in Instance :
        /\ fsm[i] # "Idle" => pc[i] \in {"AllMutantsTested", "OverloadCheck"}
        /\ pc[i] \notin Retesting
        /\ pc[i] \in Entered => (output[i].done <=> ctx.state = "done")
        /\ pc[i] \in Entered /\ fsm[i] = "Idle" => output[i].iter = ctx.iter
        /\ pc[i] \in Measuring => ctx.state # "done"

\* How the state of the machine and the context go together.
ContextInv ==
    /\ ctx.iter = 0 => ctx.worklistCount = 0
    /\ \A i \in Instance :
          /\ ctx.state # "running" /\ fsm[i] # "UpdateCtx" => ctx.iter = 0
          /\ fsm[i] = "Init" => ctx.state = "init_"
          /\ fsm[i] = "ResetWorkList" => ctx.state # "done"
          /\ fsm[i] = "UpdateCtx" => ctx.state # "done" /\ ctx.iter > 0
          /\ fsm[i] \in {"Running", "PurgeChanged", "PurgeSame", "ClearWorkList"} =>
                ctx.state = "running"
          /\ fsm[i] = "Done" => ctx.state = "done"

\* A row of the timeout worklist is the iteration its mutant was last tested in;
\* one of an earlier round is queued to be tested in this one; and what is seen
\* to time out in iteration 0 stays listed until it is tested in a later one.
RowInv ==
    \A m \in Mutant :
        /\ timeoutWl[m] # NotListed => savedIter[m] = timeoutWl[m]
        /\ timeoutWl[m] <= ctx.iter
        /\ timeoutWl[m] \notin {NotListed, ctx.iter} /\ status[m] = "timeout" => m \in worklist
        /\ status[m] = "timeout" /\ savedIter[m] = 0 =>
              /\ timeoutWl[m] # NotListed
              /\ ctx.state # "done"
              /\ \A i \in Instance : fsm[i] # "ClearWorkList"

\* What the machine has established inside its transaction.
StepInv ==
    \A i \in Instance :
        /\ fsm[i] \in {"PurgeChanged", "PurgeSame", "ResetWorkList"} =>
              \A m \in Listed : timeoutWl[m] = ctx.iter
        /\ fsm[i] = "PurgeSame" => Cardinality(Listed) = ctx.worklistCount
        /\ fsm[i] \in {"ResetWorkList", "UpdateCtx"} => Listed \subseteq worklist
        /\ fsm[i] = "ClearWorkList" => Listed = {} /\ memOverload = {}
        /\ fsm[i] \in {"ResetWorkList", "PurgeChanged", "PurgeSame", "ClearWorkList"} =>
              IdsIn(mailbox[i]) = {}

\* Every result in s was measured in iteration k.
MeasuredIn(s, k) == \A n \in 1 .. Len(s) : IsResult(s[n]) => s[n].iter = k

\* Results on their way are of this round; there are none when all is done.
MailInv ==
    \A i \in Instance :
        /\ MeasuredIn(mailbox[i], ctx.iter)
        /\ ctx.state = "done" => IdsIn(mailbox[i]) = {}

\* A main loop that goes on after the algorithm has ended has nothing to do.
DoneInv ==
    \A i \in Instance :
        pc[i] \in MainLoop /\ ctx.state = "done" =>
            /\ Listed = {} /\ memOverload = {}
            /\ fsm[i] = "Idle" => NoUnknown

RoundInv == SessionInv /\ ContextInv /\ RowInv /\ StepInv /\ MailInv /\ DoneInv
-----------------------------------------------------------------------------
\* There is one instance, so its machine is in the transaction or nobody's is.
LEMMA Alone ==
    ASSUME Undisturbed, NEW i \in Instance
    PROVE  /\ \A j \in Instance : j = i
           /\ InTransaction <=> fsm[i] # "Idle"
BY DEF Undisturbed, InTransaction

\* The values of the tables and of the context, one by one.
LEMMA ValuesTyped ==
    ASSUME Inv
    PROVE  /\ ctx.iter \in Nat /\ ctx.worklistCount \in Nat
           /\ ctx.state \in {"init_", "running", "done"}
           /\ \A m \in Mutant : /\ timeoutWl[m] \in Nat \cup {NotListed}
                                /\ savedIter[m] \in Nat
                                /\ status[m] \in Status
BY IterationsAssumption
DEF Inv, DbActorInv, DbActorTypeOK, FsmInv, FsmTypeOK, Iteration

\* COUNT(*) of the timeout worklist is 0 when it is empty, and only then.
LEMMA CountIsZero ==
    Cardinality(Listed) = CountTimeoutWl(timeoutWl)
    /\ (Cardinality(Listed) = 0 <=> Listed = {})
<1>1. IsFiniteSet(Listed)
  <2>1. Listed \in SUBSET Mutant
    BY DEF Listed
  <2>2. QED
    BY <2>1, MutantAssumption, FS_Subset
<1>2. QED
  BY <1>1, FS_EmptySet DEF CountTimeoutWl, Listed

\* A mailbox without results has none of any iteration.
LEMMA NoResults ==
    ASSUME NEW s \in Seq(Message), IdsIn(s) = {}, NEW k
    PROVE  MeasuredIn(s, k)
BY DEF IdsIn, MeasuredIn

\* One more message, one fewer, or one that moves to the end.
LEMMA MeasuredInAppend ==
    ASSUME NEW s \in Seq(Message), NEW e \in Message, NEW k, MeasuredIn(s, k),
           IsResult(e) => e.iter = k
    PROVE  MeasuredIn(Append(s, e), k)
BY AppendProperties DEF MeasuredIn

\* What is left of a mailbox when its first message is taken is still measured.
LEMMA MeasuredInTail ==
    ASSUME NEW s \in Seq(Message), s # << >>, NEW k, MeasuredIn(s, k)
    PROVE  MeasuredIn(Tail(s), k) /\ (IsResult(Head(s)) => Head(s).iter = k)
<1>1. /\ Len(Tail(s)) = Len(s) - 1 /\ Len(s) \in Nat /\ Len(s) >= 1
      /\ \A n \in 1 .. Len(Tail(s)) : Tail(s)[n] = s[n + 1]
      /\ Head(s) = s[1]
  BY HeadTailProperties
<1>2. QED
  BY <1>1 DEF MeasuredIn
-----------------------------------------------------------------------------
\* A transition that does not lead back: the machine rests, the states of the
\* old mutants are not entered, and MeasureTestSuite only by a session that has
\* something left to test.
Onward(i) ==
    \E s, t \in State :
        /\ Handler(i, s, t)
        /\ s \in {"AllMutantsTested", "OverloadCheck"} => fsm[i] = "Idle"
        /\ t \notin Retesting \cup {"AllMutantsTested"}
        /\ t \in Measuring => s \in Measuring \/ (s = "AllMutantsTested" /\ ~output[i].done)
        /\ t \in MainLoop => s \in MainLoop \cup Measuring

\* Such a transition, when the machine and the context stand still, keeps the
\* session's knowledge of them.
LEMMA OnwardSession ==
    ASSUME Undisturbed, Inv, SessionInv, NEW i \in Instance, Onward(i), UNCHANGED fsmVars
    PROVE  SessionInv' /\ fsm[i] = "Idle"
<1>1. PICK s, t \in State :
        /\ Handler(i, s, t)
        /\ s \in {"AllMutantsTested", "OverloadCheck"} => fsm[i] = "Idle"
        /\ t \notin Retesting \cup {"AllMutantsTested"}
        /\ t \in Measuring => s \in Measuring \/ (s = "AllMutantsTested" /\ ~output[i].done)
        /\ t \in MainLoop => s \in MainLoop \cup Measuring
  BY DEF Onward
<1>2. pc[i] = s /\ pc'[i] = t /\ \A j \in Instance : j = i
  BY <1>1, Alone DEF Handler, Inv, DriverTypeOK
<1>3. fsm[i] = "Idle"
  BY <1>1, <1>2 DEF SessionInv
<1>4. UNCHANGED <<ctx, fsm, output>>
  BY DEF fsmVars
<1>5. s \in Entered /\ t \in Measuring => ctx.state # "done"
  BY <1>1, <1>2 DEF SessionInv, Entered
<1>6. t \in Measuring => s \in Entered
  BY <1>1 DEF Entered
<1>7. t \in Entered => s \in Entered
  BY <1>1 DEF Entered
<1>8. QED
  BY <1>1, <1>2, <1>3, <1>4, <1>5, <1>6, <1>7 DEF SessionInv

\* Outside the transaction no step of the machine is to be remembered.
LEMMA IdleStep ==
    ASSUME Undisturbed, NEW i \in Instance, fsm[i] = "Idle", UNCHANGED fsm
    PROVE  StepInv'
BY Alone DEF StepInv

\* A handler that leaves the tables and the mailbox alone.
LEMMA QuietRound ==
    ASSUME Steady, Inv, RoundInv, NEW i \in Instance, Onward(i),
           UNCHANGED <<tables, fsmVars, mailbox, savedIter>>
    PROVE  RoundInv'
<1>1. Undisturbed
  BY DEF Steady
<1>2. SessionInv' /\ fsm[i] = "Idle"
  BY <1>1, OnwardSession DEF RoundInv
<1>3. UNCHANGED <<status, worklist, timeoutWl, memOverload, ctx, fsm, output>>
  BY DEF tables, fsmVars
<1>4. ContextInv' /\ RowInv' /\ MailInv'
  BY <1>3 DEF RoundInv, ContextInv, RowInv, MailInv
<1>5. StepInv'
  BY <1>1, <1>2, <1>3, IdleStep
<1>6. DoneInv'
  <2>1. pc'[i] \in MainLoop /\ ctx.state = "done" => pc[i] \in MainLoop
    BY DEF Onward, Handler, Inv, DriverTypeOK, RoundInv, SessionInv
  <2>2. Listed' = Listed /\ NoUnknown' = NoUnknown
    BY <1>3 DEF Listed, NoUnknown, WithStatus
  <2>3. QED
    BY <1>1, <1>3, <2>1, <2>2, Alone DEF RoundInv, DoneInv
<1>7. QED
  BY <1>2, <1>4, <1>5, <1>6 DEF RoundInv

\* A handler, or the user, that changes statuses and rows outside the
\* transaction: it makes no mutant a timeout, and it takes no row away and no
\* mutant from the worklist but of a mutant that is none.
LEMMA TablesRound ==
    ASSUME Steady, Inv, RoundInv, NEW i \in Instance, SessionInv', fsm[i] = "Idle",
           UNCHANGED <<fsmVars, mailbox, savedIter>>,
           pc'[i] \in MainLoop => ctx.state # "done",
           \A m \in Mutant :
              /\ status'[m] = "timeout" => status[m] = "timeout"
              /\ timeoutWl'[m] = timeoutWl[m]
                 \/ (timeoutWl'[m] = NotListed /\ status'[m] # "timeout")
              /\ m \in worklist \ worklist' => status'[m] # "timeout"
    PROVE  RoundInv'
<1>1. Undisturbed /\ \A j \in Instance : j = i
  BY Alone DEF Steady
<1>2. UNCHANGED <<ctx, fsm, output>>
  BY DEF fsmVars
<1>3. ContextInv' /\ MailInv'
  BY <1>2 DEF RoundInv, ContextInv, MailInv
<1>4. StepInv'
  BY <1>1, <1>2, IdleStep
<1>5. RowInv'
  <2>1. NotListed <= ctx.iter
    BY ValuesTyped DEF NotListed
  <2>2. QED
    BY <1>2, <2>1 DEF RoundInv, RowInv
<1>6. DoneInv'
  BY <1>1, <1>2 DEF DoneInv
<1>7. QED
  BY <1>3, <1>4, <1>5, <1>6 DEF RoundInv
-----------------------------------------------------------------------------
\* Sessions that retest no old mutant and are not halted before they start.
LEMMA SteadyConfig ==
    ASSUME Steady, Inv, NEW i \in Instance
    PROVE  ~conf[i].retestOld /\ conf[i].loadBehavior # "halt" /\ AfterReset(i) = "CheckMutantsLeft"
BY DEF Steady, NeverHalted, Inv, DriverTypeOK, AfterReset

\* The handlers that only choose the next state go onward.
LEMMA PcActionOnward ==
    ASSUME Steady, Inv, RoundInv, NEW i \in Instance, PcAction(i) PROVE Onward(i)
<1> USE DEF Onward, State, Retesting, Measuring, MainLoop
<1>1. CASE SanityCheck(i) \/ AnalyzeTestCmdForTestCase(i)
  BY <1>1 DEF SanityCheck, AnalyzeTestCmdForTestCase
<1>2. CASE PreCompileSut(i)
  BY <1>2, SteadyConfig DEF PreCompileSut, ChooseMode
<1>3. CASE RetestOldMutant(i)
  BY <1>3 DEF RetestOldMutant, Handler, RoundInv, SessionInv
<1>4. CASE Coverage(i)
  BY <1>4 DEF Coverage
<1>5. CASE AllMutantsTested(i)
  BY <1>5 DEF AllMutantsTested
<1>6. CASE OverloadCheck(i) \/ Handler(i, "ContinuesCheckTestSuite", Cleanup(i))
  BY <1>6 DEF OverloadCheck, Cleanup
<1>7. CASE CheckPullRequestMutant(i) \/ SchemataTest(i) \/ CheckTimeout(i)
  BY <1>7 DEF CheckPullRequestMutant, SchemataTest, CheckTimeout
<1>8. CASE HandleTestResult(i) \/ CheckStopCond(i) \/ WaitForDb(i) \/ Error(i)
  BY <1>8 DEF HandleTestResult, CheckStopCond, WaitForDb, Error
<1>9. QED
  BY <1>1, <1>2, <1>3, <1>4, <1>5, <1>6, <1>7, <1>8 DEF PcAction

\* They change nothing else.
LEMMA PcActionRound ==
    ASSUME Steady, Inv, RoundInv, NEW i \in Instance, PcAction(i) PROVE RoundInv'
BY PcActionFrame, PcActionOnward, QuietRound DEF UnchangedButPc, dbVars, actorVars

\* Nor do those that keep something between visits ...
LEMMA LocalActionRound ==
    ASSUME Steady, Inv, RoundInv, NEW i \in Instance, LocalAction(i) PROVE RoundInv'
<1>1. Onward(i)
  <2> USE DEF Onward, State, Retesting, Measuring, MainLoop
  <2>1. CASE CountWorklist(i)
    BY <2>1 DEF CountWorklist
  <2>2. CASE MeasureTestSuite(i)
    BY <2>2 DEF MeasureTestSuite
  <2>3. CASE NextSchemata(i)
    BY <2>3 DEF NextSchemata
  <2>4. CASE NextMutant(i)
    BY <2>4 DEF NextMutant
  <2>5. QED
    BY <2>1, <2>2, <2>3, <2>4 DEF LocalAction
<1>2. UNCHANGED <<tables, fsmVars, mailbox, savedIter>>
  BY DEF LocalAction, CountWorklist, MeasureTestSuite, NextSchemata, NextMutant,
         UnchangedButLocal, dbVars, actorVars
<1>3. QED
  BY <1>1, <1>2, QuietRound

\* ... nor the test of a mutant, which only finds its result.
LEMMA RestOfSessionRound ==
    ASSUME Steady, Inv, RoundInv, NEW i \in Instance, RestOfSession(i) PROVE RoundInv'
<1>1. Onward(i)
  BY DEF RestOfSession, StartSession, MutationTest, Tested, TestedNoResult,
         TestedFilesysError, SaveMutationScore, Onward, State, Retesting, Measuring, MainLoop
<1>2. UNCHANGED <<tables, fsmVars, mailbox, savedIter>>
  BY DEF RestOfSession, StartSession, MutationTest, Tested, TestedNoResult,
         TestedFilesysError, SaveMutationScore, dbVars, actorVars
<1>3. QED
  BY <1>1, <1>2, QuietRound

\* The handlers that change the tables queue mutants and forget verdicts.
LEMMA TableActionRound ==
    ASSUME Steady, Inv, RoundInv, NEW i \in Instance, TableAction(i) PROVE RoundInv'
<1>1. Onward(i)
  <2> USE DEF Onward, State, Retesting, Measuring, MainLoop
  <2>1. CASE Initialize(i)
    BY <2>1, SteadyConfig DEF Initialize
  <2>2. CASE UpdateAndResetAliveMutants(i)
    BY <2>2 DEF UpdateAndResetAliveMutants
  <2>3. CASE ResetAlive(i)
    BY <2>3, SteadyConfig DEF ResetAlive
  <2>4. CASE AddOldMutants(i)
    BY <2>4 DEF AddOldMutants, Handler, RoundInv, SessionInv
  <2>5. CASE PullRequest(i) \/ PropagateCoverage(i) \/ RollBackLatest(i)
    BY <2>5 DEF PullRequest, PropagateCoverage, RollBackLatest
  <2>6. QED
    BY <2>1, <2>2, <2>3, <2>4, <2>5 DEF TableAction
<1>2. UNCHANGED <<fsmVars, mailbox, savedIter>>
  BY DEF TableAction, Initialize, UpdateAndResetAliveMutants, ResetAlive, AddOldMutants,
         PullRequest, PropagateCoverage, RollBackLatest, UnchangedButWorklist, actorVars
<1>3. SessionInv' /\ fsm[i] = "Idle"
  BY <1>1, <1>2, OnwardSession DEF Steady, RoundInv
<1>4. pc'[i] \in MainLoop => ctx.state # "done"
  <2>1. PropagateCoverage(i) => pc[i] \in Measuring
    BY DEF PropagateCoverage, Handler, Measuring
  <2>2. CASE PropagateCoverage(i)
    BY <2>1, <2>2 DEF RoundInv, SessionInv
  <2>3. CASE ~PropagateCoverage(i)
    <3>1. pc \in [Instance -> State]
      BY DEF Inv, DriverTypeOK
    <3>2. pc'[i] \notin MainLoop
      BY <2>3, <3>1, SteadyConfig
      DEF TableAction, Initialize, UpdateAndResetAliveMutants, ResetAlive, AddOldMutants,
          PullRequest, RollBackLatest, Handler, MainLoop
    <3>3. QED
      BY <3>2
  <2>4. QED
    BY <2>2, <2>3
<1>5. TablesTyped
  BY InvTables
<1>6. \A m \in Mutant :
        /\ status'[m] = "timeout" => status[m] = "timeout"
        /\ timeoutWl'[m] = timeoutWl[m]
           \/ (timeoutWl'[m] = NotListed /\ status'[m] # "timeout")
        /\ m \in worklist \ worklist' => status'[m] # "timeout"
  <2>1. CASE Initialize(i)
    BY <1>5, <2>1 DEF Initialize, ReducedTimeoutWl
  <2>2. CASE UpdateAndResetAliveMutants(i)
    BY <1>5, <2>2 DEF UpdateAndResetAliveMutants
  <2>3. CASE ResetAlive(i) \/ AddOldMutants(i) \/ PullRequest(i)
    BY <1>5, <2>3 DEF ResetAlive, AddOldMutants, PullRequest, UnchangedButWorklist
  <2>4. CASE PropagateCoverage(i) \/ RollBackLatest(i)
    BY <1>5, <2>4 DEF PropagateCoverage, RollBackLatest
  <2>5. QED
    BY <2>1, <2>2, <2>3, <2>4 DEF TableAction
<1>7. QED
  BY <1>2, <1>3, <1>4, <1>6, TablesRound

\* The user changes statuses when no session runs.
LEMMA UserStepRound ==
    ASSUME Steady, Inv, RoundInv, UserStep, NEW i \in Instance PROVE RoundInv'
<1>1. ResetMutant \/ MarkMutant \/ RemoveMarkedMutant
  BY DEF UserStep, AdminStep, Steady, StopTimeoutTest, ClearWorklist, Analyze, Perform
<1>2. /\ UNCHANGED <<worklist, timeoutWl, memOverload, fsmVars>> /\ ~InTransaction
      /\ UNCHANGED <<pc, mailbox, savedIter>> /\ NoSession
  BY <1>1 DEF ResetMutant, MarkMutant, RemoveMarkedMutant, Perform, UserStep, actorVars,
              Steady, Undisturbed
<1>3. fsm[i] = "Idle"
  BY <1>2 DEF InTransaction
<1>4. SessionInv'
  BY <1>2 DEF RoundInv, SessionInv, fsmVars
<1>5. pc'[i] \notin MainLoop
  BY <1>2 DEF NoSession, MainLoop
<1>6. \A m \in Mutant : status'[m] = "timeout" => status[m] = "timeout"
  BY <1>1, InvTables DEF ResetMutant, MarkMutant, RemoveMarkedMutant, Steady, TablesTyped
<1>7. QED
  BY <1>2, <1>3, <1>4, <1>5, <1>6, TablesRound
-----------------------------------------------------------------------------
\* A step outside the transaction that changes what is on its way.
LEMMA MailRound ==
    ASSUME Steady, Inv, RoundInv, NEW i \in Instance, SessionInv', fsm[i] = "Idle",
           UNCHANGED <<tables, fsmVars, savedIter>>,
           pc'[i] \in MainLoop => pc[i] \in MainLoop,
           MeasuredIn(mailbox'[i], ctx.iter),
           ctx.state = "done" => IdsIn(mailbox'[i]) = {}
    PROVE  RoundInv'
<1>1. Undisturbed /\ \A j \in Instance : j = i
  BY Alone DEF Steady
<1>2. UNCHANGED <<status, worklist, timeoutWl, memOverload, ctx, fsm, output>>
  BY DEF tables, fsmVars
<1>3. ContextInv' /\ RowInv' /\ MailInv'
  BY <1>1, <1>2 DEF RoundInv, ContextInv, RowInv, MailInv
<1>4. StepInv'
  BY <1>1, <1>2, IdleStep
<1>5. DoneInv'
  <2>1. Listed' = Listed /\ NoUnknown' = NoUnknown
    BY <1>2 DEF Listed, NoUnknown, WithStatus
  <2>2. QED
    BY <1>1, <1>2, <2>1 DEF RoundInv, DoneInv
<1>6. QED
  BY <1>3, <1>4, <1>5 DEF RoundInv

\* A session that sends a result is in the round in which it was measured, and
\* that round is not over: the mutant of the result is queued.
LEMMA SenderIsCurrent ==
    ASSUME Steady, Inv, RoundInv, NEW i \in Instance,
           pc[i] \in {"SchemataTest", "HandleTestResult"}, worklist # {}
    PROVE  fsm[i] = "Idle" /\ output[i].iter = ctx.iter /\ ctx.state # "done"
<1>1. fsm[i] = "Idle" /\ output[i].iter = ctx.iter
  BY DEF RoundInv, SessionInv, Entered, MainLoop
<1>2. ctx.state = "done" => NoUnknown
  BY <1>1 DEF RoundInv, DoneInv, MainLoop
<1>3. QED
  BY <1>1, <1>2 DEF NoUnknown

\* A mail of a result is about the iteration it was sent with.
LEMMA MailIter ==
    ASSUME NEW type, NEW r, NEW k PROVE Mail(type, r, k).iter = k
BY DEF Mail

\* Sending and the end of the actor.
LEMMA MailActionRound ==
    ASSUME Steady, Inv, QueueInv, RoundInv, NEW i \in Instance, MailAction(i)
    PROVE  RoundInv'
<1>1. /\ mailbox \in [Instance -> Seq(Message)] /\ mailbox[i] \in Seq(Message)
      /\ pc \in [Instance -> State] /\ output[i].iter \in Iteration
      /\ local[i].result \subseteq [id : Mutant, st : Status]
  BY DEF Inv, DriverTypeOK, DbActorInv, DbActorTypeOK, FsmInv, FsmTypeOK, LocalType
<1>2. UNCHANGED <<tables, fsmVars, savedIter>>
  BY DEF MailAction, SchemaResult, SendResult, Done, Stop, ForcedExit, Exit
<1>3. MeasuredIn(mailbox[i], ctx.iter) /\ (ctx.state = "done" => IdsIn(mailbox[i]) = {})
      /\ OnceIn(mailbox[i]) /\ Undisturbed
  BY DEF RoundInv, MailInv, QueueInv, Steady
<1>4. UNCHANGED pc => SessionInv'
  BY <1>2 DEF RoundInv, SessionInv, fsmVars
<1>5. CASE SchemaResult(i)
  <2>1. PICK m \in worklist \ UnsavedIds(i), st \in Outcome \ NoVerdict :
           mailbox' = [mailbox EXCEPT ![i] =
                         Append(@, Mail("save", [id |-> m, st |-> st], output[i].iter))]
    BY <1>5 DEF SchemaResult
  <2> DEFINE msg == Mail("save", [id |-> m, st |-> st], output[i].iter)
  <2>2. m \in Mutant /\ st \in Status
    BY InvTables, TestDriverAssumption DEF TablesTyped
  <2>3. msg \in Message
    BY <1>1, <2>2, MailType
  <2>4. UNCHANGED pc /\ pc[i] = "SchemataTest" /\ worklist # {}
    BY <1>5 DEF SchemaResult
  <2>5. fsm[i] = "Idle" /\ msg.iter = ctx.iter /\ ctx.state # "done"
    BY <2>4, SenderIsCurrent, MailIter
  <2>6. mailbox'[i] = Append(mailbox[i], msg)
    BY <1>1, <2>1
  <2> HIDE DEF msg
  <2>7. MeasuredIn(mailbox'[i], ctx.iter)
    BY <1>1, <1>3, <2>3, <2>5, <2>6, MeasuredInAppend
  <2>8. QED
    BY <1>2, <1>4, <2>4, <2>5, <2>7, MailRound
<1>6. CASE SendResult(i)
  <2>1. PICK r \in local[i].result :
           mailbox' = [mailbox EXCEPT ![i] = Append(@, Mail("save2", r, output[i].iter))]
    BY <1>6 DEF SendResult
  <2> DEFINE msg == Mail("save2", r, output[i].iter)
  <2>2. msg \in Message
    BY <1>1, MailType
  <2>3. UNCHANGED pc /\ pc[i] = "HandleTestResult"
    BY <1>6 DEF SendResult
  <2>4. worklist # {}
    BY DEF QueueInv
  <2>5. fsm[i] = "Idle" /\ msg.iter = ctx.iter /\ ctx.state # "done"
    BY <2>3, <2>4, SenderIsCurrent, MailIter
  <2>6. mailbox'[i] = Append(mailbox[i], msg)
    BY <1>1, <2>1
  <2> HIDE DEF msg
  <2>7. MeasuredIn(mailbox'[i], ctx.iter)
    BY <1>1, <1>3, <2>2, <2>5, <2>6, MeasuredInAppend
  <2>8. QED
    BY <1>2, <1>4, <2>3, <2>5, <2>7, MailRound
<1>7. CASE Done(i)
  <2> DEFINE msg == [type |-> "isDone"]
  <2>1. msg \in Message /\ ~IsResult(msg)
    BY DEF Message, IsResult
  <2>2. mailbox'[i] = Append(mailbox[i], msg)
    BY <1>1, <1>7 DEF Done
  <2> HIDE DEF msg
  <2>3. MeasuredIn(mailbox'[i], ctx.iter) /\ IdsIn(mailbox'[i]) = IdsIn(mailbox[i])
    BY <1>1, <1>3, <2>1, <2>2, MeasuredInAppend, IdsOfAppend
  <2>4. Onward(i)
    BY <1>7 DEF Done, Onward, State, Retesting, Measuring, MainLoop
  <2>5. SessionInv' /\ fsm[i] = "Idle"
    BY <1>2, <1>3, <2>4, OnwardSession DEF RoundInv
  <2>6. pc'[i] \notin MainLoop
    BY <1>1, <1>7 DEF Done, Handler, MainLoop
  <2>7. QED
    BY <1>2, <1>3, <2>3, <2>5, <2>6, MailRound
<1>8. CASE Stop(i) \/ ForcedExit(i)
  <2>1. mailbox'[i] = << >> /\ pc' = [pc EXCEPT ![i] = "NotStarted"]
    BY <1>1, <1>8 DEF Stop, ForcedExit, Exit
  <2>2. IdsIn(<< >>) = {} /\ MeasuredIn(<< >>, ctx.iter)
    BY DEF IdsIn, MeasuredIn
  <2>3. fsm[i] = "Idle"
    BY <1>8 DEF Stop, ForcedExit, RoundInv, SessionInv
  <2>4. SessionInv'
    BY <1>1, <1>2, <1>3, <2>1, <2>3, Alone
    DEF RoundInv, SessionInv, fsmVars, Retesting, Entered, Measuring, MainLoop
  <2>5. pc'[i] \notin MainLoop
    BY <1>1, <2>1 DEF MainLoop
  <2>6. QED
    BY <1>2, <2>1, <2>2, <2>3, <2>4, <2>5, MailRound
<1>9. QED
  BY <1>5, <1>6, <1>7, <1>8 DEF MailAction
-----------------------------------------------------------------------------
\* Saving a result of this round gives its mutant a row of this round.
LEMMA SaveRound ==
    ASSUME Steady, Inv, RoundInv, NEW i \in Instance, Save(i), UNCHANGED pc
    PROVE  RoundInv'
<1>1. mailbox \in [Instance -> Seq(Message)] /\ mailbox[i] \in Seq(Message)
      /\ DbActorTypeOK /\ mailbox[i] # << >> /\ Received(i) = Head(mailbox[i])
  BY DEF Inv, DbActorInv, DbActorTypeOK, Save, HasMail, Received
<1>2. Undisturbed /\ \A j \in Instance : j = i
  BY Alone DEF Steady
<1>3. IsResult(Head(mailbox[i])) /\ Received(i) \in Message
  BY <1>1, ReceivedType DEF Save, HasMail, IsResult
<1>4. /\ Received(i).id \in Mutant /\ Received(i).iter = ctx.iter
      /\ MeasuredIn(Tail(mailbox[i]), ctx.iter)
  BY <1>1, <1>3, ResultMessage, MeasuredInTail DEF RoundInv, MailInv, IsResult
<1>5. mailbox'[i] = Tail(mailbox[i]) /\ fsm[i] = "Idle"
      /\ UNCHANGED <<ctx, fsm, output>>
  BY <1>1, Alone, <1>2 DEF Save, Consume, fsmVars
<1>6. ctx.state # "done"
  <2>1. 1 \in 1 .. Len(mailbox[i]) /\ Head(mailbox[i]) = mailbox[i][1]
    BY <1>1, HeadTailProperties
  <2>2. IdsIn(mailbox[i]) # {}
    BY <1>3, <2>1 DEF IdsIn
  <2>3. QED
    BY <2>2 DEF RoundInv, MailInv
<1>7. SessionInv' /\ ContextInv' /\ MailInv' /\ StepInv' /\ DoneInv'
  BY <1>2, <1>4, <1>5, <1>6
  DEF RoundInv, SessionInv, ContextInv, MailInv, StepInv, DoneInv
<1>8. RowInv'
  <2> DEFINE id == Received(i).id
             st == Received(i).st
  <2>1. /\ timeoutWl' = [timeoutWl EXCEPT ![id] =
                            IF (st = "timeout" /\ ctx.iter = 0) \/ @ # NotListed
                              THEN ctx.iter ELSE @]
        /\ status' = [status EXCEPT ![id] = st]
        /\ worklist' = worklist \ {id}
        /\ savedIter' = [savedIter EXCEPT ![id] = ctx.iter]
    BY <1>4 DEF Save, UpdateMutantStatus
  <2>2. /\ timeoutWl \in [Mutant -> Iteration \cup {NotListed}] /\ status \in [Mutant -> Status]
        /\ savedIter \in [Mutant -> Iteration]
    BY DEF Inv, DbActorInv, DbActorTypeOK, FsmInv, FsmTypeOK
  <2> HIDE DEF id, st
  <2>3. id \in Mutant
    BY <1>4 DEF id
  <2>4. ctx.iter \in Nat /\ NotListed # ctx.iter /\ NotListed <= ctx.iter
    BY ValuesTyped DEF NotListed
  <2>5. ASSUME NEW m \in Mutant, m # id
        PROVE  /\ timeoutWl'[m] = timeoutWl[m] /\ status'[m] = status[m]
               /\ savedIter'[m] = savedIter[m] /\ (m \in worklist' <=> m \in worklist)
    BY <2>1, <2>5
  <2>6. /\ timeoutWl'[id] \in {NotListed, ctx.iter} /\ savedIter'[id] = ctx.iter
        /\ status'[id] = "timeout" /\ ctx.iter = 0 => timeoutWl'[id] = ctx.iter
    BY <2>1, <2>2, <2>3
  <2>7. ASSUME NEW m \in Mutant
        PROVE  /\ timeoutWl'[m] # NotListed => savedIter'[m] = timeoutWl'[m]
               /\ timeoutWl'[m] <= ctx.iter
               /\ timeoutWl'[m] \notin {NotListed, ctx.iter} /\ status'[m] = "timeout"
                     => m \in worklist'
               /\ status'[m] = "timeout" /\ savedIter'[m] = 0 => timeoutWl'[m] # NotListed
    <3>1. CASE m = id
      BY <2>4, <2>6, <3>1
    <3>2. CASE m # id
      BY <2>5, <3>2 DEF RoundInv, RowInv
    <3>3. QED
      BY <3>1, <3>2
  <2>8. QED
    BY <1>2, <1>5, <1>6, <2>7 DEF RowInv
<1>9. QED
  BY <1>7, <1>8 DEF RoundInv

\* The handlers of the actor.
LEMMA ActorStepRound ==
    ASSUME Steady, Inv, QueueInv, RoundInv, NEW i \in Instance, ActorStep(i)
    PROVE  RoundInv'
<1>1. mailbox \in [Instance -> Seq(Message)] /\ mailbox[i] \in Seq(Message)
      /\ DbActorTypeOK /\ mailbox[i] # << >> /\ Received(i) = Head(mailbox[i])
  BY DEF Inv, DbActorInv, DbActorTypeOK, ActorStep, DbActorStep, Save2, Save, IsDone,
         HasMail, Received
<1>2. UNCHANGED pc /\ Undisturbed /\ \A j \in Instance : j = i
  BY Alone DEF ActorStep, Steady
<1>3. MeasuredIn(Tail(mailbox[i]), ctx.iter)
      /\ (IsResult(Head(mailbox[i])) => Head(mailbox[i]).iter = ctx.iter)
      /\ Tail(mailbox[i]) \in Seq(Message) /\ OnceIn(mailbox[i])
  BY <1>1, MeasuredInTail, HeadTailProperties DEF RoundInv, MailInv, QueueInv
<1>4. ASSUME UNCHANGED <<tables, fsmVars, savedIter>>,
             MeasuredIn(mailbox'[i], ctx.iter), IdsIn(mailbox'[i]) = IdsIn(mailbox[i])
      PROVE  RoundInv'
  <2>1. UNCHANGED <<status, worklist, timeoutWl, memOverload, ctx, fsm, output>>
    BY <1>4 DEF tables, fsmVars
  <2>2. SessionInv' /\ ContextInv' /\ RowInv' /\ MailInv'
    BY <1>2, <1>4, <2>1 DEF RoundInv, SessionInv, ContextInv, RowInv, MailInv
  <2>3. Listed' = Listed /\ NoUnknown' = NoUnknown
    BY <2>1 DEF Listed, NoUnknown, WithStatus
  <2>4. StepInv' /\ DoneInv'
    BY <1>2, <1>4, <2>1, <2>3 DEF RoundInv, StepInv, DoneInv
  <2>5. QED
    BY <2>2, <2>4 DEF RoundInv
<1>5. CASE Save2(i)
  <2> DEFINE e == [Received(i) EXCEPT !.type = "save"]
  <2>1. Received(i) \in Message /\ Received(i).type = "save2"
    BY <1>1, <1>5, ReceivedType DEF Save2, HasMail
  <2>2. e \in Message /\ IsResult(e) /\ e.id = Received(i).id
    BY <1>1, <1>5, RequeuedType DEF Save2
  <2>3. e.iter = Received(i).iter
    BY <2>1, ResultMessage
  <2>4. IsResult(Head(mailbox[i])) /\ mailbox'[i] = Append(Tail(mailbox[i]), e)
    BY <1>1, <1>5, <2>1 DEF IsResult, Save2, Requeue
  <2> HIDE DEF e
  <2>5. MeasuredIn(mailbox'[i], ctx.iter)
    BY <1>1, <1>3, <2>2, <2>3, <2>4, MeasuredInAppend
  <2>6. IdsIn(mailbox'[i]) = IdsIn(mailbox[i])
    BY <1>1, <1>3, <2>2, <2>4, IdsOfRequeue
  <2>7. QED
    BY <1>4, <1>5, <2>5, <2>6 DEF Save2
<1>6. CASE Save(i)
  BY <1>2, <1>6, SaveRound
<1>7. CASE IsDone(i)
  <2>1. mailbox'[i] = Tail(mailbox[i]) /\ ~IsResult(Head(mailbox[i]))
    BY <1>1, <1>7 DEF IsDone, Consume, HasMail, IsResult
  <2>2. IdsIn(Tail(mailbox[i])) = IdsIn(mailbox[i])
    BY <1>1, <1>3, <2>1, IdsOfTail
  <2>3. QED
    BY <1>3, <1>4, <1>7, <2>1, <2>2 DEF IsDone
<1>8. QED
  BY <1>5, <1>6, <1>7 DEF ActorStep, DbActorStep
-----------------------------------------------------------------------------
(* The TimeoutFsm.  Each lemma is about one opCall, entered by the one     *)
(* session there is, from a state of the machine that leads to it.         *)

\* What every step of the machine leaves alone.
Executing(i) ==
    /\ UNCHANGED <<status, mailbox, savedIter>>
    /\ pc'[i] \in {"AllMutantsTested", "OverloadCheck"}
    /\ pc'[i] \in MainLoop => pc[i] \in MainLoop

\* The session learns what the machine has written.
LEMMA ExecutingSession ==
    ASSUME Undisturbed, NEW i \in Instance, Executing(i),
           output'[i].done <=> ctx'.state = "done",
           fsm'[i] = "Idle" => output'[i].iter = ctx'.iter
    PROVE  SessionInv'
BY Alone DEF Executing, SessionInv, Retesting, Measuring

\* An opCall enters its state.
LEMMA EnterState ==
    ASSUME Inv, NEW i \in Instance, NEW s, Enter(i, s) PROVE fsm'[i] = s
BY DEF Enter, Inv, DbActorInv, FsmInv, FsmTypeOK

\* SetDone is what it says.
LEMMA SetDoneOutput ==
    ASSUME Inv, NEW i \in Instance, NEW b, SetDone(i, b) PROVE output'[i].done = b
BY DEF SetDone, Inv, DbActorInv, FsmInv, FsmTypeOK

\* The first round has not begun: nothing was tested in a later iteration than 0.
LEMMA EnterInitRound ==
    ASSUME Steady, Inv, RoundInv, NEW i \in Instance, Executing(i),
           fsm[i] = "Idle", ctx.state = "init_", EnterInit(i)
    PROVE  RoundInv'
<1>1. Undisturbed /\ \A j \in Instance : j = i
  BY Alone DEF Steady
<1>2. /\ UNCHANGED <<status, worklist, timeoutWl, memOverload, mailbox, savedIter>>
      /\ fsm'[i] = "Init" /\ ~output'[i].done
      /\ ctx'.iter = 0 /\ ctx'.worklistCount = 0 /\ ctx'.state = "init_"
  BY EnterState, SetDoneOutput DEF EnterInit, InitCtx, Executing, tables
<1>3. ctx.iter = 0
  BY <1>1 DEF RoundInv, ContextInv
<1>4. SessionInv'
  BY <1>1, <1>2, ExecutingSession
<1>5. ContextInv' /\ RowInv' /\ StepInv' /\ MailInv' /\ DoneInv'
  BY <1>1, <1>2, <1>3
  DEF RoundInv, ContextInv, RowInv, StepInv, MailInv, DoneInv
<1>6. QED
  BY <1>4, <1>5 DEF RoundInv

\* The context is running from now on.
LEMMA EnterRunningRound ==
    ASSUME Steady, Inv, RoundInv, NEW i \in Instance, Executing(i),
           \/ fsm[i] = "Idle" /\ ctx.state = "running"
           \/ fsm[i] \in {"UpdateCtx", "Done"},
           EnterRunning(i)
    PROVE  RoundInv'
<1>1. Undisturbed /\ \A j \in Instance : j = i
  BY Alone DEF Steady
<1>2. /\ UNCHANGED <<status, worklist, timeoutWl, memOverload, mailbox, savedIter>>
      /\ fsm'[i] = "Running" /\ ~output'[i].done
  BY EnterState, SetDoneOutput DEF EnterRunning, Executing, tables
<1>3. ctx'.iter = ctx.iter /\ ctx'.worklistCount = ctx.worklistCount /\ ctx'.state = "running"
  BY DEF EnterRunning, Inv, DbActorInv, FsmInv, FsmTypeOK
<1>4. SessionInv'
  BY <1>1, <1>2, <1>3, ExecutingSession
<1>5. ContextInv' /\ RowInv' /\ StepInv' /\ MailInv' /\ DoneInv'
  BY <1>1, <1>2, <1>3
  DEF RoundInv, ContextInv, RowInv, StepInv, MailInv, DoneInv
<1>6. QED
  BY <1>4, <1>5 DEF RoundInv

\* The algorithm has ended, now or before: in both cases nothing is on its way.
LEMMA EnterDoneRound ==
    ASSUME Steady, Inv, RoundInv, NEW i \in Instance, Executing(i),
           \/ fsm[i] = "Idle" /\ ctx.state = "done"
           \/ fsm[i] = "ClearWorkList",
           EnterDone(i)
    PROVE  RoundInv'
<1>1. Undisturbed /\ \A j \in Instance : j = i
  BY Alone DEF Steady
<1>2. /\ UNCHANGED <<status, worklist, timeoutWl, memOverload, mailbox, savedIter>>
      /\ fsm'[i] = "Done" /\ output'[i].done
      /\ ctx'.iter = 0 /\ ctx'.worklistCount = 0 /\ ctx'.state = "done"
  BY EnterState, SetDoneOutput DEF EnterDone, Executing, tables
<1>3. /\ IdsIn(mailbox[i]) = {} /\ mailbox[i] \in Seq(Message)
      /\ ctx.state = "done" => ctx.iter = 0
  BY <1>1 DEF RoundInv, StepInv, MailInv, ContextInv, Inv, DbActorInv, DbActorTypeOK
<1>4. SessionInv'
  BY <1>1, <1>2, ExecutingSession
<1>5. Listed' = Listed
  BY <1>2 DEF Listed
<1>6. fsm[i] = "ClearWorkList" => Listed = {} /\ memOverload = {}
  BY DEF RoundInv, StepInv
<1>7. ContextInv' /\ StepInv' /\ MailInv'
  BY <1>1, <1>2, <1>3, NoResults DEF ContextInv, StepInv, MailInv
<1>8. RowInv'
  <2>1. CASE fsm[i] = "ClearWorkList"
    <3>1. \A m \in Mutant : timeoutWl[m] = NotListed
      BY <1>6, <2>1 DEF Listed
    <3>2. \A m \in Mutant : ~(status[m] = "timeout" /\ savedIter[m] = 0)
      BY <2>1 DEF RoundInv, RowInv
    <3>3. QED
      BY <1>2, <3>1, <3>2 DEF RowInv, NotListed
  <2>2. CASE fsm[i] = "Idle" /\ ctx.state = "done"
    BY <1>1, <1>2, <1>3, <2>2 DEF RoundInv, RowInv
  <2>3. QED
    BY <2>1, <2>2
<1>9. DoneInv'
  <2>1. CASE fsm[i] = "ClearWorkList"
    BY <1>1, <1>2, <1>5, <1>6, <2>1 DEF DoneInv
  <2>2. CASE fsm[i] = "Idle" /\ ctx.state = "done"
    BY <1>1, <1>2, <1>5, <2>2 DEF RoundInv, DoneInv, Executing
  <2>3. QED
    BY <2>1, <2>2
<1>10. QED
  BY <1>4, <1>7, <1>8, <1>9 DEF RoundInv

\* The rows of the round that has ended are all there are: each is queued.
LEMMA EnterResetWorkListRound ==
    ASSUME Steady, Inv, QueueInv, RoundInv, NEW i \in Instance, Executing(i),
           (fsm[i] = "Init" /\ NoUnknown) \/ fsm[i] = "PurgeChanged",
           EnterResetWorkList(i)
    PROVE  RoundInv'
<1>1. Undisturbed /\ ~SqlMayFail /\ \A j \in Instance : j = i
  BY Alone DEF Steady
<1>2. /\ UNCHANGED <<status, timeoutWl, mailbox, savedIter, ctx, output>>
      /\ fsm'[i] = "ResetWorkList"
  BY EnterState DEF EnterResetWorkList, Executing
<1>3. worklist' = worklist \cup RowsOfIter(ctx.iter) \cup memOverload
  BY <1>1 DEF EnterResetWorkList, Executed
<1>4. ctx.state # "done" /\ (fsm[i] = "Init" => ctx.iter = 0)
  BY DEF RoundInv, ContextInv
<1>5. \A m \in Listed : timeoutWl[m] = ctx.iter
  <2>1. CASE fsm[i] = "Init"
    <3>1. \A m \in Mutant : timeoutWl[m] <= 0 /\ timeoutWl[m] \in Nat \cup {NotListed}
      BY <1>4, <2>1, ValuesTyped DEF RoundInv, RowInv
    <3>2. QED
      BY <1>4, <2>1, <3>1 DEF Listed
  <2>2. CASE fsm[i] = "PurgeChanged"
    BY <2>2 DEF RoundInv, StepInv
  <2>3. QED
    BY <2>1, <2>2
<1>6. IdsIn(mailbox[i]) = {}
  <2>1. fsm[i] = "Init" => worklist = {} /\ IdsIn(mailbox[i]) \subseteq worklist
    BY DEF NoUnknown, QueueInv
  <2>2. QED
    BY <2>1 DEF RoundInv, StepInv
<1>7. Listed' = Listed /\ Listed \subseteq worklist'
  <2>1. Listed' = Listed
    BY <1>2 DEF Listed
  <2>2. Listed \subseteq RowsOfIter(ctx.iter)
    BY <1>5 DEF Listed, RowsOfIter
  <2>3. QED
    BY <1>3, <2>1, <2>2
<1>8. SessionInv'
  <2>1. output[i].done <=> ctx.state = "done"
    BY <1>4 DEF RoundInv, SessionInv, Entered, MainLoop
  <2>2. QED
    BY <1>1, <1>2, <2>1, ExecutingSession
<1>9. ContextInv' /\ StepInv' /\ MailInv' /\ DoneInv'
  BY <1>1, <1>2, <1>4, <1>5, <1>6, <1>7
  DEF RoundInv, ContextInv, StepInv, MailInv, DoneInv
<1>10. RowInv'
  <2>1. \A m \in Mutant : m \in worklist => m \in worklist'
    BY <1>3
  <2>2. QED
    BY <1>1, <1>2, <1>4, <2>1 DEF RoundInv, RowInv
<1>11. QED
  BY <1>8, <1>9, <1>10 DEF RoundInv

\* The next round: every row is queued and none is of this round yet.
LEMMA EnterUpdateCtxRound ==
    ASSUME Steady, Inv, RoundInv, NEW i \in Instance, Executing(i),
           fsm[i] = "ResetWorkList", EnterUpdateCtx(i)
    PROVE  RoundInv'
<1>1. Undisturbed /\ ~SqlMayFail /\ \A j \in Instance : j = i
  BY Alone DEF Steady
<1>2. /\ UNCHANGED <<status, worklist, timeoutWl, memOverload, mailbox, savedIter, output>>
      /\ fsm'[i] = "UpdateCtx"
  BY EnterState DEF EnterUpdateCtx, Executing, tables
<1>3. ctx'.iter = ctx.iter + 1 /\ ctx'.state = ctx.state /\ ctx.iter \in Nat
  <2>1. PICK n : ctx' = [ctx EXCEPT !.iter = @ + 1, !.worklistCount = n]
    BY DEF EnterUpdateCtx
  <2>2. QED
    BY <2>1, ValuesTyped DEF Inv, DbActorInv, FsmInv, FsmTypeOK
<1>4. /\ ctx.state # "done" /\ IdsIn(mailbox[i]) = {} /\ mailbox[i] \in Seq(Message)
      /\ Listed \subseteq worklist
  BY DEF RoundInv, ContextInv, StepInv, Inv, DbActorInv, DbActorTypeOK
<1>5. Listed' = Listed
  BY <1>2 DEF Listed
<1>6. SessionInv'
  <2>1. output[i].done <=> ctx.state = "done"
    BY DEF RoundInv, SessionInv, Entered, MainLoop
  <2>2. QED
    BY <1>1, <1>2, <1>3, <2>1, ExecutingSession
<1>7. ContextInv' /\ StepInv' /\ MailInv' /\ DoneInv'
  BY <1>1, <1>2, <1>3, <1>4, <1>5, NoResults
  DEF RoundInv, ContextInv, StepInv, MailInv, DoneInv
<1>8. RowInv'
  <2>1. ASSUME NEW m \in Mutant
        PROVE  /\ timeoutWl[m] <= ctx.iter + 1
               /\ timeoutWl[m] # NotListed => m \in worklist
    BY <1>3, <1>4, ValuesTyped DEF RoundInv, RowInv, Listed, NotListed
  <2>2. QED
    BY <1>1, <1>2, <1>3, <1>4, <2>1 DEF RoundInv, RowInv
<1>9. QED
  BY <1>6, <1>7, <1>8 DEF RoundInv

\* Nothing is queued any more, so that every timeout is of this round.
LEMMA EnterPurgeRound ==
    ASSUME Steady, Inv, QueueInv, RoundInv, NEW i \in Instance, Executing(i),
           fsm[i] = "Running", NoUnknown, EnterPurge(i)
    PROVE  RoundInv'
<1>1. Undisturbed /\ ~SqlMayFail /\ \A j \in Instance : j = i
  BY Alone DEF Steady
<1>2. /\ UNCHANGED <<status, worklist, memOverload, mailbox, savedIter, ctx, output>>
      /\ timeoutWl' = ReducedTimeoutWl
  BY <1>1 DEF EnterPurge, Executed, Executing
<1>3. /\ fsm'[i] \in {"PurgeSame", "PurgeChanged"}
      /\ fsm'[i] = "PurgeSame" => CountTimeoutWl(ReducedTimeoutWl) = ctx.worklistCount
  <2>1. Enter(i, IF CountTimeoutWl(ReducedTimeoutWl) = ctx.worklistCount
                   THEN "PurgeSame" ELSE "PurgeChanged")
    BY <1>1 DEF EnterPurge, Executed
  <2>2. QED
    BY <2>1, EnterState
<1>4. ctx.state = "running" /\ worklist = {} /\ IdsIn(mailbox[i]) = {}
  BY DEF RoundInv, ContextInv, NoUnknown, QueueInv
<1>5. \A m \in Mutant : /\ timeoutWl'[m] = IF status[m] = "timeout" THEN timeoutWl[m] ELSE NotListed
                        /\ timeoutWl'[m] \in {NotListed, ctx.iter}
  BY <1>2, <1>4 DEF ReducedTimeoutWl, RoundInv, RowInv
<1>6. \A m \in Listed' : timeoutWl'[m] = ctx.iter
  BY <1>5 DEF Listed
<1>7. fsm'[i] = "PurgeSame" => Cardinality(Listed') = ctx.worklistCount
  BY <1>2, <1>3 DEF Listed, CountTimeoutWl
<1>8. SessionInv'
  <2>1. output[i].done <=> ctx.state = "done"
    BY DEF RoundInv, SessionInv, Entered, MainLoop
  <2>2. QED
    BY <1>1, <1>2, <1>3, <2>1, ExecutingSession
<1>9. ContextInv' /\ StepInv' /\ MailInv' /\ DoneInv'
  BY <1>1, <1>2, <1>3, <1>4, <1>6, <1>7
  DEF RoundInv, ContextInv, StepInv, MailInv, DoneInv
<1>10. RowInv'
  <2>1. NotListed <= ctx.iter
    BY ValuesTyped DEF NotListed
  <2>2. QED
    BY <1>1, <1>2, <1>3, <1>4, <1>5, <2>1 DEF RoundInv, RowInv
<1>11. QED
  BY <1>8, <1>9, <1>10 DEF RoundInv

\* The last round: what is listed was tested in it, and it was not the first
\* unless nothing is listed.  So no timeout stands that was only seen in the first.
LEMMA EnterClearWorkListRound ==
    ASSUME Steady, Inv, RoundInv, NEW i \in Instance, Executing(i),
           \/ fsm[i] = "PurgeSame"
           \/ fsm[i] = "PurgeChanged" /\ ctx.iter = MaxTimeoutIterations,
           EnterClearWorkList(i)
    PROVE  RoundInv'
<1>1. Undisturbed /\ ~SqlMayFail /\ \A j \in Instance : j = i
  BY Alone DEF Steady
<1>2. /\ UNCHANGED <<status, mailbox, savedIter, ctx, output>>
      /\ fsm'[i] = "ClearWorkList" /\ timeoutWl' = ClearedTimeoutWl /\ memOverload' = {}
      /\ worklist \subseteq worklist'
  BY <1>1, EnterState DEF EnterClearWorkList, Executed, Executing
<1>3. ctx.state = "running" /\ IdsIn(mailbox[i]) = {}
  BY DEF RoundInv, ContextInv, StepInv
<1>4. \A m \in Mutant : timeoutWl'[m] = NotListed
  BY <1>2 DEF ClearedTimeoutWl
<1>5. Listed' = {}
  BY <1>4 DEF Listed
<1>6. \A m \in Mutant : ~(status[m] = "timeout" /\ savedIter[m] = 0)
  <2>1. SUFFICES ASSUME NEW m \in Mutant, status[m] = "timeout", savedIter[m] = 0
                 PROVE  FALSE
    OBVIOUS
  <2>2. m \in Listed /\ timeoutWl[m] = 0
    BY <2>1 DEF RoundInv, RowInv, Listed
  <2>3. ctx.iter = 0
    BY <2>2 DEF RoundInv, StepInv
  <2>4. fsm[i] = "PurgeSame"
    BY <2>3, IterationsAssumption
  <2>5. Cardinality(Listed) = 0
    BY <2>3, <2>4 DEF RoundInv, StepInv, ContextInv
  <2>6. QED
    BY <2>2, <2>5, CountIsZero
<1>7. SessionInv'
  <2>1. output[i].done <=> ctx.state = "done"
    BY DEF RoundInv, SessionInv, Entered, MainLoop
  <2>2. QED
    BY <1>1, <1>2, <2>1, ExecutingSession
<1>8. ContextInv' /\ StepInv' /\ MailInv' /\ DoneInv'
  BY <1>1, <1>2, <1>3, <1>5
  DEF RoundInv, ContextInv, StepInv, MailInv, DoneInv
<1>9. RowInv'
  <2>1. NotListed <= ctx.iter
    BY ValuesTyped DEF NotListed
  <2>2. QED
    BY <1>2, <1>4, <1>6, <2>1 DEF RowInv
<1>10. QED
  BY <1>7, <1>8, <1>9 DEF RoundInv

\* The transaction ends: with mutants left to test, or with none.
LEMMA EnterStopRound ==
    ASSUME Steady, Inv, RoundInv, NEW i \in Instance, Executing(i),
           \/ fsm[i] \in {"Init", "Running"}
           \/ fsm[i] = "Done" /\ NoUnknown,
           EnterStop(i)
    PROVE  RoundInv'
<1>1. Undisturbed /\ \A j \in Instance : j = i
  BY Alone DEF Steady
<1>2. /\ UNCHANGED <<status, worklist, timeoutWl, memOverload, mailbox, savedIter, ctx>>
      /\ fsm'[i] = "Idle"
  BY EnterState DEF EnterStop, Executing, tables
<1>3. output'[i].iter = ctx.iter /\ output'[i].done = output[i].done
  BY DEF EnterStop, Inv, DbActorInv, FsmInv, FsmTypeOK
<1>4. ctx.state = "done" => NoUnknown
  BY DEF RoundInv, ContextInv
<1>5. Listed' = Listed /\ NoUnknown' = NoUnknown
  BY <1>2 DEF Listed, NoUnknown, WithStatus
<1>6. SessionInv'
  <2>1. output[i].done <=> ctx.state = "done"
    BY DEF RoundInv, SessionInv, Entered, MainLoop
  <2>2. QED
    BY <1>1, <1>2, <1>3, <2>1, ExecutingSession
<1>7. ContextInv' /\ RowInv' /\ StepInv' /\ MailInv'
  BY <1>1, <1>2 DEF RoundInv, ContextInv, RowInv, StepInv, MailInv
<1>8. DoneInv'
  BY <1>1, <1>2, <1>4, <1>5 DEF RoundInv, DoneInv, Executing
<1>9. QED
  BY <1>6, <1>7, <1>8 DEF RoundInv
-----------------------------------------------------------------------------
\* CheckMutantsLeft and UpdateTimeout open the transaction.
LEMMA ExecuteBeginRound ==
    ASSUME Steady, Inv, RoundInv, NEW i \in Instance, Executing(i), ExecuteBegin(i)
    PROVE  RoundInv'
<1>1. fsm[i] = "Idle"
  BY DEF ExecuteBegin, InTransaction
<1>2. QED
  BY <1>1, EnterInitRound, EnterRunningRound, EnterDoneRound DEF ExecuteBegin

\* Every step of the machine.
LEMMA ExecuteStepRound ==
    ASSUME Steady, Inv, QueueInv, RoundInv, NEW i \in Instance, Executing(i), ExecuteStep(i)
    PROVE  RoundInv'
<1>1. CASE StepInit(i)
  BY <1>1, EnterResetWorkListRound, EnterStopRound DEF StepInit
<1>2. CASE StepResetWorkList(i)
  BY <1>2, EnterUpdateCtxRound DEF StepResetWorkList
<1>3. CASE StepUpdateCtx(i)
  BY <1>3, EnterRunningRound DEF StepUpdateCtx
<1>4. CASE StepRunning(i)
  BY <1>4, EnterPurgeRound, EnterStopRound DEF StepRunning
<1>5. CASE StepPurge(i)
  BY <1>5, EnterResetWorkListRound, EnterClearWorkListRound DEF StepPurge
<1>6. CASE StepClearWorkList(i)
  BY <1>6, EnterDoneRound DEF StepClearWorkList
<1>7. CASE StepDone(i)
  BY <1>7, EnterRunningRound, EnterStopRound DEF StepDone
<1>8. QED
  BY <1>1, <1>2, <1>3, <1>4, <1>5, <1>6, <1>7 DEF ExecuteStep

\* The status of a mutant is not what the machine changes.
LEMMA ExecuteFrame ==
    ASSUME NEW i \in Instance, ExecuteBegin(i) \/ ExecuteStep(i)
    PROVE  UNCHANGED status
BY DEF ExecuteBegin, ExecuteStep, StepInit, StepResetWorkList, StepUpdateCtx, StepRunning,
       StepPurge, StepClearWorkList, StepDone, EnterInit, EnterResetWorkList, EnterUpdateCtx,
       EnterRunning, EnterPurge, EnterClearWorkList, EnterDone, EnterStop, tables

\* A session executes the TimeoutFsm.
LEMMA ContextActionRound ==
    ASSUME Steady, Inv, QueueInv, RoundInv, NEW i \in Instance, ContextAction(i)
    PROVE  RoundInv'
<1>1. pc \in [Instance -> State] /\ pc[i] \notin Retesting
  BY DEF Inv, DriverTypeOK, RoundInv, SessionInv
<1>2. ~ResetTimeoutContext(i)
  BY <1>1 DEF ResetTimeoutContext, Handler, Retesting
<1>3. CASE CheckMutantsLeft(i) \/ UpdateTimeout(i)
  <2>1. ExecuteBegin(i) /\ UNCHANGED <<mailbox, savedIter>>
    BY <1>3 DEF CheckMutantsLeft, UpdateTimeout, actorVars
  <2>2. Executing(i)
    BY <1>1, <1>3, <2>1, ExecuteFrame
    DEF CheckMutantsLeft, UpdateTimeout, Handler, Executing, MainLoop
  <2>3. QED
    BY <2>1, <2>2, ExecuteBeginRound
<1>4. CASE Execute(i)
  <2>1. ExecuteStep(i) /\ UNCHANGED <<pc, mailbox, savedIter>>
    BY <1>4 DEF Execute, actorVars
  <2>2. fsm[i] # "Idle"
    BY <2>1 DEF ExecuteStep, StepInit, StepResetWorkList, StepUpdateCtx, StepRunning,
                StepPurge, StepClearWorkList, StepDone
  <2>3. Executing(i)
    BY <2>1, <2>2, ExecuteFrame DEF Executing, RoundInv, SessionInv
  <2>4. QED
    BY <2>1, <2>3, ExecuteStepRound
<1>5. QED
  BY <1>2, <1>3, <1>4 DEF ContextAction
-----------------------------------------------------------------------------
\* The invariant holds before the first session is started.
LEMMA InitRound ==
    ASSUME Init PROVE RoundInv
<1>1. /\ ctx = InitCtx /\ timeoutWl = ClearedTimeoutWl
      /\ \A i \in Instance : /\ fsm[i] = "Idle" /\ pc[i] = "NotStarted" /\ mailbox[i] = << >>
      /\ \A m \in Mutant : status[m] = "unknown"
  BY DEF Init, FsmInit, DbActorInit
<1>2. MeasuredIn(<< >>, ctx.iter)
  BY DEF MeasuredIn
<1>3. SessionInv /\ DoneInv
  BY <1>1 DEF SessionInv, DoneInv, Retesting, Entered, Measuring, MainLoop
<1>4. ContextInv /\ StepInv /\ MailInv
  BY <1>1, <1>2 DEF ContextInv, StepInv, MailInv, InitCtx
<1>5. RowInv
  BY <1>1 DEF RowInv, InitCtx, ClearedTimeoutWl, NotListed
<1>6. QED
  BY <1>3, <1>4, <1>5 DEF RoundInv

\* Every step preserves it.
LEMMA RoundStep ==
    ASSUME Steady, Inv, QueueInv, RoundInv, NEW i \in Instance, [Next]_vars
    PROVE  RoundInv'
<1>1. CASE Next
  <2>1. CASE UserStep
    BY <2>1, UserStepRound
  <2>2. CASE ~UserStep
    <3>1. PICK j \in Instance :
             \/ PcAction(j) \/ TableAction(j) \/ LocalAction(j) \/ RestOfSession(j)
             \/ MailAction(j) \/ ContextAction(j) \/ ActorStep(j)
      BY <1>1, <2>2, StepIsAction
    <3>2. QED
      BY <3>1, PcActionRound, TableActionRound, LocalActionRound, RestOfSessionRound,
         MailActionRound, ContextActionRound, ActorStepRound
  <2>3. QED
    BY <2>1, <2>2
<1>2. CASE UNCHANGED vars
  <2>1. UNCHANGED <<pc, status, worklist, timeoutWl, memOverload, ctx, fsm, output, mailbox,
                    savedIter>>
    BY <1>2 DEF vars, dbVars, tables, fsmVars, actorVars
  <2>2. Listed' = Listed /\ NoUnknown' = NoUnknown
    BY <2>1 DEF Listed, NoUnknown, WithStatus
  <2>3. QED
    BY <2>1, <2>2
    DEF RoundInv, SessionInv, ContextInv, RowInv, StepInv, MailInv, DoneInv
<1>3. QED
  BY <1>1, <1>2

\* What the theorems of this module follow from.
THEOREM RoundHolds ==
    ASSUME Steady PROVE Spec => [](Inv /\ QueueInv /\ RoundInv)
<1>1. Init => QueueInv /\ RoundInv
  BY InitSafe, InitRound
<1>2. Inv /\ QueueInv /\ RoundInv /\ [Next]_vars => QueueInv' /\ RoundInv'
  <2>1. Undisturbed /\ \E i \in Instance : TRUE
    BY DEF Steady
  <2>2. QED
    BY <2>1, QueueStep, RoundStep
<1>3. QED
  BY <1>1, <1>2, InvHolds, PTL DEF Spec

\* When opCall(Purge) compares the counts, every row is of the round that ends.
THEOREM PurgeIsCurrent == ASSUME Steady PROVE Spec => []PurgedAreCurrent
<1>1. RoundInv => PurgedAreCurrent
  BY DEF RoundInv, StepInv, Listed, PurgedAreCurrent
<1>2. QED
  BY <1>1, RoundHolds, PTL

\* copyMutantTimeoutWorklist misses none: whatever is listed when the timeout is
\* raised is tested again with the raised one.
THEOREM RoundIsComplete == ASSUME Steady PROVE Spec => []RaisedRoundIsComplete
<1>1. RoundInv => RaisedRoundIsComplete
  BY DEF RoundInv, StepInv, Listed, RaisedRoundIsComplete
<1>2. QED
  BY <1>1, RoundHolds, PTL

\* No timeout outlives the algorithm on the evidence of the first, shortest
\* timeout alone, for any number of mutants, rounds, crashes and restarts.
THEOREM EveryTimeoutIsConfirmed == ASSUME Steady PROVE Spec => []TimeoutsAreConfirmed
<1>1. Inv /\ RoundInv => TimeoutsAreConfirmed
  BY ValuesTyped DEF RoundInv, RowInv, TimeoutsAreConfirmed
<1>2. QED
  BY <1>1, RoundHolds, PTL

\* Until then the timeout worklist holds it.
THEOREM NoTimeoutIsLost == ASSUME Steady PROVE Spec => []UnconfirmedIsListed
<1>1. RoundInv => UnconfirmedIsListed
  BY DEF RoundInv, RowInv, UnconfirmedIsListed
<1>2. QED
  BY <1>1, RoundHolds, PTL

\* No row is ahead of the round.
THEOREM NoRowIsAhead == ASSUME Steady PROVE Spec => []RowsNotAhead
<1>1. RoundInv => RowsNotAhead
  BY DEF RoundInv, RowInv, RowsNotAhead
<1>2. QED
  BY <1>1, RoundHolds, PTL

\* The copy of the TimeoutFsm in a result that is on its way is as the database
\* has the machine when the result is saved.
THEOREM NoResultIsStale == ASSUME Steady PROVE Spec => []ResultsAreCurrent
<1>1. RoundInv => ResultsAreCurrent
  BY DEF RoundInv, MailInv, MeasuredIn, IsResult, ResultsAreCurrent, Unsaved
<1>2. QED
  BY <1>1, RoundHolds, PTL
-----------------------------------------------------------------------------
\* The step that ends a session because nothing is left to test.
LEMMA FinishingStep ==
    ASSUME Inv, NEW i \in Instance, Next, pc[i] = "CheckTimeout", pc'[i] = "Done"
    PROVE  CheckTimeout(i)
<1>1. pc \in [Instance -> State]
  BY DEF Inv, DriverTypeOK
<1>2. ~UserStep
  BY DEF UserStep
<1>3. PICK j \in Instance :
         \/ PcAction(j) \/ TableAction(j) \/ LocalAction(j) \/ RestOfSession(j)
         \/ MailAction(j) \/ ContextAction(j) \/ ActorStep(j)
  BY <1>2, StepIsAction
<1>4. ~ActorStep(j)
  BY DEF ActorStep
<1>5. ~TableAction(j) /\ ~LocalAction(j)
  BY <1>1 DEF TableAction, Initialize, UpdateAndResetAliveMutants, ResetAlive, AddOldMutants,
              PullRequest, PropagateCoverage, RollBackLatest, LocalAction, CountWorklist,
              MeasureTestSuite, NextSchemata, NextMutant, Handler
<1>6. ~RestOfSession(j) /\ ~MailAction(j)
  BY <1>1 DEF RestOfSession, StartSession, MutationTest, Tested, TestedNoResult,
              TestedFilesysError, SaveMutationScore, MailAction, SchemaResult, SendResult,
              Done, Stop, ForcedExit, Exit, Handler
<1>7. ~ContextAction(j)
  BY <1>1 DEF ContextAction, CheckMutantsLeft, UpdateTimeout, Execute, ResetTimeoutContext,
              Handler
<1>8. PcAction(j) => CheckTimeout(i)
  BY <1>1 DEF PcAction, SanityCheck, PreCompileSut, AnalyzeTestCmdForTestCase,
              RetestOldMutant, Coverage, AllMutantsTested, OverloadCheck,
              CheckPullRequestMutant, SchemataTest, HandleTestResult, CheckStopCond,
              CheckTimeout, WaitForDb, Error, Handler
<1>9. QED
  BY <1>3, <1>4, <1>5, <1>6, <1>7, <1>8

\* A session that CheckTimeout ends has left nothing: no mutant without a result,
\* nothing queued, no timeout to confirm, no memory overload to retest, and
\* nothing on its way to the database.
THEOREM FinishedLeavesNothing == ASSUME Steady PROVE Spec => FinishedIsComplete
<1>1. ASSUME Inv, RoundInv, Next, NEW i \in Instance,
             pc[i] = "CheckTimeout", pc'[i] = "Done", ~conf[i].userTimeout
      PROVE  NoUnknown /\ timeoutWl = ClearedTimeoutWl /\ memOverload = {} /\ Unsaved(i) = {}
  <2>1. output[i].done
    BY <1>1, FinishingStep DEF CheckTimeout, Handler, Inv, DriverTypeOK
  <2>2. ctx.state = "done" /\ fsm[i] = "Idle"
    BY <1>1, <2>1 DEF RoundInv, SessionInv, Entered, MainLoop
  <2>3. Listed = {} /\ memOverload = {} /\ NoUnknown
    BY <1>1, <2>2 DEF RoundInv, DoneInv, MainLoop
  <2>4. timeoutWl = ClearedTimeoutWl
    BY <1>1, <2>3 DEF Listed, ClearedTimeoutWl, Inv, DbActorInv, FsmInv, FsmTypeOK
  <2>5. Unsaved(i) = {}
    BY <1>1, <2>2, UnsavedIdsDef DEF RoundInv, MailInv, UnsavedIds
  <2>6. QED
    BY <2>3, <2>4, <2>5
<1>2. Inv /\ QueueInv /\ RoundInv /\ [Next]_vars =>
        [\A i \in Instance :
            pc[i] = "CheckTimeout" /\ pc'[i] = "Done" /\ ~conf[i].userTimeout =>
              /\ NoUnknown
              /\ timeoutWl = ClearedTimeoutWl
              /\ memOverload = {}
              /\ Unsaved(i) = {}]_vars
  BY <1>1
<1>3. QED
  BY <1>2, RoundHolds, PTL DEF Spec, FinishedIsComplete

\* Only SaveMutationScore samples the score.
LEMMA ScoringStep ==
    ASSUME Inv, NEW i \in Instance, Next, ~scored[i], scored'[i]
    PROVE  SaveMutationScore(i)
<1>1. scored \in [Instance -> BOOLEAN]
  BY DEF Inv, DriverTypeOK
<1>2. ~UserStep
  BY DEF UserStep, sessionVars
<1>3. PICK j \in Instance :
         \/ PcAction(j) \/ TableAction(j) \/ LocalAction(j) \/ RestOfSession(j)
         \/ MailAction(j) \/ ContextAction(j) \/ ActorStep(j)
  BY <1>2, StepIsAction
<1>4. ~PcAction(j)
  BY PcActionFrame DEF UnchangedButPc, sessionVars
<1>5. ~TableAction(j) /\ ~LocalAction(j) /\ ~MailAction(j)
  BY DEF TableAction, Initialize, UpdateAndResetAliveMutants, ResetAlive, AddOldMutants,
         PullRequest, PropagateCoverage, RollBackLatest, UnchangedButWorklist, LocalAction,
         CountWorklist, MeasureTestSuite, NextSchemata, NextMutant, UnchangedButLocal,
         MailAction, SchemaResult, SendResult, Done, Stop, ForcedExit, Exit, sessionVars
<1>6. ~ContextAction(j) /\ ~ActorStep(j)
  BY DEF ContextAction, CheckMutantsLeft, UpdateTimeout, Execute, ResetTimeoutContext,
         ActorStep, sessionVars
<1>7. RestOfSession(j) => SaveMutationScore(i)
  BY <1>1 DEF RestOfSession, StartSession, MutationTest, Tested, TestedNoResult,
              TestedFilesysError, SaveMutationScore
<1>8. QED
  BY <1>3, <1>4, <1>5, <1>6, <1>7

\* The score is only sampled when every timeout is confirmed, though saving it
\* looks at the size of the timeout worklist alone.
THEOREM ScoreIsSampledLast == ASSUME Steady PROVE Spec => ScoreIsFinal
<1>1. ASSUME Inv, RoundInv, Next, NEW i \in Instance, ~scored[i], scored'[i],
             NEW m \in Mutant, status[m] = "timeout"
      PROVE  savedIter[m] >= 1
  <2>1. CountTimeoutWl(timeoutWl) = 0
    BY <1>1, ScoringStep DEF SaveMutationScore, Inv, DriverTypeOK
  <2>2. timeoutWl[m] = NotListed
    BY <1>1, <2>1, CountIsZero DEF Listed
  <2>3. savedIter[m] # 0
    BY <1>1, <2>2 DEF RoundInv, RowInv
  <2>4. QED
    BY <1>1, <2>3, ValuesTyped
<1>2. Inv /\ QueueInv /\ RoundInv /\ [Next]_vars =>
        [\A i \in Instance : ~scored[i] /\ scored'[i] /\ ~conf[i].userTimeout =>
            \A m \in Mutant : status[m] = "timeout" => savedIter[m] >= 1]_vars
  BY <1>1
<1>3. QED
  BY <1>2, RoundHolds, PTL DEF Spec, ScoreIsFinal
-----------------------------------------------------------------------------
(* Any number of sessions on one database.                                 *)

\* No session propagates coverage, which makes mutants unknown without queueing
\* them, or rolls back results while others test; a test ends in a verdict; and
\* the user acts when no session runs.
Sharing ==
    /\ ~AdminWhileTesting
    /\ \A c \in Config : ~c.coverage
    /\ (\A i, j \in Instance : i = j) \/ \A c \in Config : ~c.contCheck
    /\ "unknown" \notin Outcome

\* Where a session does not rely on the worklist.
Outside == {"NotStarted", "Initialize", "Error", "Stop"}

UnknownQueued == WithStatus({"unknown"}) \subseteq worklist

\* Every result in s is a verdict.
VerdictsIn(s) == \A n \in 1 .. Len(s) : IsResult(s[n]) => s[n].st # "unknown"

\* Strengthens UnknownIsQueued: Initialize establishes it for every session, and
\* what is on its way to the database takes no mutant that stays unknown from
\* the worklist.
QueuedInv ==
    \A i \in Instance :
        /\ pc[i] \notin Outside => UnknownQueued
        /\ pc[i] \notin {"Coverage", "PropagateCoverage"}
        /\ \A r \in local[i].result : r.st # "unknown"
        /\ VerdictsIn(mailbox[i])

\* A step of session i after which every unknown mutant is queued if it was
\* before, or in any case.
LEMMA StaysQueued ==
    ASSUME QueuedInv, NEW i \in Instance,
           \A j \in Instance : j # i => /\ pc'[j] = pc[j] /\ local'[j] = local[j]
                                        /\ mailbox'[j] = mailbox[j],
           UnknownQueued => UnknownQueued',
           pc'[i] \notin Outside => pc[i] \notin Outside \/ UnknownQueued',
           pc'[i] \notin {"Coverage", "PropagateCoverage"},
           \A r \in local'[i].result : r.st # "unknown",
           VerdictsIn(mailbox'[i])
    PROVE  QueuedInv'
BY DEF QueuedInv

\* The handlers that only choose the next state.
LEMMA PcActionQueued ==
    ASSUME Sharing, Inv, QueuedInv, NEW i \in Instance, PcAction(i) PROVE QueuedInv'
<1>1. pc \in [Instance -> State]
  BY DEF Inv, DriverTypeOK
<1>2. UNCHANGED <<status, worklist, local, mailbox>>
  BY PcActionFrame DEF UnchangedButPc, dbVars, tables, actorVars
<1>3. /\ \A j \in Instance : j # i => pc'[j] = pc[j]
      /\ pc'[i] \notin Outside => pc[i] \notin Outside
      /\ pc'[i] \notin {"Coverage", "PropagateCoverage"}
  BY <1>1
  DEF PcAction, SanityCheck, PreCompileSut, ChooseMode, AfterReset, AnalyzeTestCmdForTestCase,
      RetestOldMutant, Coverage, AllMutantsTested, OverloadCheck, Cleanup,
      CheckPullRequestMutant, SchemataTest, HandleTestResult, CheckStopCond, CheckTimeout,
      WaitForDb, Error, Handler, Outside, QueuedInv
<1>4. UnknownQueued' = UnknownQueued
  BY <1>2 DEF UnknownQueued, WithStatus
<1>5. QED
  BY <1>2, <1>3, <1>4, StaysQueued DEF QueuedInv

\* Initialize queues what is unknown, the other handlers what they make unknown.
LEMMA TableActionQueued ==
    ASSUME Sharing, Inv, QueuedInv, NEW i \in Instance, TableAction(i) PROVE QueuedInv'
<1>1. pc \in [Instance -> State] /\ status \in [Mutant -> Status] /\ conf[i] \in Config
  BY DEF Inv, DriverTypeOK, DbActorInv, FsmInv, FsmTypeOK
<1>2. local' = local /\ mailbox' = mailbox
  BY DEF TableAction, Initialize, UpdateAndResetAliveMutants, ResetAlive, AddOldMutants,
         PullRequest, PropagateCoverage, RollBackLatest, UnchangedButWorklist, actorVars
<1>3. /\ \A j \in Instance : j # i => pc'[j] = pc[j]
      /\ pc'[i] \notin {"Coverage", "PropagateCoverage"} /\ ~PropagateCoverage(i)
  BY <1>1 DEF TableAction, Initialize, UpdateAndResetAliveMutants, ResetAlive, AddOldMutants,
              PullRequest, PropagateCoverage, RollBackLatest, Handler, AfterReset, QueuedInv
<1>4. CASE Initialize(i)
  <2>1. UnknownQueued'
    BY <1>4 DEF Initialize, ReducedWorklist, UnknownQueued, WithStatus
  <2>2. QED
    BY <1>2, <1>3, <2>1, StaysQueued DEF QueuedInv
<1>5. CASE UpdateAndResetAliveMutants(i) \/ ResetAlive(i) \/ AddOldMutants(i) \/ PullRequest(i)
  <2>1. UnknownQueued => UnknownQueued'
    <3>1. CASE UpdateAndResetAliveMutants(i)
      BY <1>1, <3>1 DEF UpdateAndResetAliveMutants, UnknownQueued, WithStatus
    <3>2. CASE ResetAlive(i) \/ AddOldMutants(i) \/ PullRequest(i)
      BY <3>2 DEF ResetAlive, AddOldMutants, PullRequest, UnchangedButWorklist, UnknownQueued,
                  WithStatus
    <3>3. QED
      BY <1>5, <3>1, <3>2
  <2>2. pc[i] \notin Outside
    BY <1>5 DEF UpdateAndResetAliveMutants, ResetAlive, AddOldMutants, PullRequest, Handler,
                Outside
  <2>3. QED
    BY <1>2, <1>3, <2>1, <2>2, StaysQueued DEF QueuedInv
<1>6. CASE RollBackLatest(i)
  \* nobody else relies on the worklist
  <2>1. \A j \in Instance : j = i
    BY <1>1, <1>6 DEF RollBackLatest, Sharing
  <2>2. pc'[i] \in Outside
    BY <1>1, <1>6 DEF RollBackLatest, Handler, Outside
  <2>3. QED
    BY <1>2, <1>3, <2>1, <2>2 DEF QueuedInv
<1>7. QED
  BY <1>3, <1>4, <1>5, <1>6 DEF TableAction

\* The handlers that keep something between visits.
LEMMA LocalActionQueued ==
    ASSUME Sharing, Inv, QueuedInv, NEW i \in Instance, LocalAction(i) PROVE QueuedInv'
<1>1. pc \in [Instance -> State] /\ ~conf[i].coverage
  BY DEF Inv, DriverTypeOK, Sharing
<1>2. UNCHANGED <<status, worklist, mailbox>>
      /\ \A j \in Instance : (j # i => local'[j] = local[j]) /\ local'[j].result = local[j].result
  BY LocalActionFrame
  DEF LocalAction, CountWorklist, MeasureTestSuite, NextSchemata, NextMutant,
      UnchangedButLocal, dbVars, tables
<1>3. /\ \A j \in Instance : j # i => pc'[j] = pc[j]
      /\ pc'[i] \notin {"Coverage", "PropagateCoverage"} /\ pc[i] \notin Outside
  BY <1>1 DEF LocalAction, CountWorklist, MeasureTestSuite, NextSchemata, NextMutant, Handler,
              Outside
<1>4. UnknownQueued' = UnknownQueued
  BY <1>2 DEF UnknownQueued, WithStatus
<1>5. QED
  BY <1>2, <1>3, <1>4, StaysQueued DEF QueuedInv

\* Testing a mutant ends in a verdict, on others than it too.
LEMMA RestOfSessionQueued ==
    ASSUME Sharing, Inv, QueuedInv, NEW i \in Instance, RestOfSession(i) PROVE QueuedInv'
<1>1. pc \in [Instance -> State] /\ local \in [Instance -> LocalType]
  BY DEF Inv, DriverTypeOK
<1>2. UNCHANGED <<status, worklist, mailbox>>
  BY DEF RestOfSession, StartSession, MutationTest, Tested, TestedNoResult,
         TestedFilesysError, SaveMutationScore, dbVars, tables, actorVars
<1>3. /\ \A j \in Instance : j # i => pc'[j] = pc[j] /\ local'[j] = local[j]
      /\ pc'[i] \notin {"Coverage", "PropagateCoverage"}
      /\ pc'[i] \notin Outside => pc[i] \notin Outside
  BY <1>1 DEF RestOfSession, StartSession, MutationTest, Tested, TestedNoResult,
              TestedFilesysError, SaveMutationScore, Handler, Outside
<1>4. \A r \in local'[i].result : r.st # "unknown"
  <2>0. \A c : c \in (IF conf[i].useSkipMutant
                       THEN SUBSET (WithStatus({"unknown"}) \ {local[i].nextMutant})
                       ELSE {{}}) => c \in SUBSET Mutant
    BY DEF WithStatus
  <2>1. CASE StartSession(i)
    BY <1>1, <2>1 DEF StartSession, InitLocal
  <2>2. CASE Tested(i)
    <3>1. PICK st \in Outcome \ NoVerdict, covered \in SUBSET Mutant,
               d \in {FALSE, local[i].unrestored} :
             local' = [local EXCEPT ![i].result =
                         {[id |-> local[i].nextMutant, st |-> st]}
                         \cup {[id |-> m, st |-> "skipped"] : m \in covered},
                                    ![i].unrestored = d]
      BY <2>0, <2>2 DEF Tested
    <3>2. local'[i].result = {[id |-> local[i].nextMutant, st |-> st]}
                             \cup {[id |-> m, st |-> "skipped"] : m \in covered}
      BY <1>1, <3>1 DEF LocalType
    <3>3. st # "unknown"
      BY DEF Sharing
    <3>4. QED
      BY <3>2, <3>3
  <2>3. CASE local' = local
    BY <2>3 DEF QueuedInv
  <2>4. CASE TestedNoResult(i)
    <3>1. local'[i].result = local[i].result
      BY <1>1, <2>4 DEF TestedNoResult, LocalType
    <3>2. QED
      BY <3>1 DEF QueuedInv
  <2>5. QED
    BY <2>1, <2>2, <2>3, <2>4 DEF RestOfSession, MutationTest, TestedFilesysError,
                                  SaveMutationScore
<1>5. UnknownQueued' = UnknownQueued
  BY <1>2 DEF UnknownQueued, WithStatus
<1>6. QED
  BY <1>2, <1>3, <1>4, <1>5, StaysQueued DEF QueuedInv

\* One more message, one fewer.
LEMMA VerdictsInAppend ==
    ASSUME NEW s \in Seq(Message), NEW e \in Message, VerdictsIn(s),
           IsResult(e) => e.st # "unknown"
    PROVE  VerdictsIn(Append(s, e))
BY AppendProperties DEF VerdictsIn

\* What is left of a mailbox when its first message is taken are still verdicts.
LEMMA VerdictsInTail ==
    ASSUME NEW s \in Seq(Message), s # << >>, VerdictsIn(s)
    PROVE  VerdictsIn(Tail(s)) /\ (IsResult(Head(s)) => Head(s).st # "unknown")
<1>1. /\ Len(Tail(s)) = Len(s) - 1 /\ Len(s) \in Nat /\ Len(s) >= 1
      /\ \A n \in 1 .. Len(Tail(s)) : Tail(s)[n] = s[n + 1]
      /\ Head(s) = s[1]
  BY HeadTailProperties
<1>2. QED
  BY <1>1 DEF VerdictsIn

\* A mail of a result carries its verdict.
LEMMA MailVerdict ==
    ASSUME NEW type, NEW r, NEW k PROVE Mail(type, r, k).st = r.st
BY DEF Mail

\* Only verdicts are sent.
LEMMA MailActionQueued ==
    ASSUME Sharing, Inv, QueuedInv, NEW i \in Instance, MailAction(i) PROVE QueuedInv'
<1>1. /\ mailbox \in [Instance -> Seq(Message)] /\ mailbox[i] \in Seq(Message)
      /\ pc \in [Instance -> State] /\ local \in [Instance -> LocalType]
      /\ output[i].iter \in Iteration /\ local[i].result \subseteq [id : Mutant, st : Status]
  BY DEF Inv, DriverTypeOK, DbActorInv, DbActorTypeOK, FsmInv, FsmTypeOK, LocalType
<1>2. UNCHANGED <<status, worklist>>
  BY DEF MailAction, SchemaResult, SendResult, Done, Stop, ForcedExit, Exit, tables
<1>3. UnknownQueued' = UnknownQueued
  BY <1>2 DEF UnknownQueued, WithStatus
<1>4. /\ \A j \in Instance : j # i => /\ pc'[j] = pc[j] /\ local'[j] = local[j]
                                      /\ mailbox'[j] = mailbox[j]
      /\ pc'[i] \notin {"Coverage", "PropagateCoverage"}
      /\ pc'[i] \notin Outside => pc[i] \notin Outside
  BY <1>1
  DEF MailAction, SchemaResult, SendResult, Done, Stop, ForcedExit, Exit, Handler, Outside,
      QueuedInv
<1>5. \A r \in local'[i].result : r.st # "unknown"
  <2>1. CASE SendResult(i)
    <3>1. local'[i].result \subseteq local[i].result
      BY <1>1, <2>1 DEF SendResult, LocalType
    <3>2. QED
      BY <3>1 DEF QueuedInv
  <2>2. CASE Stop(i) \/ ForcedExit(i)
    BY <1>1, <2>2 DEF Stop, ForcedExit, Exit, InitLocal
  <2>3. CASE local' = local
    BY <2>3 DEF QueuedInv
  <2>4. QED
    BY <2>1, <2>2, <2>3 DEF MailAction, SchemaResult, Done
<1>6. VerdictsIn(mailbox'[i])
  <2>1. VerdictsIn(mailbox[i])
    BY DEF QueuedInv
  <2>2. CASE SchemaResult(i)
    <3>1. PICK m \in worklist \ UnsavedIds(i), st \in Outcome \ NoVerdict :
             mailbox' = [mailbox EXCEPT ![i] =
                           Append(@, Mail("save", [id |-> m, st |-> st], output[i].iter))]
      BY <2>2 DEF SchemaResult
    <3> DEFINE msg == Mail("save", [id |-> m, st |-> st], output[i].iter)
    <3>2. m \in Mutant /\ st \in Status
      BY InvTables, TestDriverAssumption DEF TablesTyped
    <3>3. msg \in Message /\ msg.st # "unknown"
      BY <1>1, <3>2, MailType, MailVerdict DEF Sharing
    <3>4. mailbox'[i] = Append(mailbox[i], msg)
      BY <1>1, <3>1
    <3> HIDE DEF msg
    <3>5. QED
      BY <1>1, <2>1, <3>3, <3>4, VerdictsInAppend
  <2>3. CASE SendResult(i)
    <3>1. PICK r \in local[i].result :
             mailbox' = [mailbox EXCEPT ![i] = Append(@, Mail("save2", r, output[i].iter))]
      BY <2>3 DEF SendResult
    <3> DEFINE msg == Mail("save2", r, output[i].iter)
    <3>2. msg \in Message
      BY <1>1, MailType
    <3>3. msg.st # "unknown"
      BY MailVerdict DEF QueuedInv
    <3>4. mailbox'[i] = Append(mailbox[i], msg)
      BY <1>1, <3>1
    <3> HIDE DEF msg
    <3>5. QED
      BY <1>1, <2>1, <3>2, <3>3, <3>4, VerdictsInAppend
  <2>4. CASE Done(i)
    <3> DEFINE msg == [type |-> "isDone"]
    <3>1. msg \in Message /\ ~IsResult(msg)
      BY DEF Message, IsResult
    <3>2. mailbox'[i] = Append(mailbox[i], msg)
      BY <1>1, <2>4 DEF Done
    <3> HIDE DEF msg
    <3>3. QED
      BY <1>1, <2>1, <3>1, <3>2, VerdictsInAppend
  <2>5. CASE Stop(i) \/ ForcedExit(i)
    <3>1. mailbox'[i] = << >>
      BY <1>1, <2>5 DEF Stop, ForcedExit, Exit
    <3>2. QED
      BY <3>1 DEF VerdictsIn
  <2>6. QED
    BY <2>2, <2>3, <2>4, <2>5 DEF MailAction
<1>7. QED
  BY <1>3, <1>4, <1>5, <1>6, StaysQueued DEF QueuedInv

\* The TimeoutFsm only adds to the worklist.
LEMMA ContextActionQueued ==
    ASSUME Sharing, Inv, QueuedInv, NEW i \in Instance, ContextAction(i) PROVE QueuedInv'
<1>1. pc \in [Instance -> State]
  BY DEF Inv, DriverTypeOK
<1>2. UNCHANGED <<mailbox, local>>
  BY DEF ContextAction, CheckMutantsLeft, UpdateTimeout, Execute, ResetTimeoutContext,
         actorVars
<1>3. UNCHANGED status
  BY ExecuteFrame
  DEF ContextAction, CheckMutantsLeft, UpdateTimeout, Execute, ResetTimeoutContext, tables
<1>4. UnknownQueued => UnknownQueued'
  BY <1>3, ContextActionGrows DEF UnknownQueued, WithStatus
<1>5. /\ \A j \in Instance : j # i => pc'[j] = pc[j]
      /\ pc'[i] \notin {"Coverage", "PropagateCoverage"}
      /\ pc'[i] \notin Outside => pc[i] \notin Outside
  BY <1>1
  DEF ContextAction, CheckMutantsLeft, UpdateTimeout, Execute, ResetTimeoutContext, Handler,
      Outside, QueuedInv
<1>6. QED
  BY <1>2, <1>4, <1>5, StaysQueued DEF QueuedInv

\* What takes a mutant from the worklist gives it a verdict.
LEMMA ActorStepQueued ==
    ASSUME Sharing, Inv, QueuedInv, NEW i \in Instance, ActorStep(i) PROVE QueuedInv'
<1>1. mailbox \in [Instance -> Seq(Message)] /\ mailbox[i] \in Seq(Message)
      /\ DbActorTypeOK /\ mailbox[i] # << >> /\ Received(i) = Head(mailbox[i])
  BY DEF Inv, DbActorInv, DbActorTypeOK, ActorStep, DbActorStep, Save2, Save, IsDone,
         HasMail, Received
<1>2. /\ VerdictsIn(Tail(mailbox[i])) /\ Tail(mailbox[i]) \in Seq(Message)
      /\ IsResult(Head(mailbox[i])) => Head(mailbox[i]).st # "unknown"
  BY <1>1, VerdictsInTail, HeadTailProperties DEF QueuedInv
<1>3. /\ UNCHANGED <<pc, local>>
      /\ \A j \in Instance : j # i => mailbox'[j] = mailbox[j]
  BY <1>1 DEF ActorStep, DbActorStep, Save2, Save, IsDone, Requeue, Consume
<1>4. VerdictsIn(mailbox'[i])
  <2>1. CASE Save2(i)
    <3> DEFINE e == [Received(i) EXCEPT !.type = "save"]
    <3>1. Received(i) \in Message /\ Received(i).type = "save2"
      BY <1>1, <2>1, ReceivedType DEF Save2, HasMail
    <3>2. e \in Message
      BY <1>1, <2>1, RequeuedType DEF Save2
    <3>3. e.st = Received(i).st
      BY <3>1, ResultMessage
    <3>4. IsResult(Head(mailbox[i])) /\ mailbox'[i] = Append(Tail(mailbox[i]), e)
      BY <1>1, <2>1, <3>1 DEF IsResult, Save2, Requeue
    <3> HIDE DEF e
    <3>5. QED
      BY <1>1, <1>2, <3>2, <3>3, <3>4, VerdictsInAppend
  <2>2. CASE Save(i) \/ IsDone(i)
    BY <1>1, <1>2, <2>2 DEF Save, IsDone, Consume
  <2>3. QED
    BY <2>1, <2>2 DEF ActorStep, DbActorStep
<1>5. UnknownQueued => UnknownQueued'
  <2>1. CASE Save(i)
    <3> DEFINE id == Received(i).id
               st == Received(i).st
    <3>1. st # "unknown"
      BY <1>1, <1>2, <2>1 DEF Save, HasMail, IsResult
    <3>2. status' = [status EXCEPT ![id] = st] /\ worklist' = worklist \ {id}
      BY <2>1 DEF Save, UpdateMutantStatus
    <3>3. status \in [Mutant -> Status]
      BY InvTables DEF TablesTyped
    <3> HIDE DEF id, st
    <3>4. WithStatus({"unknown"})' \subseteq WithStatus({"unknown"}) \ {id}
      BY <3>1, <3>2, <3>3 DEF WithStatus
    <3>5. QED
      BY <3>2, <3>4 DEF UnknownQueued
  <2>2. CASE Save2(i) \/ IsDone(i)
    BY <2>2 DEF Save2, IsDone, tables, UnknownQueued, WithStatus
  <2>3. QED
    BY <2>1, <2>2 DEF ActorStep, DbActorStep
<1>6. QED
  BY <1>3, <1>4, <1>5, StaysQueued DEF QueuedInv

\* The user acts when no session runs.
LEMMA UserStepQueued ==
    ASSUME Sharing, Inv, QueuedInv, UserStep PROVE QueuedInv'
<1>1. NoSession /\ UNCHANGED <<pc, local, mailbox>>
  BY DEF UserStep, Sharing, actorVars
<1>2. QED
  BY <1>1 DEF NoSession, QueuedInv, Outside

\* No session has been started.
LEMMA InitQueued ==
    ASSUME Init PROVE QueuedInv
BY DEF Init, DbActorInit, QueuedInv, Outside, InitLocal, VerdictsIn

\* Every step preserves it.
LEMMA QueuedStep ==
    ASSUME Sharing, Inv, QueuedInv, [Next]_vars PROVE QueuedInv'
<1>1. CASE Next
  BY <1>1, StepIsAction, PcActionQueued, TableActionQueued, LocalActionQueued,
     RestOfSessionQueued, MailActionQueued, ContextActionQueued, ActorStepQueued,
     UserStepQueued
<1>2. CASE UNCHANGED vars
  BY <1>2 DEF vars, dbVars, tables, actorVars, QueuedInv, UnknownQueued, WithStatus
<1>3. QED
  BY <1>1, <1>2

\* While any session is in its main loop no mutant without a result is missing
\* from the worklist, whatever number of sessions test, save their results, are
\* killed or started again: NextMutant comes to every mutant that
\* TimeoutFsm.step waits for.
THEOREM NothingUnknownIsForgotten == ASSUME Sharing PROVE Spec => []UnknownIsQueued
<1>1. QueuedInv => UnknownIsQueued
  BY DEF QueuedInv, UnknownIsQueued, UnknownQueued, Outside, MainLoop
<1>2. Inv /\ QueuedInv /\ [Next]_vars => QueuedInv'
  BY QueuedStep
<1>3. Spec => []QueuedInv
  BY <1>2, InitQueued, InvHolds, PTL DEF Spec
<1>4. QED
  BY <1>1, <1>3, PTL
=============================================================================
