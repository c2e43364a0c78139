-------------------------- MODULE TestDriverProofs --------------------------
(***************************************************************************)
(* Type correctness of the test sessions, for every set of mutants, every  *)
(* number of instances and every choice of configurations: first of the    *)
(* timeout machine and of the handlers of the actor that saves the         *)
(* results, then of the sessions around them.  Then their safety: no crash *)
(* loses a result, and no mutant is tested before the test suite was       *)
(* measured on source code without a mutant in it.                         *)
(***************************************************************************)
EXTENDS TestDriver, FiniteSetTheorems, SequenceTheorems, TLAPS

\* At most one instance has the transaction of TimeoutFsm.execute open.
OneTransaction ==
    \A i, j \in Instance : fsm[i] # "Idle" /\ fsm[j] # "Idle" => i = j

\* A round is only prepared while there is one left: the Purge state ends the
\* algorithm when ctx.iter has reached MaxTimeoutIterations.
RoundLeft ==
    \A i \in Instance :
        /\ fsm[i] = "Init" => ctx.iter = 0
        /\ fsm[i] = "ResetWorkList" => ctx.iter < MaxTimeoutIterations

FsmInv == FsmTypeOK /\ OneTransaction /\ RoundLeft
-----------------------------------------------------------------------------
\* COUNT(*) of the timeout worklist is a number: there are finitely many mutants.
LEMMA CountTimeoutWlType ==
    ASSUME NEW wl PROVE CountTimeoutWl(wl) \in Nat
<1>1. {m \in Mutant : wl[m] # NotListed} \in SUBSET Mutant
  OBVIOUS
<1>2. IsFiniteSet({m \in Mutant : wl[m] # NotListed})
  BY <1>1, MutantAssumption, FS_Subset
<1>3. QED
  BY <1>2, FS_CardinalityType DEF CountTimeoutWl

\* updateMutantStatus writes a row that names a round there is.
LEMMA UpdateMutantStatusType ==
    ASSUME FsmTypeOK, NEW m \in Mutant, NEW st \in Status, NEW k \in Iteration,
           UpdateMutantStatus(m, st, k)
    PROVE  /\ status' \in [Mutant -> Status]
           /\ timeoutWl' \in [Mutant -> Iteration \cup {NotListed}]
           /\ memOverload' \subseteq Mutant
BY DEF FsmTypeOK, UpdateMutantStatus

\* The statements that delete rows leave a timeout worklist.
LEMMA TimeoutWlType ==
    ASSUME FsmTypeOK
    PROVE  /\ ReducedTimeoutWl \in [Mutant -> Iteration \cup {NotListed}]
           /\ ClearedTimeoutWl \in [Mutant -> Iteration \cup {NotListed}]
BY DEF FsmTypeOK, ReducedTimeoutWl, ClearedTimeoutWl

\* Who opens or holds the transaction is its only holder.
LEMMA HolderIsAlone ==
    ASSUME FsmInv, NEW i \in Instance, NEW s \in FsmState,
           ~InTransaction \/ fsm[i] # "Idle",
           fsm' = [fsm EXCEPT ![i] = s]
    PROVE  /\ fsm' \in [Instance -> FsmState]
           /\ OneTransaction'
           /\ \A j \in Instance : j # i => fsm'[j] = "Idle"
           /\ fsm'[i] = s
BY DEF FsmInv, FsmTypeOK, OneTransaction, InTransaction
-----------------------------------------------------------------------------
\* A step that changes neither the machine nor the context, and leaves the
\* tables well formed, preserves the invariant.
LEMMA TablesOnly ==
    ASSUME FsmInv, UNCHANGED fsmVars,
           status' \in [Mutant -> Status],
           worklist' \subseteq Mutant,
           timeoutWl' \in [Mutant -> Iteration \cup {NotListed}],
           memOverload' \subseteq Mutant
    PROVE  FsmInv'
BY DEF FsmInv, FsmTypeOK, OneTransaction, RoundLeft, fsmVars

\* Outside the transaction the context may be written too.
LEMMA ContextOutsideTransaction ==
    ASSUME FsmInv, UNCHANGED <<fsm, output>>, ~InTransaction,
           ctx' \in [iter : Iteration, worklistCount : Nat,
                     state : {"init_", "running", "done"}],
           status' \in [Mutant -> Status],
           worklist' \subseteq Mutant,
           timeoutWl' \in [Mutant -> Iteration \cup {NotListed}],
           memOverload' \subseteq Mutant
    PROVE  FsmInv'
BY DEF FsmInv, FsmTypeOK, OneTransaction, RoundLeft, InTransaction

\* The context of an empty table is well formed.
LEMMA InitCtxType ==
    InitCtx \in [iter : Iteration, worklistCount : Nat,
                 state : {"init_", "running", "done"}]
BY IterationsAssumption DEF InitCtx, Iteration

\* The timeout machine of a new database is well formed.
LEMMA FsmInitInv ==
    ASSUME status \in [Mutant -> Status], worklist = {}, memOverload = {},
           timeoutWl = ClearedTimeoutWl, FsmInit
    PROVE  FsmInv
<1>1. ctx \in [iter : Iteration, worklistCount : Nat,
               state : {"init_", "running", "done"}]
  BY InitCtxType DEF FsmInit
<1>2. output \in [Instance -> [iter : Iteration, done : BOOLEAN]]
  BY IterationsAssumption DEF FsmInit, Iteration
<1>3. timeoutWl \in [Mutant -> Iteration \cup {NotListed}]
  BY DEF ClearedTimeoutWl
<1>4. FsmTypeOK
  BY <1>1, <1>2, <1>3 DEF FsmTypeOK, FsmInit, FsmState
<1>5. OneTransaction /\ RoundLeft
  BY DEF OneTransaction, RoundLeft, FsmInit
<1>6. QED
  BY <1>4, <1>5 DEF FsmInv
-----------------------------------------------------------------------------
\* Each opCall, entered by the only holder of the transaction, preserves the
\* invariant.  ResetWorkList and UpdateCtx need a round to be left.
LEMMA EnterInv ==
    ASSUME FsmInv, NEW i \in Instance, ~InTransaction \/ fsm[i] # "Idle",
           \/ EnterInit(i)
           \/ EnterResetWorkList(i) /\ ctx.iter < MaxTimeoutIterations
           \/ EnterUpdateCtx(i) /\ ctx.iter < MaxTimeoutIterations
           \/ EnterRunning(i) \/ EnterPurge(i) \/ EnterClearWorkList(i)
           \/ EnterDone(i) \/ EnterStop(i)
    PROVE  FsmInv'
<1> USE IterationsAssumption DEF FsmInv, FsmTypeOK, Enter, SetDone, Iteration
<1>1. CASE EnterInit(i)
  <2>1. ctx' \in [iter : Iteration, worklistCount : Nat,
                  state : {"init_", "running", "done"}]
    BY <1>1, InitCtxType DEF EnterInit
  <2>2. fsm' = [fsm EXCEPT ![i] = "Init"] /\ ctx'.iter = 0
    BY <1>1 DEF EnterInit, InitCtx
  <2>3. OneTransaction' /\ RoundLeft' /\ fsm' \in [Instance -> FsmState]
    BY <2>2, HolderIsAlone DEF FsmState, RoundLeft
  <2>4. output' \in [Instance -> [iter : Iteration, done : BOOLEAN]]
    BY <1>1 DEF EnterInit
  <2>5. QED
    BY <1>1, <2>1, <2>3, <2>4 DEF EnterInit, tables
<1>2. CASE EnterResetWorkList(i) /\ ctx.iter < MaxTimeoutIterations
  <2>1. fsm' = [fsm EXCEPT ![i] = "ResetWorkList"] /\ ctx' = ctx
    BY <1>2 DEF EnterResetWorkList
  <2>2. OneTransaction' /\ RoundLeft' /\ fsm' \in [Instance -> FsmState]
    BY <1>2, <2>1, HolderIsAlone DEF FsmState, RoundLeft
  <2>3. worklist' \subseteq Mutant /\ memOverload' \subseteq Mutant
    BY <1>2 DEF EnterResetWorkList, RowsOfIter
  <2>4. QED
    BY <1>2, <2>2, <2>3 DEF EnterResetWorkList
<1>3. CASE EnterUpdateCtx(i) /\ ctx.iter < MaxTimeoutIterations
  <2>1. fsm' = [fsm EXCEPT ![i] = "UpdateCtx"]
    BY <1>3 DEF EnterUpdateCtx
  <2>2. OneTransaction' /\ RoundLeft' /\ fsm' \in [Instance -> FsmState]
    BY <1>3, <2>1, HolderIsAlone DEF FsmState, RoundLeft
  <2>3. CountTimeoutWl(timeoutWl) \in Nat
    BY CountTimeoutWlType
  <2>4. ctx' \in [iter : Iteration, worklistCount : Nat,
                  state : {"init_", "running", "done"}]
    <3>1. PICK k \in Nat : ctx' = [ctx EXCEPT !.iter = @ + 1, !.worklistCount = k]
      BY <1>3, <2>3 DEF EnterUpdateCtx
    <3>2. ctx.iter \in Iteration /\ ctx.iter + 1 \in Iteration
      BY <1>3
    <3>3. QED
      BY <3>1, <3>2
  <2>5. QED
    BY <1>3, <2>2, <2>4 DEF EnterUpdateCtx, tables
<1>4. CASE EnterRunning(i)
  <2>1. fsm' = [fsm EXCEPT ![i] = "Running"]
    BY <1>4 DEF EnterRunning
  <2>2. OneTransaction' /\ RoundLeft' /\ fsm' \in [Instance -> FsmState]
    BY <2>1, HolderIsAlone DEF FsmState, RoundLeft
  <2>3. QED
    BY <1>4, <2>2 DEF EnterRunning, tables
<1>5. CASE EnterPurge(i)
  <2>1. PICK s \in {"PurgeChanged", "PurgeSame"} : fsm' = [fsm EXCEPT ![i] = s]
    BY <1>5 DEF EnterPurge
  <2>2. OneTransaction' /\ RoundLeft' /\ fsm' \in [Instance -> FsmState]
    BY <2>1, HolderIsAlone DEF FsmState, RoundLeft
  <2>3. timeoutWl' \in [Mutant -> Iteration \cup {NotListed}]
    BY <1>5, TimeoutWlType DEF EnterPurge
  <2>4. QED
    BY <1>5, <2>2, <2>3 DEF EnterPurge
<1>6. CASE EnterClearWorkList(i)
  <2>1. fsm' = [fsm EXCEPT ![i] = "ClearWorkList"]
    BY <1>6 DEF EnterClearWorkList
  <2>2. OneTransaction' /\ RoundLeft' /\ fsm' \in [Instance -> FsmState]
    BY <2>1, HolderIsAlone DEF FsmState, RoundLeft
  <2>3. timeoutWl' \in [Mutant -> Iteration \cup {NotListed}]
    BY <1>6, TimeoutWlType DEF EnterClearWorkList
  <2>4. worklist' \subseteq Mutant /\ memOverload' \subseteq Mutant
    BY <1>6 DEF EnterClearWorkList
  <2>5. QED
    BY <1>6, <2>2, <2>3, <2>4 DEF EnterClearWorkList
<1>7. CASE EnterDone(i)
  <2>1. fsm' = [fsm EXCEPT ![i] = "Done"]
    BY <1>7 DEF EnterDone
  <2>2. OneTransaction' /\ RoundLeft' /\ fsm' \in [Instance -> FsmState]
    BY <2>1, HolderIsAlone DEF FsmState, RoundLeft
  <2>3. ctx' \in [iter : Iteration, worklistCount : Nat,
                  state : {"init_", "running", "done"}]
    BY <1>7 DEF EnterDone
  <2>4. output' \in [Instance -> [iter : Iteration, done : BOOLEAN]]
    BY <1>7 DEF EnterDone
  <2>5. QED
    BY <1>7, <2>2, <2>3, <2>4 DEF EnterDone, tables
<1>8. CASE EnterStop(i)
  <2>1. fsm' = [fsm EXCEPT ![i] = "Idle"]
    BY <1>8 DEF EnterStop
  <2>2. OneTransaction' /\ RoundLeft' /\ fsm' \in [Instance -> FsmState]
    BY <2>1, HolderIsAlone DEF FsmState, RoundLeft
  <2>3. QED
    BY <1>8, <2>2 DEF EnterStop, tables
<1>9. QED
  BY <1>1, <1>2, <1>3, <1>4, <1>5, <1>6, <1>7, <1>8

\* TimeoutFsm.execute preserves the invariant, from the begin of its
\* transaction ...
LEMMA ExecuteBeginInv ==
    ASSUME FsmInv, NEW i \in Instance, ExecuteBegin(i)
    PROVE  FsmInv'
<1>1. ~InTransaction /\ (EnterInit(i) \/ EnterRunning(i) \/ EnterDone(i))
  BY DEF ExecuteBegin
<1>2. QED
  BY <1>1, EnterInv

\* ... through every step of the machine.
LEMMA ExecuteStepInv ==
    ASSUME FsmInv, NEW i \in Instance, ExecuteStep(i)
    PROVE  FsmInv'
<1>1. fsm[i] # "Idle"
  BY DEF ExecuteStep, StepInit, StepResetWorkList, StepUpdateCtx, StepRunning,
         StepPurge, StepClearWorkList, StepDone
<1>2. CASE StepInit(i)
  <2>1. ctx.iter < MaxTimeoutIterations
    BY <1>2, IterationsAssumption DEF StepInit, FsmInv, RoundLeft
  <2>2. QED
    BY <1>1, <1>2, <2>1, EnterInv DEF StepInit
<1>3. CASE StepResetWorkList(i)
  BY <1>1, <1>3, EnterInv DEF StepResetWorkList, FsmInv, RoundLeft
<1>4. CASE StepUpdateCtx(i)
  BY <1>1, <1>4, EnterInv DEF StepUpdateCtx
<1>5. CASE StepRunning(i)
  BY <1>1, <1>5, EnterInv DEF StepRunning
<1>6. CASE StepPurge(i)
  <2>1. ctx.iter # MaxTimeoutIterations => ctx.iter < MaxTimeoutIterations
    <3>1. ctx.iter \in Iteration
      BY DEF FsmInv, FsmTypeOK
    <3>2. QED
      BY <3>1, IterationsAssumption DEF Iteration
  <2>2. QED
    BY <1>1, <1>6, <2>1, EnterInv DEF StepPurge
<1>7. CASE StepClearWorkList(i)
  BY <1>1, <1>7, EnterInv DEF StepClearWorkList
<1>8. CASE StepDone(i)
  BY <1>1, <1>8, EnterInv DEF StepDone
<1>9. QED
  BY <1>2, <1>3, <1>4, <1>5, <1>6, <1>7, <1>8 DEF ExecuteStep
-----------------------------------------------------------------------------
DbActorInv == FsmInv /\ DbActorTypeOK

\* The results in a mailbox s, and that none is in it for a mutant twice.
IsResult(msg) == msg.type # "isDone"
IdsIn(s) == {s[k].id : k \in {n \in 1 .. Len(s) : IsResult(s[n])}}
OnceIn(s) ==
    \A k, l \in 1 .. Len(s) :
        IsResult(s[k]) /\ IsResult(s[l]) /\ s[k].id = s[l].id => k = l
-----------------------------------------------------------------------------
\* UnsavedIds is what IdsIn says of the mailbox.
LEMMA UnsavedIdsDef ==
    ASSUME NEW i \in Instance PROVE UnsavedIds(i) = IdsIn(mailbox[i])
BY DEF UnsavedIds, Unsaved, IdsIn, IsResult

\* A message that is no IsDone carries a result.
LEMMA ResultMessage ==
    ASSUME NEW msg \in Message, msg.type # "isDone"
    PROVE  /\ msg \in [type : {"save2", "save"}, id : Mutant, st : Status, iter : Iteration]
           /\ msg.id \in Mutant /\ msg.st \in Status /\ msg.iter \in Iteration
BY DEF Message

\* send appends one result.
LEMMA IdsOfAppend ==
    ASSUME NEW s \in Seq(Message), NEW e \in Message, OnceIn(s),
           IsResult(e) => e.id \notin IdsIn(s)
    PROVE  /\ OnceIn(Append(s, e))
           /\ IdsIn(Append(s, e)) = IdsIn(s) \cup IF IsResult(e) THEN {e.id} ELSE {}
<1> DEFINE t == Append(s, e)
<1>1. /\ Len(t) = Len(s) + 1 /\ Len(s) \in Nat
      /\ \A k \in 1 .. Len(s) : t[k] = s[k]
      /\ t[Len(s) + 1] = e
  BY AppendProperties
<1> HIDE DEF t
<1>2. OnceIn(t)
  BY <1>1 DEF OnceIn, IdsIn
<1>3. \A x : x \in IdsIn(t) <=> x \in IdsIn(s) \cup IF IsResult(e) THEN {e.id} ELSE {}
  BY <1>1 DEF IdsIn
<1>4. QED
  BY <1>2, <1>3 DEF t

\* Taking the first message away removes its result and no other.
LEMMA IdsOfTail ==
    ASSUME NEW s \in Seq(Message), s # << >>, OnceIn(s)
    PROVE  /\ OnceIn(Tail(s))
           /\ IdsIn(Tail(s)) = IdsIn(s) \ IF IsResult(Head(s)) THEN {Head(s).id} ELSE {}
<1> DEFINE t == Tail(s)
<1>1. /\ Len(t) = Len(s) - 1 /\ Len(s) \in Nat /\ Len(s) >= 1
      /\ \A k \in 1 .. Len(t) : t[k] = s[k + 1]
      /\ Head(s) = s[1]
  BY HeadTailProperties
<1> HIDE DEF t
<1>2. OnceIn(t)
  BY <1>1 DEF OnceIn
<1>3. ASSUME NEW x \in IdsIn(t)
      PROVE  x \in IdsIn(s) \ IF IsResult(Head(s)) THEN {Head(s).id} ELSE {}
  <2>1. PICK k \in 1 .. Len(t) : IsResult(t[k]) /\ x = t[k].id
    BY DEF IdsIn
  <2>2. k + 1 \in 1 .. Len(s) /\ k + 1 # 1 /\ IsResult(s[k + 1]) /\ x = s[k + 1].id
    BY <1>1, <2>1
  <2>3. x \in IdsIn(s)
    BY <2>2 DEF IdsIn
  <2>4. IsResult(s[1]) => s[1].id # x
    BY <1>1, <2>2 DEF OnceIn
  <2>5. QED
    BY <1>1, <2>3, <2>4
<1>4. ASSUME NEW x \in IdsIn(s) \ IF IsResult(Head(s)) THEN {Head(s).id} ELSE {}
      PROVE  x \in IdsIn(t)
  <2>1. PICK k \in 1 .. Len(s) : IsResult(s[k]) /\ x = s[k].id
    BY DEF IdsIn
  <2>2. k # 1
    BY <1>1, <2>1
  <2>3. k - 1 \in 1 .. Len(t) /\ t[k - 1] = s[k]
    BY <1>1, <2>2
  <2>4. QED
    BY <2>1, <2>3 DEF IdsIn
<1>5. QED
  BY <1>2, <1>3, <1>4 DEF t

\* The answer to save2 moves a result to the end of the mailbox.
LEMMA IdsOfRequeue ==
    ASSUME NEW s \in Seq(Message), s # << >>, OnceIn(s), IsResult(Head(s)),
           NEW e \in Message, IsResult(e), e.id = Head(s).id
    PROVE  /\ OnceIn(Append(Tail(s), e))
           /\ IdsIn(Append(Tail(s), e)) = IdsIn(s)
<1>1. Tail(s) \in Seq(Message) /\ Head(s) = s[1] /\ 1 \in 1 .. Len(s)
  BY HeadTailProperties
<1>2. OnceIn(Tail(s)) /\ IdsIn(Tail(s)) = IdsIn(s) \ {e.id}
  BY IdsOfTail
<1>3. e.id \in IdsIn(s)
  BY <1>1 DEF IdsIn
<1>4. e.id \notin IdsIn(Tail(s))
  BY <1>2
<1>5. /\ OnceIn(Append(Tail(s), e))
      /\ IdsIn(Append(Tail(s), e)) = IdsIn(Tail(s)) \cup IF IsResult(e) THEN {e.id} ELSE {}
  BY <1>1, <1>2, <1>4, IdsOfAppend
<1>6. QED
  BY <1>2, <1>3, <1>5
-----------------------------------------------------------------------------
\* An actor that was just spawned has no message.
LEMMA DbActorInitInv ==
    ASSUME DbActorInit PROVE DbActorTypeOK
BY IterationsAssumption DEF DbActorInit, DbActorTypeOK, Iteration

\* The first message of a mailbox is a message, and so are the others.
LEMMA ReceivedType ==
    ASSUME DbActorTypeOK, NEW i \in Instance, mailbox[i] # << >>
    PROVE  Received(i) \in Message /\ Tail(mailbox[i]) \in Seq(Message)
BY HeadTailProperties DEF DbActorTypeOK, Received

\* What is sent is a message.
LEMMA MailType ==
    ASSUME NEW type \in {"save2", "save"}, NEW r \in [id : Mutant, st : Status],
           NEW k \in Iteration
    PROVE  Mail(type, r, k) \in Message /\ IsResult(Mail(type, r, k))
           /\ Mail(type, r, k).id = r.id
BY DEF Mail, Message, IsResult

\* save2 sends itself the result again.
LEMMA RequeuedType ==
    ASSUME DbActorTypeOK, NEW i \in Instance, HasMail(i, "save2")
    PROVE  /\ [Received(i) EXCEPT !.type = "save"] \in Message
           /\ IsResult([Received(i) EXCEPT !.type = "save"])
           /\ [Received(i) EXCEPT !.type = "save"].id = Received(i).id
<1>1. Received(i) \in Message /\ Received(i).type = "save2"
  BY ReceivedType DEF HasMail
<1>2. Received(i) \in [type : {"save2", "save"}, id : Mutant, st : Status, iter : Iteration]
  BY <1>1, ResultMessage
<1>3. QED
  BY <1>2 DEF Message, IsResult

\* The handlers of the actor preserve its types and the invariant of the tables.
LEMMA DbActorStepInv ==
    ASSUME DbActorInv, NEW i \in Instance, DbActorStep(i)
    PROVE  DbActorInv'
<1> USE DEF DbActorInv
<1>1. CASE Save2(i)
  <2>1. FsmInv'
    <3>1. UNCHANGED fsmVars /\ UNCHANGED <<status, worklist, timeoutWl, memOverload>>
      BY <1>1 DEF Save2, tables
    <3>2. QED
      BY <3>1, TablesOnly DEF FsmInv, FsmTypeOK
  <2>2. Append(Tail(mailbox[i]), [Received(i) EXCEPT !.type = "save"]) \in Seq(Message)
    BY <1>1, ReceivedType, RequeuedType, AppendProperties DEF Save2, HasMail
  <2>3. mailbox' \in [Instance -> Seq(Message)]
    BY <1>1, <2>2 DEF Save2, Requeue, DbActorTypeOK
  <2>4. QED
    BY <1>1, <2>1, <2>3 DEF Save2, DbActorTypeOK
<1>2. CASE Save(i)
  <2>1. Received(i) \in Message /\ Received(i).type = "save"
        /\ Tail(mailbox[i]) \in Seq(Message)
    BY <1>2, ReceivedType DEF Save, HasMail
  <2>2. Received(i).id \in Mutant /\ Received(i).st \in Status
        /\ Received(i).iter \in Iteration
    BY <2>1, ResultMessage
  <2>3. /\ status' \in [Mutant -> Status]
        /\ timeoutWl' \in [Mutant -> Iteration \cup {NotListed}]
        /\ memOverload' \subseteq Mutant
    BY <1>2, <2>2, UpdateMutantStatusType DEF Save, FsmInv
  <2>4. worklist' \subseteq Mutant /\ UNCHANGED fsmVars
    BY <1>2 DEF Save, FsmInv, FsmTypeOK
  <2>5. FsmInv'
    BY <2>3, <2>4, TablesOnly
  <2>6. mailbox' \in [Instance -> Seq(Message)]
    BY <1>2, <2>1 DEF Save, Consume, DbActorTypeOK
  <2>7. savedIter' \in [Mutant -> Iteration]
    BY <1>2, <2>2 DEF Save, DbActorTypeOK
  <2>8. QED
    BY <1>2, <2>5, <2>6, <2>7 DEF Save, DbActorTypeOK
<1>3. CASE IsDone(i)
  <2>1. FsmInv'
    <3>1. UNCHANGED fsmVars /\ UNCHANGED <<status, worklist, timeoutWl, memOverload>>
      BY <1>3 DEF IsDone, tables
    <3>2. QED
      BY <3>1, TablesOnly DEF FsmInv, FsmTypeOK
  <2>2. Tail(mailbox[i]) \in Seq(Message)
    BY <1>3, ReceivedType DEF IsDone, HasMail
  <2>3. mailbox' \in [Instance -> Seq(Message)]
    BY <1>3, <2>2 DEF IsDone, Consume, DbActorTypeOK
  <2>4. QED
    BY <1>3, <2>1, <2>3 DEF IsDone, DbActorTypeOK
<1>4. QED
  BY <1>1, <1>2, <1>3 DEF DbActorStep
-----------------------------------------------------------------------------
\* What is injected and tested is a mutant: NextMutant found one.
Picked ==
    \A i \in Instance :
        pc[i] \in {"MutationTest", "Testing"} => local[i].nextMutant \in Mutant

Inv == DbActorInv /\ AdminTypeOK /\ DriverTypeOK /\ Picked

\* The tables, and what surrounds them, are left well formed.
TablesTyped ==
    /\ status \in [Mutant -> Status]
    /\ worklist \subseteq Mutant
    /\ timeoutWl \in [Mutant -> Iteration \cup {NotListed}]
    /\ memOverload \subseteq Mutant
-----------------------------------------------------------------------------
\* The invariant covers the tables.
LEMMA InvTables ==
    ASSUME Inv PROVE TablesTyped
BY DEF Inv, DbActorInv, FsmInv, FsmTypeOK, TablesTyped

\* A transition goes to a state of the machine; one that is not on the way to
\* the test of a mutant needs none to be picked.
Elsewhere == State \ {"MutationTest", "Testing"}

\* A transition to a state of the machine leaves every session in one.
LEMMA HandlerType ==
    ASSUME Inv, NEW i \in Instance, NEW s, NEW t \in State, Handler(i, s, t)
    PROVE  pc' \in [Instance -> State]
BY DEF Inv, DriverTypeOK, Handler

\* A transition elsewhere needs no mutant to be picked.
LEMMA HandlerPicked ==
    ASSUME Inv, NEW i \in Instance, NEW s, NEW t \in Elsewhere, Handler(i, s, t),
           \A j \in Instance : j # i => local'[j] = local[j]
    PROVE  pc' \in [Instance -> State] /\ Picked'
BY DEF Inv, DriverTypeOK, Picked, Handler, Elsewhere

\* What a session starts with is well formed.
LEMMA InitLocalType == InitLocal \in LocalType
BY DEF InitLocal, LocalType

\* Table steps: the machine, the actor and the context are not involved.
LEMMA TableStep ==
    ASSUME Inv, UNCHANGED <<fsmVars, actorVars, adminVars, sessionVars>>,
           TablesTyped', pc' \in [Instance -> State], Picked',
           local' \in [Instance -> LocalType]
    PROVE  Inv'
<1>1. FsmInv'
  BY TablesOnly DEF Inv, DbActorInv, TablesTyped
<1>2. DbActorTypeOK' /\ AdminTypeOK'
  BY DEF Inv, DbActorInv, DbActorTypeOK, AdminTypeOK, actorVars, adminVars
<1>3. DriverTypeOK'
  BY DEF Inv, DriverTypeOK, sessionVars
<1>4. QED
  BY <1>1, <1>2, <1>3 DEF Inv, DbActorInv

\* Steps of the session alone.
LEMMA SessionStep ==
    ASSUME Inv, UNCHANGED <<tables, fsmVars, adminVars>>, DbActorTypeOK', DriverTypeOK',
           Picked'
    PROVE  Inv'
<1>1. FsmInv'
  BY TablesOnly, InvTables DEF Inv, DbActorInv, TablesTyped, tables
<1>2. AdminTypeOK'
  BY DEF Inv, AdminTypeOK, adminVars
<1>3. QED
  BY <1>1, <1>2 DEF Inv, DbActorInv

\* A handler that only chooses the next state.
LEMMA PcStep ==
    ASSUME Inv, UnchangedButPc, pc' \in [Instance -> State], Picked'
    PROVE  Inv'
<1>1. DbActorTypeOK' /\ DriverTypeOK' /\ UNCHANGED <<tables, fsmVars, adminVars>>
  BY DEF Inv, DbActorInv, DbActorTypeOK, DriverTypeOK, UnchangedButPc, dbVars, actorVars,
         sessionVars
<1>2. QED
  BY <1>1, SessionStep

\* A handler that only changes what the session keeps between visits.
LEMMA LocalStep ==
    ASSUME Inv, UnchangedButLocal, pc' \in [Instance -> State], Picked',
           local' \in [Instance -> LocalType]
    PROVE  Inv'
<1>1. DbActorTypeOK' /\ DriverTypeOK' /\ UNCHANGED <<tables, fsmVars, adminVars>>
  BY DEF Inv, DbActorInv, DbActorTypeOK, DriverTypeOK, UnchangedButLocal, dbVars, actorVars,
         sessionVars
<1>2. QED
  BY <1>1, SessionStep
-----------------------------------------------------------------------------
\* The handlers that only choose the next state.
PcAction(i) ==
    \/ SanityCheck(i) \/ PreCompileSut(i) \/ AnalyzeTestCmdForTestCase(i)
    \/ RetestOldMutant(i) \/ Coverage(i) \/ AllMutantsTested(i) \/ OverloadCheck(i)
    \/ Handler(i, "ContinuesCheckTestSuite", Cleanup(i)) /\ UnchangedButPc
    \/ CheckPullRequestMutant(i) \/ SchemataTest(i) \/ HandleTestResult(i)
    \/ CheckStopCond(i) \/ CheckTimeout(i) \/ WaitForDb(i) \/ Error(i)

\* They preserve the invariant.
LEMMA PcActionInv ==
    ASSUME Inv, NEW i \in Instance, PcAction(i) PROVE Inv'
<1>1. UnchangedButPc
  BY DEF PcAction, SanityCheck, PreCompileSut, AnalyzeTestCmdForTestCase,
         RetestOldMutant, Coverage, AllMutantsTested, OverloadCheck,
         CheckPullRequestMutant, SchemataTest, HandleTestResult, CheckStopCond,
         CheckTimeout, WaitForDb, Error
<1>2. PICK s \in State, t \in Elsewhere : Handler(i, s, t)
  <2> USE DEF State, Elsewhere
  <2>1. CASE SanityCheck(i) \/ AnalyzeTestCmdForTestCase(i)
             \/ RetestOldMutant(i) \/ Coverage(i) \/ OverloadCheck(i)
             \/ SchemataTest(i) \/ CheckStopCond(i)
    BY <2>1 DEF SanityCheck, AnalyzeTestCmdForTestCase, RetestOldMutant,
                Coverage, OverloadCheck, SchemataTest, CheckStopCond
  <2>2. CASE PreCompileSut(i)
    BY <2>2 DEF PreCompileSut, ChooseMode, AfterReset
  <2>3. CASE AllMutantsTested(i) \/ CheckPullRequestMutant(i) \/ CheckTimeout(i)
    BY <2>3 DEF AllMutantsTested, CheckPullRequestMutant, CheckTimeout
  <2>4. CASE HandleTestResult(i) \/ WaitForDb(i) \/ Error(i)
             \/ Handler(i, "ContinuesCheckTestSuite", Cleanup(i))
    BY <2>4 DEF Cleanup, HandleTestResult, WaitForDb, Error
  <2>5. QED
    BY <2>1, <2>2, <2>3, <2>4 DEF PcAction
<1>3. pc' \in [Instance -> State] /\ Picked'
  BY <1>1, <1>2, HandlerPicked DEF UnchangedButPc
<1>4. QED
  BY <1>1, <1>3, PcStep
-----------------------------------------------------------------------------
\* The handlers that change the tables.
TableAction(i) ==
    \/ Initialize(i) \/ UpdateAndResetAliveMutants(i) \/ ResetAlive(i) \/ AddOldMutants(i)
    \/ PullRequest(i) \/ PropagateCoverage(i) \/ RollBackLatest(i)

\* What a session's configuration says of the mutants is about mutants.
LEMMA LinesType ==
    ASSUME Inv, NEW i \in Instance PROVE conf[i] \in ConfigType /\ conf[i].lines \subseteq Mutant
BY TestDriverAssumption DEF Inv, DriverTypeOK, ConfigType

\* They preserve the invariant.
LEMMA TableActionInv ==
    ASSUME Inv, NEW i \in Instance, TableAction(i) PROVE Inv'
<1>1. /\ pc' \in [Instance -> State] /\ Picked'
      /\ UNCHANGED <<fsmVars, actorVars, adminVars, sessionVars, local>>
  <2>1. PICK s \in State, t \in Elsewhere : Handler(i, s, t)
    BY DEF TableAction, Initialize, UpdateAndResetAliveMutants, ResetAlive, AddOldMutants,
           PullRequest, PropagateCoverage, RollBackLatest, AfterReset, State, Elsewhere
  <2>2. UNCHANGED <<fsmVars, actorVars, adminVars, sessionVars, local>>
    BY DEF TableAction, Initialize, UpdateAndResetAliveMutants, ResetAlive, AddOldMutants,
           PullRequest, PropagateCoverage, RollBackLatest, UnchangedButWorklist
  <2>3. QED
    BY <2>1, <2>2, HandlerPicked
<1>2. TablesTyped'
  <2> USE DEF TablesTyped, WithStatus
  <2>1. CASE Initialize(i)
    <3>1. worklist' \subseteq Mutant /\ status' = status /\ memOverload' = memOverload
      BY <2>1, InvTables DEF Initialize, ReducedWorklist
    <3>2. timeoutWl' \in [Mutant -> Iteration \cup {NotListed}]
      BY <2>1, TimeoutWlType DEF Initialize, Inv, DbActorInv, FsmInv
    <3>3. QED
      BY <3>1, <3>2, InvTables
  <2>2. CASE UpdateAndResetAliveMutants(i)
    <3>1. PICK orphaned \in SUBSET Mutant :
             /\ status' = [m \in Mutant |-> IF m \in orphaned THEN "unknown" ELSE status[m]]
             /\ worklist' = worklist \cup
                   IF orphaned = {} THEN {}
                   ELSE orphaned \cup WithStatus({"unknown", "skipped"})
      BY <2>2 DEF UpdateAndResetAliveMutants
    <3>2. QED
      BY <2>2, <3>1, InvTables DEF UpdateAndResetAliveMutants, Status
  <2>3. CASE ResetAlive(i)
    BY <2>3, InvTables DEF ResetAlive, UnchangedButWorklist
  <2>4. CASE PullRequest(i)
    BY <2>4, InvTables, LinesType DEF PullRequest, UnchangedButWorklist
  <2>5. CASE PropagateCoverage(i)
    BY <2>5, InvTables DEF PropagateCoverage, Status
  <2>6. CASE RollBackLatest(i)
    BY <2>6, InvTables DEF RollBackLatest, Status
  <2>7. CASE AddOldMutants(i)
    BY <2>7, InvTables DEF AddOldMutants, UnchangedButWorklist
  <2>8. QED
    BY <2>1, <2>2, <2>3, <2>4, <2>5, <2>6, <2>7 DEF TableAction
<1>3. local' \in [Instance -> LocalType]
  BY <1>1 DEF Inv, DriverTypeOK
<1>4. QED
  BY <1>1, <1>2, <1>3, TableStep
-----------------------------------------------------------------------------
\* The handlers that change what the session keeps.
LocalAction(i) ==
    \/ CountWorklist(i) \/ MeasureTestSuite(i) \/ NextSchemata(i) \/ NextMutant(i)

\* Counting the worklist, or the lines of a pull request, gives a number.
LEMMA SubsetCardinality ==
    ASSUME NEW S, S \subseteq Mutant PROVE Cardinality(S) \in Nat
BY MutantAssumption, FS_Subset, FS_CardinalityType

\* They preserve the invariant.
LEMMA LocalActionInv ==
    ASSUME Inv, NEW i \in Instance, LocalAction(i) PROVE Inv'
<1> USE DEF LocalType
<1>1. UnchangedButLocal
  BY DEF LocalAction, CountWorklist, MeasureTestSuite, NextSchemata, NextMutant
<1>2. pc' \in [Instance -> State]
  <2>1. PICK s, t \in State : Handler(i, s, t)
    <3> USE DEF State
    <3>1. CASE CountWorklist(i)
      BY <3>1 DEF CountWorklist
    <3>2. CASE MeasureTestSuite(i)
      BY <3>2 DEF MeasureTestSuite
    <3>3. CASE NextSchemata(i)
      BY <3>3 DEF NextSchemata
    <3>4. CASE NextMutant(i)
      BY <3>4 DEF NextMutant
    <3>5. QED
      BY <3>1, <3>2, <3>3, <3>4 DEF LocalAction
  <2>2. QED
    BY <2>1, HandlerType
<1>3. local \in [Instance -> LocalType] /\ local[i] \in LocalType
  BY DEF Inv, DriverTypeOK
<1>4. local' \in [Instance -> LocalType]
  <2>1. CASE CountWorklist(i)
    <3>1. PICK a \in Nat, b \in Nat :
             local' = [local EXCEPT ![i].startWorklistCnt = a, ![i].stopAfter = b]
      BY <2>1, SubsetCardinality, LinesType, InvTables DEF CountWorklist, TablesTyped
    <3>2. [local[i] EXCEPT !.startWorklistCnt = a, !.stopAfter = b] \in LocalType
      BY <1>3
    <3>3. local' = [local EXCEPT ![i] =
                       [local[i] EXCEPT !.startWorklistCnt = a, !.stopAfter = b]]
      BY <1>3, <3>1
    <3>4. QED
      BY <1>3, <3>2, <3>3
  <2>2. CASE MeasureTestSuite(i)
    <3>1. CASE UNCHANGED local
      BY <1>3, <3>1
    <3>2. CASE local' = [local EXCEPT ![i].measured = ~conf[i].userTimeout]
      BY <1>3, <3>2
    <3>3. QED
      BY <2>2, <3>1, <3>2 DEF MeasureTestSuite
  <2>3. CASE NextSchemata(i)
    BY <1>3, <2>3 DEF NextSchemata
  <2>4. CASE NextMutant(i)
    <3>1. CASE local' = [local EXCEPT ![i].nextMutant = NoMutant]
      BY <1>3, <3>1
    <3>2. CASE \E m \in Candidates(i) :
                  local' = [local EXCEPT ![i].nextMutant = m, ![i].lastTested = m]
      <4>1. PICK m \in Mutant :
               local' = [local EXCEPT ![i].nextMutant = m, ![i].lastTested = m]
        BY <3>2, InvTables DEF Candidates, TablesTyped
      <4>2. [local[i] EXCEPT !.nextMutant = m, !.lastTested = m] \in LocalType
        BY <1>3
      <4>3. local' = [local EXCEPT ![i] =
                         [local[i] EXCEPT !.nextMutant = m, !.lastTested = m]]
        BY <1>3, <4>1
      <4>4. QED
        BY <1>3, <4>2, <4>3
    <3>3. QED
      BY <2>4, <3>1, <3>2 DEF NextMutant
  <2>5. QED
    BY <2>1, <2>2, <2>3, <2>4 DEF LocalAction
<1>5. Picked'
  <2>1. CASE CountWorklist(i) \/ MeasureTestSuite(i) \/ NextSchemata(i)
    <3>1. PICK s \in State, t \in Elsewhere : Handler(i, s, t)
      BY <2>1 DEF CountWorklist, MeasureTestSuite, NextSchemata, State, Elsewhere
    <3>2. \A j \in Instance : j # i => local'[j] = local[j]
      BY <1>3, <2>1 DEF CountWorklist, MeasureTestSuite, NextSchemata
    <3>3. QED
      BY <3>1, <3>2, HandlerPicked
  <2>2. CASE NextMutant(i)
    <3>1. CASE Handler(i, "NextMutant", "CheckTimeout")
      <4>1. \A j \in Instance : j # i => local'[j] = local[j]
        BY <1>3, <2>2 DEF NextMutant
      <4>2. QED
        BY <3>1, <4>1, HandlerPicked DEF State, Elsewhere
    <3>2. CASE \E m \in Candidates(i) :
                  local' = [local EXCEPT ![i].nextMutant = m, ![i].lastTested = m]
               /\ Handler(i, "NextMutant", "MutationTest")
      <4>1. PICK m \in Mutant :
               local' = [local EXCEPT ![i].nextMutant = m, ![i].lastTested = m]
        BY <3>2, InvTables DEF Candidates, TablesTyped
      <4>2. local'[i].nextMutant = m /\ \A j \in Instance : j # i => local'[j] = local[j]
        BY <1>3, <4>1
      <4>3. \A j \in Instance : j # i => pc'[j] = pc[j]
        BY <3>2 DEF Handler, Inv, DriverTypeOK
      <4>4. QED
        BY <4>2, <4>3 DEF Inv, Picked
    <3>3. QED
      BY <2>2, <3>1, <3>2 DEF NextMutant
  <2>3. QED
    BY <2>1, <2>2 DEF LocalAction
<1>6. QED
  BY <1>1, <1>2, <1>4, <1>5, LocalStep
-----------------------------------------------------------------------------
\* Starting, ending and killing a session, testing a mutant and sampling the
\* score.
RestOfSession(i) ==
    \/ StartSession(i) \/ MutationTest(i) \/ Tested(i) \/ TestedNoResult(i)
    \/ TestedFilesysError(i) \/ SaveMutationScore(i)

\* They preserve the invariant.
LEMMA RestOfSessionInv ==
    ASSUME Inv, NEW i \in Instance, RestOfSession(i) PROVE Inv'
<1>1. DriverTypeOK
  BY DEF Inv
<1>2. UNCHANGED <<tables, fsmVars, adminVars, actorVars>>
  BY DEF RestOfSession, StartSession, MutationTest, Tested, TestedNoResult,
         TestedFilesysError, SaveMutationScore, dbVars
<1>3. DbActorTypeOK'
  BY <1>2 DEF Inv, DbActorInv, DbActorTypeOK, actorVars
<1>4. pc' \in [Instance -> State]
  <2>1. PICK s, t \in State : Handler(i, s, t)
    BY DEF RestOfSession, StartSession, MutationTest, Tested, TestedNoResult,
           TestedFilesysError, SaveMutationScore, State
  <2>2. QED
    BY <2>1, HandlerType
<1>5. DriverTypeOK'
  <2> USE DEF DriverTypeOK
  <2>1. CASE StartSession(i)
    <3>1. sessions' \in 0 .. MaxSessions
      BY <1>1, <2>1, TestDriverAssumption DEF StartSession
    <3>2. conf' \in [Instance -> Config] /\ dirty' \in [Instance -> BOOLEAN]
          /\ scored' \in [Instance -> BOOLEAN]
      BY <1>1, <2>1 DEF StartSession
    <3>3. local' \in [Instance -> LocalType]
      BY <1>1, <2>1, InitLocalType DEF StartSession
    <3>4. QED
      BY <1>4, <3>1, <3>2, <3>3
  <2>2. CASE MutationTest(i) \/ TestedFilesysError(i)
    BY <1>1, <1>4, <2>2 DEF MutationTest, TestedFilesysError
  <2>3. CASE Tested(i)
    <3>1. local[i].nextMutant \in Mutant
      BY <2>3 DEF Inv, Picked, Tested, Handler
    <3>2. PICK res \in SUBSET [id : Mutant, st : Status], d \in BOOLEAN :
             /\ local' = [local EXCEPT ![i].result = res, ![i].unrestored = d]
             /\ dirty' = [dirty EXCEPT ![i] = d]
      <4>0. local[i].unrestored \in BOOLEAN
        BY <1>1 DEF LocalType
      <4>1. PICK st \in Outcome \ NoVerdict, covered \in SUBSET Mutant, d \in BOOLEAN :
               /\ local' = [local EXCEPT ![i].result =
                               {[id |-> local[i].nextMutant, st |-> st]}
                               \cup {[id |-> m, st |-> "skipped"] : m \in covered},
                            ![i].unrestored = d]
               /\ dirty' = [dirty EXCEPT ![i] = d]
        <5>1. (IF conf[i].useSkipMutant
                 THEN SUBSET (WithStatus({"unknown"}) \ {local[i].nextMutant})
                 ELSE {{}}) \subseteq SUBSET Mutant
          BY DEF WithStatus
        <5>2. QED
          BY <2>3, <4>0, <5>1 DEF Tested
      <4>2. st \in Status /\ "skipped" \in Status
        BY TestDriverAssumption DEF Status
      <4>3. {[id |-> local[i].nextMutant, st |-> st]} \subseteq [id : Mutant, st : Status]
        BY <3>1, <4>2
      <4>4. {[id |-> m, st |-> "skipped"] : m \in covered} \subseteq [id : Mutant, st : Status]
        BY <4>2
      <4>5. QED
        BY <4>1, <4>3, <4>4
    <3>3. local \in [Instance -> LocalType] /\ local[i] \in LocalType
      BY <1>1 DEF DriverTypeOK
    <3>4. [local[i] EXCEPT !.result = res, !.unrestored = d] \in LocalType
      BY <3>2, <3>3 DEF LocalType
    <3>5. local' = [local EXCEPT ![i] = [local[i] EXCEPT !.result = res, !.unrestored = d]]
      BY <3>2, <3>3
    <3>6. local' \in [Instance -> LocalType]
      BY <3>3, <3>4, <3>5
    <3>7. QED
      BY <1>1, <1>4, <2>3, <3>2, <3>6 DEF Tested
  <2>4. CASE SaveMutationScore(i)
    BY <1>1, <1>4, <2>4 DEF SaveMutationScore
  <2>5. CASE TestedNoResult(i)
    <3>1. PICK d \in BOOLEAN : /\ dirty' = [dirty EXCEPT ![i] = d]
                              /\ local' = [local EXCEPT ![i].unrestored = d]
      BY <2>5 DEF TestedNoResult
    <3>2. [local[i] EXCEPT !.unrestored = d] \in LocalType
      BY <1>1 DEF LocalType
    <3>3. local' = [local EXCEPT ![i] = [local[i] EXCEPT !.unrestored = d]]
      BY <1>1, <3>1
    <3>4. QED
      BY <1>1, <1>4, <2>5, <3>1, <3>2, <3>3 DEF TestedNoResult
  <2>6. QED
    BY <2>1, <2>2, <2>3, <2>4, <2>5 DEF RestOfSession
<1>6. Picked'
  <2>1. CASE MutationTest(i)
    BY <1>1, <2>1 DEF MutationTest, Handler, Inv, Picked, DriverTypeOK
  <2>2. CASE ~MutationTest(i)
    <3>1. PICK s \in State, t \in Elsewhere : Handler(i, s, t)
      BY <2>2 DEF RestOfSession, StartSession, Tested, TestedNoResult, TestedFilesysError,
                  SaveMutationScore, State, Elsewhere
    <3>2. \A j \in Instance : j # i => local'[j] = local[j]
      BY <1>1, <2>2 DEF RestOfSession, StartSession, Tested, TestedNoResult,
                        TestedFilesysError, SaveMutationScore, DriverTypeOK
    <3>3. QED
      BY <3>1, <3>2, HandlerPicked
  <2>3. QED
    BY <2>1, <2>2
<1>7. QED
  BY <1>2, <1>3, <1>5, <1>6, SessionStep
-----------------------------------------------------------------------------
\* Sending a result or the request IsDone, and the end of the actor.
MailAction(i) ==
    SchemaResult(i) \/ SendResult(i) \/ Done(i) \/ Stop(i) \/ ForcedExit(i)

\* They preserve the invariant.
LEMMA MailActionInv ==
    ASSUME Inv, NEW i \in Instance, MailAction(i) PROVE Inv'
<1>1. DriverTypeOK /\ DbActorTypeOK /\ FsmTypeOK /\ Picked
  BY DEF Inv, DbActorInv, FsmInv
<1>2. UNCHANGED <<tables, fsmVars, adminVars, sessionVars, savedIter>>
  BY DEF MailAction, SchemaResult, SendResult, Done, Stop, ForcedExit, Exit
<1>3. mailbox[i] \in Seq(Message) /\ output[i].iter \in Iteration
      /\ local[i].result \subseteq [id : Mutant, st : Status]
  BY <1>1 DEF DbActorTypeOK, FsmTypeOK, DriverTypeOK, LocalType
<1>4. CASE SchemaResult(i)
  <2>1. PICK m \in Mutant, st \in Status :
           mailbox' = [mailbox EXCEPT ![i] =
                         Append(@, Mail("save", [id |-> m, st |-> st], output[i].iter))]
    BY <1>4, InvTables, TestDriverAssumption DEF SchemaResult, TablesTyped
  <2>2. Mail("save", [id |-> m, st |-> st], output[i].iter) \in Message
    BY <1>3, MailType
  <2>3. Append(mailbox[i], Mail("save", [id |-> m, st |-> st], output[i].iter)) \in Seq(Message)
    BY <1>3, <2>2, AppendProperties
  <2>4. DbActorTypeOK'
    BY <1>1, <1>4, <2>1, <2>3 DEF SchemaResult, DbActorTypeOK
  <2>5. DriverTypeOK' /\ Picked'
    BY <1>1, <1>4 DEF SchemaResult, DriverTypeOK, Picked, sessionVars
  <2>6. QED
    BY <1>2, <2>4, <2>5, SessionStep
<1>5. CASE SendResult(i)
  <2>1. PICK r \in local[i].result :
           /\ mailbox' = [mailbox EXCEPT ![i] = Append(@, Mail("save2", r, output[i].iter))]
           /\ local' = [local EXCEPT ![i].result = @ \ {r}]
    BY <1>5 DEF SendResult
  <2>2. Mail("save2", r, output[i].iter) \in Message
    BY <1>3, MailType
  <2>3. Append(mailbox[i], Mail("save2", r, output[i].iter)) \in Seq(Message)
    BY <1>3, <2>2, AppendProperties
  <2>4. DbActorTypeOK'
    BY <1>1, <1>5, <2>1, <2>3 DEF SendResult, DbActorTypeOK
  <2>5. local' \in [Instance -> LocalType]
    <3>1. local \in [Instance -> LocalType] /\ local[i] \in LocalType
      BY <1>1 DEF DriverTypeOK
    <3>2. [local[i] EXCEPT !.result = @ \ {r}] \in LocalType
      BY <3>1 DEF LocalType
    <3>3. local' = [local EXCEPT ![i] = [local[i] EXCEPT !.result = @ \ {r}]]
      BY <2>1, <3>1
    <3>4. QED
      BY <3>1, <3>2, <3>3
  <2>6. DriverTypeOK'
    BY <1>1, <1>2, <1>5, <2>5 DEF SendResult, DriverTypeOK, sessionVars
  <2>7. Picked'
    BY <1>1, <1>5, <2>1 DEF SendResult, Picked, DriverTypeOK, LocalType
  <2>8. QED
    BY <1>2, <2>4, <2>6, <2>7, SessionStep
<1>6. CASE Done(i)
  <2>1. [type |-> "isDone"] \in Message
    BY DEF Message
  <2>2. Append(mailbox[i], [type |-> "isDone"]) \in Seq(Message)
    BY <1>3, <2>1, AppendProperties
  <2>3. DbActorTypeOK'
    BY <1>1, <1>6, <2>2 DEF Done, DbActorTypeOK
  <2>4. pc' \in [Instance -> State] /\ Picked'
    BY <1>6, HandlerPicked DEF Done, State, Elsewhere
  <2>5. DriverTypeOK'
    BY <1>1, <1>6, <2>4 DEF Done, DriverTypeOK, sessionVars
  <2>6. QED
    BY <1>2, <2>3, <2>4, <2>5, SessionStep
<1>7. CASE Stop(i) \/ ForcedExit(i)
  <2>1. Exit(i)
    BY <1>7 DEF Stop, ForcedExit
  <2>2. << >> \in Seq(Message)
    BY EmptySeq
  <2>3. DbActorTypeOK'
    BY <1>1, <2>1, <2>2 DEF Exit, DbActorTypeOK
  <2>4. pc' \in [Instance -> State] /\ local' \in [Instance -> LocalType] /\ Picked'
    BY <1>1, <2>1, InitLocalType DEF Exit, DriverTypeOK, State, Picked
  <2>5. DriverTypeOK'
    BY <1>1, <1>2, <2>4 DEF DriverTypeOK, sessionVars
  <2>6. QED
    BY <1>2, <2>3, <2>4, <2>5, SessionStep
<1>8. QED
  BY <1>4, <1>5, <1>6, <1>7 DEF MailAction
-----------------------------------------------------------------------------
\* Steps that involve the machine or the context.
\* The machine, the actor or the user act, and the sessions stand still.
LEMMA OthersAct ==
    ASSUME Inv, UNCHANGED <<pc, local, sessionVars>>,
           FsmInv', DbActorTypeOK', AdminTypeOK'
    PROVE  Inv'
BY DEF Inv, DbActorInv, DriverTypeOK, Picked, sessionVars

\* The sessions execute the TimeoutFsm, and old mutants are queued again.
ContextAction(i) ==
    CheckMutantsLeft(i) \/ UpdateTimeout(i) \/ Execute(i) \/ ResetTimeoutContext(i)

\* They preserve the invariant.
LEMMA ContextActionInv ==
    ASSUME Inv, NEW i \in Instance, ContextAction(i) PROVE Inv'
<1>1. UNCHANGED <<actorVars, adminVars, local, sessionVars>>
  BY DEF ContextAction, CheckMutantsLeft, UpdateTimeout, Execute, ResetTimeoutContext
<1>2. DbActorTypeOK' /\ AdminTypeOK'
  BY <1>1 DEF Inv, DbActorInv, DbActorTypeOK, AdminTypeOK, actorVars, adminVars
<1>3. FsmInv'
  <2>1. CASE CheckMutantsLeft(i) \/ UpdateTimeout(i)
    BY <2>1, ExecuteBeginInv DEF CheckMutantsLeft, UpdateTimeout, Inv, DbActorInv
  <2>2. CASE Execute(i)
    BY <2>2, ExecuteStepInv DEF Execute, Inv, DbActorInv
  <2>3. CASE ResetTimeoutContext(i)
    <3>1. ctx' \in [iter : Iteration, worklistCount : Nat,
                    state : {"init_", "running", "done"}]
      BY <2>3, InitCtxType DEF ResetTimeoutContext
    <3>2. QED
      BY <2>3, <3>1, ContextOutsideTransaction, InvTables
      DEF ResetTimeoutContext, TablesTyped, tables, Inv, DbActorInv
  <2>4. QED
    BY <2>1, <2>2, <2>3 DEF ContextAction
<1>4. CASE Execute(i)
  BY <1>1, <1>2, <1>3, <1>4, OthersAct DEF Execute
<1>5. CASE ~Execute(i)
  <2>1. PICK s \in State, t \in Elsewhere : Handler(i, s, t)
    BY <1>5 DEF ContextAction, CheckMutantsLeft, UpdateTimeout, ResetTimeoutContext,
                State, Elsewhere
  <2>2. pc' \in [Instance -> State] /\ Picked'
    BY <1>1, <2>1, HandlerPicked
  <2>3. DriverTypeOK'
    BY <1>1, <2>2 DEF Inv, DriverTypeOK, sessionVars
  <2>4. QED
    BY <1>2, <1>3, <2>2, <2>3 DEF Inv, DbActorInv
<1>6. QED
  BY <1>4, <1>5

\* The handlers of the DbActor preserve the invariant.
LEMMA ActorStepInv ==
    ASSUME Inv, NEW i \in Instance, ActorStep(i) PROVE Inv'
<1>1. DbActorInv'
  BY DbActorStepInv DEF ActorStep, Inv
<1>2. AdminTypeOK'
  BY DEF ActorStep, Inv, AdminTypeOK, adminVars
<1>3. QED
  BY <1>1, <1>2, OthersAct DEF ActorStep, DbActorInv

\* The operations of the user leave the tables well formed and write the
\* context only outside the transaction.
LEMMA UserStepInv ==
    ASSUME Inv, UserStep PROVE Inv'
<1>1. UNCHANGED <<pc, local, sessionVars, actorVars>> /\ (AdminStep \/ Analyze)
  BY DEF UserStep
<1>2. DbActorTypeOK'
  BY <1>1 DEF Inv, DbActorInv, DbActorTypeOK, actorVars
<1>3. ~InTransaction /\ adminOps' = adminOps + 1 /\ adminOps < MaxAdminOps
      /\ UNCHANGED <<fsm, output>>
  BY <1>1 DEF AdminStep, ResetMutant, MarkMutant, RemoveMarkedMutant, StopTimeoutTest,
              ClearWorklist, Analyze, Perform, fsmVars
<1>4. marked' \subseteq Mutant
  BY <1>1 DEF AdminStep, ResetMutant, MarkMutant, RemoveMarkedMutant, StopTimeoutTest,
              ClearWorklist, Analyze, Inv, AdminTypeOK
<1>5. AdminTypeOK'
  BY <1>3, <1>4, AdminAssumption DEF Inv, AdminTypeOK
<1>6. ctx' \in [iter : Iteration, worklistCount : Nat,
                state : {"init_", "running", "done"}]
  <2>1. CASE StopTimeoutTest
    BY <2>1, IterationsAssumption DEF StopTimeoutTest, Iteration
  <2>2. CASE Analyze
    BY <2>2, InitCtxType DEF Analyze
  <2>3. CASE ~StopTimeoutTest /\ ~Analyze
    BY <1>1, <2>3 DEF AdminStep, ResetMutant, MarkMutant, RemoveMarkedMutant,
                      ClearWorklist, fsmVars, Inv, DbActorInv, FsmInv, FsmTypeOK
  <2>4. QED
    BY <2>1, <2>2, <2>3
<1>7. TablesTyped'
  <2> USE InvTables DEF TablesTyped
  <2>1. CASE ResetMutant
    BY <2>1, AdminAssumption DEF ResetMutant
  <2>2. CASE MarkMutant
    BY <2>2, AdminAssumption DEF MarkMutant
  <2>3. CASE RemoveMarkedMutant
    BY <2>3 DEF RemoveMarkedMutant, Status
  <2>4. CASE StopTimeoutTest
    BY <2>4, TimeoutWlType DEF StopTimeoutTest, Status, Inv, DbActorInv, FsmInv
  <2>5. CASE ClearWorklist
    BY <2>5 DEF ClearWorklist
  <2>6. CASE Analyze
    BY <2>6 DEF Analyze, Status
  <2>7. QED
    BY <1>1, <2>1, <2>2, <2>3, <2>4, <2>5, <2>6 DEF AdminStep
<1>8. FsmInv'
  BY <1>3, <1>6, <1>7, ContextOutsideTransaction DEF TablesTyped, Inv, DbActorInv
<1>9. QED
  BY <1>1, <1>2, <1>5, <1>8, OthersAct
-----------------------------------------------------------------------------
\* The invariant holds of a new database and no session.
LEMMA InitInv ==
    ASSUME Init PROVE Inv
<1>1. FsmInv
  BY FsmInitInv DEF Init, Status
<1>2. DbActorTypeOK /\ AdminTypeOK
  BY DbActorInitInv, AdminAssumption DEF Init, AdminInit, AdminTypeOK
<1>3. DriverTypeOK
  BY InitLocalType, TestDriverAssumption DEF Init, DriverTypeOK, State
<1>4. QED
  BY <1>1, <1>2, <1>3 DEF Inv, DbActorInv, Picked, Init

\* Every step is one of those above.
LEMMA StepIsAction ==
    ASSUME Next
    PROVE  \/ \E i \in Instance :
                 \/ PcAction(i) \/ TableAction(i) \/ LocalAction(i) \/ RestOfSession(i)
                 \/ MailAction(i) \/ ContextAction(i) \/ ActorStep(i)
           \/ UserStep
<1>1. CASE \E i \in Instance : DriverStep(i)
  <2>1. PICK i \in Instance : DriverStep(i)
    BY <1>1
  <2>2. \/ PcAction(i) \/ TableAction(i) \/ LocalAction(i) \/ RestOfSession(i)
        \/ MailAction(i) \/ ContextAction(i)
    BY <2>1 DEF DriverStep, ContinuesCheckTestSuite, PcAction, TableAction, LocalAction,
                RestOfSession, MailAction, ContextAction
  <2>3. QED
    BY <2>2
<1>2. CASE \E i \in Instance : StartSession(i) \/ SchemaResult(i) \/ ForcedExit(i)
  BY <1>2 DEF RestOfSession, MailAction
<1>3. QED
  BY <1>1, <1>2 DEF Next

\* Every step preserves the invariant.
LEMMA NextInv ==
    ASSUME Inv, [Next]_vars PROVE Inv'
<1>1. CASE Next
  BY <1>1, StepIsAction, PcActionInv, TableActionInv, LocalActionInv, RestOfSessionInv,
     MailActionInv, ContextActionInv, ActorStepInv, UserStepInv
<1>2. CASE UNCHANGED vars
  <2>1. UNCHANGED <<pc, local, sessionVars, tables, fsmVars, actorVars, adminVars>>
    BY <1>2 DEF vars, dbVars
  <2>2. FsmInv'
    BY <2>1, TablesOnly, InvTables DEF TablesTyped, tables, Inv, DbActorInv
  <2>3. DbActorTypeOK' /\ AdminTypeOK'
    BY <2>1 DEF Inv, DbActorInv, DbActorTypeOK, AdminTypeOK, actorVars, adminVars
  <2>4. QED
    BY <2>1, <2>2, <2>3, OthersAct
<1>3. QED
  BY <1>1, <1>2

\* What the other proofs build on: the tables and the sessions are well formed,
\* one instance at most has the transaction of TimeoutFsm.execute open, and a
\* round is only prepared while one is left.
THEOREM InvHolds == Spec => []Inv
<1>1. Init => Inv
  BY InitInv
<1>2. Inv /\ [Next]_vars => Inv'
  BY NextInv
<1>3. QED
  BY <1>1, <1>2, PTL DEF Spec

\* Type correctness.  That ctx.iter stays in 0 .. MaxTimeoutIterations is more
\* than a type: it says that the rounds of timeout.d end, which a machine that
\* is entered by several instances over one ctx row does not owe to its shape.
THEOREM TypeCorrect == Spec => []TypeOK
<1>1. Inv => TypeOK
  BY DEF Inv, DbActorInv, FsmInv, TypeOK
<1>2. QED
  BY <1>1, InvHolds, PTL
-----------------------------------------------------------------------------
(* Safety.                                                                 *)

\* Nobody else tests or changes the tables while a session runs, every result
\* is saved before its mutant is picked again, and no mutant is skipped because
\* another one covers it.
Undisturbed ==
    /\ \A i, j \in Instance : i = j
    /\ PromptSave
    /\ ~AdminWhileTesting
    /\ \A c \in Config : ~c.useSkipMutant

\* No session is stopped by the load of the machine before it started.
NeverHalted == \A c \in Config : c.loadBehavior # "halt"

\* The states before the main loop: nothing has been sent to the actor.
Setup ==
    {"NotStarted", "Initialize", "SanityCheck", "PreCompileSut",
     "AnalyzeTestCmdForTestCase", "UpdateAndResetAliveMutants", "ResetAlive",
     "RetestOldMutant", "AddOldMutants", "ResetTimeoutContext", "PullRequest", "CountWorklist",
     "CheckMutantsLeft", "AllMutantsTested", "MeasureTestSuite", "Coverage",
     "PropagateCoverage"}

\* Strengthens UnsavedIsQueued.  A result is on its way once: in the mailbox, in
\* what the driver is about to send, or to be found by the test that runs; each
\* time its mutant is queued.  So the Save that takes a mutant from the worklist
\* takes it for the only result there is.
QueueInv ==
    \A i \in Instance :
        /\ OnceIn(mailbox[i])
        /\ IdsIn(mailbox[i]) \subseteq worklist
        /\ pc[i] \in Setup => mailbox[i] = << >>
        /\ pc[i] \in {"MutationTest", "Testing"} =>
              local[i].nextMutant \in worklist \ IdsIn(mailbox[i])
        /\ local[i].result # {} => pc[i] = "HandleTestResult"
        /\ \A r, q \in local[i].result : r = q
        /\ \A r \in local[i].result : r.id \in worklist \ IdsIn(mailbox[i])

Measured == MainLoop \cup {"Coverage", "PropagateCoverage"}
MayBeDirty == {"NotStarted", "Initialize", "SanityCheck", "Testing", "Error", "Stop"}

\* The timeout has been measured in this session, or the user has given it.
Timed(i) == local[i].measured \/ conf[i].userTimeout

\* Strengthens MeasuredBeforeTesting and DirtIsOwn: what held when the main loop was
\* entered holds in all of it, but for the file that the session fails to restore.
ReadyInv ==
    \A i \in Instance :
        /\ pc[i] \in Measured => Timed(i)
        /\ dirty[i] => pc[i] \in MayBeDirty \/ local[i].unrestored

-----------------------------------------------------------------------------
\* A transition that does not lead back: not into the setup, not past the
\* measurement or the sanity check, not past a result that was not sent.
Forward(i) ==
    \E s \in State, t \in Elsewhere :
        /\ Handler(i, s, t)
        /\ t \in Setup => s \in Setup
        /\ NeverHalted /\ t \in Measured => s \in Measured \cup {"MeasureTestSuite"}
        /\ NeverHalted /\ dirty[i] /\ s \in MayBeDirty => t \in MayBeDirty
        /\ s = "HandleTestResult" => local[i].result = {}

\* A transition forward that leaves the mailboxes and the results alone, and
\* takes nothing from the worklist that is spoken for, preserves QueueInv.
LEMMA ForwardQueue ==
    ASSUME Inv, QueueInv, NEW i \in Instance, Forward(i), mailbox' = mailbox,
           \A j \in Instance : /\ j # i => local'[j] = local[j]
                               /\ local'[j].result = local[j].result,
           worklist \subseteq worklist' \/ (pc[i] \in Setup /\ \A j \in Instance : i = j)
    PROVE  QueueInv'
<1>1. PICK s \in State, t \in Elsewhere :
         /\ Handler(i, s, t)
         /\ t \in Setup => s \in Setup
         /\ s = "HandleTestResult" => local[i].result = {}
  BY DEF Forward
<1>2. pc[i] = s /\ pc'[i] = t /\ \A j \in Instance : j # i => pc'[j] = pc[j]
  BY <1>1 DEF Handler, Inv, DriverTypeOK
<1>3. t \notin {"MutationTest", "Testing"}
  BY DEF Elsewhere
<1>4. \A j \in Instance : IdsIn(mailbox[j]) \subseteq worklist'
  <2>1. CASE worklist \subseteq worklist'
    BY <2>1 DEF QueueInv
  <2>2. CASE pc[i] \in Setup /\ \A j \in Instance : i = j
    <3>1. \A j \in Instance : mailbox[j] = << >>
      BY <2>2 DEF QueueInv
    <3>2. IdsIn(<< >>) = {}
      BY DEF IdsIn
    <3>3. QED
      BY <3>1, <3>2
  <2>3. QED
    BY <2>1, <2>2
<1>5. \A j \in Instance : local[j].result # {} => worklist \subseteq worklist'
  BY DEF QueueInv, Setup
<1>6. \A j \in Instance : j # i => worklist \subseteq worklist'
  OBVIOUS
<1>7. ASSUME NEW j \in Instance
      PROVE  /\ pc'[j] \in Setup => mailbox[j] = << >>
             /\ pc'[j] \in {"MutationTest", "Testing"} =>
                   local'[j].nextMutant \in worklist' \ IdsIn(mailbox[j])
             /\ local[j].result # {} => pc'[j] = "HandleTestResult"
  <2>1. CASE j = i
    BY <1>1, <1>2, <1>3, <2>1 DEF QueueInv
  <2>2. CASE j # i
    BY <1>2, <1>6, <2>2 DEF QueueInv
  <2>3. QED
    BY <2>1, <2>2
<1>8. QED
  BY <1>4, <1>5, <1>7 DEF QueueInv

\* A transition forward that leaves the source code alone preserves ReadyInv.
LEMMA ForwardReady ==
    ASSUME NeverHalted, Inv, ReadyInv, NEW i \in Instance, Forward(i), dirty' = dirty,
           \A j \in Instance : /\ Timed(j) => Timed(j)'
                               /\ local[j].unrestored => local'[j].unrestored,
           pc[i] = "MeasureTestSuite" /\ pc'[i] \in Measured => Timed(i)'
    PROVE  ReadyInv'
BY DEF Forward, Handler, Inv, DriverTypeOK, ReadyInv

\* A state whose result set is empty because it is not HandleTestResult.
LEMMA PcActionForward ==
    ASSUME Inv, NEW i \in Instance, PcAction(i) PROVE Forward(i)
<1> USE DEF Forward, State, Elsewhere, Setup, Measured, MainLoop, MayBeDirty
<1>1. CASE SanityCheck(i)
  <2>1. CASE ~dirty[i] /\ Handler(i, "SanityCheck", "PreCompileSut")
    BY <2>1
  <2>2. CASE Handler(i, "SanityCheck", "Error")
    BY <2>2
  <2>3. QED
    BY <1>1, <2>1, <2>2 DEF SanityCheck
<1>2. CASE AnalyzeTestCmdForTestCase(i) \/ RetestOldMutant(i)
  BY <1>2 DEF AnalyzeTestCmdForTestCase, RetestOldMutant
<1>3. CASE PreCompileSut(i)
  BY <1>3 DEF PreCompileSut, ChooseMode, AfterReset
<1>4. CASE Coverage(i)
  BY <1>4 DEF Coverage
<1>5. CASE AllMutantsTested(i)
  BY <1>5 DEF AllMutantsTested
<1>6. CASE OverloadCheck(i) \/ Handler(i, "ContinuesCheckTestSuite", Cleanup(i))
  BY <1>6 DEF OverloadCheck, Cleanup
<1>7. CASE CheckPullRequestMutant(i) \/ SchemataTest(i) \/ CheckTimeout(i)
  BY <1>7 DEF CheckPullRequestMutant, SchemataTest, CheckTimeout
<1>8. CASE HandleTestResult(i)
  BY <1>8 DEF HandleTestResult
<1>9. CASE CheckStopCond(i) \/ WaitForDb(i) \/ Error(i)
  BY <1>9 DEF CheckStopCond, WaitForDb, Error
<1>10. QED
  BY <1>1, <1>2, <1>3, <1>4, <1>5, <1>6, <1>7, <1>8, <1>9 DEF PcAction

\* The handlers that change the tables go forward.
LEMMA TableActionForward ==
    ASSUME Inv, NEW i \in Instance, TableAction(i) PROVE Forward(i)
<1> USE DEF Forward, State, Elsewhere, Setup, Measured, MainLoop, MayBeDirty
<1>1. CASE Initialize(i)
  <2>1. CASE Handler(i, "Initialize", "SanityCheck")
    BY <2>1
  <2>2. CASE conf[i].loadBehavior = "halt" /\ Handler(i, "Initialize", "CheckStopCond")
    \* the sanity check is skipped
    <3>1. ~NeverHalted
      BY <2>2 DEF NeverHalted, Inv, DriverTypeOK
    <3>2. QED
      BY <2>2, <3>1
  <2>3. QED
    BY <1>1, <2>1, <2>2 DEF Initialize
<1>2. CASE UpdateAndResetAliveMutants(i) \/ ResetAlive(i)
  BY <1>2 DEF UpdateAndResetAliveMutants, ResetAlive, AfterReset
<1>3. CASE AddOldMutants(i) \/ PullRequest(i) \/ PropagateCoverage(i) \/ RollBackLatest(i)
  BY <1>3 DEF AddOldMutants, PullRequest, PropagateCoverage, RollBackLatest
<1>4. QED
  BY <1>1, <1>2, <1>3 DEF TableAction

\* The handlers that change the tables queue mutants; only PropagateCoverage
\* takes some from the worklist, when nothing has been tested yet.
LEMMA TableActionQueue ==
    ASSUME Undisturbed, Inv, QueueInv, NEW i \in Instance, TableAction(i) PROVE QueueInv'
<1>1. local' = local /\ mailbox' = mailbox
  BY DEF TableAction, Initialize, UpdateAndResetAliveMutants, ResetAlive, AddOldMutants,
         PullRequest, PropagateCoverage, RollBackLatest, UnchangedButWorklist, actorVars
<1>2. CASE PropagateCoverage(i)
  <2>1. pc[i] \in Setup
    BY <1>2 DEF PropagateCoverage, Handler, Setup
  <2>2. QED
    BY <1>1, <2>1, TableActionForward, ForwardQueue DEF Undisturbed
<1>3. CASE ~PropagateCoverage(i)
  <2>1. worklist \subseteq worklist'
    BY <1>3 DEF TableAction, Initialize, UpdateAndResetAliveMutants, ResetAlive, AddOldMutants,
                PullRequest, RollBackLatest
  <2>2. QED
    BY <1>1, <2>1, TableActionForward, ForwardQueue
<1>4. QED
  BY <1>2, <1>3

\* The handlers that change the tables preserve ReadyInv.
LEMMA TableActionReady ==
    ASSUME NeverHalted, Inv, ReadyInv, NEW i \in Instance, TableAction(i) PROVE ReadyInv'
<1>1. local' = local /\ dirty' = dirty /\ conf' = conf
  BY DEF TableAction, Initialize, UpdateAndResetAliveMutants, ResetAlive, AddOldMutants,
         PullRequest, PropagateCoverage, RollBackLatest, UnchangedButWorklist, sessionVars
<1>2. pc[i] # "MeasureTestSuite"
  BY DEF TableAction, Initialize, UpdateAndResetAliveMutants, ResetAlive, AddOldMutants,
         PullRequest, PropagateCoverage, RollBackLatest, Handler
<1>3. QED
  BY <1>1, <1>2, TableActionForward, ForwardReady DEF Timed

\* The handlers that only choose the next state change nothing else.
LEMMA PcActionFrame ==
    ASSUME NEW i \in Instance, PcAction(i) PROVE UnchangedButPc
BY DEF PcAction, SanityCheck, PreCompileSut, AnalyzeTestCmdForTestCase,
       RetestOldMutant, Coverage, AllMutantsTested, OverloadCheck, CheckPullRequestMutant, SchemataTest, HandleTestResult, CheckStopCond,
       CheckTimeout, WaitForDb, Error

\* The handlers that only choose the next state preserve QueueInv.
LEMMA PcActionQueue ==
    ASSUME Inv, QueueInv, NEW i \in Instance, PcAction(i) PROVE QueueInv'
<1>1. local' = local /\ mailbox' = mailbox /\ worklist' = worklist
  BY PcActionFrame DEF UnchangedButPc, dbVars, tables, actorVars
<1>2. QED
  BY <1>1, PcActionForward, ForwardQueue

\* The handlers that only choose the next state preserve ReadyInv: none of them
\* gets past SanityCheck with a mutant in the source code.
LEMMA PcActionReady ==
    ASSUME NeverHalted, Inv, ReadyInv, NEW i \in Instance, PcAction(i) PROVE ReadyInv'
<1>1. local' = local /\ dirty' = dirty /\ conf' = conf
  BY PcActionFrame DEF UnchangedButPc, sessionVars
<1>2. pc[i] # "MeasureTestSuite"
  BY DEF PcAction, SanityCheck, PreCompileSut, AnalyzeTestCmdForTestCase,
         RetestOldMutant, Coverage, AllMutantsTested, OverloadCheck,
         CheckPullRequestMutant, SchemataTest, HandleTestResult, CheckStopCond,
         CheckTimeout, WaitForDb, Error, Handler
<1>3. QED
  BY <1>1, <1>2, PcActionForward, ForwardReady DEF Timed
-----------------------------------------------------------------------------
\* What the handlers that keep something between visits leave alone.
LEMMA LocalActionFrame ==
    ASSUME Inv, NEW i \in Instance, LocalAction(i)
    PROVE  /\ mailbox' = mailbox /\ worklist' = worklist /\ dirty' = dirty
           /\ \A j \in Instance : /\ j # i => local'[j] = local[j]
                                  /\ local'[j].result = local[j].result
                                  /\ Timed(j) => Timed(j)'
                                  /\ local'[j].unrestored = local[j].unrestored
           /\ pc[i] = "MeasureTestSuite" /\ pc'[i] \in Measured => Timed(i)'
<1>1. mailbox' = mailbox /\ worklist' = worklist /\ dirty' = dirty /\ conf' = conf
  BY DEF LocalAction, CountWorklist, MeasureTestSuite, NextSchemata, NextMutant,
         UnchangedButLocal, dbVars, tables, actorVars, sessionVars
<1>2. local \in [Instance -> LocalType] /\ local[i] \in LocalType
  BY DEF Inv, DriverTypeOK
<1>3. \A j \in Instance : j # i => local'[j] = local[j]
  BY <1>2 DEF LocalAction, CountWorklist, MeasureTestSuite, NextSchemata, NextMutant
<1>4. /\ local'[i].result = local[i].result /\ (Timed(i) => Timed(i)')
      /\ local'[i].unrestored = local[i].unrestored
  <2> USE <1>1, <1>2 DEF LocalType, Timed
  <2>1. CASE CountWorklist(i)
    <3>1. PICK a, b : local' = [local EXCEPT ![i].startWorklistCnt = a, ![i].stopAfter = b]
      BY <2>1 DEF CountWorklist
    <3>2. QED
      BY <3>1
  <2>2. CASE MeasureTestSuite(i)
    <3>1. UNCHANGED local \/ local' = [local EXCEPT ![i].measured = ~conf[i].userTimeout]
      BY <2>2 DEF MeasureTestSuite
    <3>2. QED
      BY <3>1
  <2>3. CASE NextSchemata(i)
    <3>1. PICK run : local' = [local EXCEPT ![i].runSchema = run]
      BY <2>3 DEF NextSchemata
    <3>2. QED
      BY <3>1
  <2>4. CASE NextMutant(i)
    <3>1. \/ local' = [local EXCEPT ![i].nextMutant = NoMutant]
          \/ \E m : local' = [local EXCEPT ![i].nextMutant = m, ![i].lastTested = m]
      BY <2>4 DEF NextMutant
    <3>2. CASE local' = [local EXCEPT ![i].nextMutant = NoMutant]
      BY <3>2
    <3>3. CASE \E m : local' = [local EXCEPT ![i].nextMutant = m, ![i].lastTested = m]
      <4>1. PICK m : local' = [local EXCEPT ![i].nextMutant = m, ![i].lastTested = m]
        BY <3>3
      <4>2. QED
        BY <4>1
    <3>4. QED
      BY <3>1, <3>2, <3>3
  <2>5. QED
    BY <2>1, <2>2, <2>3, <2>4 DEF LocalAction
<1>5. ASSUME pc[i] = "MeasureTestSuite", pc'[i] \in Measured PROVE Timed(i)'
  <2>1. pc \in [Instance -> State]
    BY DEF Inv, DriverTypeOK
  <2>2. MeasureTestSuite(i) /\ ~Handler(i, "MeasureTestSuite", "Error")
    BY <1>5, <2>1 DEF LocalAction, CountWorklist, MeasureTestSuite, NextSchemata, NextMutant,
                      Handler, Measured, MainLoop
  <2>3. local' = [local EXCEPT ![i].measured = ~conf[i].userTimeout]
    BY <2>2 DEF MeasureTestSuite
  <2>4. local'[i].measured = ~conf[i].userTimeout
    BY <1>2, <2>3 DEF LocalType
  <2>5. QED
    BY <1>1, <2>4 DEF Timed
<1>6. QED
  BY <1>1, <1>3, <1>4, <1>5 DEF Timed

\* The handlers that keep something between visits go forward.
LEMMA LocalActionForward ==
    ASSUME Inv, NEW i \in Instance, LocalAction(i), pc'[i] # "MutationTest"
    PROVE  Forward(i)
<1> USE DEF Forward, State, Elsewhere, Setup, Measured, MainLoop, MayBeDirty
<1>1. CASE CountWorklist(i)
  BY <1>1 DEF CountWorklist
<1>2. CASE MeasureTestSuite(i)
  BY <1>2 DEF MeasureTestSuite
<1>3. CASE NextSchemata(i)
  BY <1>3 DEF NextSchemata
<1>4. CASE NextMutant(i)
  <2>1. pc \in [Instance -> State]
    BY DEF Inv, DriverTypeOK
  <2>2. ~Handler(i, "NextMutant", "MutationTest")
    BY <2>1 DEF Handler
  <2>3. QED
    BY <1>4, <2>2 DEF NextMutant
<1>5. QED
  BY <1>1, <1>2, <1>3, <1>4 DEF LocalAction

\* The step of NextMutant that picks a mutant, in the terms of QueueInv.
LEMMA PickedMutant ==
    ASSUME Inv, NEW i \in Instance, LocalAction(i), pc'[i] = "MutationTest"
    PROVE  /\ pc' = [pc EXCEPT ![i] = "MutationTest"] /\ pc[i] = "NextMutant"
           /\ PromptSave => local'[i].nextMutant \in worklist \ IdsIn(mailbox[i])
<1>1. pc \in [Instance -> State] /\ local \in [Instance -> LocalType]
  BY DEF Inv, DriverTypeOK
<1>2. NextMutant(i) /\ ~Handler(i, "NextMutant", "CheckTimeout")
  BY <1>1 DEF LocalAction, CountWorklist, MeasureTestSuite, NextSchemata, NextMutant, Handler
<1>3. PICK m \in Candidates(i) :
         /\ PromptSave => m \notin UnsavedIds(i)
         /\ Handler(i, "NextMutant", "MutationTest")
         /\ local' = [local EXCEPT ![i].nextMutant = m, ![i].lastTested = m]
  BY <1>2 DEF NextMutant
<1>4. local'[i].nextMutant = m
  BY <1>1, <1>3 DEF LocalType
<1>5. m \in worklist
  BY DEF Candidates
<1>6. QED
  BY <1>3, <1>4, <1>5, UnsavedIdsDef DEF Handler

\* NextMutant picks a mutant that is queued and has no result on its way.
LEMMA LocalActionQueue ==
    ASSUME PromptSave, Inv, QueueInv, NEW i \in Instance, LocalAction(i) PROVE QueueInv'
<1>1. CASE pc'[i] # "MutationTest"
  BY <1>1, LocalActionFrame, LocalActionForward, ForwardQueue
<1>2. CASE pc'[i] = "MutationTest"
  <2>1. /\ pc' = [pc EXCEPT ![i] = "MutationTest"] /\ pc[i] = "NextMutant"
        /\ local'[i].nextMutant \in worklist \ IdsIn(mailbox[i])
    BY <1>2, PickedMutant
  <2>2. local[i].result = {}
    BY <2>1 DEF QueueInv
  <2>3. pc'[i] \notin Setup /\ \A j \in Instance : j # i => pc'[j] = pc[j]
    BY <2>1 DEF Inv, DriverTypeOK, Setup
  <2>4. /\ mailbox' = mailbox /\ worklist' = worklist
        /\ \A j \in Instance : /\ j # i => local'[j] = local[j]
                               /\ local'[j].result = local[j].result
    BY LocalActionFrame
  <2>5. QED
    BY <2>1, <2>2, <2>3, <2>4 DEF QueueInv
<1>3. QED
  BY <1>1, <1>2

\* MeasureTestSuite lets the session into the main loop with a timeout.
LEMMA LocalActionReady ==
    ASSUME NeverHalted, Inv, ReadyInv, NEW i \in Instance, LocalAction(i)
    PROVE  ReadyInv'
<1>1. pc \in [Instance -> State] /\ local \in [Instance -> LocalType]
  BY DEF Inv, DriverTypeOK
<1>2. CASE pc'[i] # "MutationTest"
  BY <1>2, LocalActionFrame, LocalActionForward, ForwardReady
<1>3. CASE pc'[i] = "MutationTest"
  <2>1. pc' = [pc EXCEPT ![i] = "MutationTest"] /\ pc[i] = "NextMutant"
    BY <1>3, PickedMutant
  <2>2. pc[i] \in Measured /\ pc[i] \notin MayBeDirty
    BY <2>1 DEF Measured, MainLoop, MayBeDirty
  <2>3. QED
    BY <1>1, <2>1, <2>2, LocalActionFrame DEF ReadyInv
<1>4. QED
  BY <1>2, <1>3
-----------------------------------------------------------------------------
\* Testing a mutant.  The result is about the mutant that was picked, alone.
LEMMA RestOfSessionQueue ==
    ASSUME Undisturbed, Inv, QueueInv, NEW i \in Instance, RestOfSession(i) PROVE QueueInv'
<1>1. pc \in [Instance -> State] /\ local \in [Instance -> LocalType]
      /\ conf \in [Instance -> Config]
  BY DEF Inv, DriverTypeOK
<1>2. mailbox' = mailbox /\ worklist' = worklist
  BY DEF RestOfSession, StartSession, MutationTest, Tested, TestedNoResult,
         TestedFilesysError, SaveMutationScore, dbVars, tables, actorVars
<1>3. \A j \in Instance : j # i => pc'[j] = pc[j] /\ local'[j] = local[j]
  BY <1>1 DEF RestOfSession, StartSession, MutationTest, Tested, TestedNoResult,
              TestedFilesysError, SaveMutationScore, Handler
<1>4. pc[i] # "HandleTestResult" /\ local[i].result = {}
  BY DEF RestOfSession, StartSession, MutationTest, Tested, TestedNoResult,
         TestedFilesysError, SaveMutationScore, Handler, QueueInv
<1>5. CASE StartSession(i)
  <2>1. pc[i] \in Setup /\ pc'[i] = "Initialize" /\ local'[i] = InitLocal
    BY <1>1, <1>5 DEF StartSession, Handler, Setup
  <2>2. QED
    BY <1>2, <1>3, <2>1 DEF QueueInv, Setup, InitLocal
<1>6. CASE MutationTest(i)
  <2>1. pc[i] = "MutationTest" /\ pc'[i] = "Testing" /\ local' = local
    BY <1>1, <1>6 DEF MutationTest, Handler
  <2>2. QED
    BY <1>2, <1>3, <1>4, <2>1 DEF QueueInv, Setup
<1>7. CASE Tested(i)
  <2>1. ~conf[i].useSkipMutant
    BY <1>1 DEF Undisturbed
  <2>2. PICK st, d : local' = [local EXCEPT ![i].result =
                                 {[id |-> local[i].nextMutant, st |-> st]}
                                 \cup {[id |-> m, st |-> "skipped"] : m \in {}},
                              ![i].unrestored = d]
    BY <1>7, <2>1 DEF Tested
  <2>3. local'[i].result = {[id |-> local[i].nextMutant, st |-> st]}
    BY <1>1, <2>2 DEF LocalType
  <2>4. pc[i] = "Testing" /\ pc'[i] = "HandleTestResult"
    BY <1>1, <1>7 DEF Tested, Handler
  <2>5. local[i].nextMutant \in worklist \ IdsIn(mailbox[i])
    BY <2>4 DEF QueueInv
  <2>6. QED
    BY <1>2, <1>3, <2>3, <2>4, <2>5 DEF QueueInv, Setup
<1>8. CASE TestedNoResult(i) \/ TestedFilesysError(i) \/ SaveMutationScore(i)
  <2>1. pc'[i] \in {"HandleTestResult", "Error", "Stop"} /\ local'[i].result = local[i].result
    BY <1>1, <1>8 DEF TestedNoResult, TestedFilesysError, SaveMutationScore, Handler, LocalType
  <2>2. QED
    BY <1>2, <1>3, <1>4, <2>1 DEF QueueInv, Setup
<1>9. QED
  BY <1>5, <1>6, <1>7, <1>8 DEF RestOfSession

\* The source code is dirty while a mutant is tested, and after an error.
LEMMA RestOfSessionReady ==
    ASSUME Inv, ReadyInv, NEW i \in Instance, RestOfSession(i) PROVE ReadyInv'
<1> USE DEF Timed
<1>1. pc \in [Instance -> State] /\ local \in [Instance -> LocalType]
      /\ dirty \in [Instance -> BOOLEAN] /\ conf \in [Instance -> Config]
  BY DEF Inv, DriverTypeOK
<1>2. \A j \in Instance : j # i => pc'[j] = pc[j] /\ local'[j] = local[j]
                                   /\ dirty'[j] = dirty[j] /\ conf'[j] = conf[j]
  BY <1>1 DEF RestOfSession, StartSession, MutationTest, Tested, TestedNoResult,
              TestedFilesysError, SaveMutationScore, Handler
<1>3. CASE StartSession(i)
  <2>1. pc'[i] = "Initialize"
    BY <1>1, <1>3 DEF StartSession, Handler
  <2>2. QED
    BY <1>2, <2>1 DEF ReadyInv, Measured, MainLoop, MayBeDirty
<1>4. CASE MutationTest(i)
  <2>1. pc[i] = "MutationTest" /\ pc'[i] = "Testing" /\ local' = local /\ conf' = conf
    BY <1>1, <1>4 DEF MutationTest, Handler
  <2>2. QED
    BY <1>2, <2>1 DEF ReadyInv, Measured, MainLoop, MayBeDirty
<1>5. CASE Tested(i)
  <2>1. PICK res, d : /\ local' = [local EXCEPT ![i].result = res, ![i].unrestored = d]
                      /\ dirty' = [dirty EXCEPT ![i] = d]
    BY <1>5 DEF Tested
  <2>2. local'[i].measured = local[i].measured /\ (dirty'[i] => local'[i].unrestored)
    BY <1>1, <2>1 DEF LocalType
  <2>3. pc[i] = "Testing" /\ pc'[i] = "HandleTestResult" /\ conf' = conf
    BY <1>1, <1>5 DEF Tested, Handler
  <2>4. QED
    BY <1>2, <2>2, <2>3 DEF ReadyInv, Measured, MainLoop
<1>6. CASE TestedNoResult(i)
  <2>1. PICK d : /\ local' = [local EXCEPT ![i].unrestored = d]
                 /\ dirty' = [dirty EXCEPT ![i] = d]
    BY <1>6 DEF TestedNoResult
  <2>2. local'[i].measured = local[i].measured /\ (dirty'[i] => local'[i].unrestored)
    BY <1>1, <2>1 DEF LocalType
  <2>3. pc[i] = "Testing" /\ pc'[i] = "HandleTestResult" /\ conf' = conf
    BY <1>1, <1>6 DEF TestedNoResult, Handler
  <2>4. QED
    BY <1>2, <2>2, <2>3 DEF ReadyInv, Measured, MainLoop
<1>7. CASE TestedFilesysError(i)
  <2>1. pc'[i] = "Error"
    BY <1>1, <1>7 DEF TestedFilesysError, Handler
  <2>2. QED
    BY <1>2, <2>1 DEF ReadyInv, Measured, MainLoop, MayBeDirty
<1>8. CASE SaveMutationScore(i)
  <2>1. pc'[i] = "Stop" /\ dirty' = dirty
    BY <1>1, <1>8 DEF SaveMutationScore, Handler
  <2>2. QED
    BY <1>2, <2>1 DEF ReadyInv, Measured, MainLoop, MayBeDirty
<1>9. QED
  BY <1>3, <1>4, <1>5, <1>6, <1>7, <1>8 DEF RestOfSession
-----------------------------------------------------------------------------
\* Sending a result: it leaves the driver and enters the mailbox.
LEMMA MailActionQueue ==
    ASSUME Undisturbed, Inv, QueueInv, NEW i \in Instance, MailAction(i) PROVE QueueInv'
<1>1. /\ pc \in [Instance -> State] /\ local \in [Instance -> LocalType]
      /\ mailbox \in [Instance -> Seq(Message)] /\ mailbox[i] \in Seq(Message)
      /\ output[i].iter \in Iteration
      /\ local[i].result \subseteq [id : Mutant, st : Status]
  BY DEF Inv, DriverTypeOK, DbActorInv, DbActorTypeOK, FsmInv, FsmTypeOK, LocalType
<1>2. worklist' = worklist /\ \A j \in Instance : j = i
  BY DEF MailAction, SchemaResult, SendResult, Done, Stop, ForcedExit, Exit, tables,
         Undisturbed
<1>3. CASE SchemaResult(i)
  <2>1. PICK m \in worklist \ UnsavedIds(i), st \in Outcome \ NoVerdict :
           mailbox' = [mailbox EXCEPT ![i] =
                         Append(@, Mail("save", [id |-> m, st |-> st], output[i].iter))]
    BY <1>3 DEF SchemaResult
  <2> DEFINE msg == Mail("save", [id |-> m, st |-> st], output[i].iter)
  <2>2. m \in Mutant /\ st \in Status
    BY InvTables, TestDriverAssumption DEF TablesTyped
  <2>3. msg \in Message /\ IsResult(msg) /\ msg.id = m
    BY <1>1, <2>2, MailType
  <2>4. OnceIn(mailbox[i]) /\ msg.id \notin IdsIn(mailbox[i])
    BY <2>1, <2>3, UnsavedIdsDef DEF QueueInv
  <2> HIDE DEF msg
  <2>5. /\ OnceIn(Append(mailbox[i], msg))
        /\ IdsIn(Append(mailbox[i], msg)) = IdsIn(mailbox[i]) \cup {m}
    BY <1>1, <2>3, <2>4, IdsOfAppend
  <2>6. mailbox'[i] = Append(mailbox[i], msg)
    BY <1>1, <2>1 DEF msg
  <2>7. pc[i] = "SchemataTest" /\ pc' = pc /\ local' = local
    BY <1>3 DEF SchemaResult
  <2>8. QED
    BY <1>2, <2>1, <2>5, <2>6, <2>7 DEF QueueInv, Setup
<1>4. CASE SendResult(i)
  <2>1. PICK r \in local[i].result :
           /\ mailbox' = [mailbox EXCEPT ![i] = Append(@, Mail("save2", r, output[i].iter))]
           /\ local' = [local EXCEPT ![i].result = @ \ {r}]
    BY <1>4 DEF SendResult
  <2> DEFINE msg == Mail("save2", r, output[i].iter)
  <2>2. msg \in Message /\ IsResult(msg) /\ msg.id = r.id
    BY <1>1, MailType
  <2>3. OnceIn(mailbox[i]) /\ r.id \in worklist \ IdsIn(mailbox[i])
    BY DEF QueueInv
  <2> HIDE DEF msg
  <2>4. /\ OnceIn(Append(mailbox[i], msg))
        /\ IdsIn(Append(mailbox[i], msg)) = IdsIn(mailbox[i]) \cup {r.id}
    BY <1>1, <2>2, <2>3, IdsOfAppend
  <2>5. mailbox'[i] = Append(mailbox[i], msg)
    BY <1>1, <2>1 DEF msg
  <2>6. local'[i].result = {}
    <3>1. local[i].result = {r}
      BY DEF QueueInv
    <3>2. QED
      BY <1>1, <2>1, <3>1 DEF LocalType
  <2>7. pc[i] = "HandleTestResult" /\ pc' = pc
    BY <1>4 DEF SendResult
  <2>8. IdsIn(mailbox[i]) \subseteq worklist
    BY DEF QueueInv
  <2>9. OnceIn(mailbox'[i]) /\ IdsIn(mailbox'[i]) \subseteq worklist'
    BY <1>2, <2>3, <2>4, <2>5, <2>8
  <2>10. QED
    BY <1>2, <2>6, <2>7, <2>9 DEF QueueInv, Setup
<1>5. CASE Done(i)
  <2> DEFINE msg == [type |-> "isDone"]
  <2>1. msg \in Message /\ ~IsResult(msg)
    BY DEF Message, IsResult
  <2>2. mailbox'[i] = Append(mailbox[i], msg) /\ local' = local
    BY <1>1, <1>5 DEF Done
  <2> HIDE DEF msg
  <2>3. OnceIn(mailbox[i]) /\ IdsIn(mailbox[i]) \subseteq worklist
    BY DEF QueueInv
  <2>4. OnceIn(Append(mailbox[i], msg)) /\ IdsIn(Append(mailbox[i], msg)) = IdsIn(mailbox[i])
    BY <1>1, <2>1, <2>3, IdsOfAppend
  <2>5. pc[i] = "Done" /\ pc'[i] = "WaitForDb"
    BY <1>1, <1>5 DEF Done, Handler
  <2>6. local[i].result = {}
    BY <2>5 DEF QueueInv
  <2>7. QED
    BY <1>2, <2>2, <2>3, <2>4, <2>5, <2>6 DEF QueueInv, Setup
<1>6. CASE Stop(i) \/ ForcedExit(i)
  <2>1. mailbox'[i] = << >> /\ local'[i] = InitLocal /\ pc'[i] = "NotStarted"
    BY <1>1, <1>6 DEF Stop, ForcedExit, Exit
  <2>2. OnceIn(<< >>) /\ IdsIn(<< >>) = {}
    BY DEF OnceIn, IdsIn
  <2>3. QED
    BY <1>2, <2>1, <2>2 DEF QueueInv, InitLocal
<1>7. QED
  BY <1>3, <1>4, <1>5, <1>6 DEF MailAction

\* Sending a message preserves ReadyInv.
LEMMA MailActionReady ==
    ASSUME Inv, ReadyInv, NEW i \in Instance, MailAction(i) PROVE ReadyInv'
<1> USE DEF Timed
<1>1. pc \in [Instance -> State] /\ local \in [Instance -> LocalType]
  BY DEF Inv, DriverTypeOK
<1>2. dirty' = dirty /\ conf' = conf
  BY DEF MailAction, SchemaResult, SendResult, Done, Stop, ForcedExit, Exit, sessionVars
<1>3. \A j \in Instance : j # i => pc'[j] = pc[j] /\ local'[j] = local[j]
  BY <1>1 DEF MailAction, SchemaResult, SendResult, Done, Stop, ForcedExit, Exit, Handler
<1>4. CASE SchemaResult(i) \/ SendResult(i)
  <2>1. local'[i].measured = local[i].measured /\ local'[i].unrestored = local[i].unrestored
    <3>1. local' = local \/ \E res : local' = [local EXCEPT ![i].result = res]
      BY <1>4 DEF SchemaResult, SendResult
    <3>2. QED
      BY <1>1, <3>1 DEF LocalType
  <2>2. pc' = pc
    BY <1>4 DEF SchemaResult, SendResult
  <2>3. \A j \in Instance : /\ local'[j].measured = local[j].measured
                            /\ local'[j].unrestored = local[j].unrestored
    BY <1>3, <2>1
  <2>4. ASSUME NEW j \in Instance, pc'[j] \in Measured
        PROVE  local'[j].measured \/ conf'[j].userTimeout
    BY <1>2, <2>2, <2>3, <2>4, Zenon DEF ReadyInv
  <2>5. ASSUME NEW j \in Instance, dirty'[j]
        PROVE  pc'[j] \in MayBeDirty \/ local'[j].unrestored
    BY <1>2, <2>2, <2>3, <2>5, Zenon DEF ReadyInv
  <2>6. QED
    BY <2>4, <2>5, Zenon DEF ReadyInv
<1>5. CASE Done(i)
  <2>1. pc[i] = "Done" /\ pc'[i] = "WaitForDb"
    BY <1>1, <1>5 DEF Done, Handler
  <2>2. local' = local
    BY <1>5 DEF Done
  <2>3. QED
    BY <1>2, <1>3, <2>1, <2>2 DEF ReadyInv, Measured, MainLoop, MayBeDirty
<1>6. CASE Stop(i) \/ ForcedExit(i)
  <2>1. pc'[i] = "NotStarted"
    BY <1>1, <1>6 DEF Stop, ForcedExit, Exit
  <2>2. QED
    BY <1>2, <1>3, <2>1 DEF ReadyInv, Measured, MainLoop, MayBeDirty
<1>7. QED
  BY <1>4, <1>5, <1>6 DEF MailAction
-----------------------------------------------------------------------------
\* The TimeoutFsm only adds to the worklist.
LEMMA ContextActionGrows ==
    ASSUME NEW i \in Instance, ContextAction(i) PROVE worklist \subseteq worklist'
<1>1. CASE CheckMutantsLeft(i) \/ UpdateTimeout(i)
  BY <1>1 DEF CheckMutantsLeft, UpdateTimeout, ExecuteBegin, EnterInit, EnterRunning,
              EnterDone, tables
<1>2. CASE Execute(i)
  BY <1>2 DEF Execute, ExecuteStep, StepInit, StepResetWorkList, StepUpdateCtx, StepRunning,
              StepPurge, StepClearWorkList, StepDone, EnterResetWorkList, EnterUpdateCtx,
              EnterRunning, EnterPurge, EnterClearWorkList, EnterDone, EnterStop, tables
<1>3. CASE ResetTimeoutContext(i)
  BY <1>3 DEF ResetTimeoutContext, tables
<1>4. QED
  BY <1>1, <1>2, <1>3 DEF ContextAction

\* Entering the TimeoutFsm and ResetTimeoutContext go forward.
LEMMA ContextActionForward ==
    ASSUME NEW i \in Instance, ContextAction(i), ~Execute(i)
    PROVE  Forward(i) /\ pc[i] # "MeasureTestSuite"
BY DEF ContextAction, CheckMutantsLeft, UpdateTimeout, ResetTimeoutContext, Handler,
       Forward, State, Elsewhere, Setup, Measured, MainLoop, MayBeDirty

\* Executing the TimeoutFsm and ResetTimeoutContext preserve both invariants.
LEMMA ContextActionSafe ==
    ASSUME Inv, NEW i \in Instance, ContextAction(i)
    PROVE  /\ QueueInv => QueueInv'
           /\ NeverHalted /\ ReadyInv => ReadyInv'
<1>1. mailbox' = mailbox /\ local' = local /\ dirty' = dirty /\ conf' = conf
  BY DEF ContextAction, CheckMutantsLeft, UpdateTimeout, Execute, ResetTimeoutContext,
         actorVars, sessionVars
<1>2. CASE Execute(i)
  <2>1. pc' = pc
    BY <1>2 DEF Execute
  <2>2. QueueInv => QueueInv'
    BY <1>1, <2>1, ContextActionGrows DEF QueueInv
  <2>3. ReadyInv => ReadyInv'
    BY <1>1, <2>1 DEF ReadyInv, Timed
  <2>4. QED
    BY <2>2, <2>3
<1>3. CASE ~Execute(i)
  <2>1. Forward(i) /\ pc[i] # "MeasureTestSuite"
    BY <1>3, ContextActionForward
  <2>2. QueueInv => QueueInv'
    BY <1>1, <2>1, ContextActionGrows, ForwardQueue
  <2>3. NeverHalted /\ ReadyInv => ReadyInv'
    BY <1>1, <2>1, ForwardReady DEF Timed
  <2>4. QED
    BY <2>2, <2>3
<1>4. QED
  BY <1>2, <1>3
-----------------------------------------------------------------------------
\* Saving a result takes its mutant from the worklist: it was the only result
\* for that mutant, and no test of it runs.
LEMMA ActorStepQueue ==
    ASSUME Undisturbed, Inv, QueueInv, NEW i \in Instance, ActorStep(i) PROVE QueueInv'
<1>1. mailbox \in [Instance -> Seq(Message)] /\ mailbox[i] \in Seq(Message)
      /\ DbActorTypeOK
  BY DEF Inv, DbActorInv, DbActorTypeOK
<1>2. pc' = pc /\ local' = local /\ \A j \in Instance : j = i
  BY DEF ActorStep, Undisturbed
<1>3. OnceIn(mailbox[i]) /\ IdsIn(mailbox[i]) \subseteq worklist
  BY DEF QueueInv
<1>4. mailbox[i] # << >> /\ Received(i) = Head(mailbox[i])
  BY DEF ActorStep, DbActorStep, Save2, Save, IsDone, HasMail, Received
<1>5. pc[i] \notin Setup
  BY <1>4 DEF QueueInv
<1>6. CASE Save2(i)
  <2> DEFINE e == [Received(i) EXCEPT !.type = "save"]
  <2>1. e \in Message /\ IsResult(e) /\ e.id = Received(i).id
    BY <1>1, <1>6, RequeuedType DEF Save2
  <2>2. IsResult(Head(mailbox[i]))
    BY <1>4, <1>6 DEF Save2, HasMail, IsResult
  <2>3. mailbox'[i] = Append(Tail(mailbox[i]), e) /\ worklist' = worklist
    BY <1>1, <1>6 DEF Save2, Requeue, tables
  <2> HIDE DEF e
  <2>4. /\ OnceIn(Append(Tail(mailbox[i]), e))
        /\ IdsIn(Append(Tail(mailbox[i]), e)) = IdsIn(mailbox[i])
    BY <1>1, <1>3, <1>4, <2>1, <2>2, IdsOfRequeue
  <2>5. QED
    BY <1>2, <1>5, <2>3, <2>4 DEF QueueInv
<1>7. CASE Save(i)
  <2> DEFINE id == Head(mailbox[i]).id
  <2>1. IsResult(Head(mailbox[i]))
    BY <1>4, <1>7 DEF Save, HasMail, IsResult
  <2>2. mailbox'[i] = Tail(mailbox[i]) /\ worklist' = worklist \ {id}
    BY <1>1, <1>4, <1>7 DEF Save, Consume
  <2>3. OnceIn(Tail(mailbox[i])) /\ IdsIn(Tail(mailbox[i])) = IdsIn(mailbox[i]) \ {id}
    BY <1>1, <1>3, <1>4, <2>1, IdsOfTail
  <2>4. id \in IdsIn(mailbox[i])
    <3>1. Head(mailbox[i]) = mailbox[i][1] /\ 1 \in 1 .. Len(mailbox[i])
      BY <1>1, <1>4, HeadTailProperties
    <3>2. QED
      BY <2>1, <3>1 DEF IdsIn
  <2> HIDE DEF id
  <2>5. OnceIn(mailbox'[i]) /\ IdsIn(mailbox'[i]) \subseteq worklist'
    BY <1>3, <2>2, <2>3
  <2>6. worklist' \ IdsIn(mailbox'[i]) = worklist \ IdsIn(mailbox[i])
    BY <2>2, <2>3, <2>4
  <2>7. QED
    BY <1>2, <1>5, <2>5, <2>6 DEF QueueInv
<1>8. CASE IsDone(i)
  <2>1. ~IsResult(Head(mailbox[i]))
    BY <1>4, <1>8 DEF IsDone, HasMail, IsResult
  <2>2. mailbox'[i] = Tail(mailbox[i]) /\ worklist' = worklist
    BY <1>1, <1>8 DEF IsDone, Consume, tables
  <2>3. OnceIn(Tail(mailbox[i])) /\ IdsIn(Tail(mailbox[i])) = IdsIn(mailbox[i])
    BY <1>1, <1>3, <1>4, <2>1, IdsOfTail
  <2>4. QED
    BY <1>2, <1>5, <2>2, <2>3 DEF QueueInv
<1>9. QED
  BY <1>6, <1>7, <1>8 DEF ActorStep, DbActorStep

\* The handlers of the DbActor preserve ReadyInv.
LEMMA ActorStepReady ==
    ASSUME ReadyInv, NEW i \in Instance, ActorStep(i) PROVE ReadyInv'
BY DEF ActorStep, ReadyInv, Timed, sessionVars

\* The user changes the tables when no session runs, and nothing is on its way.
LEMMA UserStepQueue ==
    ASSUME Undisturbed, QueueInv, UserStep PROVE QueueInv'
<1>1. UNCHANGED <<pc, local, mailbox>> /\ NoSession
  BY DEF UserStep, Undisturbed, actorVars
<1>2. \A i \in Instance : mailbox[i] = << >> /\ local[i].result = {}
  BY <1>1 DEF QueueInv, NoSession, Setup
<1>3. IdsIn(<< >>) = {}
  BY DEF IdsIn
<1>4. QED
  BY <1>1, <1>2, <1>3 DEF QueueInv, NoSession

\* The operations of the user preserve ReadyInv.
LEMMA UserStepReady ==
    ASSUME ReadyInv, UserStep PROVE ReadyInv'
BY DEF UserStep, ReadyInv, Timed, sessionVars
-----------------------------------------------------------------------------
\* Both invariants hold before the first session is started.
LEMMA InitSafe ==
    ASSUME Init PROVE QueueInv /\ ReadyInv
<1>1. IdsIn(<< >>) = {} /\ OnceIn(<< >>)
  BY DEF IdsIn, OnceIn
<1>2. \A i \in Instance : /\ mailbox[i] = << >> /\ local[i].result = {} /\ ~dirty[i]
                          /\ pc[i] = "NotStarted"
  BY DEF Init, DbActorInit, InitLocal
<1>3. QED
  BY <1>1, <1>2 DEF QueueInv, ReadyInv, Measured, MainLoop

\* Every step preserves QueueInv.
LEMMA QueueStep ==
    ASSUME Undisturbed, Inv, QueueInv, [Next]_vars PROVE QueueInv'
<1>1. PromptSave
  BY DEF Undisturbed
<1>2. CASE Next
  BY <1>1, <1>2, StepIsAction, PcActionQueue, TableActionQueue, LocalActionQueue,
     RestOfSessionQueue, MailActionQueue, ContextActionSafe, ActorStepQueue, UserStepQueue
<1>3. CASE UNCHANGED vars
  BY <1>3 DEF vars, dbVars, tables, actorVars, QueueInv
<1>4. QED
  BY <1>2, <1>3

\* Every step preserves ReadyInv.
LEMMA ReadyStep ==
    ASSUME NeverHalted, Inv, ReadyInv, [Next]_vars PROVE ReadyInv'
<1>1. CASE Next
  BY <1>1, StepIsAction, PcActionReady, TableActionReady, LocalActionReady,
     RestOfSessionReady, MailActionReady, ContextActionSafe, ActorStepReady, UserStepReady
<1>2. CASE UNCHANGED vars
  BY <1>2 DEF vars, sessionVars, ReadyInv, Timed
<1>3. QED
  BY <1>1, <1>2

\* A crash loses no result.  Whatever the actor of a session (spawnDbActor) has
\* not saved when the process dies is about mutants that are in the worklist,
\* so the next session tests them again, with any number of mutants, of crashes
\* and restarts and of operations of the user between the sessions.
THEOREM NoResultIsLost == ASSUME Undisturbed PROVE Spec => []UnsavedIsQueued
<1>1. Init => QueueInv
  BY InitSafe
<1>2. Inv /\ QueueInv /\ [Next]_vars => QueueInv'
  BY QueueStep
<1>3. QueueInv => UnsavedIsQueued
  BY UnsavedIdsDef DEF QueueInv, UnsavedIsQueued
<1>4. QED
  BY <1>1, <1>2, <1>3, InvHolds, PTL DEF Spec

\* What both theorems below follow from.
LEMMA ReadyHolds == ASSUME NeverHalted PROVE Spec => []ReadyInv
<1>1. Init => ReadyInv
  BY InitSafe
<1>2. Inv /\ ReadyInv /\ [Next]_vars => ReadyInv'
  BY ReadyStep
<1>3. QED
  BY <1>1, <1>2, InvHolds, PTL DEF Spec

\* A session that Initialize does not halt tests no mutant with a timeout that nobody
\* has chosen: MeasureTestSuite has timed the test suite in this session, and it has
\* passed, or the user has given the timeout; with any number of sessions.
THEOREM TimeoutIsChosen ==
    ASSUME NeverHalted PROVE Spec => []MeasuredBeforeTesting
<1>1. ReadyInv => MeasuredBeforeTesting
  BY DEF ReadyInv, Timed, MeasuredBeforeTesting, Measured, MainLoop
<1>2. QED
  BY <1>1, ReadyHolds, PTL

\* A session that Initialize does not halt injects no mutant into source code that
\* holds another one, but for one that it has itself failed to restore after a test
\* without a result: what was there before it, SanityCheck finds.
THEOREM NoForeignDirt ==
    ASSUME NeverHalted PROVE Spec => []DirtIsOwn
<1>1. ReadyInv => DirtIsOwn
  BY DEF ReadyInv, DirtIsOwn, MayBeDirty
<1>2. QED
  BY <1>1, ReadyHolds, PTL
=============================================================================
