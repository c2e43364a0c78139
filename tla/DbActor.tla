------------------------------ MODULE DbActor ------------------------------
(***************************************************************************)
(* The actor of a test session that saves the results (spawnDbActor in     *)
(* test_mutant/package.d): every instance has one, with a mailbox of its   *)
(* own.  The driver sends a result together with its TimeoutFsm; the actor *)
(* answers that message by sending itself the result again with the        *)
(* iteration taken from it, and saves it when that second message comes    *)
(* round.                                                                  *)
(***************************************************************************)
EXTENDS TimeoutFsm, Sequences

CONSTANT MaxUnsaved     \* bound: results on their way to the database

ASSUME MaxUnsavedAssumption == MaxUnsaved \in Nat \ {0}

VARIABLES
    mailbox,        \* messages the actor of the instance has not handled
    isDoneReply,    \* the answer to IsDone: "none", "requested" or "done"
    savedIter       \* history: the iteration behind the last saved result

actorVars == <<mailbox, isDoneReply, savedIter>>

Message ==
    [type : {"save2", "save"}, id : Mutant, st : Status, iter : Iteration]
    \cup [type : {"isDone"}]

\* Results that were sent and are not in the database yet.
Unsaved(i) == {k \in 1 .. Len(mailbox[i]) : mailbox[i][k].type # "isDone"}
UnsavedIds(i) == {mailbox[i][k].id : k \in Unsaved(i)}

Mail(type, r, iter) == [type |-> type, id |-> r.id, st |-> r.st, iter |-> iter]

\* A handler that appends to the mailbox it was taken from.
Received(i) == Head(mailbox[i])
Requeue(i, msg) ==
    mailbox' = [mailbox EXCEPT ![i] = Append(Tail(@), msg)]
Consume(i) == mailbox' = [mailbox EXCEPT ![i] = Tail(@)]

HasMail(i, type) == mailbox[i] # << >> /\ Received(i).type = type
-----------------------------------------------------------------------------
Save2(i) ==
    /\ HasMail(i, "save2")
    /\ Requeue(i, [Received(i) EXCEPT !.type = "save"])
    /\ UNCHANGED <<tables, fsmVars, isDoneReply, savedIter>>

\* Mutant of Save: the mutant stays in the worklist.
SaveKeepsQueued(i) ==
    /\ HasMail(i, "save")
    /\ ~InTransaction
    /\ UpdateMutantStatus(Received(i).id, Received(i).st, Received(i).iter)
    /\ savedIter' = [savedIter EXCEPT ![Received(i).id] = Received(i).iter]
    /\ Consume(i)
    /\ UNCHANGED <<worklist, fsmVars, isDoneReply>>

\* One transaction, retried by spinSql until the database lets it through.
Save(i) ==
    /\ HasMail(i, "save")
    /\ ~InTransaction
    /\ UpdateMutantStatus(Received(i).id, Received(i).st, Received(i).iter)
    /\ worklist' = worklist \ {Received(i).id}
    /\ savedIter' = [savedIter EXCEPT ![Received(i).id] = Received(i).iter]
    /\ Consume(i)
    /\ UNCHANGED <<fsmVars, isDoneReply>>

IsDone(i) ==
    /\ HasMail(i, "isDone")
    /\ Consume(i)
    /\ isDoneReply' = [isDoneReply EXCEPT ![i] = "done"]
    /\ UNCHANGED <<tables, fsmVars, savedIter>>

DbActorStep(i) == Save2(i) \/ Save(i) \/ IsDone(i)

DbActorInit ==
    /\ mailbox = [i \in Instance |-> << >>]
    /\ isDoneReply = [i \in Instance |-> "none"]
    /\ savedIter = [m \in Mutant |-> 0]

DbActorTypeOK ==
    /\ mailbox \in [Instance -> Seq(Message)]
    /\ isDoneReply \in [Instance -> {"none", "requested", "done"}]
    /\ savedIter \in [Mutant -> Iteration]
=============================================================================
