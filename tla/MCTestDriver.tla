---------------------------- MODULE MCTestDriver ----------------------------
(* Instances of TestDriver for TLC: the configurations of a session.       *)
EXTENDS TestDriver, TLC

\* Nothing switched on but what a plain "dextool mutate test" does.
Plain ==
    [loadBehavior |-> "nothing", limited |-> FALSE, useSkipMutant |-> FALSE,
     pullRequest |-> FALSE, lines |-> {}, analyzeTestCmd |-> FALSE,
     removeTestCases |-> FALSE, resetAlive |-> FALSE, retestOld |-> FALSE,
     coverage |-> FALSE, schema |-> FALSE, stopAfterLastSchema |-> FALSE,
     contCheck |-> FALSE, userTimeout |-> FALSE]

Limited == [Plain EXCEPT !.limited = TRUE]

\* One feature each.
Reset(c) == [c EXCEPT !.analyzeTestCmd = TRUE, !.removeTestCases = TRUE, !.resetAlive = TRUE]
Check(c) == [c EXCEPT !.contCheck = TRUE, !.loadBehavior = "slowdown"]
Schema(c, stop) == [c EXCEPT !.schema = TRUE, !.stopAfterLastSchema = stop]
User(c) == [c EXCEPT !.userTimeout = TRUE]
Retest(c) == [c EXCEPT !.retestOld = TRUE]
Coverage_(c) == [c EXCEPT !.coverage = TRUE]
Skip(c) == [c EXCEPT !.useSkipMutant = TRUE]
Halt(c) == [c EXCEPT !.loadBehavior = "halt"]
Pull(c) == {[c EXCEPT !.pullRequest = TRUE, !.lines = l] : l \in SUBSET Mutant}

PlainOnly == {Plain}
LimitedOnly == {Limited}
SessionModes ==
    {Limited, Reset(Limited), Check(Limited), User(Limited)}
    \cup {Schema(Limited, stop) : stop \in BOOLEAN}
OperationModes == {Limited, Retest(Limited), Coverage_(Limited)}
LiveModes == {Plain, Reset(Plain), Retest(Plain), User(Plain), Skip(Plain), Halt(Plain)}
             \cup Pull(Plain)
PullModes == Pull(Limited)
HaltModes == {Halt(Plain)}
CoverageModes == {Coverage_(Limited), Coverage_(Plain)}

Symmetry == Permutations(Mutant) \cup Permutations(Instance)
=============================================================================
