------------------------- MODULE SourceMutantProofs -------------------------
(***************************************************************************)
(* What testing one mutant promises, for any number of files, mutants,     *)
(* test binaries and threads of the pool, whatever the build makes of the  *)
(* mutants and whatever fails.                                             *)
(***************************************************************************)
EXTENDS SourceMutant, FiniteSetTheorems, TLAPS

\* The restore after a test without a result does not fail, or somebody would
\* have to notice it before the next test: see the README.
RestoreSucceeds == "NoResultRestoreCode" \notin RestoreFault

\* The table of checksums is not filled from tests that are stopped early (see the
\* run early_stop), and the test binaries of the original can be told apart.
TableIsReliable ==
    /\ IsFiniteSet(Cmd)
    /\ \A c \in Config : ~(c.earlyStop /\ c.checksum)
    /\ \A s \in Sut : \A c, d \in Cmd : s.original[c] = s.original[d] => c = d

-----------------------------------------------------------------------------
InTest == {"MutateCode", "TestMutant", "RunTests", "TestBinaryAnalyze", "TestCaseAnalyze",
           "MarkCalcStatus", "RestoreCode", "NoResultRestoreCode", "Cover", "FilesysError",
           "Done", "NoResult"}

\* A test has a mutant, and MarkCalcStatus a status.
Picked == pc \in InTest => test.mutp \in Mutant

Decided == pc = "MarkCalcStatus" => CalcStatus(binaries) # "none"

TypeInv == TypeOK /\ Picked /\ Decided

\* Only the file of the mutant under test is touched.
OnlyItsFile == \A f \in File : f # FileOf[test.mutp] => disk[f] = "original"

DiskInv ==
    /\ pc \in {"NextMutant", "MutateCode", "Cover", "Done", "NoResult", "SaveTestBinaryDb"} =>
          disk = Original
    /\ pc \in {"TestMutant", "RunTests", "MarkCalcStatus", "TestBinaryAnalyze"} =>
          disk = [Original EXCEPT ![FileOf[test.mutp]] = test.mutp]
    /\ pc \in {"TestCaseAnalyze", "RestoreCode", "NoResultRestoreCode"} => OnlyItsFile

\* What is covered has no verdict when the test is done.
CoveredUntested ==
    pc = "Done" =>
        /\ test.covered \subseteq CoveredBy[test.mutp] \ {test.mutp}
        /\ test.covered # {} => test.status = "alive"
        /\ \A m \in test.covered : verdict[m] = "unknown"

\* The actor saves the results of one test before the next one begins.
SentBetweenTests == sent # {} => pc \in {"SaveTestBinaryDb", "NextMutant"}

\* What waits is the result of one mutant, and of the mutants that it covers as long
\* as they have no verdict and it is alive, in the database or before them.
SentTogether ==
    \E n \in Mutant, st \in Verdicts :
        \A r \in sent :
            \/ r = [id |-> n, st |-> st]
            \/ /\ r.st = "skipped" /\ r.id \in CoveredBy[n] \ {n}
               /\ verdict[r.id] = "unknown"
               /\ st = "alive" /\ (verdict[n] = "alive" \/ [id |-> n, st |-> st] \in sent)

CoverInv == CoveredUntested /\ SentBetweenTests /\ (sent # {} => SentTogether)

-----------------------------------------------------------------------------
\* A session has the whole table, or none.
TableInv ==
    /\ ~conf.checksum => original = {} /\ known = NoEntries
    /\ pc # "Off" /\ conf.checksum => original = {sut.original[c] : c \in Cmd}

BuildInv == pc \in {"RunTests", "MarkCalcStatus"} => binaries = sut.built[test.mutp]

Faulted == run.status \in Fault \/ \E c \in Cmd : run.job[c] \in Fault

\* A command that fails, or that is stopped, does so because one of them fails, unless
\* there was a fault, which decides the status of the whole run.
FailureHasReason ==
    (run.stop \/ run.status = "failed" \/ \E c \in Cmd : run.job[c] = "failed")
        => Failing(binaries) \/ Faulted

\* What has passed would pass, or the run has been stopped; and then the one who
\* stopped it has been, or will be, counted.
PassIsTrue ==
    \A c \in Cmd :
        run.job[c] = "passed" \/ (run.job[c] = "done" /\ run.status = "passed")
            => binaries[c] \notin sut.fails \/ run.stop

StopIsCounted ==
    run.stop => \/ run.status # "passed"
                \/ \E c \in Cmd : run.job[c] \in {"failed"} \cup Fault

\* Without early stop only what fails is in the output.
OutputIsTrue ==
    ~conf.earlyStop => \A c \in Cmd :
        run.job[c] = "failed" \/ c \in run.output => binaries[c] \in sut.fails

RunParts == FailureHasReason /\ PassIsTrue /\ StopIsCounted /\ OutputIsTrue

RunInv == pc = "RunTests" => RunParts

StatusInv ==
    pc \in {"TestBinaryAnalyze", "TestCaseAnalyze", "RestoreCode", "Cover", "Done"} =>
        /\ test.status \in {"alive", "equivalent"} => ~Failing(sut.built[test.mutp])
        /\ test.status = "killed" => Failing(sut.built[test.mutp])

\* What TestBinaryAnalyze learns from.
LearnInv ==
    pc = "TestBinaryAnalyze" =>
        /\ test.status \in {"alive", "killed"} => binaries = sut.built[test.mutp]
        /\ test.status = "killed" /\ ~conf.earlyStop =>
              \A c \in test.output : binaries[c] \in sut.fails

\* So is what the actor has not yet saved.
SentIsTrue ==
    \A r \in sent :
        /\ r.st \in {"alive", "equivalent"} => ~Failing(sut.built[r.id])
        /\ r.st = "killed" => Failing(sut.built[r.id])

TruthInv ==
    /\ TableInv /\ BuildInv /\ RunInv /\ StatusInv /\ LearnInv
    /\ KnownIsTrue /\ VerdictIsTrue /\ SentIsTrue

-----------------------------------------------------------------------------
\* Next is one of the handlers.
LEMMA NextCases ==
    ASSUME Next
    PROVE  \/ StartSession \/ (\E m \in Mutant : NextMutant(m)) \/ EndSession \/ UserRestores
           \/ Mutated \/ CannotOpen \/ ChecksumError \/ NotMutated
           \/ CompileFails \/ UseKnownStatus \/ StartTests \/ MarkCalcStatus
           \/ (\E c \in Cmd : StartTest(c) \/ ProcessDone(c))
           \/ (\E c \in Cmd : TestExits(c) \/ TestFaults(c) \/ TestIsStopped(c))
           \/ RunnerReturns \/ TestBinaryAnalyze \/ TestCaseAnalyze
           \/ RestoreCode \/ NoResultRestoreCode \/ Cover
           \/ HandleTestResult \/ SaveTestBinaryDb \/ SaveResult
  BY DEF Next, DriverStep, MutateCode, TestMutant, RunTest

\* The types hold at first.
LEMMA InitTypeInv == Init => TypeInv
  <1> SUFFICES ASSUME Init PROVE TypeInv
    OBVIOUS
  <1>1. sut \in Sut /\ sut \in SutType
    BY SourceMutantAssumption DEF Init
  <1>2. TypeOK
    BY <1>1 DEF Init, TypeOK, SutType, Original, NoEntries, NewTest, NewRun, NoMutant, Verdicts, Ended
  <1> QED
    BY <1>2 DEF Init, TypeInv, Picked, Decided, InTest

\* Writing a file leaves every file with one of its contents.
LEMMA WriteTyped ==
    ASSUME TypeOK, NEW x \in {"original", "truncated"} \cup Mutant, Write(x) \/ disk' = disk
    PROVE  disk' \in [File -> {"original", "truncated"} \cup Mutant]
  BY DEF Write, TypeOK

\* A build gives every test command a binary.
LEMMA BuildsTyped ==
    ASSUME TypeOK
    PROVE  Builds \subseteq [Cmd -> Checksum]
  BY SourceMutantAssumption DEF Builds, TypeOK, SutType

\* What the end of commands is merged and translated to is a verdict.
LEMMA StatusesDecided ==
    /\ Fault \subseteq {"timeout", "memOverload", "error"}
    /\ \A st \in Ended : StatusOf(st) \in Verdicts
    /\ \A old, new \in Ended : MergedStatus(old, new) \in Ended
    /\ \A b : CalcStatus(b) \in {"none", "equivalent", "killed", "alive"}
  BY SourceMutantAssumption DEF Ended, StatusOf, Verdicts, MergedStatus, CalcStatus

\* The parts of TypeOK that an action disturbs.
SourceTyped == disk \in [File -> {"original", "truncated"} \cup Mutant]
BinariesTyped == binaries \in [Cmd -> Checksum]
TableTyped ==
    /\ original \subseteq Checksum /\ added \subseteq Checksum
    /\ known \in [Checksum -> {"none", "alive", "killed"}]
TestTyped ==
    test \in [mutp : Mutant \cup {NoMutant}, hashes : SUBSET Cmd, status : Verdicts,
              output : SUBSET Cmd, covered : SUBSET Mutant]
RunTyped ==
    run \in [job : [Cmd -> {"waiting", "running", "done"} \cup Ended], stop : BOOLEAN,
             status : Ended, output : SUBSET Cmd]
DbTyped ==
    /\ saved \in [Checksum -> {"none", "alive", "killed"}]
    /\ verdict \in [Mutant -> Verdicts \cup {"skipped"}]
    /\ sent \subseteq [id : Mutant, st : Verdicts \cup {"skipped"}]
SessionTyped == sut \in Sut /\ conf \in Config

\* TypeOK is the conjunction of its parts.
LEMMA TypeParts ==
    TypeOK <=> /\ SessionTyped /\ SourceTyped /\ BinariesTyped /\ TableTyped /\ TestTyped
               /\ RunTyped /\ DbTyped
               /\ pc \in InTest \cup {"Off", "NextMutant", "SaveTestBinaryDb"}
  BY DEF TypeOK, SessionTyped, SourceTyped, BinariesTyped, TableTyped, TestTyped, RunTyped, DbTyped, InTest

\* The same of the next state.
LEMMA TypePartsNext ==
    TypeOK' <=> /\ SessionTyped' /\ SourceTyped' /\ BinariesTyped' /\ TableTyped' /\ TestTyped'
                /\ RunTyped' /\ DbTyped'
                /\ pc' \in InTest \cup {"Off", "NextMutant", "SaveTestBinaryDb"}
  BY DEF TypeOK, SessionTyped, SourceTyped, BinariesTyped, TableTyped, TestTyped, RunTyped, DbTyped, InTest

\* What the runner does keeps the run typed.
LEMMA RunnerTyped ==
    ASSUME TypeOK, NEW c \in Cmd,
           StartTest(c) \/ TestExits(c) \/ TestFaults(c) \/ TestIsStopped(c) \/ ProcessDone(c)
    PROVE  RunTyped'
  <1> USE DEF TypeOK, RunTyped, Ended
  <1>1. CASE StartTest(c)
    BY <1>1 DEF StartTest, Becomes, InRunTests
  <1>2. ASSUME NEW st \in Ended, EndTest(c, st) PROVE RunTyped'
    BY <1>2 DEF EndTest, InRunTests
  <1>3. CASE TestExits(c)
    BY <1>2, <1>3 DEF TestExits
  <1>4. CASE TestFaults(c)
    BY <1>2, <1>4 DEF TestFaults
  <1>5. CASE TestIsStopped(c)
    BY <1>2, <1>5 DEF TestIsStopped
  <1>6. CASE ProcessDone(c)
    BY <1>6 DEF ProcessDone, InRunTests, MergedStatus
  <1> QED
    BY <1>1, <1>3, <1>4, <1>5, <1>6

\* The runner changes nothing but its run.
LEMMA RunnerFrame ==
    ASSUME NEW c, StartTest(c) \/ TestExits(c) \/ TestFaults(c) \/ TestIsStopped(c) \/ ProcessDone(c)
    PROVE  InRunTests
  BY DEF StartTest, TestExits, TestFaults, TestIsStopped, ProcessDone, EndTest

\* Every step preserves the types.
LEMMA TypeStep ==
    ASSUME TypeInv, [Next]_vars
    PROVE  TypeInv'
  <1>0. CASE UNCHANGED vars
    <2>1. TypeOK' /\ Picked'
      BY <1>0 DEF TypeInv, TypeOK, Picked, vars, table, db
    <2>2. CalcStatus(binaries)' = CalcStatus(binaries)
      BY <1>0 DEF vars, table, CalcStatus, TableIsEmpty, AllOriginal, AnyKill, AllAlive, IsOriginal, SkipTests
    <2>3. Decided'
      BY <1>0, <2>2 DEF TypeInv, Decided, vars
    <2> QED
      BY <2>1, <2>3 DEF TypeInv
  <1> SUFFICES ASSUME Next PROVE TypeInv'
    BY <1>0
  <1> USE DEF TypeInv
  <1>s. /\ SessionTyped /\ SourceTyped /\ BinariesTyped /\ TableTyped /\ TestTyped
        /\ RunTyped /\ DbTyped
        /\ pc \in InTest \cup {"Off", "NextMutant", "SaveTestBinaryDb"}
    BY TypeParts
  <1>t. test \in [mutp : Mutant \cup {NoMutant}, hashes : SUBSET Cmd, status : Verdicts,
                  output : SUBSET Cmd, covered : SUBSET Mutant]
    BY <1>s DEF TestTyped
  <1>c. \A b : CalcStatus(b) \in {"none", "equivalent", "killed", "alive"}
    BY StatusesDecided
  <1>u. \A S \in SUBSET Sut : \A s \in S : s \in SutType
    BY SourceMutantAssumption
  <1>1. CASE StartSession
    <2>1. sut.original \in [Cmd -> Checksum]
      BY <1>s, <1>u DEF SutType, SessionTyped
    <2>2. SessionTyped' /\ SourceTyped' /\ BinariesTyped' /\ TestTyped' /\ RunTyped' /\ DbTyped'
          /\ pc' = "NextMutant"
      BY <1>1, <1>s, <2>1 DEF StartSession, At, db, SessionTyped, SourceTyped, BinariesTyped, TestTyped,
             RunTyped, DbTyped
    <2>3. TableTyped'
      BY <1>1, <1>s, <2>1 DEF StartSession, TableTyped, DbTyped, NoEntries
    <2> QED
      BY <2>2, <2>3, TypePartsNext DEF Picked, Decided, InTest
  <1>2. ASSUME NEW m \in Mutant, NextMutant(m) PROVE TypeInv'
    <2>1. TestTyped' /\ test'.mutp = m
      BY <1>2 DEF NextMutant, NewTest, TestTyped, Verdicts
    <2>2. SessionTyped' /\ SourceTyped' /\ BinariesTyped' /\ TableTyped' /\ RunTyped' /\ DbTyped'
          /\ pc' = "MutateCode"
      BY <1>2, <1>s DEF NextMutant, At, table, db, SessionTyped, SourceTyped, BinariesTyped, TableTyped,
             RunTyped, DbTyped
    <2> QED
      BY <2>1, <2>2, TypePartsNext DEF Picked, Decided, InTest
  <1>3. CASE EndSession
    <2>1. TestTyped' /\ RunTyped' /\ TableTyped'
      BY <1>3 DEF EndSession, NewTest, NewRun, NoEntries, TestTyped, RunTyped, TableTyped, Verdicts, Ended
    <2>2. SessionTyped' /\ SourceTyped' /\ BinariesTyped' /\ DbTyped' /\ pc' = "Off"
      BY <1>3, <1>s DEF EndSession, db, SessionTyped, SourceTyped, BinariesTyped, DbTyped
    <2> QED
      BY <2>1, <2>2, TypePartsNext DEF Picked, Decided, InTest
  <1>4. CASE UserRestores
    <2>1. SourceTyped'
      BY <1>4 DEF UserRestores, SourceTyped, Original
    <2>2. SessionTyped' /\ BinariesTyped' /\ TableTyped' /\ TestTyped' /\ RunTyped' /\ DbTyped'
          /\ pc' = "Off"
      BY <1>4, <1>s DEF UserRestores, table, db, SessionTyped, BinariesTyped, TableTyped, TestTyped,
             RunTyped, DbTyped
    <2> QED
      BY <2>1, <2>2, TypePartsNext DEF Picked, Decided, InTest
  <1>5. ASSUME NEW to \in InTest \ {"MarkCalcStatus"}, InMutateCode(to), SourceTyped' PROVE TypeInv'
    <2>1. SessionTyped' /\ BinariesTyped' /\ TableTyped' /\ TestTyped' /\ RunTyped' /\ DbTyped'
          /\ pc' = to /\ test' = test /\ pc = "MutateCode"
      BY <1>5, <1>s DEF InMutateCode, At, table, db, SessionTyped, BinariesTyped, TableTyped, TestTyped,
             RunTyped, DbTyped
    <2> QED
      BY <1>5, <2>1, TypePartsNext DEF Picked, Decided, InTest
  <1>6. CASE Mutated \/ CannotOpen \/ ChecksumError \/ NotMutated
    <2>1. pc = "MutateCode" => test.mutp \in Mutant
      BY DEF Picked, InTest
    <2>2. ASSUME pc = "MutateCode", NEW x \in {"original", "truncated"} \cup Mutant, Write(x) \/ disk' = disk
          PROVE SourceTyped'
      BY <2>2, WriteTyped DEF SourceTyped
    <2>3. CASE Mutated
      <3>1. pc = "MutateCode" /\ InMutateCode("TestMutant") /\ Write(test.mutp)
        BY <2>3 DEF Mutated, InMutateCode, At
      <3>2. SourceTyped'
        BY <2>1, <2>2, <3>1
      <3> QED
        BY <1>5, <3>1, <3>2 DEF InTest
    <2>4. CASE CannotOpen
      BY <1>5, <2>2, <2>4 DEF CannotOpen, InMutateCode, At, InTest
    <2>5. CASE ChecksumError
      BY <1>5, <2>2, <2>5 DEF ChecksumError, WriteFails, InMutateCode, At, InTest
    <2>6. CASE NotMutated
      BY <1>5, <2>2, <2>6 DEF NotMutated, WriteFails, InMutateCode, At, InTest
    <2> QED
      BY <1>6, <2>3, <2>4, <2>5, <2>6
  <1>7. CASE CompileFails
    <2>1. TestTyped' /\ test'.mutp = test.mutp
      BY <1>7, <1>t DEF CompileFails, TestTyped, Verdicts
    <2>2. SessionTyped' /\ SourceTyped' /\ BinariesTyped' /\ TableTyped' /\ RunTyped' /\ DbTyped'
          /\ pc' = "TestBinaryAnalyze" /\ pc = "TestMutant"
      BY <1>7, <1>s DEF CompileFails, InTestMutant, At, table, db, SessionTyped, SourceTyped,
             BinariesTyped, TableTyped, RunTyped, DbTyped
    <2> QED
      BY <2>1, <2>2, TypePartsNext DEF Picked, Decided, InTest
  <1>8. CASE UseKnownStatus
    <2> PICK b \in Builds : /\ CalcStatus(b) # "none" /\ binaries' = b
                            /\ test' = [test EXCEPT !.hashes = Affected(b)]
      BY <1>8 DEF UseKnownStatus
    <2>0. b \in [Cmd -> Checksum]
      BY BuildsTyped
    <2>1. TestTyped' /\ test'.mutp = test.mutp
      BY <1>t DEF TestTyped, Affected
    <2>2. SessionTyped' /\ SourceTyped' /\ TableTyped' /\ RunTyped' /\ DbTyped'
          /\ pc' = "MarkCalcStatus" /\ pc = "TestMutant" /\ UNCHANGED table
      BY <1>8, <1>s DEF UseKnownStatus, InTestMutant, At, table, db, SessionTyped, SourceTyped,
             TableTyped, RunTyped, DbTyped
    <2>3. CalcStatus(binaries)' = CalcStatus(b)
      BY <2>2 DEF CalcStatus, TableIsEmpty, AllOriginal, AnyKill, AllAlive, IsOriginal, SkipTests, table
    <2> QED
      BY <2>0, <2>1, <2>2, <2>3, TypePartsNext DEF Picked, Decided, InTest, BinariesTyped
  <1>9. CASE StartTests
    <2> PICK b \in Builds : /\ binaries' = b
                            /\ test' = [test EXCEPT !.hashes = Affected(b)]
                            /\ run' = NewRun(SkipTests(b))
      BY <1>9 DEF StartTests
    <2>0. b \in [Cmd -> Checksum]
      BY BuildsTyped
    <2>1. TestTyped' /\ test'.mutp = test.mutp
      BY <1>t DEF TestTyped, Affected
    <2>2. RunTyped'
      BY DEF RunTyped, NewRun, Ended
    <2>3. SessionTyped' /\ SourceTyped' /\ TableTyped' /\ DbTyped'
          /\ pc' = "RunTests" /\ pc = "TestMutant"
      BY <1>9, <1>s DEF StartTests, InTestMutant, At, table, db, SessionTyped, SourceTyped,
             TableTyped, DbTyped
    <2> QED
      BY <2>0, <2>1, <2>2, <2>3, TypePartsNext DEF Picked, Decided, InTest, BinariesTyped
  <1>10. CASE MarkCalcStatus
    <2>1. CalcStatus(binaries) \in Verdicts
      BY <1>10, <1>c DEF MarkCalcStatus, At, Decided, Verdicts
    <2>2. TestTyped' /\ test'.mutp = test.mutp
      BY <1>10, <1>t, <2>1 DEF MarkCalcStatus, TestTyped
    <2>3. SessionTyped' /\ SourceTyped' /\ BinariesTyped' /\ TableTyped' /\ RunTyped' /\ DbTyped'
          /\ pc' = "RestoreCode" /\ pc = "MarkCalcStatus"
      BY <1>10, <1>s DEF MarkCalcStatus, At, table, db, SessionTyped, SourceTyped,
             BinariesTyped, TableTyped, RunTyped, DbTyped
    <2> QED
      BY <2>2, <2>3, TypePartsNext DEF Picked, Decided, InTest
  <1>11. ASSUME NEW c \in Cmd,
                StartTest(c) \/ ProcessDone(c) \/ TestExits(c) \/ TestFaults(c) \/ TestIsStopped(c)
         PROVE TypeInv'
    <2>1. RunTyped' /\ InRunTests
      BY <1>11, RunnerTyped, RunnerFrame
    <2>2. SessionTyped' /\ SourceTyped' /\ BinariesTyped' /\ TableTyped' /\ TestTyped' /\ DbTyped'
          /\ pc' = "RunTests" /\ pc = "RunTests" /\ test' = test
      BY <2>1, <1>s DEF InRunTests, table, db, SessionTyped, SourceTyped, BinariesTyped, TableTyped,
             TestTyped, DbTyped
    <2> QED
      BY <2>1, <2>2, TypePartsNext DEF Picked, Decided, InTest
  <1>12. CASE RunnerReturns
    <2>1. run.status \in Ended /\ run.output \in SUBSET Cmd
      BY <1>s DEF RunTyped
    <2>2. TestTyped' /\ test'.mutp = test.mutp
      BY <1>12, <1>t, <2>1, StatusesDecided DEF RunnerReturns, TestTyped
    <2>3. RunTyped'
      BY <1>12 DEF RunnerReturns, RunTyped, NewRun, Ended
    <2>4. SessionTyped' /\ SourceTyped' /\ BinariesTyped' /\ TableTyped' /\ DbTyped'
          /\ pc' = "TestBinaryAnalyze" /\ pc = "RunTests"
      BY <1>12, <1>s DEF RunnerReturns, At, table, db, SessionTyped, SourceTyped, BinariesTyped,
             TableTyped, DbTyped
    <2> QED
      BY <2>2, <2>3, <2>4, TypePartsNext DEF Picked, Decided, InTest
  <1>13. CASE TestBinaryAnalyze
    <2>1. Learnt \subseteq Cmd /\ (Learnt # {} => test.status \in {"alive", "killed"})
      BY <1>t DEF Learnt
    <2>2. TableTyped'
      <3>1. {binaries[c] : c \in Learnt} \subseteq Checksum
        BY <1>s, <2>1 DEF BinariesTyped
      <3>2. original' = original /\ added' = added \cup {binaries[c] : c \in Learnt}
            /\ known' = [cs \in Checksum |->
                           IF cs \in {binaries[c] : c \in Learnt} THEN test.status ELSE known[cs]]
        BY <1>13 DEF TestBinaryAnalyze
      <3> QED
        BY <1>s, <2>1, <3>1, <3>2 DEF TableTyped
    <2>3. TestTyped' /\ test'.mutp = test.mutp
      BY <1>13, <1>t DEF TestBinaryAnalyze, TestTyped
    <2>4. SessionTyped' /\ SourceTyped' /\ BinariesTyped' /\ RunTyped' /\ DbTyped'
          /\ pc' \in {"TestCaseAnalyze", "RestoreCode"} /\ pc = "TestBinaryAnalyze"
      BY <1>13, <1>s DEF TestBinaryAnalyze, At, db, SessionTyped, SourceTyped, BinariesTyped, RunTyped, DbTyped
    <2> QED
      BY <2>2, <2>3, <2>4, TypePartsNext DEF Picked, Decided, InTest
  <1>14. CASE TestCaseAnalyze
    <2>1. DbTyped'
      BY <1>14, <1>s, <1>t DEF TestCaseAnalyze, db, DbTyped, Picked, InTest
    <2>2. SessionTyped' /\ SourceTyped' /\ BinariesTyped' /\ TableTyped' /\ TestTyped' /\ RunTyped'
          /\ pc' \in {"RestoreCode", "NoResultRestoreCode"} /\ pc = "TestCaseAnalyze" /\ test' = test
      BY <1>14, <1>s DEF TestCaseAnalyze, table, SessionTyped, SourceTyped, BinariesTyped, TableTyped,
             TestTyped, RunTyped
    <2> QED
      BY <2>1, <2>2, TypePartsNext DEF Picked, Decided, InTest
  <1>15. CASE RestoreCode \/ NoResultRestoreCode
    <2>1. SourceTyped'
      BY <1>15, WriteTyped DEF RestoreCode, NoResultRestoreCode, Restored, WriteFails, SourceTyped
    <2>2. SessionTyped' /\ BinariesTyped' /\ TableTyped' /\ TestTyped' /\ RunTyped' /\ DbTyped'
          /\ pc' \in {"Cover", "FilesysError", "NoResult"} /\ test' = test
          /\ pc \in {"RestoreCode", "NoResultRestoreCode"}
      BY <1>15, <1>s DEF RestoreCode, NoResultRestoreCode, At, table, db, SessionTyped, BinariesTyped,
             TableTyped, TestTyped, RunTyped, DbTyped
    <2> QED
      BY <2>1, <2>2, TypePartsNext DEF Picked, Decided, InTest
  <1>16. CASE Cover
    <2>1. TestTyped' /\ test'.mutp = test.mutp
      BY <1>16, <1>t, SourceMutantAssumption DEF Cover, At, TestTyped, Picked, InTest
    <2>2. SessionTyped' /\ SourceTyped' /\ BinariesTyped' /\ TableTyped' /\ RunTyped' /\ DbTyped'
          /\ pc' = "Done" /\ pc = "Cover"
      BY <1>16, <1>s DEF Cover, At, table, db, SessionTyped, SourceTyped, BinariesTyped,
             TableTyped, RunTyped, DbTyped
    <2> QED
      BY <2>1, <2>2, TypePartsNext DEF Picked, Decided, InTest
  <1>17. CASE HandleTestResult
    <2>1. pc \in {"Done", "NoResult"} /\ test.mutp \in Mutant
      BY <1>17 DEF HandleTestResult, Picked, InTest
    <2>2. DbTyped'
      BY <1>17, <1>s, <1>t, <2>1 DEF HandleTestResult, db, DbTyped
    <2>3. SessionTyped' /\ SourceTyped' /\ BinariesTyped' /\ TableTyped' /\ TestTyped' /\ RunTyped'
          /\ pc' = "SaveTestBinaryDb"
      BY <1>17, <1>s DEF HandleTestResult, table, SessionTyped, SourceTyped, BinariesTyped, TableTyped,
             TestTyped, RunTyped
    <2> QED
      BY <2>2, <2>3, TypePartsNext DEF Picked, Decided, InTest
  <1>18. CASE SaveTestBinaryDb
    <2>1. DbTyped'
      BY <1>18, <1>s DEF SaveTestBinaryDb, DbTyped, TableTyped
    <2>2. TestTyped' /\ TableTyped'
      BY <1>18, <1>s DEF SaveTestBinaryDb, NewTest, TestTyped, TableTyped, Verdicts
    <2>3. SessionTyped' /\ SourceTyped' /\ BinariesTyped' /\ RunTyped' /\ pc' = "NextMutant"
      BY <1>18, <1>s DEF SaveTestBinaryDb, At, SessionTyped, SourceTyped, BinariesTyped, RunTyped
    <2> QED
      BY <2>1, <2>2, <2>3, TypePartsNext DEF Picked, Decided, InTest
  <1>19. CASE SaveResult
    <2>1. /\ DbTyped' /\ pc' = pc /\ test' = test /\ binaries' = binaries /\ UNCHANGED table
          /\ SessionTyped' /\ SourceTyped' /\ RunTyped'
      BY <1>19, <1>s DEF SaveResult, DbTyped, SessionTyped, SourceTyped, RunTyped
    <2>2. BinariesTyped' /\ TableTyped' /\ TestTyped'
      BY <1>s, <2>1 DEF table, BinariesTyped, TableTyped, TestTyped
    <2>3. CalcStatus(binaries)' = CalcStatus(binaries)
      BY <2>1 DEF table, CalcStatus, TableIsEmpty, AllOriginal, AnyKill, AllAlive, IsOriginal, SkipTests
    <2>4. Picked' /\ Decided'
      BY <2>1, <2>3 DEF Picked, Decided
    <2> QED
      BY <1>s, <2>1, <2>2, <2>4, TypePartsNext
  <1> QED
    BY NextCases, <1>1, <1>2, <1>3, <1>4, <1>6, <1>7, <1>8, <1>9, <1>10, <1>11, <1>12, <1>13,
       <1>14, <1>15, <1>16, <1>17, <1>18, <1>19

\* Whatever is built, fails or is killed, the types are kept, and a test has a mutant.
THEOREM TypeCorrect == Spec => []TypeOK
  <1>1. Spec => []TypeInv
    BY InitTypeInv, TypeStep, PTL DEF Spec
  <1> QED
    BY <1>1, PTL DEF TypeInv

-----------------------------------------------------------------------------
\* Writing the original to the only file that was touched restores everything, and
\* writing anything else to it touches only this file.
LEMMA Restores ==
    ASSUME TypeInv, DiskInv, pc \in {"MutateCode", "TestCaseAnalyze", "RestoreCode", "NoResultRestoreCode"}
    PROVE  /\ OnlyItsFile
           /\ Write("original") => disk' = Original
           /\ \A x : test' = test /\ (Write(x) \/ disk' = disk) => OnlyItsFile'
  <1>1. disk \in [File -> {"original", "truncated"} \cup Mutant]
    BY DEF TypeInv, TypeOK
  <1>2. OnlyItsFile
    BY DEF DiskInv, OnlyItsFile, Original
  <1>3. Write("original") => disk' = Original
    BY <1>1, <1>2 DEF Write, OnlyItsFile, Original
  <1>4. ASSUME NEW x, test' = test, Write(x) \/ disk' = disk PROVE OnlyItsFile'
    BY <1>1, <1>2, <1>4 DEF Write, OnlyItsFile
  <1> QED
    BY <1>2, <1>3, <1>4

\* Every step keeps the files as the test of one mutant leaves them.
LEMMA DiskStep ==
    ASSUME RestoreSucceeds, TypeInv, DiskInv, [Next]_vars
    PROVE  DiskInv'
  <1>0. CASE UNCHANGED vars
    BY <1>0 DEF DiskInv, OnlyItsFile, vars
  <1>1. CASE StartSession
    BY <1>1 DEF StartSession, At, DiskInv
  <1>2. ASSUME NEW m \in Mutant, NextMutant(m) PROVE DiskInv'
    BY <1>2 DEF NextMutant, At, DiskInv
  <1>3. CASE EndSession \/ UserRestores
    BY <1>3 DEF EndSession, UserRestores, DiskInv
  <1>4. CASE Mutated
    BY <1>4 DEF Mutated, InMutateCode, At, Write, DiskInv
  <1>5. CASE CannotOpen \/ ChecksumError
    BY <1>5 DEF CannotOpen, ChecksumError, InMutateCode, At, DiskInv
  <1>6. CASE NotMutated
    <2>1. pc = "MutateCode" /\ pc' = "NoResultRestoreCode" /\ test' = test
      BY <1>6 DEF NotMutated, InMutateCode, At
    <2>2. OnlyItsFile'
      BY <1>6, <2>1, Restores DEF NotMutated, WriteFails
    <2> QED
      BY <2>1, <2>2 DEF DiskInv
  <1>7. CASE CompileFails
    BY <1>7 DEF CompileFails, InTestMutant, At, DiskInv, TypeInv, TypeOK
  <1>8. ASSUME NEW b, NEW to \in {"MarkCalcStatus", "RunTests"}, InTestMutant(to),
               test' = [test EXCEPT !.hashes = Affected(b)]
        PROVE DiskInv'
    BY <1>8 DEF InTestMutant, At, DiskInv, TypeInv, TypeOK
  <1>9. CASE UseKnownStatus \/ StartTests
    BY <1>8, <1>9 DEF UseKnownStatus, StartTests
  <1>10. ASSUME test'.mutp = test.mutp, disk' = disk,
                OnlyItsFile, pc' \in {"RestoreCode", "TestCaseAnalyze", "NoResultRestoreCode"}
         PROVE DiskInv'
    BY <1>10 DEF DiskInv, OnlyItsFile
  <1>11. CASE MarkCalcStatus \/ TestBinaryAnalyze
    <2>1. pc \in {"MarkCalcStatus", "TestBinaryAnalyze"} /\ disk' = disk
          /\ pc' \in {"RestoreCode", "TestCaseAnalyze"}
      BY <1>11 DEF MarkCalcStatus, TestBinaryAnalyze, At
    <2>2. test'.mutp = test.mutp
      BY <1>11 DEF MarkCalcStatus, TestBinaryAnalyze, TypeInv, TypeOK
    <2>3. OnlyItsFile
      BY <2>1 DEF DiskInv, OnlyItsFile, Original
    <2> QED
      BY <2>1, <2>2, <2>3, <1>10
  <1>12. CASE TestCaseAnalyze
    BY <1>12, <1>10 DEF TestCaseAnalyze, DiskInv
  <1>13. ASSUME NEW c \in Cmd,
                StartTest(c) \/ ProcessDone(c) \/ TestExits(c) \/ TestFaults(c) \/ TestIsStopped(c)
         PROVE DiskInv'
    BY <1>13, RunnerFrame DEF InRunTests, DiskInv, OnlyItsFile
  <1>14. CASE RunnerReturns
    BY <1>14 DEF RunnerReturns, At, DiskInv, TypeInv, TypeOK
  <1>15. CASE RestoreCode \/ NoResultRestoreCode
    <2>1. disk' = Original \/ pc' = "FilesysError"
      BY <1>15, Restores DEF RestoreCode, NoResultRestoreCode, Restored, RestoreSucceeds, At
    <2>2. pc' \in {"Cover", "NoResult", "FilesysError"}
      BY <1>15 DEF RestoreCode, NoResultRestoreCode, At
    <2> QED
      BY <2>1, <2>2 DEF DiskInv
  <1>16. CASE Cover \/ HandleTestResult \/ SaveTestBinaryDb
    BY <1>16 DEF Cover, HandleTestResult, SaveTestBinaryDb, At, DiskInv
  <1>17. CASE SaveResult
    BY <1>17 DEF SaveResult, DiskInv, OnlyItsFile
  <1> QED
    BY NextCases, <1>0, <1>1, <1>2, <1>3, <1>4, <1>5, <1>6, <1>7, <1>9, <1>11, <1>12, <1>13, <1>14,
       <1>15, <1>16, <1>17

\* All files are the original ones at first.
LEMMA InitDiskInv == Init => DiskInv
  BY DEF Init, DiskInv

\* As long as the restore after a test without a result does not fail, every mutant is
\* built and tested alone, and the next one starts from the original source code.
THEOREM OneMutant == RestoreSucceeds => (Spec => []OneMutantAtATime)
  <1> SUFFICES ASSUME RestoreSucceeds PROVE Spec => []OneMutantAtATime
    OBVIOUS
  <1>1. TypeInv /\ DiskInv /\ [Next]_vars => TypeInv' /\ DiskInv'
    BY TypeStep, DiskStep
  <1>2. DiskInv => OneMutantAtATime
    BY DEF DiskInv, OneMutantAtATime
  <1> QED
    BY InitTypeInv, InitDiskInv, <1>1, <1>2, PTL DEF Spec

-----------------------------------------------------------------------------
\* A step that neither ends a test nor saves a result keeps what is said of the
\* covered mutants.
LEMMA CoverKept ==
    ASSUME CoverInv, verdict' = verdict, sent' = sent,
           pc' # "Done",
           \/ pc' \in {"SaveTestBinaryDb", "NextMutant"}
           \/ pc \notin {"SaveTestBinaryDb", "NextMutant"}
           \/ sent = {}
    PROVE  CoverInv'
  BY DEF CoverInv, CoveredUntested, SentBetweenTests, SentTogether

\* Saving a result leaves the others of the same test as they were: the survivor is
\* saved before what it covers.
LEMMA SaveKeepsTogether ==
    ASSUME TypeInv, CoverInv, SaveResult
    PROVE  /\ CoverInv'
           /\ \A m \in Mutant : verdict[m] # "skipped" /\ verdict'[m] = "skipped" =>
                 /\ verdict[m] = "unknown"
                 /\ \E n \in Mutant : m \in CoveredBy[n] /\ verdict[n] = "alive"
  <1>t. /\ verdict \in [Mutant -> Verdicts \cup {"skipped"}]
        /\ sent \subseteq [id : Mutant, st : Verdicts \cup {"skipped"}]
    BY DEF TypeInv, TypeOK
  <1> PICK r \in sent : /\ r.st = "skipped" => \A q \in sent : q.st = "skipped"
                        /\ sent' = sent \ {r}
                        /\ verdict' = [verdict EXCEPT ![r.id] = r.st]
                        /\ pc' = pc
    BY DEF SaveResult
  <1> DEFINE Covered(n, q) == q.st = "skipped" /\ q.id \in CoveredBy[n] \ {n} /\ verdict[q.id] = "unknown"
  <1> PICK n \in Mutant, st \in Verdicts :
         \A q \in sent : \/ q = [id |-> n, st |-> st]
                         \/ Covered(n, q) /\ st = "alive" /\ (verdict[n] = "alive" \/ [id |-> n, st |-> st] \in sent)
    BY DEF CoverInv, SentTogether
  <1>s. "skipped" \notin Verdicts
    BY DEF Verdicts
  <1>b. pc \in {"SaveTestBinaryDb", "NextMutant"}
    BY DEF CoverInv, SentBetweenTests
  <1>1. CASE r = [id |-> n, st |-> st]
    <2>1. \A q \in sent' : Covered(n, q) /\ st = "alive"
      BY <1>1
    <2>2. verdict'[n] = st /\ \A m \in Mutant \ {n} : verdict'[m] = verdict[m]
      BY <1>1, <1>t
    <2>3. \A q \in sent' : /\ q.st = "skipped" /\ q.id \in CoveredBy[n] \ {n}
                           /\ verdict'[q.id] = "unknown" /\ st = "alive" /\ verdict'[n] = "alive"
      BY <1>t, <2>1, <2>2
    <2>4. CoverInv'
      BY <1>b, <2>3 DEF CoverInv, CoveredUntested, SentBetweenTests, SentTogether
    <2> QED
      BY <1>s, <2>2, <2>4
  <1>2. CASE r # [id |-> n, st |-> st]
    <2>1. Covered(n, r) /\ \A q \in sent : q.st = "skipped"
      BY <1>2
    <2>2. verdict[n] = "alive"
      BY <1>s, <1>2, <2>1
    <2>3. \A m \in Mutant : verdict'[m] = IF m = r.id THEN "skipped" ELSE verdict[m]
      BY <1>t, <2>1
    <2>4. \A q \in sent' : Covered(n, q) /\ q.id # r.id /\ st = "alive"
      <3> SUFFICES ASSUME NEW q \in sent' PROVE Covered(n, q) /\ q.id # r.id /\ st = "alive"
        OBVIOUS
      <3>1. q \in sent /\ q # r /\ q.st = "skipped" /\ r.st = "skipped"
        BY <2>1
      <3>2. q.id # r.id
        BY <1>t, <3>1
      <3> QED
        BY <1>s, <3>1, <3>2
    <2>5. verdict'[n] = "alive"
      BY <2>1, <2>2, <2>3
    <2>6. \A q \in sent' : /\ q.st = "skipped" /\ q.id \in CoveredBy[n] \ {n}
                           /\ verdict'[q.id] = "unknown" /\ st = "alive"
      BY <1>t, <2>3, <2>4
    <2>7. CoverInv'
      BY <1>b, <2>5, <2>6 DEF CoverInv, CoveredUntested, SentBetweenTests, SentTogether
    <2> QED
      BY <2>1, <2>2, <2>3, <2>7
  <1> QED
    BY <1>1, <1>2

\* Every step keeps what is said of the covered mutants: Cover takes unknown ones, and
\* nobody else writes a verdict until they are saved.
LEMMA CoverStep ==
    ASSUME TypeInv, CoverInv, [Next]_vars
    PROVE  CoverInv'
  <1>1. CASE UNCHANGED vars
    BY <1>1 DEF CoverInv, CoveredUntested, SentBetweenTests, SentTogether, vars, db
  <1>2. CASE StartSession \/ UserRestores
    BY <1>2, CoverKept DEF StartSession, UserRestores, At, db, CoverInv, SentBetweenTests
  <1>3. CASE EndSession
    BY <1>3 DEF EndSession, CoverInv, CoveredUntested, SentBetweenTests
  <1>4. ASSUME NEW m \in Mutant, NextMutant(m) PROVE CoverInv'
    BY <1>4, CoverKept DEF NextMutant, At, db
  <1>5. CASE Mutated \/ CannotOpen \/ ChecksumError \/ NotMutated
    BY <1>5, CoverKept DEF Mutated, CannotOpen, ChecksumError, NotMutated, InMutateCode, At, db
  <1>6. CASE CompileFails \/ UseKnownStatus \/ StartTests \/ MarkCalcStatus \/ RunnerReturns
    BY <1>6, CoverKept DEF CompileFails, UseKnownStatus, StartTests, MarkCalcStatus, RunnerReturns,
           InTestMutant, At, db
  <1>7. ASSUME NEW c \in Cmd,
               StartTest(c) \/ ProcessDone(c) \/ TestExits(c) \/ TestFaults(c) \/ TestIsStopped(c)
        PROVE CoverInv'
    BY <1>7, CoverKept, RunnerFrame DEF InRunTests, db
  <1>8. CASE TestBinaryAnalyze \/ TestCaseAnalyze \/ RestoreCode \/ NoResultRestoreCode
    BY <1>8, CoverKept DEF TestBinaryAnalyze, TestCaseAnalyze, RestoreCode, NoResultRestoreCode, At, db
  <1>9. CASE Cover
    <2>1. /\ test'.mutp = test.mutp /\ test'.status = test.status
          /\ test'.covered =
                IF conf.skipMutant /\ test.status = "alive"
                THEN {m \in CoveredBy[test.mutp] \ {test.mutp} : verdict[m] = "unknown"} ELSE {}
      BY <1>9 DEF Cover, TypeInv, TypeOK
    <2>2. pc = "Cover" /\ pc' = "Done" /\ verdict' = verdict /\ sent' = sent
      BY <1>9 DEF Cover, At, db
    <2> QED
      BY <2>1, <2>2 DEF CoverInv, CoveredUntested, SentBetweenTests
  <1>10. CASE HandleTestResult
    <2>1. /\ pc \in {"Done", "NoResult"} /\ pc' = "SaveTestBinaryDb" /\ verdict' = verdict
          /\ sent' = IF pc = "NoResult" THEN {}
                     ELSE {[id |-> test.mutp, st |-> test.status]}
                          \cup [id : test.covered \ {test.mutp}, st : {"skipped"}]
      BY <1>10 DEF HandleTestResult, db
    <2>2. test.mutp \in Mutant /\ test.status \in Verdicts
      BY <2>1 DEF TypeInv, TypeOK, Picked, InTest
    <2>3. pc = "Done" => SentTogether'
      BY <2>1, <2>2 DEF CoverInv, CoveredUntested, SentTogether
    <2> QED
      BY <2>1, <2>3 DEF CoverInv, CoveredUntested, SentBetweenTests
  <1>11. CASE SaveTestBinaryDb
    BY <1>11, CoverKept DEF SaveTestBinaryDb, At
  <1>12. CASE SaveResult
    BY <1>12, SaveKeepsTogether
  <1> QED
    BY NextCases, <1>1, <1>2, <1>3, <1>4, <1>5, <1>6, <1>7, <1>8, <1>9, <1>10, <1>11, <1>12

\* Nothing is sent at first.
LEMMA InitCoverInv == Init => CoverInv
  BY DEF Init, CoverInv, CoveredUntested, SentBetweenTests

\* Whatever fails, is killed between two saves or is tested again: when a mutant is
\* skipped it has no verdict, and a mutant at the same place is alive in the database.
THEOREM SkippedRightly == Spec => SkippedForSurvivor
  <1>1. TypeInv /\ CoverInv /\ [Next]_vars => TypeInv' /\ CoverInv'
    BY TypeStep, CoverStep
  <1>2. TypeInv /\ CoverInv /\ [Next]_vars =>
            [\A m \in Mutant : verdict[m] # "skipped" /\ verdict'[m] = "skipped" =>
                /\ verdict[m] = "unknown"
                /\ \E n \in Mutant : m \in CoveredBy[n] /\ verdict[n] = "alive"]_vars
    <2> SUFFICES ASSUME TypeInv, CoverInv, Next, NEW m \in Mutant,
                        verdict[m] # "skipped", verdict'[m] = "skipped"
                 PROVE  /\ verdict[m] = "unknown"
                        /\ \E n \in Mutant : m \in CoveredBy[n] /\ verdict[n] = "alive"
      OBVIOUS
    <2>1. verdict' # verdict
      OBVIOUS
    <2>2. SaveResult
      BY <2>1, NextCases, RunnerFrame
         DEF StartSession, NextMutant, EndSession, UserRestores, Mutated, CannotOpen, ChecksumError,
             NotMutated, InMutateCode, CompileFails, UseKnownStatus, StartTests, InTestMutant,
             MarkCalcStatus, InRunTests, RunnerReturns, TestBinaryAnalyze, TestCaseAnalyze,
             RestoreCode, NoResultRestoreCode, Cover, HandleTestResult, SaveTestBinaryDb, db
    <2> QED
      BY <2>2, SaveKeepsTogether
  <1> QED
    BY InitTypeInv, InitCoverInv, <1>1, <1>2, PTL DEF Spec, SkippedForSurvivor

-----------------------------------------------------------------------------
\* What the build makes of the source code is what it makes of the mutant.
LEMMA BuildsMutant ==
    ASSUME TypeInv, DiskInv, pc = "TestMutant"
    PROVE  Builds = {sut.built[test.mutp]}
  <1> DEFINE here == {m \in Mutant : disk = [Original EXCEPT ![FileOf[m]] = m]}
  <1>1. test.mutp \in Mutant /\ disk = [Original EXCEPT ![FileOf[test.mutp]] = test.mutp]
    BY DEF TypeInv, Picked, InTest, DiskInv
  <1>2. FileOf \in [Mutant -> File] /\ "original" \notin Mutant
    BY SourceMutantAssumption
  <1>3. ASSUME NEW m \in here PROVE m = test.mutp
    <2>1. disk[FileOf[m]] = m
      BY <1>2 DEF Original
    <2>2. CASE FileOf[m] = FileOf[test.mutp]
      BY <1>1, <1>2, <2>1, <2>2 DEF Original
    <2>3. CASE FileOf[m] # FileOf[test.mutp]
      BY <1>1, <1>2, <2>1, <2>3 DEF Original
    <2> QED
      BY <2>2, <2>3
  <1>4. here = {test.mutp}
    BY <1>1, <1>3
  <1> QED
    BY <1>4 DEF Builds

\* A command that is skipped would pass, unless the table has a kill.
LEMMA SkippedPass ==
    ASSUME TypeInv, TableInv, KnownIsTrue, pc # "Off", NEW b \in [Cmd -> Checksum]
    PROVE  /\ \A c \in Cmd : IsOriginal(b, c) => b[c] \notin sut.fails
           /\ ~AnyKill(b) => \A c \in SkipTests(b) : b[c] \notin sut.fails
  <1>1. \A c \in Cmd : sut.original[c] \notin sut.fails
    BY SourceMutantAssumption DEF TypeInv, TypeOK
  <1>2. ASSUME NEW c \in Cmd, IsOriginal(b, c) PROVE b[c] \notin sut.fails
    <2>1. original = {} \/ original = {sut.original[d] : d \in Cmd}
      BY DEF TableInv
    <2> QED
      BY <1>1, <1>2, <2>1 DEF IsOriginal
  <1>3. known \in [Checksum -> {"none", "alive", "killed"}]
    BY DEF TypeInv, TypeOK
  <1>4. ASSUME ~AnyKill(b), NEW c \in SkipTests(b) PROVE b[c] \notin sut.fails
    <2>1. c \in Cmd /\ (IsOriginal(b, c) \/ known[b[c]] # "none")
      BY <1>4 DEF SkipTests
    <2>2. CASE known[b[c]] # "none"
      BY <1>3, <1>4, <2>1, <2>2 DEF AnyKill, KnownIsTrue
    <2> QED
      BY <1>2, <2>1, <2>2
  <1> QED
    BY <1>2, <1>4

\* If as many commands are skipped as there are original test binaries, all are.
LEMMA AllAreSkipped ==
    ASSUME TypeInv, TableInv, TableIsReliable, pc # "Off", NEW b, ~TableIsEmpty,
           Cardinality(SkipTests(b)) = Cardinality(original)
    PROVE  SkipTests(b) = Cmd
  <1>1. conf.checksum /\ original = {sut.original[c] : c \in Cmd}
    BY DEF TableInv, TableIsEmpty
  <1>2. sut \in Sut
    BY DEF TypeInv, TypeOK
  <1> DEFINE f == [c \in Cmd |-> sut.original[c]]
  <1>3. f \in Bijection(Cmd, original)
    BY <1>1, <1>2 DEF TableIsReliable, Bijection, Injection, Surjection, IsInjective
  <1>4. Cardinality(original) = Cardinality(Cmd)
    BY <1>3, FS_Bijection DEF TableIsReliable, ExistsBijection
  <1>5. SkipTests(b) \in SUBSET Cmd
    BY DEF SkipTests
  <1> QED
    BY <1>4, <1>5, FS_Subset DEF TableIsReliable

\* The status that is found without executing anything is the one that executing
\* everything would give.
LEMMA CalcIsTrue ==
    ASSUME TypeInv, TableInv, KnownIsTrue, TableIsReliable, pc # "Off", NEW b \in [Cmd -> Checksum]
    PROVE  /\ CalcStatus(b) \in {"equivalent", "alive"} => ~Failing(b)
           /\ CalcStatus(b) = "killed" => Failing(b)
           /\ CalcStatus(b) = "none" => \A c \in SkipTests(b) : b[c] \notin sut.fails
  <1>1. known \in [Checksum -> {"none", "alive", "killed"}]
    BY DEF TypeInv, TypeOK
  <1>2. CASE TableIsEmpty
    BY <1>2 DEF CalcStatus, SkipTests
  <1>3. CASE ~TableIsEmpty /\ AllOriginal(b)
    <2>1. ~Failing(b)
      BY <1>3, SkippedPass DEF AllOriginal, Failing
    <2> QED
      BY <1>3, <2>1 DEF CalcStatus
  <1>4. CASE ~TableIsEmpty /\ ~AllOriginal(b) /\ AnyKill(b)
    <2>1. Failing(b)
      BY <1>4 DEF AnyKill, Failing, KnownIsTrue
    <2> QED
      BY <1>4, <2>1 DEF CalcStatus
  <1>5. CASE ~TableIsEmpty /\ ~AllOriginal(b) /\ ~AnyKill(b)
    <2>1. \A c \in SkipTests(b) : b[c] \notin sut.fails
      BY <1>5, SkippedPass
    <2>2. CASE AllAlive(b)
      BY <1>5, <2>1, <2>2 DEF CalcStatus, AllAlive, Failing, KnownIsTrue
    <2>3. CASE Cardinality(SkipTests(b)) = Cardinality(original)
      <3>1. SkipTests(b) = Cmd
        BY <1>5, <2>3, AllAreSkipped
      <3> QED
        BY <1>5, <2>1, <3>1 DEF CalcStatus, Failing
    <2>4. CASE ~AllAlive(b) /\ Cardinality(SkipTests(b)) # Cardinality(original)
      BY <1>5, <2>1, <2>4 DEF CalcStatus
    <2> QED
      BY <2>2, <2>3, <2>4
  <1> QED
    BY <1>2, <1>3, <1>4, <1>5

-----------------------------------------------------------------------------
\* A fault is none of the states a command goes through otherwise.
LEMMA Statuses ==
    /\ {"waiting", "running", "done", "passed", "failed"} \cap Fault = {}
    /\ Fault \subseteq {"timeout", "memOverload", "error"}
  BY SourceMutantAssumption

\* A run starts with nothing failed, and what it skips would pass.
LEMMA RunStarts ==
    ASSUME NEW b \in [Cmd -> Checksum], \A c \in SkipTests(b) : b[c] \notin sut.fails,
           sut' = sut, binaries' = b, run' = NewRun(SkipTests(b))
    PROVE  RunParts'
  <1>1. /\ run'.status = "passed" /\ run'.stop = FALSE /\ run'.output = {}
        /\ \A c \in Cmd : run'.job[c] = IF c \in SkipTests(b) THEN "done" ELSE "waiting"
    BY DEF NewRun
  <1> QED
    BY <1>1 DEF RunParts, FailureHasReason, PassIsTrue, StopIsCounted, OutputIsTrue

\* A test command that ends says what the binary does, or it was stopped, or there
\* was a fault.
LEMMA TestEndsRightly ==
    ASSUME TypeInv, RunParts, NEW c \in Cmd, NEW st \in Ended, EndTest(c, st),
           \/ st = "failed" /\ (binaries[c] \in sut.fails \/ StopIsActive)
           \/ st = "passed" /\ binaries[c] \notin sut.fails
           \/ st \in Fault
    PROVE  RunParts'
  <1>1. /\ sut' = sut /\ binaries' = binaries /\ conf' = conf
        /\ run.job[c] = "running"
        /\ run'.job = [run.job EXCEPT ![c] = st]
        /\ run'.stop = (run.stop \/ st \in {"failed", "timeout", "memOverload"})
        /\ run'.status = run.status /\ run'.output = run.output
    BY DEF EndTest, InRunTests, TypeInv, TypeOK
  <1>2. run.job \in [Cmd -> {"waiting", "running", "done"} \cup Ended]
    BY DEF TypeInv, TypeOK
  <1>3. \A d \in Cmd : run'.job[d] = IF d = c THEN st ELSE run.job[d]
    BY <1>1, <1>2
  <1>4. Faulted => Faulted'
    BY <1>1, <1>3, Statuses DEF Faulted
  <1>5. FailureHasReason'
    <2>1. CASE st \in Fault
      BY <1>3, <2>1 DEF FailureHasReason, Faulted
    <2>2. CASE st = "failed"
      BY <1>1, <1>4, <2>2, Statuses DEF FailureHasReason, RunParts, Failing, StopIsActive
    <2>3. CASE st = "passed"
      <3>1. run'.stop <=> run.stop
        BY <1>1, <2>3
      <3>2. (\E d \in Cmd : run'.job[d] = "failed") => \E d \in Cmd : run.job[d] = "failed"
        BY <1>3, <2>3
      <3> QED
        BY <1>1, <1>4, <3>1, <3>2 DEF FailureHasReason, RunParts, Failing
    <2> QED
      BY <2>1, <2>2, <2>3
  <1>6. PassIsTrue'
    BY <1>1, <1>3, Statuses DEF PassIsTrue, RunParts
  <1>7. StopIsCounted'
    <2>1. CASE st \in {"failed"} \cup Fault
      BY <1>3, <2>1 DEF StopIsCounted
    <2>2. CASE st = "passed"
      <3>1. run'.stop <=> run.stop
        BY <1>1, <2>2
      <3>2. \A d \in Cmd : run.job[d] \in {"failed"} \cup Fault => run'.job[d] = run.job[d]
        BY <1>1, <1>3, Statuses
      <3> QED
        BY <1>1, <3>1, <3>2 DEF StopIsCounted, RunParts
    <2> QED
      BY <2>1, <2>2
  <1>8. OutputIsTrue'
    BY <1>1, <1>3, Statuses DEF OutputIsTrue, RunParts, StopIsActive
  <1> QED
    BY <1>5, <1>6, <1>7, <1>8 DEF RunParts

\* A step of the pool keeps the reasons for every command that failed or was stopped.
LEMMA RunStep ==
    ASSUME TypeInv, RunParts, NEW c \in Cmd,
           StartTest(c) \/ ProcessDone(c) \/ TestExits(c) \/ TestFaults(c) \/ TestIsStopped(c)
    PROVE  RunParts'
  <1>t. run.job \in [Cmd -> {"waiting", "running", "done"} \cup Ended]
    BY DEF TypeInv, TypeOK
  <1>f. sut' = sut /\ binaries' = binaries /\ conf' = conf
    BY RunnerFrame DEF InRunTests
  <1>1. CASE StartTest(c)
    <2>1. /\ run.job[c] = "waiting" /\ run'.stop = run.stop /\ run'.status = run.status
          /\ run'.output = run.output
          /\ \A d \in Cmd : run'.job[d] = IF d = c THEN IF StopIsActive THEN "passed" ELSE "running"
                                          ELSE run.job[d]
      BY <1>1, <1>t DEF StartTest, Becomes, TypeInv, TypeOK
    <2>2. \A d \in Cmd : /\ run'.job[d] = "failed" <=> run.job[d] = "failed"
                         /\ run'.job[d] \in Fault <=> run.job[d] \in Fault
      BY <2>1, Statuses
    <2>3. FailureHasReason' /\ StopIsCounted' /\ OutputIsTrue'
      BY <1>f, <2>1, <2>2 DEF FailureHasReason, StopIsCounted, OutputIsTrue, RunParts, Faulted, Failing
    <2>4. PassIsTrue'
      BY <1>f, <2>1 DEF PassIsTrue, RunParts, StopIsActive
    <2> QED
      BY <2>3, <2>4 DEF RunParts
  <1>2. CASE TestExits(c)
    BY <1>2, TestEndsRightly DEF TestExits, Ended
  <1>3. CASE TestFaults(c)
    BY <1>3, TestEndsRightly DEF TestFaults, Ended
  <1>4. CASE TestIsStopped(c)
    BY <1>4, TestEndsRightly DEF TestIsStopped, Ended
  <1>5. CASE ProcessDone(c)
    <2>1. /\ run.job[c] \in Ended /\ run'.stop = run.stop
          /\ run'.status = MergedStatus(run.status, run.job[c])
          /\ run'.output = IF run.job[c] = "failed" THEN run.output \cup {c} ELSE run.output
          /\ \A d \in Cmd : run'.job[d] = IF d = c THEN "done" ELSE run.job[d]
      BY <1>5, <1>t DEF ProcessDone, TypeInv, TypeOK
    <2>2. /\ run'.status = "passed" <=> run.status = "passed" /\ run.job[c] = "passed"
          /\ run'.status = "failed" => run.status = "failed" \/ run.job[c] = "failed"
          /\ run.status \in Fault \/ run.job[c] \in Fault => run'.status \in Fault
      BY <2>1, Statuses DEF MergedStatus, Ended
    <2>3. Faulted => Faulted'
      BY <2>1, <2>2 DEF Faulted
    <2>4. FailureHasReason'
      BY <1>f, <2>1, <2>2, <2>3 DEF FailureHasReason, RunParts, Failing
    <2>5. PassIsTrue'
      BY <1>f, <2>1, <2>2 DEF PassIsTrue, RunParts
    <2>6. StopIsCounted'
      BY <2>1, <2>2, Statuses DEF StopIsCounted, RunParts
    <2>7. OutputIsTrue'
      BY <1>f, <2>1 DEF OutputIsTrue, RunParts
    <2> QED
      BY <2>4, <2>5, <2>6, <2>7 DEF RunParts
  <1> QED
    BY <1>1, <1>2, <1>3, <1>4, <1>5

\* The status of a run that is over is the one of the test suite.
LEMMA RunIsTrue ==
    ASSUME RunParts, \A c \in Cmd : run.job[c] = "done"
    PROVE  /\ run.status = "passed" => ~Failing(binaries)
           /\ run.status = "failed" => Failing(binaries)
           /\ ~conf.earlyStop => \A c \in Cmd : c \in run.output => binaries[c] \in sut.fails
  <1>1. ASSUME run.status = "passed" PROVE ~Failing(binaries)
    <2>1. ~run.stop
      BY <1>1, Statuses DEF RunParts, StopIsCounted
    <2> QED
      BY <1>1, <2>1 DEF RunParts, PassIsTrue, Failing
  <1>2. ASSUME run.status = "failed" PROVE Failing(binaries)
    BY <1>2, Statuses DEF RunParts, FailureHasReason, Faulted
  <1> QED
    BY <1>1, <1>2 DEF RunParts, OutputIsTrue
-----------------------------------------------------------------------------
\* A step that leaves the tables alone keeps them true.
LEMMA TablesKept ==
    ASSUME TableInv, KnownIsTrue, VerdictIsTrue, SentIsTrue, pc # "Off",
           sut' = sut, conf' = conf, original' = original, known' = known,
           saved' = saved, verdict' = verdict, sent' = sent
    PROVE  TableInv' /\ KnownIsTrue' /\ VerdictIsTrue' /\ SentIsTrue'
  BY DEF TableInv, KnownIsTrue, VerdictIsTrue, SentIsTrue, Failing

\* A step that leaves the status of the test alone keeps it true.
LEMMA StatusKept ==
    ASSUME StatusInv, pc \in {"TestBinaryAnalyze", "TestCaseAnalyze", "RestoreCode", "Cover"},
           sut' = sut, test'.mutp = test.mutp, test'.status = test.status
    PROVE  StatusInv'
  BY DEF StatusInv, Failing

\* What a run of the test commands teaches about their binaries.
LEMMA LearntIsTrue ==
    ASSUME TypeInv, TruthInv, TableIsReliable, pc = "TestBinaryAnalyze", NEW c \in Learnt
    PROVE  /\ c \in Cmd /\ test.status \in {"alive", "killed"} /\ ~TableIsEmpty
           /\ test.status = "alive" => binaries[c] \notin sut.fails
           /\ test.status = "killed" => binaries[c] \in sut.fails
  <1>h. test.hashes \subseteq Cmd
    BY DEF TypeInv, TypeOK
  <1>1. c \in Cmd /\ test.status \in {"alive", "killed"} /\ ~TableIsEmpty
    <2>1. Learnt \subseteq test.hashes
      BY DEF Learnt
    <2>2. Learnt # {} => test.status \in {"alive", "killed"}
      BY DEF Learnt
    <2>3. Learnt # {} => ~TableIsEmpty
      BY DEF Learnt
    <2> QED
      BY <1>h, <2>1, <2>2, <2>3
  <1>2. ~conf.earlyStop
    BY <1>1 DEF TruthInv, TableInv, TableIsEmpty, TableIsReliable, TypeInv, TypeOK
  <1>3. binaries = sut.built[test.mutp]
    BY <1>1 DEF TruthInv, LearnInv
  <1>4. test.status = "alive" => binaries[c] \notin sut.fails
    BY <1>1, <1>3 DEF TruthInv, StatusInv, Failing
  <1>5. test.status = "killed" => binaries[c] \in sut.fails
    BY <1>2 DEF TruthInv, LearnInv, Learnt
  <1> QED
    BY <1>1, <1>4, <1>5

\* An empty table and no verdicts are true.
LEMMA InitTruthInv == Init => TruthInv
  <1> SUFFICES ASSUME Init PROVE TruthInv
    OBVIOUS
  <1>1. KnownIsTrue /\ VerdictIsTrue /\ SentIsTrue
    BY DEF Init, KnownIsTrue, VerdictIsTrue, SentIsTrue, NoEntries
  <1>2. TableInv /\ BuildInv /\ RunInv /\ StatusInv /\ LearnInv
    BY DEF Init, TableInv, BuildInv, RunInv, StatusInv, LearnInv
  <1> QED
    BY <1>1, <1>2 DEF TruthInv

\* Every step keeps the table and the verdicts true.
LEMMA TruthStep ==
    ASSUME TableIsReliable, TypeInv, TypeInv', DiskInv, TruthInv, [Next]_vars
    PROVE  TruthInv'
  <1> USE DEF TruthInv
  <1>t. test \in [mutp : Mutant \cup {NoMutant}, hashes : SUBSET Cmd, status : Verdicts,
                  output : SUBSET Cmd, covered : SUBSET Mutant]
    BY DEF TypeInv, TypeOK
  <1>0. CASE UNCHANGED vars
    <2>1. TableInv' /\ KnownIsTrue' /\ VerdictIsTrue' /\ SentIsTrue' /\ BuildInv'
      BY <1>0 DEF vars, table, db, TableInv, KnownIsTrue, VerdictIsTrue, SentIsTrue, BuildInv, Failing
    <2>2. RunInv' /\ StatusInv' /\ LearnInv'
      BY <1>0 DEF vars, RunInv, RunParts, FailureHasReason, PassIsTrue, StopIsCounted, OutputIsTrue,
             Faulted, Failing, StatusInv, LearnInv
    <2> QED
      BY <2>1, <2>2
  <1>1. CASE StartSession
    <2>1. TableInv'
      BY <1>1 DEF StartSession, At, TableInv
    <2>2. KnownIsTrue' /\ VerdictIsTrue' /\ SentIsTrue'
      BY <1>1 DEF StartSession, db, KnownIsTrue, VerdictIsTrue, SentIsTrue, Failing, NoEntries
    <2>3. BuildInv' /\ RunInv' /\ StatusInv' /\ LearnInv'
      BY <1>1 DEF StartSession, At, BuildInv, RunInv, StatusInv, LearnInv
    <2> QED
      BY <2>1, <2>2, <2>3
  <1>2. ASSUME pc # "Off", UNCHANGED <<sut, conf, table, db, sent>>,
               pc' \in {"MutateCode", "TestMutant", "FilesysError", "NoResultRestoreCode", "NoResult"}
        PROVE TruthInv'
    <2>1. TableInv' /\ KnownIsTrue' /\ VerdictIsTrue' /\ SentIsTrue'
      BY <1>2, TablesKept DEF table, db
    <2> QED
      BY <1>2, <2>1 DEF BuildInv, RunInv, StatusInv, LearnInv
  <1>3. CASE EndSession
    <2>1. TableInv' /\ KnownIsTrue' /\ VerdictIsTrue' /\ SentIsTrue'
      BY <1>3 DEF EndSession, db, TableInv, KnownIsTrue, VerdictIsTrue, SentIsTrue, Failing, NoEntries
    <2> QED
      BY <1>3, <2>1 DEF EndSession, BuildInv, RunInv, StatusInv, LearnInv
  <1>4. CASE UserRestores
    <2>1. TableInv' /\ KnownIsTrue' /\ VerdictIsTrue' /\ SentIsTrue'
      BY <1>4 DEF UserRestores, table, db, TableInv, KnownIsTrue, VerdictIsTrue, SentIsTrue, Failing
    <2> QED
      BY <1>4, <2>1 DEF UserRestores, BuildInv, RunInv, StatusInv, LearnInv
  <1>5. ASSUME NEW m \in Mutant, NextMutant(m) PROVE TruthInv'
    BY <1>2, <1>5 DEF NextMutant, At
  <1>6. CASE Mutated \/ CannotOpen \/ ChecksumError \/ NotMutated
    BY <1>2, <1>6 DEF Mutated, CannotOpen, ChecksumError, NotMutated, InMutateCode, At
  <1>7. CASE CompileFails
    <2>1. TableInv' /\ KnownIsTrue' /\ VerdictIsTrue' /\ SentIsTrue'
      BY <1>7, TablesKept DEF CompileFails, InTestMutant, At, table, db
    <2>2. pc' = "TestBinaryAnalyze" /\ test'.status \in {"killedByCompiler", "unknown"}
      BY <1>7, <1>t DEF CompileFails, InTestMutant, At
    <2> QED
      BY <2>1, <2>2 DEF BuildInv, RunInv, StatusInv, LearnInv
  <1>8. CASE UseKnownStatus
    <2>1. TableInv' /\ KnownIsTrue' /\ VerdictIsTrue' /\ SentIsTrue'
      BY <1>8, TablesKept DEF UseKnownStatus, InTestMutant, At, table, db
    <2>2. pc = "TestMutant" /\ pc' = "MarkCalcStatus" /\ sut' = sut /\ test'.mutp = test.mutp
      BY <1>8, <1>t DEF UseKnownStatus, InTestMutant, At
    <2>3. binaries' = sut.built[test.mutp]
      BY <1>8, <2>2, BuildsMutant DEF UseKnownStatus
    <2> QED
      BY <2>1, <2>2, <2>3 DEF BuildInv, RunInv, StatusInv, LearnInv
  <1>9. CASE StartTests
    <2>1. TableInv' /\ KnownIsTrue' /\ VerdictIsTrue' /\ SentIsTrue'
      BY <1>9, TablesKept DEF StartTests, InTestMutant, At, table, db
    <2>2. pc = "TestMutant" /\ pc' = "RunTests" /\ sut' = sut /\ test'.mutp = test.mutp
      BY <1>9, <1>t DEF StartTests, InTestMutant, At
    <2> PICK b \in Builds : CalcStatus(b) = "none" /\ binaries' = b /\ run' = NewRun(SkipTests(b))
      BY <1>9 DEF StartTests
    <2>3. b = sut.built[test.mutp]
      BY <2>2, BuildsMutant
    <2>4. b \in [Cmd -> Checksum]
      BY BuildsTyped DEF TypeInv
    <2>5. \A c \in SkipTests(b) : b[c] \notin sut.fails
      BY <2>2, <2>4, CalcIsTrue
    <2>6. RunParts'
      BY <2>2, <2>4, <2>5, RunStarts
    <2> QED
      BY <2>1, <2>2, <2>3, <2>6 DEF BuildInv, RunInv, StatusInv, LearnInv
  <1>10. CASE MarkCalcStatus
    <2>1. TableInv' /\ KnownIsTrue' /\ VerdictIsTrue' /\ SentIsTrue'
      BY <1>10, TablesKept DEF MarkCalcStatus, At, table, db
    <2>2. /\ pc = "MarkCalcStatus" /\ pc' = "RestoreCode" /\ sut' = sut
          /\ test'.mutp = test.mutp /\ test'.status = CalcStatus(binaries)
      BY <1>10, <1>t DEF MarkCalcStatus, At
    <2>3. binaries \in [Cmd -> Checksum] /\ binaries = sut.built[test.mutp]
      BY <2>2 DEF TypeInv, TypeOK, BuildInv
    <2>4. /\ CalcStatus(binaries) \in {"equivalent", "alive"} => ~Failing(binaries)
          /\ CalcStatus(binaries) = "killed" => Failing(binaries)
      BY <2>2, <2>3, CalcIsTrue
    <2>5. StatusInv'
      BY <2>2, <2>3, <2>4 DEF StatusInv, Failing
    <2> QED
      BY <2>1, <2>2, <2>5 DEF BuildInv, RunInv, LearnInv
  <1>11. ASSUME NEW c \in Cmd,
                StartTest(c) \/ ProcessDone(c) \/ TestExits(c) \/ TestFaults(c) \/ TestIsStopped(c)
         PROVE TruthInv'
    <2>1. InRunTests
      BY <1>11, RunnerFrame
    <2>2. TableInv' /\ KnownIsTrue' /\ VerdictIsTrue' /\ SentIsTrue'
      BY <2>1, TablesKept DEF InRunTests, table, db
    <2>3. RunParts'
      BY <1>11, <2>1, RunStep DEF InRunTests, RunInv
    <2> QED
      BY <2>1, <2>2, <2>3 DEF InRunTests, BuildInv, RunInv, StatusInv, LearnInv
  <1>12. CASE RunnerReturns
    <2>1. TableInv' /\ KnownIsTrue' /\ VerdictIsTrue' /\ SentIsTrue'
      BY <1>12, TablesKept DEF RunnerReturns, At, table, db
    <2>2. /\ pc = "RunTests" /\ pc' = "TestBinaryAnalyze" /\ sut' = sut /\ binaries' = binaries
          /\ conf' = conf /\ test'.mutp = test.mutp /\ test'.status = StatusOf(run.status)
          /\ test'.output = run.output
      BY <1>12, <1>t DEF RunnerReturns, At
    <2>3. binaries = sut.built[test.mutp] /\ run.output \subseteq Cmd /\ run.status \in Ended
      BY <2>2 DEF BuildInv, TypeInv, TypeOK
    <2>4. /\ run.status = "passed" => ~Failing(binaries)
          /\ run.status = "failed" => Failing(binaries)
          /\ ~conf.earlyStop => \A c \in Cmd : c \in run.output => binaries[c] \in sut.fails
      BY <1>12, <2>2, RunIsTrue DEF RunnerReturns, RunInv
    <2>5. /\ StatusOf(run.status) = "alive" => run.status = "passed"
          /\ StatusOf(run.status) = "killed" => run.status = "failed"
          /\ StatusOf(run.status) # "equivalent"
      BY <2>3, Statuses DEF StatusOf, Ended
    <2>6. StatusInv'
      BY <2>2, <2>3, <2>4, <2>5 DEF StatusInv, Failing
    <2>7. LearnInv'
      BY <2>2, <2>3, <2>4 DEF LearnInv
    <2> QED
      BY <2>1, <2>2, <2>6, <2>7 DEF BuildInv, RunInv
  <1>13. CASE TestBinaryAnalyze
    <2>1. /\ pc = "TestBinaryAnalyze" /\ pc' \in {"TestCaseAnalyze", "RestoreCode"}
          /\ UNCHANGED <<sut, conf, original, saved, verdict, sent>>
          /\ known' = [cs \in Checksum |->
                         IF cs \in {binaries[c] : c \in Learnt} THEN test.status ELSE known[cs]]
          /\ test'.mutp = test.mutp /\ test'.status = test.status
      BY <1>13, <1>t DEF TestBinaryAnalyze, At, db
    <2>2. ASSUME NEW c \in Learnt
          PROVE  /\ ~TableIsEmpty /\ test.status \in {"alive", "killed"}
                 /\ test.status = "alive" => binaries[c] \notin sut.fails
                 /\ test.status = "killed" => binaries[c] \in sut.fails
      BY <2>1, LearntIsTrue
    <2>3. KnownIsTrue'
      BY <2>1, <2>2 DEF KnownIsTrue
    <2>4. TableInv'
      <3>1. CASE conf.checksum
        BY <2>1, <3>1 DEF TableInv
      <3>2. CASE ~conf.checksum
        <4>1. TableIsEmpty
          BY <3>2 DEF TableInv, TableIsEmpty
        <4>2. known' = NoEntries
          BY <2>1, <2>2, <4>1 DEF TableIsEmpty, NoEntries
        <4> QED
          BY <2>1, <3>2, <4>1, <4>2 DEF TableInv, TableIsEmpty
      <3> QED
        BY <3>1, <3>2
    <2>5. VerdictIsTrue' /\ SentIsTrue'
      BY <2>1 DEF VerdictIsTrue, SentIsTrue, Failing
    <2>6. StatusInv'
      BY <2>1, StatusKept
    <2> QED
      BY <2>1, <2>3, <2>4, <2>5, <2>6 DEF BuildInv, RunInv, LearnInv
  <1>14. CASE TestCaseAnalyze \/ RestoreCode \/ Cover
    <2>1. /\ pc \in {"TestCaseAnalyze", "RestoreCode", "Cover"}
          /\ pc' \in {"RestoreCode", "NoResultRestoreCode", "Cover", "FilesysError", "Done"}
          /\ UNCHANGED <<sut, conf, original, known, saved, verdict, sent>>
          /\ test'.mutp = test.mutp /\ test'.status = test.status
      BY <1>14, <1>t DEF TestCaseAnalyze, RestoreCode, Cover, At, table, db
    <2>2. TableInv' /\ KnownIsTrue' /\ VerdictIsTrue' /\ SentIsTrue'
      BY <2>1, TablesKept
    <2>3. StatusInv'
      BY <2>1, StatusKept
    <2> QED
      BY <2>1, <2>2, <2>3 DEF BuildInv, RunInv, LearnInv
  <1>15. CASE NoResultRestoreCode
    BY <1>2, <1>15 DEF NoResultRestoreCode, At
  <1>16. CASE HandleTestResult
    <2>1. /\ pc \in {"Done", "NoResult"} /\ pc' = "SaveTestBinaryDb"
          /\ UNCHANGED <<sut, conf, original, known, saved, verdict>>
          /\ sent' = IF pc = "NoResult" THEN {}
                     ELSE {[id |-> test.mutp, st |-> test.status]}
                          \cup [id : test.covered \ {test.mutp}, st : {"skipped"}]
      BY <1>16 DEF HandleTestResult, table, db
    <2>2. TableInv' /\ KnownIsTrue' /\ VerdictIsTrue'
      BY <2>1 DEF TableInv, KnownIsTrue, VerdictIsTrue, Failing
    <2>3. pc = "Done" =>
            /\ test.status \in {"alive", "equivalent"} => ~Failing(sut.built[test.mutp])
            /\ test.status = "killed" => Failing(sut.built[test.mutp])
      BY DEF StatusInv
    <2>4. SentIsTrue'
      BY <2>1, <2>3 DEF SentIsTrue, Failing
    <2> QED
      BY <2>1, <2>2, <2>4 DEF BuildInv, RunInv, StatusInv, LearnInv
  <1>17. CASE SaveTestBinaryDb
    <2>1. /\ pc = "SaveTestBinaryDb" /\ pc' = "NextMutant"
          /\ UNCHANGED <<sut, conf, original, known, verdict, sent>>
          /\ saved' = [cs \in Checksum |-> IF cs \in added THEN known[cs] ELSE saved[cs]]
      BY <1>17 DEF SaveTestBinaryDb, At
    <2>2. TableInv' /\ KnownIsTrue'
      BY <2>1 DEF TableInv, KnownIsTrue
    <2>3. VerdictIsTrue' /\ SentIsTrue'
      BY <2>1 DEF VerdictIsTrue, SentIsTrue, Failing
    <2> QED
      BY <2>1, <2>2, <2>3 DEF BuildInv, RunInv, StatusInv, LearnInv
  <1>18. CASE SaveResult
    <2>1. UNCHANGED <<sut, conf, pc, binaries, table, test, run, saved>>
      BY <1>18 DEF SaveResult
    <2>2. TableInv' /\ KnownIsTrue'
      BY <2>1 DEF table, TableInv, KnownIsTrue
    <2>3. verdict \in [Mutant -> Verdicts \cup {"skipped"}]
      BY DEF TypeInv, TypeOK
    <2>4. VerdictIsTrue' /\ SentIsTrue'
      BY <1>18, <2>1, <2>3 DEF SaveResult, VerdictIsTrue, SentIsTrue, Failing
    <2>5. BuildInv' /\ StatusInv' /\ LearnInv'
      BY <2>1 DEF BuildInv, StatusInv, LearnInv, Failing
    <2>6. RunInv'
      BY <2>1 DEF RunInv, RunParts, FailureHasReason, PassIsTrue, StopIsCounted, OutputIsTrue,
             Faulted, Failing
    <2> QED
      BY <2>2, <2>4, <2>5, <2>6
  <1> QED
    BY NextCases, <1>0, <1>1, <1>3, <1>4, <1>5, <1>6, <1>7, <1>8, <1>9, <1>10, <1>11, <1>12,
       <1>13, <1>14, <1>15, <1>16, <1>17, <1>18

\* If the table of checksums is not filled by tests that are stopped early, every
\* verdict is the one that executing every test command would give, whatever the
\* table, the order of the commands and the faults that come between.
THEOREM VerdictsAreTrue == RestoreSucceeds /\ TableIsReliable => (Spec => []VerdictIsTrue)
  <1> SUFFICES ASSUME RestoreSucceeds, TableIsReliable PROVE Spec => []VerdictIsTrue
    OBVIOUS
  <1>1. TypeInv /\ DiskInv /\ TruthInv /\ [Next]_vars => TypeInv' /\ DiskInv' /\ TruthInv'
    <2> SUFFICES ASSUME TypeInv, DiskInv, TruthInv, [Next]_vars PROVE TypeInv' /\ DiskInv' /\ TruthInv'
      OBVIOUS
    <2>1. TypeInv' /\ DiskInv'
      BY TypeStep, DiskStep
    <2> QED
      BY <2>1, TruthStep
  <1>2. TruthInv => VerdictIsTrue
    BY DEF TruthInv
  <1> QED
    BY InitTypeInv, InitDiskInv, InitTruthInv, <1>1, <1>2, PTL DEF Spec

\* Under the same conditions the table of checksums tells the truth about every test
\* binary, in memory and in the database.
THEOREM TableIsTrue == RestoreSucceeds /\ TableIsReliable => (Spec => []KnownIsTrue)
  <1> SUFFICES ASSUME RestoreSucceeds, TableIsReliable PROVE Spec => []KnownIsTrue
    OBVIOUS
  <1>1. TypeInv /\ DiskInv /\ TruthInv /\ [Next]_vars => TypeInv' /\ DiskInv' /\ TruthInv'
    <2> SUFFICES ASSUME TypeInv, DiskInv, TruthInv, [Next]_vars PROVE TypeInv' /\ DiskInv' /\ TruthInv'
      OBVIOUS
    <2>1. TypeInv' /\ DiskInv'
      BY TypeStep, DiskStep
    <2> QED
      BY <2>1, TruthStep
  <1>2. TruthInv => KnownIsTrue
    BY DEF TruthInv
  <1> QED
    BY InitTypeInv, InitDiskInv, InitTruthInv, <1>1, <1>2, PTL DEF Spec
-----------------------------------------------------------------------------
\* Within a test only the files change, as far as the test driver can see.
LEMMA TestTouches ==
    ASSUME TypeInv, pc \in InTest, pc' \in InTest, test'.mutp = test.mutp, verdict' = verdict,
           sent' = sent
    PROVE  Abstract!Touch
  <1>1. phase = test.mutp /\ phase' = phase
    BY DEF phase, InTest
  <1>2. phase \in Mutant
    BY <1>1 DEF TypeInv, Picked
  <1> QED
    BY <1>1, <1>2 DEF Abstract!Touch

\* Every step of the machine is one of MutantTest, or changes nothing of it.
LEMMA TestSteps ==
    ASSUME TypeInv, DiskInv, CoverInv, [Next]_vars
    PROVE  [Abstract!Next]_(Abstract!vars)
  <1>t. test \in [mutp : Mutant \cup {NoMutant}, hashes : SUBSET Cmd, status : Verdicts,
                  output : SUBSET Cmd, covered : SUBSET Mutant]
    BY DEF TypeInv, TypeOK
  <1>p. pc \in InTest => phase = test.mutp /\ test.mutp \in Mutant /\ phase # "stopped"
    BY SourceMutantAssumption DEF phase, InTest, TypeInv, Picked
  <1>0. CASE UNCHANGED vars
    BY <1>0 DEF vars, db, phase, Abstract!vars
  <1>1. CASE StartSession
    <2>1. Abstract!Start
      BY <1>1 DEF StartSession, At, db, phase, Abstract!Start
    <2> QED
      BY <2>1 DEF Abstract!Next
  <1>2. ASSUME NEW m \in Mutant, NextMutant(m) PROVE Abstract!Next
    <2>1. Abstract!Test
      BY <1>2 DEF NextMutant, At, NewTest, db, phase, Abstract!Test
    <2> QED
      BY <2>1 DEF Abstract!Next
  <1>3. CASE EndSession
    <2>1. phase # "stopped" /\ phase' = "stopped"
      BY <1>3, <1>p DEF EndSession, phase, TypeInv, TypeOK, InTest
    <2>2. Abstract!Stop
      BY <1>3, <2>1 DEF EndSession, db, Abstract!Stop
    <2> QED
      BY <2>2 DEF Abstract!Next
  <1>4. CASE UserRestores
    <2>1. Abstract!Repair
      BY <1>4 DEF UserRestores, db, phase, Abstract!Repair
    <2> QED
      BY <2>1 DEF Abstract!Next
  <1>5. ASSUME pc \in InTest, pc' \in InTest, test'.mutp = test.mutp, verdict' = verdict,
               sent' = sent
        PROVE  Abstract!Next
    BY <1>5, TestTouches DEF Abstract!Next
  <1>6. CASE Mutated \/ CannotOpen \/ ChecksumError \/ NotMutated
    BY <1>5, <1>6 DEF Mutated, CannotOpen, ChecksumError, NotMutated, InMutateCode, At, db, InTest
  <1>7. CASE CompileFails \/ UseKnownStatus \/ StartTests
    <2>1. pc \in InTest /\ pc' \in InTest /\ verdict' = verdict /\ sent' = sent
      BY <1>7 DEF CompileFails, UseKnownStatus, StartTests, InTestMutant, At, db, InTest
    <2>2. test'.mutp = test.mutp
      BY <1>7, <1>t DEF CompileFails, UseKnownStatus, StartTests
    <2> QED
      BY <1>5, <2>1, <2>2
  <1>8. CASE MarkCalcStatus \/ RunnerReturns \/ TestBinaryAnalyze \/ Cover
    <2>1. pc \in InTest /\ pc' \in InTest /\ verdict' = verdict /\ sent' = sent
      BY <1>8 DEF MarkCalcStatus, RunnerReturns, TestBinaryAnalyze, Cover, At, db, InTest
    <2>2. test'.mutp = test.mutp
      BY <1>8, <1>t DEF MarkCalcStatus, RunnerReturns, TestBinaryAnalyze, Cover
    <2> QED
      BY <1>5, <2>1, <2>2
  <1>9. ASSUME NEW c \in Cmd,
               StartTest(c) \/ ProcessDone(c) \/ TestExits(c) \/ TestFaults(c) \/ TestIsStopped(c)
        PROVE  Abstract!Next
    BY <1>5, <1>9, RunnerFrame DEF InRunTests, db, InTest
  <1>10. CASE TestCaseAnalyze \/ RestoreCode \/ NoResultRestoreCode
    BY <1>5, <1>10 DEF TestCaseAnalyze, RestoreCode, NoResultRestoreCode, At, db, InTest
  <1>11. CASE HandleTestResult
    <2>1. /\ pc \in {"Done", "NoResult"} /\ phase' = "ready" /\ disk' = disk /\ verdict' = verdict
          /\ sent' = IF pc = "NoResult" THEN {}
                     ELSE {[id |-> test.mutp, st |-> test.status]}
                          \cup [id : test.covered \ {test.mutp}, st : {"skipped"}]
      BY <1>11 DEF HandleTestResult, db, phase
    <2>2. disk = Original /\ phase = test.mutp /\ phase \in Mutant
      BY <2>1, <1>p DEF DiskInv, InTest
    <2>3. CASE pc = "NoResult"
      <3>1. sent = {}
        BY <2>3 DEF CoverInv, SentBetweenTests
      <3>2. Abstract!NoResult
        BY <2>1, <2>2, <2>3, <3>1 DEF Abstract!NoResult
      <3> QED
        BY <3>2 DEF Abstract!Next
    <2>4. CASE pc = "Done"
      <3>1. test.covered \in SUBSET {m \in Mutant : verdict[m] = "unknown"} /\ test.status \in Verdicts
        BY <1>t, <2>4 DEF CoverInv, CoveredUntested
      <3>2. Abstract!Result
        BY <2>1, <2>2, <2>4, <3>1 DEF Abstract!Result
      <3> QED
        BY <3>2 DEF Abstract!Next
    <2> QED
      BY <2>1, <2>3, <2>4
  <1>12. CASE SaveTestBinaryDb
    BY <1>12 DEF SaveTestBinaryDb, At, phase, Abstract!vars
  <1>13. CASE SaveResult
    <2>1. phase' = phase /\ disk' = disk
      BY <1>13 DEF SaveResult, phase
    <2>2. \A r \in sent : r.st = "skipped" => verdict[r.id] = "unknown"
      <3> SUFFICES ASSUME NEW r \in sent, r.st = "skipped" PROVE verdict[r.id] = "unknown"
        OBVIOUS
      <3> PICK n \in Mutant, st \in Verdicts : r = [id |-> n, st |-> st] \/ verdict[r.id] = "unknown"
        BY DEF CoverInv, SentTogether
      <3> QED
        BY DEF Verdicts
    <2>3. Abstract!Save
      BY <1>13, <2>1, <2>2 DEF SaveResult, Abstract!Save
    <2> QED
      BY <2>3 DEF Abstract!Next
  <1> QED
    BY NextCases, <1>0, <1>1, <1>2, <1>3, <1>4, <1>6, <1>7, <1>8, <1>9, <1>10, <1>11, <1>12, <1>13

\* The machine is what the test driver takes it for: whatever fails during a test, it
\* has a result for its mutant and for mutants that have no verdict, over original
\* files, or none at all, and each result is saved at most once.
THEOREM ImplementsMutantTest == RestoreSucceeds => (Spec => TestsOneMutant)
  <1> SUFFICES ASSUME RestoreSucceeds PROVE Spec => TestsOneMutant
    OBVIOUS
  <1>1. Init => Abstract!Init
    BY DEF Init, phase, Abstract!Init
  <1>2. /\ TypeInv /\ DiskInv /\ CoverInv /\ [Next]_vars => TypeInv' /\ DiskInv' /\ CoverInv'
        /\ TypeInv /\ DiskInv /\ CoverInv /\ [Next]_vars => [Abstract!Next]_(Abstract!vars)
    BY TypeStep, DiskStep, CoverStep, TestSteps
  <1> QED
    BY InitTypeInv, InitDiskInv, InitCoverInv, <1>1, <1>2, PTL DEF Spec, TestsOneMutant, Abstract!Spec
=============================================================================
