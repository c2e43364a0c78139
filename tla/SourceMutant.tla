---------------------------- MODULE SourceMutant ----------------------------
(***************************************************************************)
(* Testing one mutant by modifying the source code: MutationTestDriver     *)
(* (source_mutant.d), the runner that executes the test commands in a pool *)
(* (test_cmd_runner.d) and the table of the checksums of test binaries     *)
(* (TestBinaryDb), over any number of sessions that may be killed.         *)
(*                                                                         *)
(* pc is the state of the driver whose handler (opCall) runs next; "Off"   *)
(* is between two sessions and "NextMutant" between two mutants.           *)
(***************************************************************************)
EXTENDS FiniteSets, Naturals

CONSTANTS
    File, Mutant, Cmd, Checksum,
    FileOf,        \* the file a mutant is in
    CoveredBy,     \* the mutants at the same place that a survivor covers
    Config,        \* what sessions are started with
    Sut,           \* projects: what the build makes of each mutant
    Fault,         \* what may go wrong around a test command
    RestoreFault,  \* the states in which the original cannot be written
    PoolSize       \* threads of the runner

NoMutant == "none"

Verdicts == {"alive", "killed", "equivalent", "timeout", "memOverload",
             "killedByCompiler", "unknown"}

ConfigType == [checksum : BOOLEAN, earlyStop : BOOLEAN, analyzer : BOOLEAN,
               skipMutant : BOOLEAN]

\* The checksum of each test binary, and which of them fail when executed.
SutType == [original : [Cmd -> Checksum], built : [Mutant -> [Cmd -> Checksum]],
            fails : SUBSET Checksum]

\* MeasureTestSuite sees that the original passes.
ASSUME SourceMutantAssumption ==
    /\ Mutant \cap {"original", "stopped"} = {}
    /\ FileOf \in [Mutant -> File]
    /\ CoveredBy \in [Mutant -> SUBSET Mutant]
    /\ Config \subseteq ConfigType
    /\ Sut \subseteq SutType
    /\ \A s \in Sut, c \in Cmd : s.original[c] \notin s.fails
    /\ Fault \subseteq {"timeout", "memOverload", "error"}
    /\ RestoreFault \subseteq {"RestoreCode", "NoResultRestoreCode"}
    /\ PoolSize \in Nat \ {0}

VARIABLES
    sut,       \* the project, the same for good
    conf,      \* of the session
    pc,
    disk,      \* the content of each file
    binaries,  \* the checksums of the test binaries on disk
    original,  \* TestBinaryDb.original
    known,     \* TestBinaryDb.mutated, "none" where there is no entry
    added,     \* TestBinaryDb.added: the entries of known that are not saved
    test,      \* Global and testBinaryHashes of the MutationTestDriver
    run,       \* the run of the test commands
    saved,     \* the table of checksums in the database
    verdict,   \* mutation_status in the database
    sent       \* the results that the actor has not yet saved

table == <<original, known, added>>
db == <<saved, verdict>>
vars == <<sut, conf, pc, disk, binaries, table, test, run, db, sent>>

Original == [f \in File |-> "original"]

Ended == {"passed", "failed"} \cup Fault

NewTest(m) == [mutp |-> m, hashes |-> {}, status |-> "unknown", output |-> {}, covered |-> {}]

\* startTests of the commands that are not skipped.
NewRun(skip) == [job |-> [c \in Cmd |-> IF c \in skip THEN "done" ELSE "waiting"],
                 stop |-> FALSE, status |-> "passed", output |-> {}]

NoEntries == [cs \in Checksum |-> "none"]

TypeOK ==
    /\ sut \in Sut /\ conf \in Config
    /\ pc \in {"Off", "NextMutant", "MutateCode", "TestMutant", "RunTests", "TestBinaryAnalyze",
               "TestCaseAnalyze", "MarkCalcStatus", "RestoreCode", "NoResultRestoreCode",
               "Cover", "FilesysError", "Done", "NoResult", "SaveTestBinaryDb"}
    /\ disk \in [File -> {"original", "truncated"} \cup Mutant]
    /\ binaries \in [Cmd -> Checksum]
    /\ original \subseteq Checksum /\ added \subseteq Checksum
    /\ {known, saved} \subseteq [Checksum -> {"none", "alive", "killed"}]
    /\ test \in [mutp : Mutant \cup {NoMutant}, hashes : SUBSET Cmd, status : Verdicts,
                 output : SUBSET Cmd, covered : SUBSET Mutant]
    /\ run \in [job : [Cmd -> {"waiting", "running", "done"} \cup Ended], stop : BOOLEAN,
                status : Ended, output : SUBSET Cmd]
    /\ verdict \in [Mutant -> Verdicts \cup {"skipped"}]
    /\ sent \subseteq [id : Mutant, st : Verdicts \cup {"skipped"}]

Init ==
    /\ sut \in Sut /\ conf \in Config
    /\ pc = "Off"
    /\ disk = Original
    /\ binaries = sut.original
    /\ original = {} /\ known = NoEntries /\ added = {}
    /\ test = NewTest(NoMutant) /\ run = NewRun(Cmd)
    /\ saved = NoEntries
    /\ verdict = [m \in Mutant |-> "unknown"]
    /\ sent = {}

At(from, to) == pc = from /\ pc' = to

-----------------------------------------------------------------------------
\* A session.  SanityCheck compares every file with its checksum, and leaves it
\* in the cache of makeInput, where MutateCode and RestoreCode find it;
\* PreCompileSut builds, ChecksumTestCmds reads the tables.

StartSession ==
    /\ At("Off", "NextMutant")
    /\ disk = Original
    /\ conf' \in Config
    /\ binaries' = sut.original
    /\ original' = IF conf'.checksum THEN {sut.original[c] : c \in Cmd} ELSE {}
    /\ known' = IF conf'.checksum THEN saved ELSE NoEntries
    /\ UNCHANGED <<sut, disk, added, test, run, db, sent>>

\* Any mutant: the worklist holds those that analysis, the old mutants and the
\* user put there, and nextMutation looks at nothing else.  Bound: the actor has
\* saved the results of the last one.
NextMutant(m) ==
    /\ At("NextMutant", "MutateCode")
    /\ sent = {}
    /\ test' = NewTest(m)
    /\ UNCHANGED <<sut, conf, disk, binaries, table, run, db, sent>>

\* The process ends, in the middle of anything: a stop condition (between
\* two mutants), FilesysError, or it is killed.
EndSession ==
    /\ pc # "Off" /\ pc' = "Off"
    /\ original' = {} /\ known' = NoEntries /\ added' = {}
    /\ test' = NewTest(NoMutant) /\ run' = NewRun(Cmd) /\ sent' = {}
    /\ UNCHANGED <<sut, conf, disk, binaries, db>>

UserRestores ==
    /\ pc = "Off" /\ disk # Original
    /\ disk' = Original
    /\ UNCHANGED <<sut, conf, pc, binaries, table, test, run, db, sent>>

-----------------------------------------------------------------------------
\* MutateCode.  SafeOutput writes what it was given when it is destroyed, also
\* when it was given nothing: only a file that was never opened is untouched.

Write(content) == disk' = [disk EXCEPT ![FileOf[test.mutp]] = content]

\* The write fails, before or after the file was truncated.
WriteFails == disk' = disk \/ Write("truncated")

InMutateCode(to) ==
    /\ At("MutateCode", to)
    /\ UNCHANGED <<sut, conf, binaries, table, test, run, db, sent>>

Mutated == InMutateCode("TestMutant") /\ Write(test.mutp)

\* The file is outside of the output directory.
CannotOpen == InMutateCode("FilesysError") /\ UNCHANGED disk

\* generateMutant: the checksum of the file is not the one in the database.
ChecksumError == InMutateCode("FilesysError") /\ (Write("truncated") \/ WriteFails)

\* generateMutant: noMutation, databaseError; or the mutant cannot be written.
NotMutated == InMutateCode("NoResultRestoreCode") /\ (Write("truncated") \/ WriteFails)

-----------------------------------------------------------------------------
\* TestMutant: build, and find out what has to be executed.

\* What the build makes of the files on disk.
Builds ==
    LET here == {m \in Mutant : disk = [Original EXCEPT ![FileOf[m]] = m]}
    IN  IF here = {} THEN [Cmd -> Checksum] ELSE {sut.built[m] : m \in here}

TableIsEmpty == original = {} /\ known = NoEntries

IsOriginal(b, c) == b[c] \in original

AllOriginal(b) == original # {} /\ \A c \in Cmd : IsOriginal(b, c)
AnyKill(b) == \E c \in Cmd : known[b[c]] = "killed"
AllAlive(b) == known # NoEntries /\ \A c \in Cmd : known[b[c]] = "alive"

SkipTests(b) ==
    IF TableIsEmpty THEN {} ELSE {c \in Cmd : IsOriginal(b, c) \/ known[b[c]] # "none"}

\* Mutant of CalcStatus: what is known of one binary decides before a kill does.
CalcStatusAnyAlive(b) ==
    IF TableIsEmpty THEN "none"
    ELSE IF AllOriginal(b) THEN "equivalent"
    ELSE IF Cardinality(SkipTests(b)) = Cardinality(original) THEN "alive"
    ELSE IF AnyKill(b) THEN "killed"
    ELSE "none"

\* The status that is found without executing anything, or "none".
CalcStatus(b) ==
    IF TableIsEmpty THEN "none"
    ELSE IF AllOriginal(b) THEN "equivalent"
    ELSE IF AnyKill(b) THEN "killed"
    ELSE IF AllAlive(b) \/ Cardinality(SkipTests(b)) = Cardinality(original) THEN "alive"
    ELSE "none"

InTestMutant(to) ==
    /\ At("TestMutant", to)
    /\ UNCHANGED <<sut, conf, disk, table, db, sent>>

\* The compiler rejects the mutant, or cannot be executed.
CompileFails ==
    /\ InTestMutant("TestBinaryAnalyze")
    /\ \E st \in {"killedByCompiler", "unknown"} : test' = [test EXCEPT !.status = st]
    /\ UNCHANGED <<binaries, run>>

Affected(b) == IF TableIsEmpty THEN {} ELSE {c \in Cmd : ~IsOriginal(b, c)}

UseKnownStatus ==
    /\ InTestMutant("MarkCalcStatus")
    /\ \E b \in Builds :
          /\ CalcStatus(b) # "none"
          /\ binaries' = b
          /\ test' = [test EXCEPT !.hashes = Affected(b)]
    /\ UNCHANGED run

StartTests ==
    /\ InTestMutant("RunTests")
    /\ \E b \in Builds :
          /\ CalcStatus(b) = "none"
          /\ binaries' = b
          /\ test' = [test EXCEPT !.hashes = Affected(b)]
          /\ run' = NewRun(SkipTests(b))

MarkCalcStatus ==
    /\ At("MarkCalcStatus", "RestoreCode")
    /\ test' = [test EXCEPT !.status = CalcStatus(binaries)]
    /\ UNCHANGED <<sut, conf, disk, binaries, table, run, db, sent>>

-----------------------------------------------------------------------------
\* The runner: spawnRunTest in a thread of the pool for each command, and the
\* loop of run that takes what is done.

InRunTests ==
    /\ pc = "RunTests"
    /\ UNCHANGED <<sut, conf, pc, disk, binaries, table, test, db, sent>>

StopIsActive == conf.earlyStop /\ run.stop

Becomes(c, st) == run' = [run EXCEPT !.job[c] = st]

\* Mutant of StartTest: a command is left waiting when another one has failed.
StartTestUnlessStopped(c) ==
    /\ InRunTests
    /\ run.job[c] = "waiting" /\ ~StopIsActive
    /\ Cardinality({d \in Cmd : run.job[d] = "running"}) < PoolSize
    /\ Becomes(c, "running")

\* A command that does not start after an early stop has exit status zero.
StartTest(c) ==
    /\ InRunTests
    /\ run.job[c] = "waiting"
    /\ Cardinality({d \in Cmd : run.job[d] = "running"}) < PoolSize
    /\ Becomes(c, IF StopIsActive THEN "passed" ELSE "running")

\* Whoever ends with an exit status other than zero stops the others.
EndTest(c, st) ==
    /\ InRunTests
    /\ run.job[c] = "running"
    /\ run' = [run EXCEPT !.job[c] = st,
                          !.stop = run.stop \/ st \in {"failed", "timeout", "memOverload"}]

TestExits(c) == EndTest(c, IF binaries[c] \in sut.fails THEN "failed" ELSE "passed")

TestFaults(c) == \E st \in Fault : EndTest(c, st)

\* Killed because of an early stop: RunResult.Status.normal, and an exit status
\* other than zero.
TestIsStopped(c) == StopIsActive /\ EndTest(c, "failed")

MergedStatus(old, new) ==
    CASE new = "passed" -> old
      [] new = "failed" -> IF old = "passed" THEN "failed" ELSE old
      [] OTHER          -> new

ProcessDone(c) ==
    /\ InRunTests
    /\ run.job[c] \in Ended
    /\ run' = [run EXCEPT !.job[c] = "done",
                          !.status = MergedStatus(run.status, run.job[c]),
                          !.output = IF run.job[c] = "failed" THEN run.output \cup {c}
                                                              ELSE run.output]

\* Mutant of StatusOf: an error has no status of its own.
StatusOfWithoutError(st) == IF st = "passed" THEN "alive" ELSE IF st = "failed" THEN "killed" ELSE st

\* runTester
StatusOf(st) ==
    CASE st = "passed" -> "alive"
      [] st = "failed" -> "killed"
      [] st = "error"  -> "unknown"
      [] OTHER         -> st

RunnerReturns ==
    /\ At("RunTests", "TestBinaryAnalyze")
    /\ \A c \in Cmd : run.job[c] = "done"
    /\ test' = [test EXCEPT !.status = StatusOf(run.status), !.output = run.output]
    /\ run' = NewRun(Cmd)
    /\ UNCHANGED <<sut, conf, disk, binaries, table, db, sent>>

-----------------------------------------------------------------------------
\* What is learnt of the binaries, and of the output.

\* Mutant of Learnt: a kill is put down to every affected binary.
LearntAll ==
    IF ~TableIsEmpty /\ test.status \in {"alive", "killed"} THEN test.hashes ELSE {}

\* The affected binaries whose status is now known.
Learnt ==
    IF TableIsEmpty THEN {}
    ELSE CASE test.status = "alive"  -> test.hashes
           [] test.status = "killed" -> test.output \cap test.hashes
           [] OTHER                  -> {}

TestBinaryAnalyze ==
    /\ At("TestBinaryAnalyze",
          IF test.status = "killed" /\ conf.analyzer /\ test.output # {}
          THEN "TestCaseAnalyze" ELSE "RestoreCode")
    /\ LET learnt == {binaries[c] : c \in Learnt}
       IN  /\ known' = [cs \in Checksum |-> IF cs \in learnt THEN test.status ELSE known[cs]]
           /\ added' = added \cup learnt
    /\ test' = [test EXCEPT !.hashes = {}]
    /\ UNCHANGED <<sut, conf, disk, binaries, original, run, db, sent>>

\* The analyser finds unstable test cases in the output, or it does not.
TestCaseAnalyze ==
    /\ pc = "TestCaseAnalyze"
    /\ pc' \in {"RestoreCode", "NoResultRestoreCode"}
    /\ UNCHANGED <<sut, conf, disk, binaries, table, test, run, db, sent>>

-----------------------------------------------------------------------------
\* Restoring the file, and the result.

Restored == Write("original")

\* Mutant of RestoreCode: a failure is not fatal.
RestoreCodeAnyhow ==
    /\ At("RestoreCode", "Cover")
    /\ Restored \/ ("RestoreCode" \in RestoreFault /\ WriteFails)
    /\ UNCHANGED <<sut, conf, binaries, table, test, run, db, sent>>

RestoreCode ==
    /\ pc = "RestoreCode"
    /\ \/ Restored /\ pc' = "Cover"
       \/ "RestoreCode" \in RestoreFault /\ WriteFails /\ pc' = "FilesysError"
    /\ UNCHANGED <<sut, conf, binaries, table, test, run, db, sent>>

\* The error of the RestoreCode it calls is dropped.
NoResultRestoreCode ==
    /\ At("NoResultRestoreCode", "NoResult")
    /\ Restored \/ ("NoResultRestoreCode" \in RestoreFault /\ WriteFails)
    /\ UNCHANGED <<sut, conf, binaries, table, test, run, db, sent>>

\* Mutant of Cover: also those that have a verdict.
CoverEveryMutant ==
    /\ At("Cover", "Done")
    /\ test' = [test EXCEPT !.covered =
                  IF conf.skipMutant /\ test.status = "alive"
                  THEN CoveredBy[test.mutp] \ {test.mutp} ELSE {}]
    /\ UNCHANGED <<sut, conf, disk, binaries, table, run, db, sent>>

\* StoreResult and Cover.
Cover ==
    /\ At("Cover", "Done")
    /\ test' = [test EXCEPT !.covered =
                  IF conf.skipMutant /\ test.status = "alive"
                  THEN {m \in CoveredBy[test.mutp] \ {test.mutp} : verdict[m] = "unknown"}
                  ELSE {}]
    /\ UNCHANGED <<sut, conf, disk, binaries, table, run, db, sent>>

\* HandleTestResult of the test driver sends the results to the actor; there are
\* none after NoResult.
HandleTestResult ==
    /\ pc \in {"Done", "NoResult"} /\ pc' = "SaveTestBinaryDb"
    /\ sent' = IF pc = "NoResult" THEN {}
               ELSE {[id |-> test.mutp, st |-> test.status]}
                    \cup [id : test.covered \ {test.mutp}, st : {"skipped"}]
    /\ UNCHANGED <<sut, conf, disk, binaries, table, test, run, db>>

\* And saves what was learnt of the test binaries in a transaction of its own.
SaveTestBinaryDb ==
    /\ At("SaveTestBinaryDb", "NextMutant")
    /\ saved' = [cs \in Checksum |-> IF cs \in added THEN known[cs] ELSE saved[cs]]
    /\ added' = {}
    /\ test' = NewTest(NoMutant)
    /\ UNCHANGED <<sut, conf, disk, binaries, original, known, run, verdict, sent>>

\* Mutant of SaveResult: the results are saved in any order.
SaveAnyResult ==
    \E r \in sent :
        /\ sent' = sent \ {r}
        /\ verdict' = [verdict EXCEPT ![r.id] = r.st]
        /\ UNCHANGED <<sut, conf, pc, disk, binaries, table, test, run, saved>>

\* The actor saves the results one by one, the mutant's own before those that it covers.
SaveResult ==
    \E r \in sent :
        /\ r.st = "skipped" => \A q \in sent : q.st = "skipped"
        /\ sent' = sent \ {r}
        /\ verdict' = [verdict EXCEPT ![r.id] = r.st]
        /\ UNCHANGED <<sut, conf, pc, disk, binaries, table, test, run, saved>>

-----------------------------------------------------------------------------
MutateCode == Mutated \/ CannotOpen \/ ChecksumError \/ NotMutated

TestMutant == CompileFails \/ UseKnownStatus \/ StartTests

RunTest(c) == StartTest(c) \/ TestExits(c) \/ TestFaults(c) \/ TestIsStopped(c) \/ ProcessDone(c)

DriverStep ==
    \/ MutateCode \/ TestMutant \/ MarkCalcStatus \/ RunnerReturns \/ TestBinaryAnalyze
    \/ TestCaseAnalyze \/ RestoreCode \/ NoResultRestoreCode \/ Cover
    \/ HandleTestResult \/ SaveTestBinaryDb

Next ==
    \/ StartSession \/ (\E m \in Mutant : NextMutant(m)) \/ DriverStep
    \/ (\E c \in Cmd : RunTest(c)) \/ SaveResult \/ EndSession \/ UserRestores

Spec == Init /\ [][Next]_vars

\* The driver is a loop on a thread of its own.  A test command ends, since it has a
\* timeout, and what has ended is taken by the loop of the runner.
FairSpec ==
    /\ Spec
    /\ WF_vars(DriverStep)
    /\ \A c \in Cmd : WF_vars(RunTest(c))
    /\ WF_vars(pc = "FilesysError" /\ EndSession)

-----------------------------------------------------------------------------
\* While a mutant is built and tested, and nothing but this mutant, is in the source
\* code; and between two mutants the source code is the original: a failing restore
\* is fatal (source_mutant.d:520-527), whatever the way out of the test.
OneMutantAtATime ==
    /\ pc \in {"TestMutant", "RunTests", "TestBinaryAnalyze"} =>
          disk = [Original EXCEPT ![FileOf[test.mutp]] = test.mutp]
    /\ pc \in {"SaveTestBinaryDb", "NextMutant"} => disk = Original

Failing(b) == \E c \in Cmd : b[c] \in sut.fails

\* The verdict in the database is the one that executing every test command would
\* give, however many of them were skipped, stopped early or taken from the table,
\* over all mutants and sessions that filled the table (TestMutant).
VerdictIsTrue ==
    \A m \in Mutant :
        /\ verdict[m] \in {"alive", "equivalent"} => ~Failing(sut.built[m])
        /\ verdict[m] = "killed" => Failing(sut.built[m])

\* What the table says of a test binary, in memory and in the database, is what
\* executing it says (TestBinaryAnalyze).
KnownIsTrue ==
    \A cs \in Checksum :
        /\ "killed" \in {known[cs], saved[cs]} => cs \in sut.fails
        /\ "alive" \in {known[cs], saved[cs]} => cs \notin sut.fails

\* When the database is told that a mutant is skipped, a mutant at the same place is
\* alive in it and the skipped one had no verdict to lose, whatever came between the
\* search of Cover and the actor, and wherever an earlier session was killed.
SkippedForSurvivor ==
    [][\A m \in Mutant : verdict[m] # "skipped" /\ verdict'[m] = "skipped" =>
           /\ verdict[m] = "unknown"
           /\ \E n \in Mutant : m \in CoveredBy[n] /\ verdict[n] = "alive"]_vars

\* A test whose result is ignored, since its test cases are unstable, leaves no
\* verdict in the table either (TestBinaryAnalyze comes before TestCaseAnalyze).
IgnoredIsNotLearnt == pc = "NoResult" => added = {}

\* A test of a mutant ends, with or without a result, however the commands that run
\* in the pool stop each other.
TestEnds == (pc = "MutateCode") ~> (pc \in {"NextMutant", "Off"})

\* The machine is what the test driver takes it for: one result for the mutant it
\* was given, covered mutants that have no verdict, and the original files when it
\* returns.
phase ==
    CASE pc = "Off" -> "stopped"
      [] pc \in {"SaveTestBinaryDb", "NextMutant"} -> "ready"
      [] OTHER -> test.mutp

Abstract == INSTANCE MutantTest WITH Status <- Verdicts, dirty <- disk # Original

TestsOneMutant == Abstract!Spec
=============================================================================
