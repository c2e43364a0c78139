------------------------------ MODULE Coverage ------------------------------
(***************************************************************************)
(* Gathering of coverage information (test_mutant/coverage.d), the state   *)
(* Coverage of the test driver that starts it, PropagateCoverage that uses *)
(* the result, and the runtime that is injected in the source files        *)
(* (data/coverage_mmap.c).                                                 *)
(*                                                                         *)
(* The driver instruments the files in the order of their names, builds,   *)
(* runs the test suite with an empty coverage map, copies the map to the   *)
(* database and restores the files.  The instrumented test processes map   *)
(* the same file: they write different bytes, or the same 1 to the same    *)
(* byte, so which process writes plays no part, and the model says which   *)
(* regions are executed by any process after its dextool_init_covmap.      *)
(***************************************************************************)
EXTENDS Naturals, Sequences

CONSTANTS
    Layout,        \* the files in name order: the sequence of each file's regions
    Faults,        \* what may throw or fail: "instrument", "compile", "restore"
    TestOutcome,   \* how the instrumented test suite may end
    Kills          \* whether the dextool process may be killed

RegionsOf(f) == {Layout[f][i] : i \in DOMAIN Layout[f]}
Region == UNION {RegionsOf(f) : f \in DOMAIN Layout}

\* The regions are the rows of a table: one file each, once.
ASSUME LayoutAssumption ==
    /\ Layout \in Seq(Seq(Region))
    /\ \A f, g \in DOMAIN Layout : \A i \in DOMAIN Layout[f], j \in DOMAIN Layout[g] :
          Layout[f][i] = Layout[g][j] => f = g /\ i = j

ASSUME FaultAssumption ==
    /\ Faults \subseteq {"instrument", "compile", "restore"}
    /\ TestOutcome \subseteq {"passed", "failed"} /\ Kills \in BOOLEAN

VARIABLES
    st,            \* the state of the driver; "off": no gathering is on
    file,          \* the file that Instrument comes to next
    instrumented,  \* the files that hold instrumentation on disk
    localId,       \* the id of a region is its place in here, from 0
    error,         \* error_: the caller shall stop
    bytes,         \* the coverage map that the test processes write to
    covMap,        \* what Run leaves for SaveToDb; kept until the next session
    info,          \* table src_cov_info, and "none" for a region without a row
    upToDate,      \* the time stamp of the table is newer than files and tests
    marked,        \* the regions whose mutants have the status noCoverage
    ran            \* history: the regions executed in this session

driver == <<st, file, localId, error, covMap>>
db     == <<info, upToDate, marked>>
vars   == <<st, file, instrumented, localId, error, bytes, covMap, info, upToDate, marked, ran>>
-----------------------------------------------------------------------------
State == {"off", "Instrument", "Compile", "Run", "Running", "SaveToDb", "Restore", "Done",
          "PropagateCoverage"}

Init ==
    /\ st = "off" /\ file = 1 /\ localId = <<>> /\ error = FALSE /\ covMap = <<>>
    /\ instrumented = {} /\ bytes = [b \in {0} |-> 0] /\ ran = {}
    /\ info = [r \in Region |-> "none"] /\ upToDate = FALSE /\ marked = {}

Goto(s) == st' = s
-----------------------------------------------------------------------------
(* Mutations: plausible mistakes in the code, which the properties notice.  *)

\* No byte for the constructor.
MapWithoutFlag(size) == [b \in 1 .. size |-> 0]

\* A failed build has nothing to restore.
CompileWithoutRestore ==
    /\ st = "Compile"
    /\ \/ Goto("Run")
       \/ "compile" \in Faults /\ Goto("Done")
    /\ UNCHANGED <<file, localId, error, covMap, instrumented, bytes, db, ran>>

\* The ids are used as offsets in the map.
InstrCodeFromZero(id) == id

\* An exception while instrumenting is only logged.
InstrumentFailsQuietly ==
    /\ st = "Instrument" /\ file \in DOMAIN Layout /\ "instrument" \in Faults
    /\ \/ UNCHANGED <<localId, instrumented>>
       \/ /\ localId' = localId \o Layout[file]
          /\ instrumented' \in {instrumented, instrumented \cup {file}}
    /\ Goto("Compile")
    /\ UNCHANGED <<file, error, covMap, bytes, db, ran>>

\* A failed restoration is tried again.
RestoreAgain ==
    /\ st = "Restore"
    /\ \/ instrumented' = {} /\ UNCHANGED error /\ Goto("Done")
       \/ /\ "restore" \in Faults
          /\ instrumented' \in SUBSET instrumented /\ error' = TRUE /\ Goto("Compile")
    /\ UNCHANGED <<file, localId, covMap, bytes, db, ran>>
-----------------------------------------------------------------------------
\* Coverage of the test driver, reached after SanityCheck has found every file
\* to be the one that was analysed.  Initialize, InitializeRoots and
\* SaveOriginal read the database into regions, roots and restore.
StartGathering ==
    /\ st = "off" /\ ~upToDate /\ instrumented = {}
    /\ Goto("Instrument") /\ file' = 1 /\ localId' = <<>> /\ error' = FALSE
    /\ covMap' = <<>> /\ ran' = {}
    /\ UNCHANGED <<instrumented, bytes, db>>

\* One turn of the loop in Instrument.
InstrumentFile ==
    /\ st = "Instrument" /\ file \in DOMAIN Layout
    /\ localId' = localId \o Layout[file]
    /\ instrumented' = instrumented \cup {file}
    /\ file' = file + 1
    /\ UNCHANGED <<st, error, covMap, bytes, db, ran>>

\* Reading or writing the file throws, or the copy for the log does: before
\* the regions have ids, before the file is written, or after it.
InstrumentFails ==
    /\ st = "Instrument" /\ file \in DOMAIN Layout /\ "instrument" \in Faults
    /\ \/ UNCHANGED <<localId, instrumented>>
       \/ /\ localId' = localId \o Layout[file]
          /\ instrumented' \in {instrumented, instrumented \cup {file}}
    /\ error' = TRUE
    /\ Goto("Compile")
    /\ UNCHANGED <<file, covMap, bytes, db, ran>>

Instrumented ==
    /\ st = "Instrument" /\ file \notin DOMAIN Layout
    /\ Goto("Compile")
    /\ UNCHANGED <<file, localId, error, covMap, instrumented, bytes, db, ran>>

Compile ==
    /\ st = "Compile"
    /\ \/ Goto("Run")
       \/ "compile" \in Faults /\ Goto("Restore")
    /\ UNCHANGED <<file, localId, error, covMap, instrumented, bytes, db, ran>>

\* createCovMap: a new file under a random name.  The margin of 1 KByte is for
\* ids that do not exist.
EmptyMap(size) == [b \in 0 .. size |-> 0]

RunTests ==
    /\ st = "Run"
    /\ bytes' = EmptyMap(Len(localId))
    /\ Goto("Running")
    /\ UNCHANGED <<file, localId, error, covMap, instrumented, db, ran>>

\* dextool_init_covmap of a test process.
InitCovMap ==
    /\ st = "Running" /\ bytes[0] = 0
    /\ bytes' = [bytes EXCEPT ![0] = 1]
    /\ UNCHANGED <<driver, instrumented, db, ran>>

\* makeInstrCode: what the code injected for a local id hands to dextool_cov.
InstrCode(id) == id + 1

\* A test process with a map executes a region: dextool_cov, when the file of
\* the region is one of the instrumented.
Execute(r) ==
    /\ st = "Running" /\ bytes[0] = 1
    /\ ran' = ran \cup {r}
    /\ bytes' = [b \in DOMAIN bytes |->
                    IF \E f \in instrumented, i \in DOMAIN localId :
                          r \in RegionsOf(f) /\ localId[i] = r /\ b = InstrCode(i - 1)
                    THEN 1 ELSE bytes[b]]
    /\ UNCHANGED <<driver, instrumented, db>>

\* readCovMap: nothing unless a process has mapped the file; then one entry for
\* every local id.
ReadCovMap ==
    IF bytes[0] = 0 THEN <<>> ELSE [i \in 1 .. Len(localId) |-> bytes[i] = 1]

\* The test runner returns.  The map is removed: what a process that is still
\* running executes is lost.
EndRun ==
    /\ st = "Running"
    /\ \/ "passed" \in TestOutcome /\ covMap' = ReadCovMap /\ Goto("SaveToDb")
       \/ "failed" \in TestOutcome /\ UNCHANGED covMap /\ Goto("Restore")
    /\ UNCHANGED <<file, localId, error, instrumented, bytes, db, ran>>

InfoOf(covered) == IF covered THEN "covered" ELSE "notCovered"

\* One transaction.
SaveToDb ==
    /\ st = "SaveToDb"
    /\ info' = [r \in Region |->
                  IF \E i \in DOMAIN covMap : localId[i] = r
                  THEN InfoOf(\E i \in DOMAIN covMap : localId[i] = r /\ covMap[i])
                  ELSE info[r]]
    /\ upToDate' = TRUE
    /\ Goto("Restore")
    /\ UNCHANGED <<file, localId, error, covMap, instrumented, bytes, marked, ran>>

\* restoreFiles writes every file from the copy in memory, until a write throws.
Restore ==
    /\ st = "Restore"
    /\ \/ instrumented' = {} /\ UNCHANGED error
       \/ /\ "restore" \in Faults
          /\ instrumented' \in SUBSET instrumented /\ error' = TRUE
    /\ Goto("Done")
    /\ UNCHANGED <<file, localId, covMap, bytes, db, ran>>

\* isRunning is false; the test driver goes on with PropagateCoverage, or stops.
Done ==
    /\ st = "Done"
    /\ Goto(IF error THEN "off" ELSE "PropagateCoverage")
    /\ UNCHANGED <<file, localId, error, covMap, instrumented, bytes, db, ran>>

\* The mutants that had no coverage are unknown again, then those in regions
\* that are not covered are marked.  One transaction.
PropagateCoverage ==
    /\ st = "PropagateCoverage"
    /\ marked' = {r \in Region : info[r] = "notCovered"}
    /\ Goto("off")
    /\ UNCHANGED <<file, localId, error, covMap, instrumented, bytes, info, upToDate, ran>>

\* The process dies; the files stay as they are.
Kill ==
    /\ Kills /\ st # "off"
    /\ Goto("off")
    /\ UNCHANGED <<file, localId, error, covMap, instrumented, bytes, db, ran>>

\* The user restores the files from version control.
CheckOut ==
    /\ st = "off" /\ instrumented # {}
    /\ instrumented' = {}
    /\ UNCHANGED <<driver, bytes, db, ran>>

\* dextool analyze stores tests or files that are newer than the information.
Analyze ==
    /\ st = "off" /\ upToDate
    /\ upToDate' = FALSE
    /\ UNCHANGED <<driver, instrumented, bytes, info, marked, ran>>

DriverStep ==
    \/ InstrumentFile \/ InstrumentFails \/ Instrumented \/ Compile \/ RunTests \/ EndRun
    \/ SaveToDb \/ Restore \/ Done \/ PropagateCoverage

Next ==
    \/ StartGathering \/ DriverStep
    \/ InitCovMap \/ \E r \in Region : Execute(r)
    \/ Kill \/ CheckOut \/ Analyze

Spec == Init /\ [][Next]_vars

\* The loop around execute goes on (package.d:1592), and the test suite ends;
\* nothing else is promised.
FairSpec == Spec /\ WF_vars(DriverStep)
-----------------------------------------------------------------------------
Bytes == {0, 1}

\* Type invariant.  The byte of dextool_init_covmap and one byte for every id.
TypeOK ==
    /\ st \in State /\ file \in Nat \ {0} /\ error \in BOOLEAN
    /\ instrumented \subseteq DOMAIN Layout
    /\ localId \in Seq(Region) /\ covMap \in Seq(BOOLEAN)
    /\ st = "Running" => bytes \in [0 .. Len(localId) -> Bytes]
    /\ info \in [Region -> {"none", "covered", "notCovered"}] /\ upToDate \in BOOLEAN
    /\ marked \subseteq Region /\ ran \subseteq Region

\* The test driver goes on to test mutants only with the source as it was:
\* whichever step failed, an instrumented file is either restored or the
\* failure is fatal (coverage.d:368-377, package.d:570-573).
SourcesAreRestored ==
    st = "PropagateCoverage" => instrumented = {}

\* A gathering without errors stores, for every region, whether the tests
\* executed it: the byte that a region writes is the one that is read back for
\* it, across files, ids and the byte of the constructor (coverage.d:257-260,
\* 402, 456-463).
Measured == [r \in Region |-> InfoOf(r \in ran)]
InfoIsMeasured ==
    [][st = "SaveToDb" /\ st' = "Restore" /\ ~error /\ covMap # <<>> => info' = Measured]_vars

\* After a gathering that measured something, no mutant is declared alive for
\* lack of coverage in a region that the tests executed, also when a part of
\* the files could not be instrumented (package.d:1607-1626).
MarksAreMeasured ==
    [][PropagateCoverage /\ covMap # <<>> => marked' \cap ran = {}]_vars

\* The same of every gathering, those included that end without a result.
NoCoverageIsTrue ==
    [][PropagateCoverage => marked' \cap ran = {}]_vars

\* A gathering comes to an end whatever fails: every error goes forward to
\* Restore and Done, none back (coverage.d:133-150).
GatheringEnds == (st # "off") ~> (st = "off")
=============================================================================
