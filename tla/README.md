# A TLA+ model of dextool's mutation testing

`dextool` is a set of C/C++ tools in D.  Its largest and only stateful part is
the plugin `mutate`: it generates mutants of a program, tests each of them with
the user's test suite and keeps the results in an SQLite database.  A test run
lasts days, is killed and restarted, and several `dextool mutate test` may share
one database; what must not happen on the way is what this project is about.
Beside the plugin it covers the C and C++ code of the repository that carries
logic of its own: the runtime that measures coverage inside the tested program,
the extensions of libclang that the analysis reads the AST through, and the game
that the plugin's tutorial mutates.

Paths below are relative to `src/plugin/mutate/source/dextool/plugin/mutate/`
unless they start with `src/`; `T/` is `backend/test_mutant/`, `G/` is
`src/plugin/mutate/examples/game_tutorial/src/` and `C/` is
`src/libs/dextool_clang_extensions/cpp_source/`.

## Contents

1. Inventory of the system
2. Plan
3. The modules and the code
4. The runs: questions, bounds, fairness
5. What the runs show
6. What is proved
7. What is only model-checked, and what is not modelled

## 1. Inventory

| Component | State it keeps | Operations | Talks to |
|---|---|---|---|
| **Mutation database** `backend/database/` | `mutation_status` (the verdict of each mutant), `worklist` (what to test), the timeout worklist (mutant, iteration), the memory overload worklist, the row `MutantTimeoutCtx`, `marked_mutant`; coverage, schemata, test cases | SQL statements; `spinSql` repeats one until the database is not locked | everybody; shared by processes |
| **Timeout algorithm** `T/timeout.d` | the context (`iter`, `worklistCount`, `state`), its copy in a running machine, `output` | `TimeoutFsm.execute` (one transaction), `updateMutantStatus`, `resetTimeoutContext` | database; called by the driver and the actor |
| **Test driver** `T/package.d` `TestDriver` | the state of the machine and the data of its states (`NextMutant`, `NextSchemata`, `PullRequest`, ...), the source code on disk | one `opCall` per state, `execute_` chooses the next | database, timeout algorithm, actor, schema tester, `MutationTestDriver` |
| **Result actor** `T/package.d` `spawnDbActor` | its mailbox, a connection, a 30 s copy of the worklist | `save2`, `save`, `save3`, `save4`, `IsDone`, `GetMutantsLeft` | database; fed by driver and schema tester |
| **Testing one mutant** `T/source_mutant.d`, `TestBinaryDb` of `T/common.d` | the original file content, the verdict, the table of checksums of test binaries (in memory for a session, saved with every result) | mutate, build, look up the checksums, test, analyse, restore, cover | file system, test runner, database |
| **Test command runner** `T/test_cmd_runner.d` | the commands that wait, run and have ended, the early stop signal, the merged result | `run`: start each command in a pool, take what has ended | test commands, each with a timeout and a memory limit |
| **Stop conditions** `T/common.d` `TestStopCheck` | start time, counters, load | `isHalt`, `isOverloaded`, `startBgShutdown` (a thread that calls `exit(0)`) | driver, schema tester |
| **Schema tester** `T/schemata/` | worklist copy, ids to inject, workers, load, the schema under test, size queue | actors `SchemaActor`, `GenSchemaActor`, `SchemaTestActor`, `TestMutantActor`, `LoadCtrlActor`, `SchemaSizeQUpdateActor` | result actor, database, file system |
| **Coverage** `T/coverage.d`, `src/plugin/mutate/data/coverage_mmap.c` | the regions and their ids, the instrumented files on disk, the map that the test processes write to, the tables of regions, their status and the time stamp | instrument, compile, run, save, restore; `dextool_init_covmap` and `dextool_cov` in each test process; propagate | file system, database, the tested program; called by the driver |
| **Administration** `backend/admin.d` | none | `resetMutant`, `markMutant`, `removeMarkedMutant`, `stopTimeoutTest`, `clearWorklist`, ... | database, beside running sessions |
| **Analysis** `backend/analyze/` | files to analyse, the pipeline's counters | actors that analyse files in parallel and one that stores the results | database |
| **Actor library** `src/vendor/mylib/source/my/actor/` | mailboxes, pending requests and their timeouts, links, monitors, the thread pool | send, delayed send, request, reply, exit | used by all actors |
| **State machine library, miniorm** `src/vendor/mylib/source/my/fsm.d`, `src/vendor/miniorm/` | the current state; the open transaction | `next`, `act`; `transaction`, `commit`, `spinSql` | used by the machines |
| **Extensions of libclang** `C/` | none | cursors of statements and of their parts, operators and their length, value kinds, cyclomatic complexity, constexpr, macros | clang's AST; called by the analysis through D |
| **The game** `G/` | the containers of entities, mobs, sprites and physics, two buffers of events, the input, the camera | one update: input, camera, player, mobs, ages, events, removal | its parts talk by events that are handled one phase later |
| Test case analysers, reports, mutant generation, command line, other plugins, vendored code | none that outlives a call | sequential; I/O, parsing, text | |

`PROJECT.json` lists each of them under `components` with what is modelled.

### How a session works

`TestDriver` prepares the database (`Initialize` queues every unknown mutant),
compares the checksums of the source code (`SanityCheck`), builds, prepares the
worklist for the mode it runs in, times the test suite (`MeasureTestSuite`) and
enters the main loop: run the `TimeoutFsm` (`UpdateTimeout`), take care of the
load, periodically check the test suite, test a schema (many mutants in one
binary) or one mutant, and stop when told to.  A verdict is not written by the
driver: it sends it to the result actor, which sends itself a second message and
writes the verdict when that one comes round, taking the mutant from the
worklist in the same transaction.

When the worklist is empty and no mutant is unknown, the `TimeoutFsm` opens the
next *round*: every mutant of the timeout worklist is queued again, to be tested
with a longer timeout.  The rounds end when one changes nothing or after
`MaxTimeoutIterations`.

### Hard behaviours, and what makes each component correct

* **Timeout algorithm.**  A state machine persisted in a row, executed by every
  session, over tables that each of them, the administrator and analysis change.
  Correct: a round tests every mutant it should, purges nothing unseen, is never
  skipped because a statement was lost, ends, and leaves no timeout unconfirmed.
* **Driver and actor.**  Results are in flight while the driver decides on a
  worklist that does not know of them.  Correct: a crash loses no mutant; a
  mutant without a result is queued; a session that says it is finished is;
  nothing is tested on mutated source code or before the suite was timed; a
  session ends.
* **Several sessions.**  They interleave at every statement.  Correct: what is
  unknown stays queued, what is to be confirmed stays listed.
* **Administration and analysis.**  They break the assumptions of an algorithm
  that is half way through.  Correct: the next session still finishes complete.
* **Coverage.**  Ids connect three programs: the driver hands them out file by
  file, the instrumented processes write the byte of an id, the driver reads the
  bytes back; any step may fail, and the information outlives the session.
  Correct: what is stored is what was executed, no mutant is declared alive in
  code that the tests execute, the files are restored whatever happened.
* **The game.**  Handlers hold references into containers that grow and shrink,
  and act on events that were queued before other events.  Correct: removal is
  deferred and happens once, the index of a container matches its elements,
  nothing that is gone is used, no two mobs step on one cell, the player stays in
  sight, every mob that dies leaves.
* **Extensions of libclang.**  They build cursors by hand from pointers that may be
  null.  Correct: whoever finds `hasValue` finds the rest; no cursor without its
  translation unit.
* **Testing one mutant.**  Not every test command is executed: one whose binary is
  the original, or was seen before, is skipped, others are killed because one has
  failed, and what is learnt on the way outlives the session.  Correct: the verdict
  is the one that executing everything would give; one mutant is in the source code
  at a time, and none when the next one starts.
* **Schema tester.**  Workers, load control, a stop condition and the restore of
  the source code race.  Correct: restore comes after the last worker, each
  mutant is injected once, every schema gets a final status.  (Not modelled.)
* **Actor library.**  Correct: FIFO per mailbox, a request is answered or times
  out, once; an actor that died tells its monitors.  (The mailbox only.)

`hazards` in `PROJECT.json` lists these at the lines where they bite, with the
properties that cover them or the reason why none does.

## 2. Plan

| Order | Module | Composes | State |
|---|---|---|---|
| 1 | `TimeoutFsm` | - | done |
| 2 | `DbActor` | extends `TimeoutFsm` | done |
| 3 | `AdminOps` | extends `TimeoutFsm` | done |
| 4 | `TestDriver` | extends `DbActor`, `AdminOps` | done |
| 5 | `TestDriverProofs`, `RoundProofs` | one on top of the other | done |
| 6 | `Coverage`, `CoverageProofs` | - | done |
| 7 | `BufferedContainer`, `View`, `Sprite` | the first two are pure operators | done |
| 8 | `MobLife` (abstract), `Game` (extends `BufferedContainer` and `View`, refines `MobLife`) | `INSTANCE` | done |
| 9 | `StoreProofs`, `GameProofs` | one on top of the other, about `Game` | done |
| | `RenderProofs` | about `View` and `Sprite` | done |
| 10 | `ClangCursor`, `ClangCursorProofs` | pure operators | done |
| 11 | `MutantTest` (abstract), `SourceMutant` (refines it), `SourceMutantProofs` | `INSTANCE`; `MutantTest` is what the `Tested*` actions of `TestDriver` rely on | done |
| 12 | `SchemaTest`: the actors of `T/schemata/`; `ActorSystem`: requests, timeouts, monitors of `my.actor` | feed `DbActor` | open |

What a later version should add first: 12; two sessions with
`onOldMutants` (one session resets the rounds of the other), operations of the
administrator during a session, and liveness of two sessions.

## 3. The modules and the code

`PROJECT.json` maps every definition to its lines.

* **`TimeoutFsm`** holds the tables (`status`, `worklist`, `timeoutWl`,
  `memOverload`), the context `ctx`, the machine `fsm[i]` of each instance, and
  `UpdateMutantStatus`.  `Enter<S>` is the body (`opCall`) of the state `S`,
  `Step<S>` the transition out of it.  `execute` runs in one transaction:
  `ExecuteBegin` opens it, `EnterStop` commits, and while `fsm[i] # "Idle"` no
  other step touches the tables (`InTransaction`).  That the states are separate
  steps lets properties speak about the inside of `execute`.  `execute` swallows
  exceptions of a state and goes on: `Executed(n)` is the number of statements
  that ran (`SqlMayFail`).
* **`DbActor`** is the mailbox.  `save2` (`Save2`) sends the result on to the end
  of the mailbox, `save` (`Save`) writes it, `IsDone` answers.  `savedIter` is a
  history variable: which iteration the saved verdict was measured in.
* **`AdminOps`** holds what `admin.d` and a new analysis do to these tables.
* **`TestDriver`** is the driver: `pc[i]` names the state whose handler runs next
  and each action is the handler together with the transition that `execute_`
  takes out of it.  `conf[i]` is the configuration a session was started with,
  `local[i]` the data of the states, `dirty[i]` whether the files on disk hold a
  mutant, or what is left of one.  With the timeout of the user `MeasureTestSuite`
  returns without executing the test suite (`T/package.d:1343-1346`), so `measured` stays
  false; `unrestored` is a history variable: the restore after a test without a
  result has failed, and its error was dropped (`T/source_mutant.d:238-241`).  States that change nothing modelled are folded into the state before
  (`ParseStdin`, `FindTestCmds`, `UpdateTestCmds`, `ChooseMode`,
  `IncreaseFilePrio`, `Cleanup`, ...; `ChooseMode` and `Cleanup` are operators
  that give the state they lead to, and pass `NextSchemata` by when no schemata
  are used).  `PullRequest` and `RetestOldMutant` are
  split where the code is not in one transaction.
* **`MCTestDriver`** has the configurations for TLC.
* **`Coverage`** is the machine of `coverage.d` from `Instrument` on (the three
  states before it read the database and keep nothing), with the states
  `Coverage` and `PropagateCoverage` of the driver around it.  `localId` is the
  sequence of regions that have an id, one file per `InstrumentFile`;
  `InstrumentFails` is each point where the `try` of the code is left.  `bytes` is
  the mapped file: `InitCovMap` and `Execute` are the runtime in a test process.
  Processes share the map and only ever write 1, so they are told apart by
  nothing; what the model keeps is the order of constructor, execution and end of
  the run.  `info` and `upToDate` are the tables, `marked` the mutants (one per
  region) with status `noCoverage`, `ran` the history of what was executed.
* **`BufferedContainer`** is `container` and `buffered_container` of `G/util.h` as
  operators on a record: `Erase` is `remove`'s exchange with the last element,
  `Enter` and `Synced` are `sync`, `Get` falls back to the element that stands for
  none, as `operator[]` does.  The loops of `sync` are the recursive functions
  `Entered` and `Erased`, as is each loop of `Game` (`WithExpired`, the stains, drops
  and extras of a mob, `setup`).  **`View`** is camera, window and world in
  integers; `C`'s truncating division and remainder are modelled as such.
* **`Game`** is `Game::update` in phases named by `pc`; an event is handled by the
  action `Handle<Kind>`, which is what `update` does with the event together with
  `MobSystem::handleEvent`.  `queue` and `batch` are the two buffers of
  `events_`.  The random numbers are choices.  **`MobLife`** is what the
  game promises of a mob, its safe part (`Safe`) and that who dies leaves, and `Game`
  is shown to implement it under the mapping `life` at its end (`MobsLiveAndDie`).  A kill that is seen sets `freezeTimer` to 1,
  and the next tick decrements it before it asks whether it is 0
  (`G/game.cpp:68-70`): the world never stands still.  The model keeps that order
  (`Thawed`).
* **`SourceMutant`** is the machine of `source_mutant.d` (`pc` is the state whose
  handler runs next, one action per way out of it), the runner and `TestBinaryDb`,
  between the two points where `TestDriver` hands over a mutant and takes a result.
  A file is its original content, a mutant, or `truncated`: `SafeOutput` writes what
  it was given when it is destroyed, also when that is nothing.  `sut` is the
  project, chosen once: the checksum of each test binary, of the original and with
  each mutant built in, and the binaries that fail when executed.  A build gives what
  is on disk: the binaries of the mutant if exactly that one is there, anything if not
  (`Builds`).  `run` is one run of the test commands: `StartTest` is a thread of the pool
  that gets to a command, `TestExits`, `TestFaults` (a timeout, the memory limit, an
  error) and `TestIsStopped` (killed because another command failed) are its ends and
  `ProcessDone` is the loop of the runner.  `original` and `known` are the table in
  memory, `saved` the one in the database.  `StartSession` stands for the states of
  `TestDriver` that check the files, build and read the tables; `EndSession` is the end
  of the process anywhere.  `HandleTestResult` sends the results, of the mutant and of
  those it covers; the actor saves each in a transaction of its own (`SaveResult`), and
  the driver saves what was learnt of the binaries in another one
  (`SaveTestBinaryDb`), so that a process may die between any two of them.
  **`MutantTest`** is what the rest of the system takes all this for: `Test` hands over
  a mutant, `Touch` changes files, `Result` and `NoResult` return with the original
  files, `Save` stores a result.
* **`Sprite`** is the animation of one sprite: frames, frame rate, flashing.
* **`ClangCursor`** is `C/`: `MakeCXCursor` with the switch over the classes of
  statements (by sets of classes; the hundred or so directives of OpenMP and
  OpenACC, each of which has the kind of its own name, are one class for each
  age of LLVM), the tables of operators and their lengths, and each exported
  function as an operator.  An AST node is a record of what is asked of it.
  `Unset` is memory that was not initialised: `dex_getCaseStmt` returns it as
  `hasValue` for what is no case.  `TranslateSourceLocation` ignores the null
  location, since the code computes one and drops it
  (`C/libclang_interop.cpp:870-872`).

Sets stand for orders: `nextMutation` picks at random among the mutants of the
highest priorities, so `NextMutant` picks any queued mutant (the mutants of a
pull request first: a pull request sets the number of parallel instances to one,
and then only the top priority is drawn from).  `RollBackLatest`, `ResetMutant`,
`AddOldMutants`, `PropagateCoverage` and `Analyze` choose any set of mutants; this
includes what an interrupted loop of single statements leaves behind.

Steps that are several statements of the code: the two statements of `Initialize`
are one action (a crash between them cannot be told apart, the next `Initialize`
repeats both); `SaveMutationScore` reads in three statements and is one action.
`NextMutant` chooses in one statement.  Everything the actor does for a result is
one transaction in the code as well.

Assumptions that are constants: `PromptSave` says that a result is saved within
the 30 s that `NextMutant` waits for it and the five minutes that `Done` waits for
`IsDone`; a `ForcedExit` inside `TimeoutFsm.execute` is left out because the
transaction is rolled back, which equals an exit before it.

## 4. The runs

| Run | Question | Instance |
|---|---|---|
| `session` | is a session, killed and restarted anywhere, consistent | 1 instance, 6 modes, all outcomes, 2 sessions |
| `operations` | does the next session finish complete after an operation of the user or a new analysis | 1 instance, 3 modes, 6 operations |
| `two_sessions` | do two sessions on one database lose anything | 2 instances interleaved |
| `liveness` | does every session end, is every mutant tested | 1 instance, 6 modes and all pull requests |
| `gathering` | is gathered coverage true, are the files restored, does a gathering end | 3 files with 1, 0 and 2 regions; every fault, both outcomes, kills |
| `game` | do containers, events, mobs and camera stay consistent | 3 rooms of 2 x 2 with a rabbit, a snake or an orc; a shaft of 21 cells under a window of 17 lines |
| `verdicts` | is every verdict the one that executing all tests would give, is one mutant built at a time, does a test end | 4 projects of 3 mutants in 2 files and 2 test commands; early stop with an analyser, or the table of checksums; every mutant tested again and again; timeouts, errors, failing restores, kills |
| `pull_request`, `stale_result`, `halt`, `coverage`, `early_stop` | disagreements of code and documentation | one finding each |

The first four and the findings but the last use `MCTestDriver`; `gathering` uses
`MCCoverage`, `game` uses `MCGame`, `verdicts` and `early_stop` use `MCSourceMutant`.

**Bounds.**  Two mutants: the statements treat rows independently of each other,
except for three things that two rows show: one mutant in flight while the other
is chosen, the size of the timeout worklist against the size of the round before
(same, smaller, exchanged), and the worklist empty or not.  `MaxTimeoutIterations`
is the constant of the code, 2.  `MaxUnsaved` bounds the results in a mailbox: 2
lets one result overtake another message; with prompt saves and no schema there
is never more than one per session, which is why `two_sessions` uses 1.
`MaxSessions` = 2: the second session meets everything a killed one may leave
behind, and a third meets the same.  `MaxAdminOps` = 1: an operation between two
sessions.  The proofs have none of these bounds.

`gathering` has no counter and hence no bound but the project: a file without a
region (a root), one with one region and one with two are the cases that the ids
tell apart; a gathering may be followed by any number of others.

`game` makes the code's numbers small where they only say how many: one stain
and one drop of blood per death (`Stains`, `Drops`), lives of one or two ticks
(`TileLife`, `ParticleLife`, `BonesLife`), no shaking beyond the timer
(`ShakeReach` 0), an edge that mobs avoid by one cell (`EdgeMargin`).  `MaxSize` 3
is what one death adds then, as 1024 is far more than any death of the code adds;
`MaxMobs` 1 beside the player: the player and a mob fight, die, block
each other and are removed in every order of events of a tick.  The shaft is
higher than its window by more than a margin of the camera, so that the camera
has to follow both ways; it has no mob, as the camera looks at the player only.
The window, 36 x 17, is the smallest one for which `PlayerOnScreen` is proved; it says
nothing of worlds in which somebody fights, since `StartShake` moves the view by which
`HandleWalked` steers the camera.

`verdicts` has no counter: sessions and tests go on for ever.  Two commands are
one that fails while the other runs, waits or is skipped; `PoolSize` 2 lets them
overlap, and a command waits before it starts also then.  Of the three mutants two share
a file and cover each other, two share a changed test binary, so that what one of them
teaches decides about the other; in the projects one of the two changed binaries fails
or both do, and the remaining mutant changes the second binary or, in one of them, none.
Four checksums are the original and one change of each binary.  `NextMutant` picks any
mutant, whatever its verdict is, as `nextMutation` does: the worklist may hold old
mutants, alive, skipped and not covered ones.  It waits until the actor has saved the
last results (`sent = {}`), which is the assumption `PromptSave` of the other runs.

`CHECK_DEADLOCK FALSE` is in the configurations of `MCTestDriver` because
`MaxSessions` ends the behaviours: after the last session nothing happens.

**Symmetry** of mutants and instances is used by the runs that check safety;
none of the operators chooses a particular mutant.

**Fairness.**  `WF_vars(DriverStep(i))`: the driver is a loop on a thread of its
own.  `SF_vars(ActorStep(i))`: the actor's transaction is blocked whenever some
session is inside `TimeoutFsm.execute`, so it is enabled again and again and not
for ever; `spinSql` retries it with random delays for up to a year, and SQLite's
lock is free between two transactions.  Nothing else is fair: no session has to be
started, nobody has to kill it, and a schema need not find a result.
In `Coverage` the fairness is `WF_vars(DriverStep)`, the loop around `execute`
(`T/package.d:1590-1594`); a step of it is the end of the test suite, which the
code bounds by 999 hours.  In `Game` it is that the loop of `G/main.cpp` goes on:
`WF_vars(Next)`, no choice of the mobs or the player is fair.
In `SourceMutant` it is `WF_vars(DriverStep)` as for the driver; `WF_vars(RunTest(c))` for
each command, since a command has a timeout, a thread of the pool takes the next one
and the loop of `run` takes what has ended; and the end of a session after
`FilesysError`, which the driver reports as fatal.
`liveness` has no `noResult`: a mutant that can never be injected keeps a session
without a time limit going, which is what the code does (see `hazards`).

## 5. What the runs show

Hold:

* `TypeOK`; in particular `iter` never passes `MaxTimeoutIterations`, although the
  code compares with `==`.
* `PurgedAreCurrent`, `RaisedRoundIsComplete`: at the two points where the timeout
  algorithm trusts its worklist, every row in it belongs to this round, and is
  queued.  They hold for sessions one after the other, killed anywhere; they do
  not hold over `onOldMutants` or a new analysis, which restart the algorithm and
  keep the rows.
* `TimeoutsAreConfirmed`, `ScoreIsFinal`: no timeout of the shortest timeout is
  left, or counted in a score, unconfirmed.
* `UnknownIsQueued` (with two sessions), `UnsavedIsQueued` (between two operations of
  the user): what has no result is queued, what may be lost in a crash is queued.
* `ResultsAreCurrent`: the copy of the `TimeoutFsm` sent with a result is never
  stale in one session.
* `MeasuredBeforeTesting`: the timeout that a mutant is tested with was measured in this
  session, by a test suite that passed, or is the user's.  In the second case nobody has
  executed the test suite.
* `DirtIsOwn`: the only way to inject a mutant on top of another one is the restore after
  a test without a result; whatever an earlier session, an exit or an error left in the
  files is found by `SanityCheck`.
* `FinishedIsComplete`; with two sessions `FinishedNothingLeft`,
  `UnconfirmedIsListed` and `RowsNotAhead`.
* `Terminates`, `EveryMutantIsTested`.
* `SourcesAreRestored`, `InfoIsMeasured`, `MarksAreMeasured`, `GatheringEnds`: a
  gathering never leaves the driver on instrumented files, stores what was
  executed and ends.
* `RemovalIsSafe`, `IndexMatches`, `CapacityHolds`, `NoOrphans`, `NullUntouched`:
  the containers of the game, over everything that the handlers do to them.
* `EventsAreFresh`, `NoNewCollision`, `PlayerOnScreen`, `MoveIsServed`, and the
  refinement `MobsLiveAndDie`.
* `VerdictIsTrue`, `KnownIsTrue`: skipping, stopping early and looking up never change
  a verdict, as long as early stop and the table of checksums are not used together.
* `OneMutantAtATime`, `TestEnds`, and the refinement `TestsOneMutant`.
* `SkippedForSurvivor`: when the database is told that a mutant is skipped, it had no
  verdict and a mutant at the same place is alive in it, also when the process was
  killed between the results of one test.  It does not stay so, and no document says that
  it should: when the survivor is tested again (`onOldMutants`, alive mutants after
  the tests have changed) and is killed, the skipped mutant keeps its status until it
  is queued itself.

Do not hold, and are findings, because the documentation says otherwise:

* `PullRequestOnly`: a pull request session tests one mutant too many.
* `StaleResultIsDropped`: a result of an earlier round is not dropped.
* `CleanBaseline` with `LoadBehavior.halt`: the sanity check is skipped when the
  machine is overloaded at the start only.
* `EveryMutantIsTested` with coverage: a mutant that becomes covered is unknown and
  never queued, and the session loops.
* `VerdictIsTrue` with early stop and the table of checksums (`early_stop`): a command
  that is killed because another one failed is stored as a test binary that kills, and
  the next mutant with this binary is killed without being tested.

Do not hold either, and have no run of their own; each is found within a minute by
the configuration given, with the property as its only one:

| Property | Configuration | What the code does, and what is said of it |
|---|---|---|
| `DoneMeansSaved` of `TestDriver` | `MC_session` with `LimitedOnly`, `PromptSave = TRUE` | `IsDone` may be answered before the last result is saved, since `save2` sends the result to the end of the mailbox; "all results have been saved if this returns true" (`T/package.d:1835`) |
| `NoCoverageIsTrue` of `Coverage` | `MC_gathering` with `Faults = {}` | after a build or a test suite that failed while gathering the driver goes on and marks mutants by the coverage of an earlier gathering (`T/package.d:1595`); "Continuing without coverage information" (`T/coverage.d:342`) |
| `IgnoredIsNotLearnt` of `SourceMutant` | `MC_verdicts` with `Config <- AnalyzerAndTable` | the result of an unstable test is ignored, but the table has learnt from it and decides the next test of the mutant; "force the mutant to be re-tested" (`T/source_mutant.d:436`) |
| `OneMutantAtATime` | `MC_verdicts` with `"NoResultRestoreCode"` in `RestoreFault` | after a test without a result an error of the restore is dropped (`T/source_mutant.d:238-241`) and the next mutant is built on top of this one; "being unable to restore a file prohibit future mutations" (`T/source_mutant.d:524`) |
| `CleanBaseline` of `TestDriver` | `MC_session` | the same, seen from the driver: it goes on after a test without a result |
| `UnknownIsQueued` of `TestDriver` | `MC_session` with `PlainOnly` and `Outcome = {"alive", "unknown"}` | an error of a test command becomes the verdict unknown (`T/common.d:529`), which takes the mutant from the worklist: the session loops without it; "the result should not be used" (`T/test_cmd_runner.d:317`) |

Seen while modelling coverage: when one file cannot be instrumented the run goes
on, and its regions are stored as not covered with a new time stamp; the error
ends that session before anything is marked.  An instrumented run that no process
reported to leaves a new time stamp and no information.

Seen while choosing the configurations, not stated by any document and so not
runs: with `useSkipMutant` neither `UnsavedIsQueued` nor `FinishedIsComplete`
holds, a mutant that is skipped may have a verdict on its way; two sessions leave
`TimeoutsAreConfirmed` violated, by the stale result above; statements that fail
inside the transaction (`SqlMayFail`) violate every property of the rounds, and
`FinishedIsComplete`, since the round is raised all the same; `UnsavedIsQueued`
and `UnknownIsQueued` survive it.

Every property has a mutant of the code, an operator next to the one it
replaces, under which TLC finds it violated (`mutants` in `PROJECT.json`).

## 6. What is proved

With TLAPS, for any finite set of mutants, any set of instances, any number of
rounds, sessions and operations, any bound on the mailbox and any set of
configurations:

| Theorem | States | Beyond the constants' assumptions |
|---|---|---|
| `InvHolds` | the inductive invariant `Inv` | - |
| `TypeCorrect` | `TypeOK` | - |
| `NoResultIsLost` | `UnsavedIsQueued` | `Undisturbed` |
| `TimeoutIsChosen` | `MeasuredBeforeTesting` | `NeverHalted` |
| `NoForeignDirt` | `DirtIsOwn` | `NeverHalted` |
| `RoundHolds` | the inductive invariant `RoundInv` | `Steady` |
| `PurgeIsCurrent`, `RoundIsComplete` | `PurgedAreCurrent`, `RaisedRoundIsComplete` | `Steady` |
| `EveryTimeoutIsConfirmed`, `ScoreIsSampledLast` | `TimeoutsAreConfirmed`, `ScoreIsFinal` | `Steady` |
| `NoTimeoutIsLost`, `NoRowIsAhead`, `NoResultIsStale` | `UnconfirmedIsListed`, `RowsNotAhead`, `ResultsAreCurrent` | `Steady` |
| `FinishedLeavesNothing` | `FinishedIsComplete` | `Steady` |
| `NothingUnknownIsForgotten` | `UnknownIsQueued` | `Sharing` |

*`Inv`* is `TypeOK` with three facts that make it inductive: at most one instance
is inside the transaction (`OneTransaction`: otherwise two of them could raise
`iter`), a round is only being prepared while `iter` is below the maximum
(`RoundLeft`: `StepPurge` compares with `==`, so `iter <= MaxTimeoutIterations` alone
is not preserved by `EnterUpdateCtx`), and a mutant is picked where it is
injected and tested (`Picked`).  `TestDriverProofs` proves it for the machine, the
actor and the driver, one lemma per action or group of actions
with the same frame.

*`NoResultIsLost`.*  `UnsavedIsQueued` is not inductive: `Save` takes a mutant from
the worklist, and were there a second result of the same mutant in the mailbox
it would be unsaved and not queued.  `QueueInv` adds that a result is on its way
once, wherever it is: under test, about to be sent, in the mailbox; and that the
states before the main loop, where `PropagateCoverage` shrinks the worklist, find
the mailbox empty.  `Undisturbed` is needed: another session may dequeue the
mutant, an administrator the whole worklist, a late save (without `PromptSave`)
lets the mutant be picked twice, and a skipped mutant may have a verdict on its
way.  TLC finds each of these violations.

*`TimeoutIsChosen`, `NoForeignDirt`.*  `ReadyInv` says where a session is when it has a
timeout, measured or the user's, and where the source code may be dirty when this session
has not failed to restore it.  Every transition is shown to
go `Forward`: not into the setup, not past the measurement or the sanity check.
The one that does not is `Initialize` going to `CheckStopCond` (`LoadBehavior.halt`),
excluded by `NeverHalted`; the run `halt` shows what happens then.

*The rounds* (`RoundProofs`).  None of the properties of the timeout algorithm is
inductive: that a row of the timeout worklist is current when it is purged is a
fact about the whole round before it.  `RoundInv` is the argument in six parts.
`SessionInv` says which handlers run while the timeout algorithm is where it is,
`ContextInv` relates the row `MutantTimeoutCtx` to the machine's copy of it, `RowInv`
relates the rows of the timeout worklist to the verdicts and to the worklist,
`StepInv` says what each state of a running machine may rely on, `MailInv` that a
result in the mailbox carries the context of the database, and `DoneInv` what is
true once a session may call itself finished.  `Steady` is the setting: one session
at a time (`Undisturbed`) that is not halted by load at its start (`NeverHalted`),
statements that succeed (`~SqlMayFail`), no `onOldMutants`, and a user who between
sessions only resets, marks and unmarks mutants.  Without
them the properties do fail: by an operation that restarts the algorithm and keeps
the rows, by a lost statement, by a second session (see "Seen" above).  Sessions may
be killed at every step, any number of times.

*`NothingUnknownIsForgotten`* holds for any number of sessions that interleave.
`QueuedInv` adds to the property that nothing on its way (a result under test, about
to be sent or in a mailbox) takes a mutant from the worklist that stays
unknown.  `Sharing` excludes what does: an administrator during a test, coverage
that makes mutants unknown again, `contCheckTestSuite` with several sessions, and an
outcome that is itself `unknown`.

`QueueInv`, `ReadyInv`, `RoundInv` and `QueuedInv` were model-checked before they were
proved.

For the other parts:

| Module | Theorems | For every |
|---|---|---|
| `CoverageProofs` | `Invariance`, `TypeCorrect`, `SourcesRestored`, `InfoMeasured`, `MarksMeasured` | files and regions, faults, outcomes |
| `StoreProofs` | `EraseKeepsPacked`, `EnterKeepsPacked`, `SyncKeepsElements` | container and type of its elements |
| `GameProofs` | `GameInvariant`, `Typing`, `Removing`, `Indexing`, `Capacity`, `Nobody`, `Freshness`, `Belonging`, `Colliding`, `LivingAndDying`, and `Seeing` in windows of at least 36 x 17 | set of worlds, number of mobs, size of splatters, lives, and everything that is chosen at random |
| `RenderProofs` | `ScreenOfWorld`, `EveryCellIsDrawn`, `NothingDrawnOutside`, `TileOfEveryPlace`, `SurfIsInTheWorld`, `WaveIndexInTable`, `CameraApproaches` | window, world, camera and time |
| | `FramesAreReadable`, `VisibleForGood` | kind of sprite the game creates |
| `SourceMutantProofs` | `TypeCorrect`, `SkippedRightly` | files, mutants, test commands, projects, faults and sizes of the pool |
| | `OneMutant`, `ImplementsMutantTest` | the same, with `RestoreSucceeds` |
| | `VerdictsAreTrue`, `TableIsTrue` | the same, with `RestoreSucceeds` and `TableIsReliable` |
| `ClangCursorProofs` | `OperatorIsComplete`, `SidesOfOperator`, `LengthOfCall`, `CursorsStayInUnit`, `ConstexprOfFunction` | AST |

*`CoverageProofs`.*  That the table holds what ran is a fact about the end of a
gathering; `IInv` carries it there state by state.  While instrumenting, the ids
are exactly the regions of the files so far (`InstrumentedSoFar`), hence unique
(`IdsAreUnique`, from `LayoutAssumption`: a region is in one file once), and all of
them when it is over without an error (`AllInstrumented`).  While running, a byte is
set exactly if its region ran (`BytesAreRan`), which needs that nothing ran before
the first constructor (`NothingRanYet`); `MapIsRan` and `TableIsRan` say it of the copy
and of the table.  `RestoredWhenDone` is the strengthening of `SourcesAreRestored`.

*`StoreProofs`, `GameProofs`.*  None of the safety properties of the game is inductive,
and they need each other.  `GameInv` has ten parts.  `StoreSound` says of each container
that its arrays hold elements of their type, that the index finds them, that every key
to be removed is there once (`RemovalIsSafe`) and that the elements for none are
untouched; `Linked` that the components of an entity and the entity of a component,
the parent and its children lead to each other, counting what waits in the buffers.
That is not kept by a handler that follows a reference to something that is gone, which
the other parts exclude: `PlayerLives`, since `update` uses the player unasked; `Removals`,
that who is asked to go is nobody's child, not the player and has no mob that lives;
`Deaths`, that who is to be killed has no health left; `Decisions`, that who wants to walk
or attack stands where it stood.  `Decisions` is kept because of the order in
which events are handled (`EventOrder`: the one attack of the player comes before any
step, a mob tries one step, one mob dies) and the order of the mobs' turns (`Turns`).
`Buffers` says when the buffers of the containers are empty: `Get` looks
in the arrays only, and one splatter fits into an empty buffer, no more is known
(`SplatterAssumption`; in the code 29 + 40 + 1 of 1024).  `StoreProofs` has one theorem per
operator on the store, `GameProofs` one lemma per action and part.
`SyncKeepsElements` is what `sync` promises: afterwards the container has exactly the
elements it had or was given, without the removed, and its buffers are empty.
`Colliding` (`NoNewCollision`) and `LivingAndDying` are action properties that follow from
`GameInv`; the latter is the safe part of the refinement `MobsLiveAndDie`.
`Seeing` (`PlayerOnScreen`) has an invariant of its own on top of `GameInv`.
`HeroWalks` says that the player tries a step only after its last one was handled and
seen.  `InSight` says for both sides of both axes of the window where the player is
(`Side`): how many cells it is away from the camera, how many the camera still has
to go to its target, and how much time the player has saved up; the player takes 6
steps in 15 ticks, the camera 15, so a camera that is on its way gains on the
player, and one that runs ahead of it to a target 8 cells off does not outrun it.
The four phases are the parts of a tick between which this changes: the camera has made its step,
the player has acted, its last step is seen, its next one is taken.  Below 36 columns or 17 lines
the two margins of 8 and 4 cells leave too little room between them for the argument.
The other assumptions are that lives are positive (`LifeAssumption`) and that a world
holds mobs of the database, of which there are at most `MaxMobs`.
`GameInv` was model-checked first.  The loops are recursive functions; they are unfolded
by the least number principle for each of them (`SetOfNats`, from the
well-foundedness of `<`), since the induction theorems of the library take an
operator.

*`SourceMutantProofs`.*  That a verdict is true depends on everything before it: that
nothing but the mutant was built (`DiskInv`: during a test only the file of the mutant
differs from the original, `OnlyItsFile`, and which content it has), that the run of the
commands tells the truth (`RunParts`: a command that failed or was stopped has a reason,
one that passed without being executed was stopped by one that is or will be counted)
and that what was skipped would have passed (`CalcIsTrue`, `SkippedPass`).
The last of these needs the table to be true, which is only so if it was filled from
true runs, in this session or an earlier one: `VerdictIsTrue` and `KnownIsTrue` are
proved together, as parts of `TruthInv`.  Comparing the number of skipped
commands with the number of original checksums is right because a bijection of the two
sets makes them equal (`AllAreSkipped`).
`RestoreSucceeds` excludes a failing restore after a test without a result, and
`TableIsReliable` says that early stop is not used with the table of
checksums and that no two original test binaries are the same: the first two are needed,
as the table in section 5 and `early_stop` show; with two equal
binaries one of them is never executed.
`ImplementsMutantTest` maps every step of the machine to a step of `MutantTest` with
these invariants; `CoverInv` says that what is covered has no verdict that could be
overwritten, from the search of `Cover` until the result is saved (`SkippedRightly`
follows from it: `SentTogether` says that the results of one test wait for the actor
together, the mutant's own one before those that it covers).  `TypeInv`, `DiskInv`, `CoverInv` and `TruthInv` were model-checked first.

*`ClangCursorProofs`* needs no invariant, the module has no state.
`ConstexprOfFunction` and `LengthOfCall` show what the functions do in two cases
that their names do not suggest: an `if constexpr` in a function that is not
constexpr itself is answered with no, and the length of a call `f(a, b)` of an
object with `operator()` is its offset in the file.

## 7. Only model-checked, not modelled

Only model-checked: with two sessions `FinishedNothingLeft`, `UnconfirmedIsListed` and
`RowsNotAhead` (the last two are proved for one); what the run `operations` adds to
the assumptions `Steady`, which is a new analysis and a user who clears or stops;
and liveness (`Terminates`, `EveryMutantIsTested`, `GatheringEnds`, `MoveIsServed`,
`TestEnds`, and in `MobsLiveAndDie` that who dies leaves): fairness and `ENABLED` are out
of the prover's reach, and so are recursive operators, of which these modules
have none.

Not modelled, and why:

* `calculateTimeout` is floating point; the model keeps only that a later
  iteration has a longer timeout.
* The schema tester's actors and the actor library: their effect on the driver is
  there: `SchemaResult` and a FIFO mailbox.  `TestDriver` keeps of the test of a mutant
  its outcomes (`Tested`, `TestedNoResult`, `TestedFilesysError`); `SourceMutant` is the
  inside, with the worklist left to `TestDriver`.
* Inside `SourceMutant`: that a test command is not deterministic (a checksum decides
  whether it fails; an unstable one is what the analyser says), a build that fails
  for other reasons than the mutant's, commands that are not a binary of the tested
  program, the exit status and the list of killing tests in the result,
  the order of the commands, which kinds of mutants `Cover` chooses, and a
  result that is still on its way when the next mutant is tested (`TestDriver` has it).
* Coverage: test processes that outlive the run, and code that is executed before
  the runtime's constructor; neither is recorded by the code.  A project for which
  no root file can be resolved.  A build without the C runtime.
* The game: physics (floating point), colours, the ground tiles, the header, the log
  and terminal I/O, `EvSpawnMob`, which nothing queues.
* `ClangCursor` has no run: it has no behaviour, and its theorems speak about every
  AST.  clang itself (what an AST contains, `IgnoreParenImpCasts`, `buildCFG`) is
  external.
* `save3`, `save4`, the 30 s worklist cache of the actor: only the schema tester
  uses them.
* The actor failing to open the database, and `Initialize` failing to spawn it.
* Priorities of the worklist beyond pull request mutants first; test cases,
  profiles, tags, reports: no protocol depends on them.
* Analysis: only its effect on the tables of the test phase.
