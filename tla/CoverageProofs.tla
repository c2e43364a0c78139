--------------------------- MODULE CoverageProofs ---------------------------
(* Proofs about the gathering of coverage information, for every set of    *)
(* files and regions.                                                      *)
EXTENDS Coverage, SequenceTheorems, TLAPS

(***************************************************************************)
(* The inductive invariant.  Before SaveToDb the proof has to know that an *)
(* id stands for one region only, that without an error every region has   *)
(* one, and that the bytes of the map and the history agree; after it,     *)
(* that the table holds what was measured.                                 *)
(***************************************************************************)
ElementsOf(s) == {s[i] : i \in DOMAIN s}
Ids == ElementsOf(localId)
Before(f) == UNION {RegionsOf(g) : g \in {h \in DOMAIN Layout : h < f}}

IdsAreUnique == \A i, j \in DOMAIN localId : localId[i] = localId[j] => i = j

InstrumentedSoFar ==
    st = "Instrument" =>
        ~error /\ instrumented = {f \in DOMAIN Layout : f < file} /\ Ids = Before(file)

AllInstrumented ==
    st \in {"Compile", "Run", "Running", "SaveToDb"} /\ ~error =>
        instrumented = DOMAIN Layout /\ Ids = Region

NothingReadYet ==
    st \in {"Instrument", "Compile", "Run", "Running"} => covMap = <<>>

NothingRanYet ==
    st \in {"Instrument", "Compile", "Run"} \/ (st = "Running" /\ bytes[0] = 0) => ran = {}

BytesAreRan ==
    st = "Running" /\ ~error =>
        \A i \in DOMAIN localId : bytes[i] = 1 <=> localId[i] \in ran

MapIsRan ==
    st = "SaveToDb" /\ ~error /\ covMap # <<>> =>
        /\ DOMAIN covMap = DOMAIN localId
        /\ \A i \in DOMAIN localId : covMap[i] <=> localId[i] \in ran

TableIsRan ==
    st \in {"Restore", "Done", "PropagateCoverage"} /\ ~error /\ covMap # <<>> =>
        info = Measured

RestoredWhenDone ==
    st = "PropagateCoverage" \/ (st = "Done" /\ ~error) => instrumented = {} /\ ~error

IInv ==
    /\ TypeOK /\ IdsAreUnique /\ InstrumentedSoFar /\ AllInstrumented /\ NothingReadYet
    /\ NothingRanYet /\ BytesAreRan /\ MapIsRan /\ TableIsRan /\ RestoredWhenDone
-----------------------------------------------------------------------------
\* The files and their regions, as sequences and as sets.
LEMMA LayoutFacts ==
    /\ Layout \in Seq(Seq(Region)) /\ DOMAIN Layout = 1 .. Len(Layout) /\ Len(Layout) \in Nat
    /\ \A f \in DOMAIN Layout : Layout[f] \in Seq(Region) /\ RegionsOf(f) \subseteq Region
<1>1. Layout \in Seq(Seq(Region))
    BY LayoutAssumption
<1>2. DOMAIN Layout = 1 .. Len(Layout) /\ Len(Layout) \in Nat
    BY <1>1, LenProperties
<1>3. \A f \in DOMAIN Layout : Layout[f] \in Seq(Region)
    BY <1>1, <1>2, ElementOfSeq
<1>4. \A f \in DOMAIN Layout : RegionsOf(f) \subseteq Region
    BY DEF Region
<1> QED BY <1>1, <1>2, <1>3, <1>4

\* A file's regions are not among those of the files before it.
LEMMA NewRegions ==
    ASSUME NEW f \in DOMAIN Layout
    PROVE  /\ \A i \in DOMAIN Layout[f] : Layout[f][i] \notin Before(f)
           /\ \A i, j \in DOMAIN Layout[f] : Layout[f][i] = Layout[f][j] => i = j
           /\ Before(f) \cup RegionsOf(f) = Before(f + 1)
<1>1. DOMAIN Layout \subseteq Nat
    BY LayoutFacts
<1>2. \A i \in DOMAIN Layout[f] : Layout[f][i] \notin Before(f)
    BY <1>1, LayoutAssumption DEF Before, RegionsOf
<1>3. \A i, j \in DOMAIN Layout[f] : Layout[f][i] = Layout[f][j] => i = j
    BY LayoutAssumption
<1>4. {h \in DOMAIN Layout : h < f + 1} = {h \in DOMAIN Layout : h < f} \cup {f}
    BY <1>1
<1>5. Before(f) \cup RegionsOf(f) = Before(f + 1)
    BY <1>4 DEF Before
<1> QED BY <1>2, <1>3, <1>5

\* What the concatenation of two sequences holds.
LEMMA ConcatRange ==
    ASSUME NEW S, NEW s \in Seq(S), NEW t \in Seq(S)
    PROVE  /\ s \o t \in Seq(S)
           /\ ElementsOf(s \o t) = ElementsOf(s) \cup ElementsOf(t)
<1> DEFINE c == s \o t
<1>1. /\ c \in Seq(S) /\ DOMAIN c = 1 .. Len(s) + Len(t)
      /\ Len(s) \in Nat /\ Len(t) \in Nat /\ DOMAIN s = 1 .. Len(s) /\ DOMAIN t = 1 .. Len(t)
      /\ \A i \in 1 .. Len(s) + Len(t) : c[i] = IF i <= Len(s) THEN s[i] ELSE t[i - Len(s)]
    BY ConcatProperties, LenProperties
<1> HIDE DEF c
<1>2. ASSUME NEW x, NEW i \in DOMAIN c, c[i] = x
      PROVE  (\E j \in DOMAIN s : s[j] = x) \/ (\E j \in DOMAIN t : t[j] = x)
    <2>1. CASE i <= Len(s)
        BY <1>1, <1>2, <2>1
    <2>2. CASE ~(i <= Len(s))
        <3>1. i - Len(s) \in DOMAIN t /\ c[i] = t[i - Len(s)]
            BY <1>1, <2>2
        <3> QED BY <1>2, <3>1
    <2> QED BY <2>1, <2>2
<1>3. ASSUME NEW i \in DOMAIN s
      PROVE  i \in DOMAIN c /\ c[i] = s[i]
    BY <1>1
<1>4. ASSUME NEW i \in DOMAIN t
      PROVE  Len(s) + i \in DOMAIN c /\ c[Len(s) + i] = t[i]
    <2>1. Len(s) + i \in 1 .. Len(s) + Len(t) /\ ~(Len(s) + i <= Len(s)) /\ (Len(s) + i) - Len(s) = i
        BY <1>1
    <2> QED BY <1>1, <2>1
<1>5. \A x : (\E i \in DOMAIN c : c[i] = x)
            <=> (\E i \in DOMAIN s : s[i] = x) \/ (\E i \in DOMAIN t : t[i] = x)
    BY <1>2, <1>3, <1>4
<1>6. ElementsOf(c) = ElementsOf(s) \cup ElementsOf(t)
    BY <1>5 DEF ElementsOf
<1> QED BY <1>1, <1>6 DEF c

\* Two sequences without repetitions and with nothing in common repeat nothing.
LEMMA ConcatUnique ==
    ASSUME NEW S, NEW s \in Seq(S), NEW t \in Seq(S),
           \A i, j \in DOMAIN s : s[i] = s[j] => i = j,
           \A i, j \in DOMAIN t : t[i] = t[j] => i = j,
           \A j \in DOMAIN t : t[j] \notin {s[i] : i \in DOMAIN s}
    PROVE  \A i, j \in DOMAIN (s \o t) : (s \o t)[i] = (s \o t)[j] => i = j
<1> DEFINE c == s \o t
<1>1. /\ DOMAIN c = 1 .. Len(s) + Len(t)
      /\ Len(s) \in Nat /\ Len(t) \in Nat /\ DOMAIN s = 1 .. Len(s) /\ DOMAIN t = 1 .. Len(t)
      /\ \A i \in 1 .. Len(s) + Len(t) : c[i] = IF i <= Len(s) THEN s[i] ELSE t[i - Len(s)]
    BY ConcatProperties, LenProperties
<1> HIDE DEF c
<1> SUFFICES ASSUME NEW i \in DOMAIN c, NEW j \in DOMAIN c, c[i] = c[j]
             PROVE  i = j
    BY DEF c
<1>2. CASE i <= Len(s) /\ j <= Len(s)
    <2>1. i \in DOMAIN s /\ j \in DOMAIN s /\ s[i] = s[j]
        BY <1>1, <1>2
    <2> QED BY <2>1
<1>3. CASE i <= Len(s) /\ ~(j <= Len(s))
    <2>1. i \in DOMAIN s /\ j - Len(s) \in DOMAIN t /\ s[i] = t[j - Len(s)]
        BY <1>1, <1>3
    <2> QED BY <2>1
<1>4. CASE ~(i <= Len(s)) /\ j <= Len(s)
    <2>1. j \in DOMAIN s /\ i - Len(s) \in DOMAIN t /\ s[j] = t[i - Len(s)]
        BY <1>1, <1>4
    <2> QED BY <2>1
<1>5. CASE ~(i <= Len(s)) /\ ~(j <= Len(s))
    <2>1. i - Len(s) \in DOMAIN t /\ j - Len(s) \in DOMAIN t /\ t[i - Len(s)] = t[j - Len(s)]
        BY <1>1, <1>5
    <2>2. i - Len(s) = j - Len(s)
        BY <2>1
    <2> QED BY <1>1, <2>2
<1> QED BY <1>2, <1>3, <1>4, <1>5
-----------------------------------------------------------------------------
\* The invariant holds before the first gathering.
LEMMA InitInvariant == Init => IInv
<1> SUFFICES ASSUME Init PROVE IInv
    OBVIOUS
<1> USE DEF Init
<1>1. TypeOK
    BY EmptySeq DEF TypeOK, State
<1>2. IdsAreUnique
    BY EmptySeq DEF IdsAreUnique
<1>3. InstrumentedSoFar /\ AllInstrumented /\ NothingReadYet /\ NothingRanYet
      /\ BytesAreRan /\ MapIsRan /\ TableIsRan /\ RestoredWhenDone
    BY DEF InstrumentedSoFar, AllInstrumented, NothingReadYet, NothingRanYet, BytesAreRan,
           MapIsRan, TableIsRan, RestoredWhenDone
<1> QED BY <1>1, <1>2, <1>3 DEF IInv

\* Every step keeps the types.
LEMMA TypeStep == TypeOK /\ [Next]_vars => TypeOK'
<1> SUFFICES ASSUME TypeOK, [Next]_vars
             PROVE  TypeOK'
    OBVIOUS
<1> USE DEF TypeOK, State, Goto, driver, db
<1>1. CASE StartGathering
    <2>1. <<>> \in Seq(Region) /\ <<>> \in Seq(BOOLEAN)
        BY EmptySeq
    <2>2. st' = "Instrument" /\ file' = 1 /\ localId' = <<>> /\ error' = FALSE /\ covMap' = <<>>
          /\ ran' = {} /\ UNCHANGED <<instrumented, info, upToDate, marked>>
        BY <1>1 DEF StartGathering
    <2>3. localId' \in Seq(Region) /\ covMap' \in Seq(BOOLEAN)
        BY <2>1, <2>2
    <2>4. info' \in [Region -> {"none", "covered", "notCovered"}] /\ upToDate' \in BOOLEAN
          /\ marked' \subseteq Region /\ ran' \subseteq Region /\ instrumented' \subseteq DOMAIN Layout
        BY <2>2
    <2>5. st' \in State /\ st' # "Running"
        BY <2>2
    <2>6. file' \in Nat \ {0}
        BY <2>2
    <2>7. error' \in BOOLEAN
        BY <2>2
    <2> QED BY <2>3, <2>4, <2>5, <2>6, <2>7
<1>2. CASE InstrumentFile
    BY <1>2, LayoutFacts, ConcatRange DEF InstrumentFile
<1>3. CASE InstrumentFails
    <2>1. file \in DOMAIN Layout
          /\ (localId' = localId \/ localId' = localId \o Layout[file])
          /\ (instrumented' = instrumented \/ instrumented' = instrumented \cup {file})
        BY <1>3 DEF InstrumentFails
    <2>3. localId' \in Seq(Region)
        <3>1. localId \o Layout[file] \in Seq(Region)
            BY <2>1, LayoutFacts, ConcatRange
        <3> QED BY <2>1, <3>1
    <2>2. UNCHANGED <<file, covMap, bytes, info, upToDate, marked, ran>>
          /\ error' = TRUE /\ st' = "Compile"
        BY <1>3 DEF InstrumentFails
    <2> QED BY <2>1, <2>2, <2>3
<1>4. CASE Instrumented
    BY <1>4 DEF Instrumented
<1>5. CASE Compile
    BY <1>5 DEF Compile
<1>6. CASE RunTests
    BY <1>6, LenProperties DEF RunTests, EmptyMap, Bytes
<1>7. CASE EndRun
    <2>1. ReadCovMap \in Seq(BOOLEAN)
        <3>1. Len(localId) \in Nat
            BY LenProperties
        <3>2. [i \in 1 .. Len(localId) |-> bytes[i] = 1] \in [1 .. Len(localId) -> BOOLEAN]
            OBVIOUS
        <3>3. [i \in 1 .. Len(localId) |-> bytes[i] = 1] \in Seq(BOOLEAN)
            BY <3>1, <3>2, SeqDef
        <3>4. <<>> \in Seq(BOOLEAN)
            BY EmptySeq
        <3> QED BY <3>3, <3>4 DEF ReadCovMap
    <2> QED BY <1>7, <2>1 DEF EndRun
<1>8. CASE SaveToDb
    BY <1>8 DEF SaveToDb, InfoOf
<1>9. CASE Restore
    BY <1>9 DEF Restore
<1>10. CASE Done
    BY <1>10 DEF Done
<1>11. CASE PropagateCoverage
    BY <1>11 DEF PropagateCoverage
<1>12. CASE InitCovMap
    BY <1>12 DEF InitCovMap, Bytes
<1>13. ASSUME NEW r \in Region, Execute(r)
       PROVE  TypeOK'
    BY <1>13 DEF Execute, Bytes
<1>14. CASE Kill \/ CheckOut \/ Analyze
    BY <1>14 DEF Kill, CheckOut, Analyze
<1>15. CASE UNCHANGED vars
    BY <1>15 DEF vars
<1> QED BY <1>1, <1>2, <1>3, <1>4, <1>5, <1>6, <1>7, <1>8, <1>9, <1>10, <1>11, <1>12,
           <1>13, <1>14, <1>15 DEF Next, DriverStep
-----------------------------------------------------------------------------
\* Adding the next file to the ids.
LEMMA NextFile ==
    ASSUME TypeOK, IdsAreUnique, InstrumentedSoFar, st = "Instrument", file \in DOMAIN Layout,
           localId' = localId \o Layout[file]
    PROVE  IdsAreUnique' /\ Ids' = Before(file + 1)
<1>1. localId \in Seq(Region) /\ Layout[file] \in Seq(Region) /\ Ids = Before(file)
    BY LayoutFacts DEF TypeOK, InstrumentedSoFar
<1>2. \A j \in DOMAIN Layout[file] : Layout[file][j] \notin {localId[i] : i \in DOMAIN localId}
    BY <1>1, NewRegions DEF Ids, ElementsOf
<1>3. \A i, j \in DOMAIN Layout[file] : Layout[file][i] = Layout[file][j] => i = j
    BY NewRegions
<1>4. \A i, j \in DOMAIN (localId \o Layout[file]) :
         (localId \o Layout[file])[i] = (localId \o Layout[file])[j] => i = j
    BY <1>1, <1>2, <1>3, ConcatUnique DEF IdsAreUnique
<1>5. Ids' = Ids \cup RegionsOf(file)
    <2>1. ElementsOf(localId \o Layout[file]) = ElementsOf(localId) \cup ElementsOf(Layout[file])
        BY <1>1, ConcatRange
    <2>2. ElementsOf(localId') = ElementsOf(localId) \cup ElementsOf(Layout[file])
        BY <2>1
    <2> QED BY <2>2 DEF Ids, RegionsOf, ElementsOf
<1>6. Before(file) \cup RegionsOf(file) = Before(file + 1)
    BY NewRegions
<1> QED BY <1>1, <1>4, <1>5, <1>6 DEF IdsAreUnique

\* No step gives an id to two regions: a file is instrumented once.
LEMMA UniqueStep ==
    TypeOK /\ IdsAreUnique /\ InstrumentedSoFar /\ [Next]_vars => IdsAreUnique'
<1> SUFFICES ASSUME TypeOK, IdsAreUnique, InstrumentedSoFar, [Next]_vars
             PROVE  IdsAreUnique'
    OBVIOUS
<1>1. CASE StartGathering
    <2>1. localId' = <<>> /\ DOMAIN <<>> = {}
        BY <1>1 DEF StartGathering
    <2> QED BY <2>1 DEF IdsAreUnique
<1>2. CASE InstrumentFile
    BY <1>2, NextFile DEF InstrumentFile
<1>3. CASE InstrumentFails
    <2>1. CASE localId' = localId
        BY <2>1 DEF IdsAreUnique
    <2>2. CASE localId' = localId \o Layout[file]
        BY <1>3, <2>2, NextFile DEF InstrumentFails
    <2> QED BY <1>3, <2>1, <2>2 DEF InstrumentFails
<1>4. CASE UNCHANGED localId
    BY <1>4 DEF IdsAreUnique
<1>5. UNCHANGED localId \/ StartGathering \/ InstrumentFile \/ InstrumentFails
    BY DEF Next, DriverStep, Instrumented, Compile, RunTests, EndRun, SaveToDb, Restore, Done,
           PropagateCoverage, InitCovMap, Execute, Kill, CheckOut, Analyze, vars, driver, db
<1> QED BY <1>1, <1>2, <1>3, <1>4, <1>5

\* Without an error every file becomes instrumented and every region gets an id.
LEMMA InstrumentStep ==
    TypeOK /\ IdsAreUnique /\ InstrumentedSoFar /\ AllInstrumented /\ [Next]_vars
        => InstrumentedSoFar' /\ AllInstrumented'
<1> SUFFICES ASSUME TypeOK, IdsAreUnique, InstrumentedSoFar, AllInstrumented, [Next]_vars
             PROVE  InstrumentedSoFar' /\ AllInstrumented'
    OBVIOUS
<1> USE DEF Goto
<1>1. CASE StartGathering
    <2>1. st' = "Instrument" /\ ~error' /\ file' = 1 /\ localId' = <<>> /\ instrumented' = {}
        BY <1>1 DEF StartGathering
    <2>2. {f \in DOMAIN Layout : f < 1} = {}
        BY LayoutFacts
    <2>3. Before(1) = {} /\ Ids' = {}
        BY <2>1, <2>2 DEF Before, Ids, ElementsOf
    <2> QED BY <2>1, <2>2, <2>3 DEF InstrumentedSoFar, AllInstrumented
<1>2. CASE InstrumentFile
    <2>1. /\ st = "Instrument" /\ st' = "Instrument" /\ file' = file + 1 /\ file \in DOMAIN Layout
          /\ localId' = localId \o Layout[file] /\ instrumented' = instrumented \cup {file}
          /\ error' = error
        BY <1>2 DEF InstrumentFile
    <2>2. ~error /\ instrumented = {f \in DOMAIN Layout : f < file}
        BY <2>1 DEF InstrumentedSoFar
    <2>3. {f \in DOMAIN Layout : f < file + 1} = {f \in DOMAIN Layout : f < file} \cup {file}
        BY <2>1, LayoutFacts
    <2>4. Ids' = Before(file + 1)
        BY <2>1, NextFile
    <2> QED BY <2>1, <2>2, <2>3, <2>4 DEF InstrumentedSoFar, AllInstrumented
<1>3. CASE InstrumentFails
    <2>1. st' = "Compile" /\ error' = TRUE
        BY <1>3 DEF InstrumentFails
    <2> QED BY <2>1 DEF InstrumentedSoFar, AllInstrumented
<1>4. CASE Instrumented
    <2>1. /\ st = "Instrument" /\ st' = "Compile" /\ file \notin DOMAIN Layout
          /\ UNCHANGED <<localId, instrumented, error>>
        BY <1>4 DEF Instrumented
    <2>2. ~error /\ instrumented = {f \in DOMAIN Layout : f < file} /\ Ids = Before(file)
        BY <2>1 DEF InstrumentedSoFar
    <2>0. instrumented \subseteq DOMAIN Layout /\ file \in Nat \ {0}
        BY DEF TypeOK
    <2>3. \A f \in DOMAIN Layout : f < file
        BY <2>0, <2>1, LayoutFacts
    <2>4. {f \in DOMAIN Layout : f < file} = DOMAIN Layout
        BY <2>3
    <2>5. Before(file) = Region
        BY <2>4 DEF Before, Region
    <2> QED BY <2>1, <2>2, <2>4, <2>5 DEF InstrumentedSoFar, AllInstrumented, Ids
<1>5. CASE Compile \/ RunTests \/ EndRun
    <2>1. st \in {"Compile", "Run", "Running"} /\ st' # "Instrument"
          /\ UNCHANGED <<localId, instrumented, error>>
        BY <1>5 DEF Compile, RunTests, EndRun
    <2> QED BY <2>1 DEF InstrumentedSoFar, AllInstrumented, Ids
<1>6. CASE SaveToDb \/ Restore \/ Done \/ PropagateCoverage \/ Kill
    <2>1. st' \in {"Restore", "Done", "off", "PropagateCoverage"}
        BY <1>6 DEF SaveToDb, Restore, Done, PropagateCoverage, Kill
    <2> QED BY <2>1 DEF InstrumentedSoFar, AllInstrumented
<1>7. CASE CheckOut
    <2>1. st' = "off"
        BY <1>7 DEF CheckOut, driver
    <2> QED BY <2>1 DEF InstrumentedSoFar, AllInstrumented
<1>8. CASE UNCHANGED <<driver, instrumented>>
    BY <1>8 DEF driver, InstrumentedSoFar, AllInstrumented, Ids
<1>9. InitCovMap \/ (\E r \in Region : Execute(r)) \/ Analyze \/ UNCHANGED vars
        => UNCHANGED <<driver, instrumented>>
    BY DEF InitCovMap, Execute, Analyze, vars, driver
<1> QED BY <1>1, <1>2, <1>3, <1>4, <1>5, <1>6, <1>7, <1>8, <1>9 DEF Next, DriverStep
-----------------------------------------------------------------------------
\* What a region writes is its own byte.
LEMMA ExecuteWrites ==
    ASSUME TypeOK, IdsAreUnique, AllInstrumented, ~error, NEW r \in Region, Execute(r),
           NEW i \in DOMAIN localId
    PROVE  bytes'[i] = (IF localId[i] = r THEN 1 ELSE bytes[i])
<1>1. st = "Running" /\ instrumented = DOMAIN Layout /\ bytes \in [0 .. Len(localId) -> Bytes]
    BY DEF Execute, AllInstrumented, TypeOK
<1>2. i \in DOMAIN bytes /\ i \in Nat /\ DOMAIN localId \subseteq Nat
    BY <1>1, LenProperties DEF TypeOK
<1>3. PICK f \in DOMAIN Layout : r \in RegionsOf(f)
    BY DEF Region
<1>4. \A j \in DOMAIN localId : i = InstrCode(j - 1) <=> i = j
    BY <1>2 DEF InstrCode
<1>5. bytes'[i] = IF \E g \in instrumented, j \in DOMAIN localId :
                       r \in RegionsOf(g) /\ localId[j] = r /\ i = InstrCode(j - 1)
                  THEN 1 ELSE bytes[i]
    BY <1>2 DEF Execute
<1>6. (\E g \in instrumented, j \in DOMAIN localId :
          r \in RegionsOf(g) /\ localId[j] = r /\ i = InstrCode(j - 1)) <=> localId[i] = r
    BY <1>1, <1>3, <1>4
<1> QED BY <1>5, <1>6

\* The bytes of the map say what has run.
LEMMA BytesStep ==
    TypeOK /\ IdsAreUnique /\ AllInstrumented /\ NothingReadYet /\ NothingRanYet /\ BytesAreRan
        /\ [Next]_vars
    => NothingReadYet' /\ NothingRanYet' /\ BytesAreRan'
<1> SUFFICES ASSUME TypeOK, IdsAreUnique, AllInstrumented, NothingReadYet, NothingRanYet,
                    BytesAreRan, [Next]_vars
             PROVE  NothingReadYet' /\ NothingRanYet' /\ BytesAreRan'
    OBVIOUS
<1> USE DEF Goto, NothingReadYet, NothingRanYet, BytesAreRan
<1>1. CASE StartGathering
    BY <1>1 DEF StartGathering
<1>2. CASE InstrumentFile \/ InstrumentFails \/ Instrumented \/ Compile
    BY <1>2 DEF InstrumentFile, InstrumentFails, Instrumented, Compile
<1>3. CASE RunTests
    <2>1. /\ st = "Run" /\ st' = "Running" /\ ran = {} /\ covMap = <<>>
          /\ UNCHANGED <<localId, covMap, ran>> /\ bytes' = [b \in 0 .. Len(localId) |-> 0]
        BY <1>3 DEF RunTests, EmptyMap
    <2>2. DOMAIN localId \subseteq 0 .. Len(localId)
        BY LenProperties DEF TypeOK
    <2> QED BY <2>1, <2>2
<1>4. CASE InitCovMap
    <2>1. /\ st = "Running" /\ bytes' = [bytes EXCEPT ![0] = 1] /\ bytes[0] = 0
          /\ UNCHANGED <<st, localId, covMap, error, ran>>
        BY <1>4 DEF InitCovMap, driver
    <2>2. bytes \in [0 .. Len(localId) -> Bytes] /\ DOMAIN localId = 1 .. Len(localId)
          /\ Len(localId) \in Nat
        BY <2>1, LenProperties DEF TypeOK
    <2>3. bytes'[0] = 1 /\ \A i \in DOMAIN localId : bytes'[i] = bytes[i]
        BY <2>1, <2>2
    <2> QED BY <2>1, <2>3
<1>5. ASSUME NEW r \in Region, Execute(r)
      PROVE  NothingReadYet' /\ NothingRanYet' /\ BytesAreRan'
    <2>1. /\ st = "Running" /\ bytes[0] = 1 /\ ran' = ran \cup {r}
          /\ UNCHANGED <<st, localId, covMap, error>>
        BY <1>5 DEF Execute, driver
    <2>2. bytes'[0] = 1
        <3>1. 0 \in DOMAIN bytes
            BY <2>1, LenProperties DEF TypeOK
        <3> QED BY <1>5, <2>1, <3>1 DEF Execute
    <2>3. BytesAreRan'
        <3> SUFFICES ASSUME ~error, NEW i \in DOMAIN localId
                     PROVE  bytes'[i] = 1 <=> localId[i] \in ran \cup {r}
            BY <2>1
        <3>1. bytes'[i] = IF localId[i] = r THEN 1 ELSE bytes[i]
            BY <1>5, ExecuteWrites
        <3>2. bytes[i] = 1 <=> localId[i] \in ran
            BY <2>1
        <3> QED BY <3>1, <3>2
    <2> QED BY <2>1, <2>2, <2>3
<1>6. CASE EndRun \/ SaveToDb \/ Restore \/ Done \/ PropagateCoverage \/ Kill
    <2>1. st' \in {"SaveToDb", "Restore", "Done", "off", "PropagateCoverage"}
        BY <1>6 DEF EndRun, SaveToDb, Restore, Done, PropagateCoverage, Kill
    <2> QED BY <2>1
<1>7. CASE UNCHANGED <<driver, bytes, ran>>
    BY <1>7 DEF driver
<1>8. CheckOut \/ Analyze \/ UNCHANGED vars => UNCHANGED <<driver, bytes, ran>>
    BY DEF CheckOut, Analyze, vars, driver
<1> QED BY <1>1, <1>2, <1>3, <1>4, <1>5, <1>6, <1>7, <1>8 DEF Next, DriverStep

\* What is read is what has run.
LEMMA ReadStep ==
    TypeOK /\ NothingReadYet /\ BytesAreRan /\ MapIsRan /\ [Next]_vars => MapIsRan'
<1> SUFFICES ASSUME TypeOK, NothingReadYet, BytesAreRan, MapIsRan, [Next]_vars,
                    st' = "SaveToDb", ~error', covMap' # <<>>
             PROVE  /\ DOMAIN covMap' = DOMAIN localId'
                    /\ \A i \in DOMAIN localId' : covMap'[i] <=> localId'[i] \in ran'
    BY DEF MapIsRan
<1>1. CASE EndRun
    <2>1. st = "Running" /\ covMap' = ReadCovMap /\ UNCHANGED <<localId, error, ran>>
        BY <1>1 DEF EndRun, Goto
    <2>2. covMap' = [i \in 1 .. Len(localId) |-> bytes[i] = 1] /\ DOMAIN localId = 1 .. Len(localId)
        BY <2>1, LenProperties DEF ReadCovMap, TypeOK
    <2>3. ASSUME NEW i \in DOMAIN localId
          PROVE  covMap'[i] <=> localId[i] \in ran
        <3>1. covMap'[i] = (bytes[i] = 1)
            BY <2>2
        <3>2. bytes[i] = 1 <=> localId[i] \in ran
            BY <2>1 DEF BytesAreRan
        <3> QED BY <3>1, <3>2
    <2> QED BY <2>1, <2>2, <2>3
<1>2. CASE UNCHANGED <<driver, ran>>
    BY <1>2 DEF driver, MapIsRan
<1>3. EndRun \/ UNCHANGED <<driver, ran>>
    BY DEF Next, DriverStep, StartGathering, InstrumentFile, InstrumentFails, Instrumented, Compile,
           RunTests, SaveToDb, Restore, Done, PropagateCoverage, InitCovMap, Execute, Kill, CheckOut,
           Analyze, vars, driver, Goto
<1> QED BY <1>1, <1>2, <1>3
-----------------------------------------------------------------------------
\* What SaveToDb stores.
LEMMA SaveMeasures ==
    ASSUME TypeOK, IdsAreUnique, AllInstrumented, MapIsRan, SaveToDb, ~error, covMap # <<>>
    PROVE  info' = Measured
<1>1. st = "SaveToDb"
    BY DEF SaveToDb
<1>2. Ids = Region
    BY <1>1 DEF AllInstrumented
<1>3. DOMAIN covMap = DOMAIN localId /\ \A i \in DOMAIN localId : covMap[i] <=> localId[i] \in ran
    BY <1>1 DEF MapIsRan
<1>4. ASSUME NEW r \in Region
      PROVE  /\ \E i \in DOMAIN covMap : localId[i] = r
             /\ (\E i \in DOMAIN covMap : localId[i] = r /\ covMap[i]) <=> r \in ran
    <2>1. PICK i \in DOMAIN localId : localId[i] = r
        BY <1>2 DEF Ids, ElementsOf
    <2>2. \A j \in DOMAIN localId : localId[j] = r => j = i
        BY <2>1 DEF IdsAreUnique
    <2> QED BY <1>3, <2>1, <2>2
<1>5. \A r \in Region :
        InfoOf(\E i \in DOMAIN covMap : localId[i] = r /\ covMap[i]) = InfoOf(r \in ran)
    <2> SUFFICES ASSUME NEW r \in Region
                 PROVE  InfoOf(\E i \in DOMAIN covMap : localId[i] = r /\ covMap[i])
                          = InfoOf(r \in ran)
        OBVIOUS
    <2>1. CASE r \in ran
        BY <1>4, <2>1 DEF InfoOf
    <2>2. CASE r \notin ran
        BY <1>4, <2>2 DEF InfoOf
    <2> QED BY <2>1, <2>2
<1>6. info' = [r \in Region |->
                 IF \E i \in DOMAIN covMap : localId[i] = r
                 THEN InfoOf(\E i \in DOMAIN covMap : localId[i] = r /\ covMap[i])
                 ELSE info[r]]
    BY DEF SaveToDb
<1>7. \A r \in Region : info'[r] = InfoOf(r \in ran)
    <2> SUFFICES ASSUME NEW r \in Region
                 PROVE  info'[r] = InfoOf(r \in ran)
        OBVIOUS
    <2>1. info'[r] = IF \E i \in DOMAIN covMap : localId[i] = r
                     THEN InfoOf(\E i \in DOMAIN covMap : localId[i] = r /\ covMap[i])
                     ELSE info[r]
        BY <1>6
    <2>2. \E i \in DOMAIN covMap : localId[i] = r
        BY <1>4
    <2>3. info'[r] = InfoOf(\E i \in DOMAIN covMap : localId[i] = r /\ covMap[i])
        BY <2>1, <2>2
    <2> QED BY <1>5, <2>3
<1> HIDE DEF InfoOf
<1> QED BY <1>6, <1>7 DEF Measured

\* It stays in the table, and in no state that comes after Restore is a file
\* left instrumented without an error.
LEMMA TableStep ==
    IInv /\ [Next]_vars => TableIsRan' /\ RestoredWhenDone'
<1> SUFFICES ASSUME IInv, [Next]_vars
             PROVE  TableIsRan' /\ RestoredWhenDone'
    OBVIOUS
<1> USE DEF Goto, TableIsRan, RestoredWhenDone
<1>0. /\ TypeOK /\ IdsAreUnique /\ AllInstrumented /\ NothingReadYet /\ MapIsRan
      /\ TableIsRan /\ RestoredWhenDone
    BY DEF IInv
<1>1. CASE StartGathering \/ InstrumentFile \/ InstrumentFails \/ Instrumented \/ RunTests \/ Kill
           \/ PropagateCoverage
    <2>1. st' \notin {"Restore", "Done", "PropagateCoverage"}
        BY <1>1 DEF StartGathering, InstrumentFile, InstrumentFails, Instrumented, RunTests, Kill,
                    PropagateCoverage
    <2> QED BY <2>1
<1>2. CASE Compile \/ EndRun
    <2>1. st \in {"Compile", "Running"} /\ st' \notin {"Done", "PropagateCoverage"}
          /\ (st' = "Restore" => covMap' = covMap)
        BY <1>2 DEF Compile, EndRun
    <2>2. covMap = <<>>
        BY <1>0, <2>1 DEF NothingReadYet
    <2> QED BY <2>1, <2>2
<1>3. CASE SaveToDb
    <2>1. st' = "Restore" /\ error' = error /\ covMap' = covMap /\ ran' = ran
        BY <1>3 DEF SaveToDb
    <2>2. ~error /\ covMap # <<>> => info' = Measured
        BY <1>0, <1>3, SaveMeasures
    <2>3. Measured' = Measured
        BY <2>1 DEF Measured
    <2> QED BY <2>1, <2>2, <2>3
<1>4. CASE Restore
    <2>1. /\ st = "Restore" /\ st' = "Done" /\ UNCHANGED <<covMap, info, ran>>
          /\ (instrumented' = {} /\ error' = error) \/ error' = TRUE
        BY <1>4 DEF Restore, db
    <2>2. Measured' = Measured
        BY <2>1 DEF Measured
    <2> QED BY <1>0, <2>1, <2>2
<1>5. CASE Done
    <2>1. /\ st = "Done" /\ UNCHANGED <<covMap, info, ran, error, instrumented>>
          /\ st' \in {"off", "PropagateCoverage"} /\ (st' = "PropagateCoverage" => ~error)
        BY <1>5 DEF Done, db, TypeOK
    <2>2. Measured' = Measured
        BY <2>1 DEF Measured
    <2> QED BY <1>0, <2>1, <2>2
<1>6. CASE st' = "off" \/ (st' = "Running" /\ st = "Running")
    BY <1>6
<1>7. CASE UNCHANGED vars
    <2>1. Measured' = Measured
        BY <1>7 DEF Measured, vars
    <2> QED BY <1>0, <1>7, <2>1 DEF vars
<1>8. InitCovMap \/ (\E r \in Region : Execute(r)) \/ CheckOut \/ Analyze
        => st' = "off" \/ (st' = "Running" /\ st = "Running")
    BY DEF InitCovMap, Execute, CheckOut, Analyze, driver
<1> QED BY <1>1, <1>2, <1>3, <1>4, <1>5, <1>6, <1>7, <1>8 DEF Next, DriverStep

\* Every step keeps the invariant.
LEMMA StepInvariant == IInv /\ [Next]_vars => IInv'
BY TypeStep, UniqueStep, InstrumentStep, BytesStep, ReadStep, TableStep DEF IInv

\* The inductive invariant.
THEOREM Invariance == Spec => []IInv
BY InitInvariant, StepInvariant, PTL DEF Spec

\* Types, for every set of files and regions.
THEOREM TypeCorrect == Spec => []TypeOK
BY Invariance, PTL DEF IInv

\* The test driver never goes on over an instrumented file (coverage.d:368-377,
\* package.d:570-573).
THEOREM SourcesRestored == Spec => []SourcesAreRestored
<1>1. IInv => SourcesAreRestored
    BY DEF IInv, RestoredWhenDone, SourcesAreRestored
<1> QED BY <1>1, Invariance, PTL

\* For every number of files and regions a gathering without errors stores what
\* the tests executed (coverage.d:257-260, 402, 456-463).
THEOREM InfoMeasured == Spec => InfoIsMeasured
<1>1. IInv /\ [Next]_vars
        => [st = "SaveToDb" /\ st' = "Restore" /\ ~error /\ covMap # <<>> => info' = Measured]_vars
    <2> SUFFICES ASSUME IInv, Next, st = "SaveToDb", st' = "Restore", ~error, covMap # <<>>
                 PROVE  info' = Measured
        BY DEF vars
    <2>1. SaveToDb
        BY DEF Next, DriverStep, StartGathering, InstrumentFile, InstrumentFails, Instrumented,
               Compile, RunTests, EndRun, Restore, Done, PropagateCoverage, InitCovMap, Execute,
               Kill, CheckOut, Analyze, driver, Goto
    <2> QED BY <2>1, SaveMeasures DEF IInv
<1> QED BY <1>1, Invariance, PTL DEF Spec, InfoIsMeasured

\* No mutant is declared alive for lack of coverage in a region that the tests
\* executed, if the gathering measured anything (package.d:1607-1626).
THEOREM MarksMeasured == Spec => MarksAreMeasured
<1>1. IInv => (PropagateCoverage /\ covMap # <<>> => marked' \cap ran = {})
    <2> SUFFICES ASSUME IInv, PropagateCoverage, covMap # <<>>
                 PROVE  marked' \cap ran = {}
        OBVIOUS
    <2>1. st = "PropagateCoverage" /\ ~error
        BY DEF IInv, PropagateCoverage, RestoredWhenDone
    <2>2. info = Measured
        BY <2>1 DEF IInv, TableIsRan
    <2>3. \A r \in ran : info[r] = "covered"
        BY <2>2 DEF IInv, TypeOK, Measured, InfoOf
    <2> QED BY <2>3 DEF PropagateCoverage
<1> QED BY <1>1, Invariance, PTL DEF MarksAreMeasured
=============================================================================
