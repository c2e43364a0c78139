---------------------------- MODULE StoreProofs -----------------------------
(***************************************************************************)
(* What the containers of the game promise, and what the operations of the *)
(* game do to the store made of them, for every content.                   *)
(***************************************************************************)
EXTENDS Game, TLAPS, SequenceTheorems, WellFoundedInduction
-----------------------------------------------------------------------------

(* The packed array.                                                       *)

\* The values a container of elements of T may have.
ContainerOf(T) ==
  [values : Seq(T), indices : UNION {[K -> Nat] : K \in SUBSET Nat}, null : T,
   nextKey : Nat, added : Seq(T), removed : Seq(Nat)]

\* What one erasure promises: exactly one key is gone, and every other key
\* leads to the element it led to before.
ErasesOnly(c, d, k) ==
  /\ Keys(d) = Keys(c) \ {k}
  /\ \A j \in Keys(d) : d.values[d.indices[j]] = c.values[c.indices[j]]

\* The elements and the keys of a container have the types they should.
LEMMA ElementProperties ==
  ASSUME NEW T, NEW c \in ContainerOf(T)
  PROVE  /\ Len(c.values) \in Nat /\ DOMAIN c.values = 1 .. Len(c.values)
         /\ \A i \in 1 .. Len(c.values) : c.values[i] \in T
         /\ \A k \in Keys(c) : k \in Nat /\ c.indices[k] \in Nat
<1>1. c.values \in Seq(T) /\ \E K \in SUBSET Nat : c.indices \in [K -> Nat]
  BY DEF ContainerOf
<1>2. Len(c.values) \in Nat /\ DOMAIN c.values = 1 .. Len(c.values)
      /\ \A i \in 1 .. Len(c.values) : c.values[i] \in T
  BY <1>1, LenProperties, ElementOfSeq
<1>3. PICK K \in SUBSET Nat : c.indices \in [K -> Nat]
  BY <1>1
<1>4. \A k \in Keys(c) : k \in Nat /\ c.indices[k] \in Nat
  BY <1>3 DEF Keys
<1> QED BY <1>2, <1>4

\* The two members of Erase(c, k), element by element.
LEMMA EraseMembers ==
  ASSUME NEW T, \A t \in T : t.id \in Nat,
         NEW c \in ContainerOf(T), Packed(c), NEW k \in Keys(c)
  PROVE  LET d == Erase(c, k)
             n == Len(c.values)
             hole == c.indices[k]
         IN  /\ n > 0 /\ hole \in 1 .. n
             /\ d.values \in Seq(T) /\ Len(d.values) = n - 1
             /\ \A i \in 1 .. n - 1 :
                  d.values[i] = IF i = hole THEN c.values[n] ELSE c.values[i]
             /\ Keys(d) = Keys(c) \ {k}
             /\ \A j \in Keys(d) :
                  d.indices[j] = IF j = c.values[n].id THEN hole ELSE c.indices[j]
<1> DEFINE n == Len(c.values)
           hole == c.indices[k]
           filled == [c.values EXCEPT ![hole] = c.values[n]]
           d == Erase(c, k)
<1>1. n \in Nat /\ DOMAIN c.values = 1 .. n /\ \A i \in 1 .. n : c.values[i] \in T
  BY ElementProperties
<1>2. hole \in 1 .. n /\ n > 0
  BY <1>1 DEF Packed
<1>3. c.values[n].id \in Keys(c)
  BY <1>1, <1>2 DEF Packed
<1>4. c.values \in Seq(T)
  BY DEF ContainerOf
<1>5. c.values[n] \in T /\ n \in 1 .. n
  BY <1>1, <1>2
<1>6. /\ filled \in Seq(T) /\ Len(filled) = n
      /\ \A i \in 1 .. n : filled[i] = IF i = hole THEN c.values[n] ELSE c.values[i]
  BY ONLY <1>2, <1>4, <1>5, ExceptSeq
<1>7. /\ SubSeq(filled, 1, n - 1) \in Seq(T)
      /\ Len(SubSeq(filled, 1, n - 1)) = n - 1
      /\ \A i \in 1 .. n - 1 : SubSeq(filled, 1, n - 1)[i] = filled[i]
  <2>1. \A i \in 1 .. n - 1 : filled[i] \in T
    BY <1>1, <1>2, <1>6
  <2> HIDE DEF filled, n
  <2> QED BY <1>1, <1>2, <2>1, SubSeqProperties
<1>8. d.values = SubSeq(filled, 1, n - 1)
  BY <1>6 DEF Erase, ContainerOf
<1>9. Keys(d) = Keys(c) \ {k}
      /\ \A j \in Keys(d) : d.indices[j] = IF j = c.values[n].id THEN hole ELSE c.indices[j]
  BY <1>3 DEF Erase, ContainerOf, Keys
<1>10. /\ n > 0 /\ hole \in 1 .. n
       /\ d.values \in Seq(T) /\ Len(d.values) = n - 1
       /\ \A i \in 1 .. n - 1 : d.values[i] = IF i = hole THEN c.values[n] ELSE c.values[i]
  <2> HIDE DEF filled, n, hole, d
  <2> QED BY <1>1, <1>2, <1>6, <1>7, <1>8
<1> QED BY <1>9, <1>10

\* container::remove keeps the packed array and its index in step, and the
\* element that moved into the hole is still found (util.h:72-81).
THEOREM EraseKeepsPacked ==
  ASSUME NEW T, \A t \in T : t.id \in Nat,
         NEW c \in ContainerOf(T), Packed(c), NEW k \in Keys(c)
  PROVE  Packed(Erase(c, k)) /\ ErasesOnly(c, Erase(c, k), k)
<1> DEFINE n == Len(c.values)
           hole == c.indices[k]
           d == Erase(c, k)
<1>1. /\ n > 0 /\ hole \in 1 .. n
      /\ d.values \in Seq(T) /\ Len(d.values) = n - 1
      /\ \A i \in 1 .. n - 1 : d.values[i] = IF i = hole THEN c.values[n] ELSE c.values[i]
      /\ Keys(d) = Keys(c) \ {k}
      /\ \A j \in Keys(d) :
           d.indices[j] = IF j = c.values[n].id THEN hole ELSE c.indices[j]
  BY EraseMembers
<1>2. /\ n \in Nat /\ DOMAIN c.values = 1 .. n /\ DOMAIN d.values = 1 .. n - 1
      /\ \A j \in Keys(c) : c.indices[j] \in 1 .. n /\ c.values[c.indices[j]].id = j
      /\ \A i \in 1 .. n : c.values[i].id \in Keys(c) /\ c.indices[c.values[i].id] = i
  BY <1>1, ElementProperties, LenProperties DEF Packed
<1>a. hole = c.indices[k] /\ k \in Keys(c)
  OBVIOUS
<1> HIDE DEF d, n, hole
<1>3. ASSUME NEW j \in Keys(d)
      PROVE  d.indices[j] \in 1 .. n - 1 /\ d.values[d.indices[j]] = c.values[c.indices[j]]
  <2>1. j \in Keys(c) /\ j # k
    BY <1>1
  <2>2. CASE j = c.values[n].id
    <3>1. d.indices[j] = hole /\ c.indices[j] = n
      BY <1>1, <1>2, <2>2
    <3>2. hole # n
      BY <1>a, <1>2, <2>1, <3>1
    <3> QED BY <1>1, <1>2, <3>1, <3>2
  <2>3. CASE j # c.values[n].id
    <3>1. d.indices[j] = c.indices[j] /\ c.indices[j] \in 1 .. n
      BY <1>1, <1>2, <2>1, <2>3
    <3>2. c.indices[j] # n /\ c.indices[j] # hole
      BY <1>a, <1>2, <2>1, <2>3
    <3> QED BY <1>1, <1>2, <3>1, <3>2
  <2> QED BY <2>2, <2>3
<1>4. ASSUME NEW i \in 1 .. n - 1
      PROVE  d.values[i].id \in Keys(d) /\ d.indices[d.values[i].id] = i
  <2>1. i \in 1 .. n /\ i # n /\ n \in 1 .. n
    BY <1>1, <1>2
  <2>2. CASE i = hole
    <3>1. d.values[i] = c.values[n] /\ c.values[n].id \in Keys(c) /\ c.values[n].id # k
      BY <1>a, <1>1, <1>2, <2>1, <2>2
    <3> QED BY <1>1, <2>2, <3>1
  <2>3. CASE i # hole
    <3>1. d.values[i] = c.values[i] /\ c.values[i].id \in Keys(c) /\ c.values[i].id # k
          /\ c.values[i].id # c.values[n].id /\ c.indices[c.values[i].id] = i
      BY <1>a, <1>1, <1>2, <2>1, <2>3
    <3> QED BY <1>1, <3>1
  <2> QED BY <2>2, <2>3
<1>5. Packed(d)
  BY <1>1, <1>2, <1>3, <1>4 DEF Packed
<1>6. ErasesOnly(c, d, k)
  BY <1>1, <1>3 DEF ErasesOnly
<1> QED BY <1>5, <1>6 DEF d

\* The first loop of sync(): a new element is found where it was put, the
\* others where they were (util.h:169-173).
THEOREM EnterKeepsPacked ==
  ASSUME NEW T, \A t \in T : t.id \in Nat,
         NEW c \in ContainerOf(T), Packed(c), NEW v \in T, v.id \notin Keys(c)
  PROVE  /\ Packed(Enter(c, v)) /\ ErasesOnly(Enter(c, v), c, v.id)
         /\ Enter(c, v).values[Enter(c, v).indices[v.id]] = v
<1> DEFINE n == Len(c.values)
           d == Enter(c, v)
<1>1. /\ n \in Nat /\ DOMAIN c.values = 1 .. n
      /\ \A j \in Keys(c) : c.indices[j] \in 1 .. n /\ c.values[c.indices[j]].id = j
      /\ \A i \in 1 .. n : c.values[i].id \in Keys(c) /\ c.indices[c.values[i].id] = i
  BY ElementProperties DEF Packed
<1>2. c.values \in Seq(T)
  BY DEF ContainerOf
<1>3. d.values = Append(c.values, v)
  BY DEF Enter, ContainerOf
<1>4. /\ Keys(d) = Keys(c) \cup {v.id}
      /\ \A j \in Keys(d) : d.indices[j] = IF j = v.id THEN n + 1 ELSE c.indices[j]
  BY DEF Enter, ContainerOf, Keys
<1>5. /\ DOMAIN d.values = 1 .. n + 1 /\ d.values[n + 1] = v
      /\ \A i \in 1 .. n : d.values[i] = c.values[i]
  BY <1>1, <1>2, <1>3, AppendProperties
<1> HIDE DEF d
<1>6. ASSUME NEW j \in Keys(d)
      PROVE  d.indices[j] \in 1 .. n + 1 /\ d.values[d.indices[j]].id = j
  <2>1. CASE j = v.id
    <3>1. d.indices[j] = n + 1 /\ n + 1 \in 1 .. n + 1
      BY <1>1, <1>4, <2>1
    <3> QED BY <1>5, <2>1, <3>1
  <2>2. CASE j # v.id
    <3>1. j \in Keys(c) /\ d.indices[j] = c.indices[j]
      BY <1>4, <2>2
    <3>2. c.indices[j] \in 1 .. n /\ c.values[c.indices[j]].id = j
      BY <1>1, <3>1
    <3>3. d.values[c.indices[j]] = c.values[c.indices[j]] /\ c.indices[j] \in 1 .. n + 1
      BY <1>1, <1>5, <3>2
    <3> QED BY <3>1, <3>2, <3>3
  <2> QED BY <2>1, <2>2
<1>7. ASSUME NEW i \in 1 .. n + 1
      PROVE  d.values[i].id \in Keys(d) /\ d.indices[d.values[i].id] = i
  <2>1. CASE i = n + 1
    BY <1>4, <1>5, <2>1
  <2>2. CASE i # n + 1
    <3>1. i \in 1 .. n
      BY <1>1, <2>2
    <3>2. d.values[i] = c.values[i] /\ c.values[i].id \in Keys(c) /\ c.indices[c.values[i].id] = i
      BY <1>1, <1>5, <3>1
    <3>3. c.values[i].id # v.id
      BY <3>2
    <3> QED BY <1>4, <3>2, <3>3
  <2> QED BY <2>1, <2>2
<1>8. Packed(d)
  BY <1>5, <1>6, <1>7 DEF Packed
<1>9. ErasesOnly(d, c, v.id)
  BY <1>1, <1>4, <1>5 DEF ErasesOnly
<1> QED BY <1>1, <1>4, <1>5, <1>8, <1>9 DEF d
-----------------------------------------------------------------------------
(* Containers whose changes wait for sync().                               *)

\* Induction over the natural numbers, for the members of a set.
LEMMA SetOfNats ==
  ASSUME NEW S, 0 \in S, \A n \in Nat : n \in S => n + 1 \in S
  PROVE  Nat \subseteq S
<1> DEFINE R == OpToRel(<, Nat)
           T == Nat \ S
<1>1. SUFFICES ASSUME T # {} PROVE FALSE
  OBVIOUS
<1>2. IsWellFoundedOn(R, Nat)
  BY NatLessThanWellFounded, Zenon
<1> HIDE DEF R
<1>3. PICK x \in T : \A y \in T : ~(<<y, x>> \in R)
  BY <1>1, <1>2, WFMin
<1>4. x - 1 \in Nat /\ x - 1 < x /\ (x - 1) + 1 = x
  OBVIOUS
<1>5. <<x - 1, x>> \in R
  BY <1>4 DEF R, OpToRel
<1> QED BY <1>3, <1>4, <1>5

\* The elements of a container that are there: in the array or the buffer, and
\* not about to be removed.
Live(c) == (Keys(c) \cup Ids(c.added)) \ ToSet(c.removed)

\* Ids are given once, in order, the elements of the buffer have the last ones.
Fresh(c) ==
  /\ c.nextKey > Len(c.added)
  /\ \A k \in Keys(c) : k >= 1 /\ k + Len(c.added) < c.nextKey
  /\ \A i \in DOMAIN c.added : c.added[i].id = c.nextKey - 1 - Len(c.added) + i

\* A container with elements of T that obeys all its rules.
Sound(c, T, null) ==
  c \in ContainerOf(T) /\ c.null = null /\ Packed(c) /\ Fresh(c) /\ Removable(c)

\* Elements are records with an id.
Elements(T) ==
  \A v \in T : v.id \in Nat /\ \A n \in Nat : [v EXCEPT !.id = n] \in T /\ [v EXCEPT !.id = n].id = n

\* What a sound container has, spelled out.
Shape(c, T) ==
  /\ c \in ContainerOf(T) /\ Packed(c) /\ Fresh(c) /\ Removable(c)
  /\ c.nextKey \in Nat /\ c.nextKey >= 1 /\ Len(c.values) \in Nat /\ Len(c.added) \in Nat
  /\ DOMAIN c.values = 1 .. Len(c.values) /\ DOMAIN c.added = 1 .. Len(c.added)
  /\ DOMAIN c.removed = 1 .. Len(c.removed) /\ Len(c.removed) \in Nat
  /\ c.values \in Seq(T) /\ c.added \in Seq(T) /\ c.removed \in Seq(Nat)
  /\ \A i \in DOMAIN c.values : c.values[i] \in T
  /\ \A i \in DOMAIN c.added : c.added[i] \in T
  /\ \A k \in Keys(c) : k \in Nat /\ c.indices[k] \in DOMAIN c.values

\* A sound container has the shape its parts promise.
LEMMA SoundProperties ==
  ASSUME NEW T, NEW null, NEW c, Sound(c, T, null)
  PROVE  Shape(c, T) /\ c.null = null
<1>1. c \in ContainerOf(T) /\ c.null = null /\ Packed(c) /\ Fresh(c) /\ Removable(c)
  BY DEF Sound
<1>2. c.nextKey \in Nat /\ c.values \in Seq(T) /\ c.added \in Seq(T) /\ c.removed \in Seq(Nat)
  BY <1>1 DEF ContainerOf
<1>3. /\ Len(c.values) \in Nat /\ Len(c.added) \in Nat
      /\ DOMAIN c.values = 1 .. Len(c.values) /\ DOMAIN c.added = 1 .. Len(c.added)
      /\ DOMAIN c.removed = 1 .. Len(c.removed) /\ Len(c.removed) \in Nat
  BY <1>2, LenProperties
<1>4. /\ \A i \in DOMAIN c.values : c.values[i] \in T
      /\ \A i \in DOMAIN c.added : c.added[i] \in T
  BY <1>2, <1>3, ElementOfSeq
<1>5. c.nextKey >= 1
  BY <1>1, <1>2, <1>3 DEF Fresh
<1>6. \A k \in Keys(c) : k \in Nat /\ c.indices[k] \in DOMAIN c.values
  BY <1>1, ElementProperties DEF Packed
<1> QED BY <1>1, <1>2, <1>3, <1>4, <1>5, <1>6 DEF Shape

\* What operator[] finds, place by place.
Reads(c, null) ==
  /\ \A k \in Keys(c) \ ToSet(c.removed) :
       k \in Live(c) /\ Get(c, k) = c.values[c.indices[k]]
  /\ \A i \in DOMAIN c.added :
       /\ c.added[i].id \notin Keys(c) /\ PlaceInBuffer(c, c.added[i].id) = i
       /\ c.added[i].id \in Nat
       /\ c.added[i].id \notin ToSet(c.removed) =>
            c.added[i].id \in Live(c) /\ Get(c, c.added[i].id) = c.added[i]
  /\ \A k : k \notin Live(c) => Get(c, k) = null
  /\ \A k : k \in Live(c) <=> Has(c, k)

\* operator[] finds the array or the buffer element, and otherwise the null
\* element (util.h:125-144).
LEMMA GetProperties ==
  ASSUME NEW T, Elements(T), NEW null, NEW c, Sound(c, T, null)
  PROVE  Reads(c, null)
<1> Shape(c, T) /\ c.null = null
  BY SoundProperties
<1> USE DEF Shape
<1>1. \A k \in Keys(c) \ ToSet(c.removed) :
        k \in Live(c) /\ Get(c, k) = c.values[c.indices[k]]
  BY DEF Live, Get, InArray
<1>2. ASSUME NEW i \in DOMAIN c.added
      PROVE  /\ c.added[i].id \notin Keys(c) /\ PlaceInBuffer(c, c.added[i].id) = i
             /\ c.added[i].id \in Nat
             /\ c.added[i].id \notin ToSet(c.removed) =>
                  c.added[i].id \in Live(c) /\ Get(c, c.added[i].id) = c.added[i]
  <2> DEFINE k == c.added[i].id
  <2>1. k = c.nextKey - 1 - Len(c.added) + i /\ k \in Nat
    BY DEF Fresh, Elements
  <2>2. k \notin Keys(c)
    BY <2>1 DEF Fresh
  <2>3. \A j \in DOMAIN c.added : c.added[j].id = k => j = i
    BY <2>1 DEF Fresh
  <2>4. PlaceInBuffer(c, k) = i
    BY <2>3 DEF PlaceInBuffer
  <2>5. k \in Ids(c.added)
    BY DEF Ids
  <2> QED BY <2>1, <2>2, <2>4, <2>5 DEF Live, Get, InArray, InBuffer
<1>3. \A k : k \notin Live(c) => Get(c, k) = null
  BY DEF Live, Get, InArray, InBuffer
<1>4. \A k : k \in Live(c) <=> Has(c, k)
  BY DEF Live, Has, InArray, InBuffer
<1> QED BY <1>1, <1>2, <1>3, <1>4 DEF Reads

\* What operator[] returns for an id that is in use has that id.
LEMMA LiveProperties ==
  ASSUME NEW T, Elements(T), NEW null, NEW c, Sound(c, T, null), NEW k \in Live(c)
  PROVE  /\ Get(c, k) \in T /\ Get(c, k).id = k
         /\ k \in Nat /\ 1 <= k /\ k < c.nextKey
<1> Shape(c, T) /\ c.null = null
  BY SoundProperties
<1> Reads(c, null)
  BY GetProperties
<1> USE DEF Shape, Reads
<1>1. CASE k \in Keys(c)
  <2>1. Get(c, k) = c.values[c.indices[k]]
    BY <1>1 DEF Live
  <2> QED BY <1>1, <2>1 DEF Packed, Fresh
<1>2. CASE k \notin Keys(c)
  <2>1. PICK i \in DOMAIN c.added : c.added[i].id = k
    BY <1>2 DEF Live, Ids
  <2>2. Get(c, k) = c.added[i]
    BY <2>1 DEF Live
  <2> QED BY <2>1, <2>2 DEF Fresh
<1> QED BY <1>1, <1>2

\* A container starts sound and without elements.
LEMMA EmptySound ==
  ASSUME NEW T, NEW null \in T
  PROVE  /\ Sound(EmptyContainer(null), T, null)
         /\ Live(EmptyContainer(null)) = {}
<1> DEFINE c == EmptyContainer(null)
<1>1. c.indices \in [{} -> Nat] /\ Keys(c) = {}
  BY DEF EmptyContainer, Keys
<1>2. c \in ContainerOf(T)
  <2>1. c.indices \in UNION {[K -> Nat] : K \in SUBSET Nat}
    BY <1>1
  <2>2. c.values = <<>> /\ c.added = <<>> /\ c.removed = <<>>
    BY DEF EmptyContainer
  <2> QED BY <2>1, <2>2 DEF EmptyContainer, ContainerOf
<1>3. Packed(c) /\ Fresh(c) /\ Removable(c) /\ c.null = null
  BY <1>1 DEF Packed, Fresh, Removable, EmptyContainer
<1>4. Live(c) = {}
  BY <1>1 DEF Live, EmptyContainer, Ids
<1> QED BY <1>2, <1>3, <1>4 DEF Sound

\* buffered_container::add: one more element, with an id no element had.
LEMMA AddSpec ==
  ASSUME NEW T, Elements(T), NEW null, NEW c, Sound(c, T, null), NEW v \in T
  PROVE  LET d == Add(c, v)
             k == c.nextKey
         IN  /\ Sound(d, T, null)
             /\ k \in Nat /\ k # 0 /\ k \notin Live(c) /\ d.nextKey = k + 1
             /\ Live(d) = Live(c) \cup {k}
             /\ Get(d, k) = [v EXCEPT !.id = k] /\ [v EXCEPT !.id = k] \in T
             /\ \A j \in Live(c) : Get(d, j) = Get(c, j)
             /\ Len(d.added) = Len(c.added) + 1 /\ d.removed = c.removed /\ d.values = c.values
<1> DEFINE k == c.nextKey
           w == [v EXCEPT !.id = k]
           d == Add(c, v)
           n == Len(c.added)
<1> Shape(c, T) /\ c.null = null /\ Reads(c, null)
  BY SoundProperties, GetProperties
<1> USE DEF Shape, Reads
<1>1. /\ d = [c EXCEPT !.added = Append(c.added, w), !.nextKey = k + 1]
      /\ w \in T /\ w.id = k /\ k \in Nat /\ k # 0 /\ n \in Nat
  BY DEF Add, Elements, ContainerOf
<1>2. /\ d.values = c.values /\ d.indices = c.indices /\ d.null = c.null
      /\ d.removed = c.removed /\ d.nextKey = k + 1 /\ d.added = Append(c.added, w)
      /\ Keys(d) = Keys(c) /\ d \in ContainerOf(T)
  <2>1. Append(c.added, w) \in Seq(T)
    BY <1>1, AppendProperties
  <2>2. c \in ContainerOf(T) /\ k + 1 \in Nat
    BY <1>1
  <2>3. d = [c EXCEPT !.added = Append(c.added, w), !.nextKey = k + 1]
    BY <1>1
  <2> HIDE DEF w, n, k, d
  <2> QED BY ONLY <2>1, <2>2, <2>3 DEF ContainerOf, Keys
<1> HIDE DEF d, w
<1>3. /\ Len(d.added) = n + 1 /\ DOMAIN d.added = 1 .. n + 1 /\ d.added[n + 1] = w
      /\ \A i \in DOMAIN c.added : d.added[i] = c.added[i]
  BY <1>1, <1>2
<1>4. Ids(d.added) = Ids(c.added) \cup {k}
  <2>1. \A i \in DOMAIN d.added : i \in DOMAIN c.added \/ i = n + 1
    BY <1>3
  <2>2. n + 1 \in DOMAIN d.added /\ \A i \in DOMAIN c.added : i \in DOMAIN d.added
    BY <1>3
  <2> QED BY <1>1, <1>3, <2>1, <2>2 DEF Ids
<1>5. Packed(d) /\ d.null = null
  BY <1>2 DEF Packed
<1>6. Fresh(d)
  <2>1. \A i \in DOMAIN d.added : d.added[i].id = d.nextKey - 1 - Len(d.added) + i
    <3> TAKE i \in DOMAIN d.added
    <3>1. CASE i \in DOMAIN c.added
      BY <1>1, <1>2, <1>3, <3>1 DEF Fresh
    <3>2. CASE i = n + 1
      BY <1>1, <1>2, <1>3, <3>2
    <3> QED BY <1>3, <3>1, <3>2
  <2>2. d.nextKey > Len(d.added)
    BY <1>1, <1>2, <1>3 DEF Fresh
  <2>3. \A j \in Keys(d) : j >= 1 /\ j + Len(d.added) < d.nextKey
    BY <1>1, <1>2, <1>3 DEF Fresh
  <2> QED BY <2>1, <2>2, <2>3 DEF Fresh
<1>7. Removable(d)
  BY <1>2, <1>4 DEF Removable, Known
<1>8. Sound(d, T, null)
  BY <1>2, <1>5, <1>6, <1>7 DEF Sound
<1> Reads(d, null)
  BY <1>8, GetProperties
<1>9. k \notin Live(c) /\ k \notin ToSet(c.removed)
  <2>1. \A i \in DOMAIN c.removed : c.removed[i] \in Keys(c) \cup Ids(c.added)
    BY DEF Removable, Known
  <2>2. k \notin Keys(c) \cup Ids(c.added)
    BY <1>1 DEF Fresh, Ids
  <2> QED BY <2>1, <2>2 DEF ToSet, Live
<1>10. Live(d) = Live(c) \cup {k}
  BY <1>2, <1>4, <1>9 DEF Live
<1>11. Get(d, k) = w
  BY <1>1, <1>2, <1>3, <1>8, <1>9
<1>12. ASSUME NEW j \in Live(c) PROVE Get(d, j) = Get(c, j)
  <2>1. CASE j \in Keys(c)
    BY <1>2, <1>8, <2>1 DEF Live
  <2>2. CASE j \notin Keys(c)
    <3>1. PICK i \in DOMAIN c.added : c.added[i].id = j
      BY <2>2 DEF Live, Ids
    <3>2. i \in DOMAIN d.added /\ d.added[i] = c.added[i]
      BY <1>3, <3>1
    <3>3. j \notin ToSet(c.removed)
      BY DEF Live
    <3>4. Get(c, j) = c.added[i]
      BY <3>1, <3>3
    <3>5. Get(d, j) = d.added[i]
      BY <1>2, <1>8, <3>1, <3>2, <3>3
    <3> QED BY <3>2, <3>4, <3>5
  <2> QED BY <2>1, <2>2
<1> QED
  <2> USE DEF w
  <2> HIDE DEF w
  <2> QED BY <1>1, <1>2, <1>3, <1>8, <1>9, <1>10, <1>11, <1>12 DEF d, w

\* An assignment through operator[] changes that element and no other.
LEMMA PutSpec ==
  ASSUME NEW T, Elements(T), NEW null, NEW c, Sound(c, T, null),
         NEW k \in Live(c), NEW v \in T, v.id = k
  PROVE  LET d == Put(c, k, v)
         IN  /\ Sound(d, T, null)
             /\ Live(d) = Live(c)
             /\ Get(d, k) = v /\ \A j \in Live(c) \ {k} : Get(d, j) = Get(c, j)
             /\ d.nextKey = c.nextKey /\ d.removed = c.removed
             /\ Len(d.added) = Len(c.added)
             /\ Len(d.values) = Len(c.values)
             /\ \A i \in DOMAIN c.values :
                  d.values[i] = IF c.values[i].id = k THEN v ELSE c.values[i]
<1> DEFINE d == Put(c, k, v)
<1> Shape(c, T) /\ c.null = null /\ Reads(c, null)
  BY SoundProperties, GetProperties
<1> USE DEF Shape, Reads
<1>0. k \notin ToSet(c.removed)
  BY DEF Live
<1>1. CASE k \in Keys(c)
  <2> DEFINE p == c.indices[k]
             vals == [c.values EXCEPT ![p] = v]
  <2>1. d = [c EXCEPT !.values = vals]
    BY <1>0, <1>1 DEF Put, InArray, ContainerOf
  <2>2. p \in DOMAIN c.values /\ c.values[p].id = k
    BY <1>1 DEF Packed
  <2>3. /\ vals \in Seq(T) /\ Len(vals) = Len(c.values) /\ DOMAIN vals = DOMAIN c.values
        /\ \A i \in DOMAIN c.values : vals[i] = IF i = p THEN v ELSE c.values[i]
    BY <2>2, ExceptSeq
  <2>4. /\ d.values = vals /\ d.indices = c.indices /\ d.null = c.null
        /\ d.removed = c.removed /\ d.nextKey = c.nextKey /\ d.added = c.added
        /\ Keys(d) = Keys(c) /\ d \in ContainerOf(T)
    BY <2>1, <2>3 DEF ContainerOf, Keys
  <2> HIDE DEF vals, d
  <2>5. \A i \in DOMAIN c.values : (c.values[i].id = k) <=> (i = p)
    BY <2>2 DEF Packed
  <2>6. \A i \in DOMAIN c.values : vals[i].id = c.values[i].id
    BY <2>2, <2>3
  <2>7. Packed(d)
    <3>1. Packed(c)
      OBVIOUS
    <3> QED BY ONLY <2>3, <2>4, <2>6, <3>1 DEF Packed
  <2>8. Fresh(d) /\ Removable(d)
    BY <2>4 DEF Fresh, Removable, Known
  <2>9. Sound(d, T, null) /\ Live(d) = Live(c)
    BY <2>4, <2>7, <2>8 DEF Sound, Live
  <2> Reads(d, null)
    BY <2>9, GetProperties
  <2>10. Get(d, k) = v
    <3>1. Get(d, k) = d.values[d.indices[k]]
      BY <1>0, <1>1, <2>4, <2>9
    <3> QED BY <2>2, <2>3, <2>4, <3>1
  <2>11. ASSUME NEW j \in Live(c) \ {k} PROVE Get(d, j) = Get(c, j)
    <3>1. CASE j \in Keys(c)
      <4>1. Get(c, j) = c.values[c.indices[j]] /\ Get(d, j) = d.values[d.indices[j]]
        BY <2>4, <2>9, <3>1 DEF Live
      <4>2. c.indices[j] \in DOMAIN c.values /\ c.indices[j] # p
        BY <2>2, <3>1 DEF Packed
      <4> QED BY <2>3, <2>4, <4>1, <4>2
    <3>2. CASE j \notin Keys(c)
      <4>1. PICK i \in DOMAIN c.added : c.added[i].id = j
        BY <3>2 DEF Live, Ids
      <4>2. Get(c, j) = c.added[i]
        BY <4>1 DEF Live
      <4>3. Get(d, j) = d.added[i]
        BY <4>1, <2>4, <2>9 DEF Live
      <4> QED BY <2>4, <4>2, <4>3
    <3> QED BY <3>1, <3>2
  <2> QED BY <2>3, <2>4, <2>5, <2>9, <2>10, <2>11 DEF d
<1>2. CASE k \notin Keys(c)
  <2>1. PICK q \in DOMAIN c.added : c.added[q].id = k
    BY <1>2 DEF Live, Ids
  <2>2. PlaceInBuffer(c, k) = q
    BY <2>1
  <2> DEFINE add == [c.added EXCEPT ![q] = v]
  <2>3. d = [c EXCEPT !.added = add]
    BY <1>0, <1>2, <2>1, <2>2 DEF Put, InArray, InBuffer, Live, Ids, ContainerOf
  <2>4. /\ add \in Seq(T) /\ Len(add) = Len(c.added) /\ DOMAIN add = DOMAIN c.added
        /\ \A i \in DOMAIN c.added : add[i] = IF i = q THEN v ELSE c.added[i]
    BY <2>1, ExceptSeq
  <2>5. /\ d.values = c.values /\ d.indices = c.indices /\ d.null = c.null
        /\ d.removed = c.removed /\ d.nextKey = c.nextKey /\ d.added = add
        /\ Keys(d) = Keys(c) /\ d \in ContainerOf(T)
    BY <2>3, <2>4 DEF ContainerOf, Keys
  <2> HIDE DEF add, d
  <2>6. \A i \in DOMAIN c.added : add[i].id = c.added[i].id
    BY <2>1, <2>4
  <2>7. Ids(add) = Ids(c.added)
    BY <2>4, <2>6 DEF Ids
  <2>8a. Packed(d)
    BY <2>5 DEF Packed
  <2>8b. Fresh(d)
    BY <2>4, <2>5, <2>6 DEF Fresh
  <2>8c. Removable(d)
    BY <2>5, <2>7 DEF Removable, Known
  <2>8. Packed(d) /\ Fresh(d) /\ Removable(d)
    BY <2>8a, <2>8b, <2>8c
  <2>9. Sound(d, T, null) /\ Live(d) = Live(c)
    BY <2>5, <2>7, <2>8 DEF Sound, Live
  <2> Reads(d, null)
    BY <2>9, GetProperties
  <2>10. \A i \in DOMAIN c.added : c.added[i].id \in Live(c) =>
           Get(d, c.added[i].id) = add[i] /\ Get(c, c.added[i].id) = c.added[i]
    BY <2>4, <2>5, <2>6, <2>9 DEF Live
  <2>11. Get(d, k) = v
    BY <2>1, <2>4, <2>10
  <2>12. ASSUME NEW j \in Live(c) \ {k} PROVE Get(d, j) = Get(c, j)
    <3>1. CASE j \in Keys(c)
      BY <2>5, <2>9, <3>1 DEF Live
    <3>2. CASE j \notin Keys(c)
      <4>1. PICK i \in DOMAIN c.added : c.added[i].id = j
        BY <3>2 DEF Live, Ids
      <4> QED BY <2>1, <2>4, <2>10, <4>1
    <3> QED BY <3>1, <3>2
  <2>13. \A i \in DOMAIN c.values : c.values[i].id # k
    BY <1>2 DEF Packed
  <2> QED BY <2>4, <2>5, <2>9, <2>11, <2>12, <2>13 DEF d
<1> QED BY <1>1, <1>2

\* buffered_container::remove: the element is gone at once.
LEMMA RemoveLaterSpec ==
  ASSUME NEW T, Elements(T), NEW null, NEW c, Sound(c, T, null), NEW k \in Live(c)
  PROVE  LET d == RemoveLater(c, k)
         IN  /\ Sound(d, T, null)
             /\ Live(d) = Live(c) \ {k}
             /\ \A j \in Live(d) : Get(d, j) = Get(c, j)
             /\ d.nextKey = c.nextKey /\ d.added = c.added /\ d.values = c.values
<1> DEFINE d == RemoveLater(c, k)
           n == Len(c.removed)
<1> Shape(c, T) /\ c.null = null /\ Reads(c, null)
  BY SoundProperties, GetProperties
<1> USE DEF Shape, Reads
<1>1. k \in Nat
  BY LiveProperties
<1>2. /\ d.values = c.values /\ d.indices = c.indices /\ d.null = c.null
      /\ d.removed = Append(c.removed, k) /\ d.nextKey = c.nextKey /\ d.added = c.added
      /\ Keys(d) = Keys(c) /\ d \in ContainerOf(T)
  <2>1. Append(c.removed, k) \in Seq(Nat)
    BY <1>1, AppendProperties
  <2> QED BY <1>1, <2>1 DEF RemoveLater, ContainerOf, Keys
<1> HIDE DEF d
<1>3. /\ DOMAIN d.removed = 1 .. n + 1 /\ d.removed[n + 1] = k
      /\ \A i \in DOMAIN c.removed : d.removed[i] = c.removed[i]
  BY <1>1, <1>2
<1>4. ToSet(d.removed) = ToSet(c.removed) \cup {k}
  <2>1. \A i \in DOMAIN d.removed : i \in DOMAIN c.removed \/ i = n + 1
    BY <1>3
  <2>2. n + 1 \in DOMAIN d.removed /\ \A i \in DOMAIN c.removed : i \in DOMAIN d.removed
    BY <1>3
  <2>3. \A x : x \in ToSet(d.removed) => x \in ToSet(c.removed) \cup {k}
    BY <1>3, <2>1 DEF ToSet
  <2>4. \A x \in ToSet(c.removed) : x \in ToSet(d.removed)
    BY <1>3, <2>2 DEF ToSet
  <2>5. k \in ToSet(d.removed)
    BY <1>3, <2>2 DEF ToSet
  <2> QED BY <2>3, <2>4, <2>5
<1>5. k \notin ToSet(c.removed) /\ k \in Keys(c) \cup Ids(c.added)
  BY DEF Live
<1>6. Removable(d)
  <2>1. \A i \in DOMAIN c.removed : c.removed[i] # k
    BY <1>5 DEF ToSet
  <2>2. \A i, j \in DOMAIN d.removed : d.removed[i] = d.removed[j] => i = j
    <3> TAKE i, j \in DOMAIN d.removed
    <3>1. (i \in DOMAIN c.removed \/ i = n + 1) /\ (j \in DOMAIN c.removed \/ j = n + 1)
      BY <1>3
    <3> QED BY <1>3, <2>1, <3>1 DEF Removable
  <2>3. \A i \in DOMAIN d.removed : Known(d, d.removed[i])
    <3> TAKE i \in DOMAIN d.removed
    <3>1. i \in DOMAIN c.removed \/ i = n + 1
      BY <1>3
    <3> QED BY <1>2, <1>3, <1>5, <3>1 DEF Removable, Known
  <2> QED BY <2>2, <2>3 DEF Removable
<1>7. Packed(d) /\ Fresh(d)
  BY <1>2 DEF Packed, Fresh
<1>8. Sound(d, T, null) /\ Live(d) = Live(c) \ {k}
  BY <1>2, <1>4, <1>6, <1>7 DEF Sound, Live
<1> Reads(d, null)
  BY <1>8, GetProperties
<1>9. ASSUME NEW j \in Live(d) PROVE Get(d, j) = Get(c, j)
  <2>1. j \in Live(c) /\ j \notin ToSet(d.removed) /\ j \notin ToSet(c.removed)
    BY <1>4, <1>8 DEF Live
  <2>2. CASE j \in Keys(c)
    <3>1. Get(c, j) = c.values[c.indices[j]]
      BY <2>1, <2>2
    <3>2. Get(d, j) = d.values[d.indices[j]]
      BY <1>2, <2>1, <2>2
    <3> QED BY <1>2, <3>1, <3>2
  <2>3. CASE j \notin Keys(c)
    <3>1. PICK i \in DOMAIN c.added : c.added[i].id = j
      BY <2>1, <2>3 DEF Live, Ids
    <3>2. Get(c, j) = c.added[i]
      BY <2>1, <3>1
    <3>3. Get(d, j) = d.added[i]
      BY <1>2, <1>8, <2>1, <3>1
    <3> QED BY <1>2, <3>2, <3>3
  <2> QED BY <2>2, <2>3
<1> QED BY <1>2, <1>8, <1>9 DEF d

\* What is in the array: the live elements, as long as nothing waits for sync().
LEMMA ArraySpec ==
  ASSUME NEW T, Elements(T), NEW null, NEW c, Sound(c, T, null)
  PROVE  /\ \A i \in DOMAIN c.values :
              c.values[i].id \in Live(c) => Get(c, c.values[i].id) = c.values[i]
         /\ \A i, j \in DOMAIN c.values : c.values[i].id = c.values[j].id => i = j
         /\ c.removed = <<>> => \A i \in DOMAIN c.values : c.values[i].id \in Live(c)
         /\ c.added = <<>> =>
              \A k \in Live(c) : \E i \in DOMAIN c.values : c.values[i].id = k
<1> Shape(c, T) /\ c.null = null /\ Reads(c, null)
  BY SoundProperties, GetProperties
<1> USE DEF Shape, Reads
<1>1. \A i \in DOMAIN c.values : c.values[i].id \in Keys(c) /\ c.indices[c.values[i].id] = i
  BY DEF Packed
<1>2. \A i \in DOMAIN c.values :
        c.values[i].id \in Live(c) => Get(c, c.values[i].id) = c.values[i]
  BY <1>1 DEF Live
<1>3. \A i, j \in DOMAIN c.values : c.values[i].id = c.values[j].id => i = j
  BY <1>1
<1>4. ASSUME c.removed = <<>>, NEW i \in DOMAIN c.values PROVE c.values[i].id \in Live(c)
  BY <1>1, <1>4 DEF Live, ToSet
<1>5. ASSUME c.added = <<>>, NEW k \in Live(c)
      PROVE  \E i \in DOMAIN c.values : c.values[i].id = k
  <2>1. k \in Keys(c)
    BY <1>5 DEF Live, Ids
  <2> QED BY <2>1 DEF Packed
<1> QED BY <1>2, <1>3, <1>4, <1>5

\* The elements of the array are assigned to one by one, as a system of the
\* game does that goes through values().
Reassigned(c, w) == [c EXCEPT !.values = w]

\* Assigning to elements through values() keeps a container sound.
LEMMA ReplaceSpec ==
  ASSUME NEW T, Elements(T), NEW null, NEW c, Sound(c, T, null),
         c.added = <<>>, c.removed = <<>>,
         NEW w \in Seq(T), Len(w) = Len(c.values),
         \A i \in DOMAIN c.values : w[i].id = c.values[i].id
  PROVE  LET d == Reassigned(c, w)
         IN  /\ Sound(d, T, null) /\ Live(d) = Live(c)
             /\ \A i \in DOMAIN c.values : Get(d, c.values[i].id) = w[i]
             /\ d.added = <<>> /\ d.removed = <<>> /\ d.values = w /\ d.nextKey = c.nextKey
<1> DEFINE d == Reassigned(c, w)
<1> Shape(c, T) /\ c.null = null /\ Reads(c, null)
  BY SoundProperties, GetProperties
<1> USE DEF Shape, Reads
<1>1. /\ d.values = w /\ d.indices = c.indices /\ d.null = c.null
      /\ d.removed = c.removed /\ d.nextKey = c.nextKey /\ d.added = c.added
      /\ Keys(d) = Keys(c) /\ d \in ContainerOf(T)
  <2> c \in ContainerOf(T)
    OBVIOUS
  <2> QED BY ONLY c \in ContainerOf(T), w \in Seq(T) DEF ContainerOf, Keys, Reassigned
<1>2. DOMAIN w = DOMAIN c.values
  BY LenProperties
<1> HIDE DEF d
<1>3. Packed(d)
  BY <1>1, <1>2 DEF Packed
<1>4. Fresh(d)
  BY <1>1 DEF Fresh
<1>5. Removable(d)
  BY <1>1 DEF Removable, Known
<1>6. Sound(d, T, null) /\ Live(d) = Live(c)
  BY <1>1, <1>3, <1>4, <1>5 DEF Sound, Live
<1>7. ASSUME NEW i \in DOMAIN c.values PROVE Get(d, c.values[i].id) = w[i]
  <2>1. i \in DOMAIN d.values /\ d.values[i].id = c.values[i].id
    BY <1>1, <1>2
  <2>2. d.removed = <<>>
    BY <1>1
  <2> QED BY <1>1, <1>6, <2>1, <2>2, ArraySpec
<1> QED BY <1>1, <1>6, <1>7 DEF d
-----------------------------------------------------------------------------
(* sync().                                                                 *)

\* The recursive function of the first loop is what it says.
LEMMA EnteredStepwise ==
  ASSUME NEW c, Len(c.added) \in Nat
  PROVE  \E f : /\ f[0] = c
                /\ \A n \in 1 .. Len(c.added) : f[n] = Enter(f[n - 1], c.added[n])
                /\ Entered(c) = f[Len(c.added)]
<1> DEFINE Is(g, m) == g = [n \in 0 .. m |-> IF n = 0 THEN c ELSE Enter(g[n - 1], c.added[n])]
           S == {m \in Nat : \E g : Is(g, m)}
           last == Len(c.added)
<1>1. 0 \in S
  <2> DEFINE g == [n \in 0 .. 0 |-> c]
  <2>1. Is(g, 0)
    OBVIOUS
  <2> QED BY <2>1
<1>2. ASSUME NEW m \in Nat, m \in S PROVE m + 1 \in S
  <2>1. PICK g : Is(g, m)
    BY <1>2
  <2> DEFINE h == [n \in 0 .. m + 1 |-> IF n = m + 1 THEN Enter(g[m], c.added[m + 1]) ELSE g[n]]
  <2>2. ASSUME NEW n \in 0 .. m + 1
        PROVE  h[n] = IF n = 0 THEN c ELSE Enter(h[n - 1], c.added[n])
    <3>1. CASE n = m + 1
      BY <3>1
    <3>2. CASE n # m + 1
      <4>1. n \in 0 .. m /\ h[n] = g[n] /\ (n # 0 => h[n - 1] = g[n - 1])
        BY <3>2
      <4>2. g[n] = IF n = 0 THEN c ELSE Enter(g[n - 1], c.added[n])
        BY <2>1, <4>1
      <4> QED BY <4>1, <4>2
    <3> QED BY <3>1, <3>2
  <2>3. Is(h, m + 1)
    BY <2>2
  <2> HIDE DEF h, Is
  <2> QED BY <2>3
<1>3. Nat \subseteq S
  <2> HIDE DEF S
  <2> QED BY <1>1, <1>2, SetOfNats
<1>4. \E g : Is(g, last)
  BY <1>3
<1> DEFINE f == CHOOSE g : Is(g, last)
<1>5. Is(f, last)
  BY <1>4
<1>6. Entered(c) = f[last]
  BY DEF Entered
<1> HIDE DEF f
<1>7. f[0] = c /\ \A n \in 1 .. last : f[n] = Enter(f[n - 1], c.added[n])
  BY <1>5
<1> QED BY <1>6, <1>7

\* The recursive function of the second loop is what it says.
LEMMA ErasedStepwise ==
  ASSUME NEW c, Len(c.removed) \in Nat
  PROVE  \E f : /\ f[0] = c
                /\ \A n \in 1 .. Len(c.removed) : f[n] = Erase(f[n - 1], c.removed[n])
                /\ Erased(c) = f[Len(c.removed)]
<1> DEFINE Is(g, m) == g = [n \in 0 .. m |-> IF n = 0 THEN c ELSE Erase(g[n - 1], c.removed[n])]
           S == {m \in Nat : \E g : Is(g, m)}
           last == Len(c.removed)
<1>1. 0 \in S
  <2> DEFINE g == [n \in 0 .. 0 |-> c]
  <2>1. Is(g, 0)
    OBVIOUS
  <2> QED BY <2>1
<1>2. ASSUME NEW m \in Nat, m \in S PROVE m + 1 \in S
  <2>1. PICK g : Is(g, m)
    BY <1>2
  <2> DEFINE h == [n \in 0 .. m + 1 |-> IF n = m + 1 THEN Erase(g[m], c.removed[m + 1]) ELSE g[n]]
  <2>2. ASSUME NEW n \in 0 .. m + 1
        PROVE  h[n] = IF n = 0 THEN c ELSE Erase(h[n - 1], c.removed[n])
    <3>1. CASE n = m + 1
      BY <3>1
    <3>2. CASE n # m + 1
      <4>1. n \in 0 .. m /\ h[n] = g[n] /\ (n # 0 => h[n - 1] = g[n - 1])
        BY <3>2
      <4>2. g[n] = IF n = 0 THEN c ELSE Erase(g[n - 1], c.removed[n])
        BY <2>1, <4>1
      <4> QED BY <4>1, <4>2
    <3> QED BY <3>1, <3>2
  <2>3. Is(h, m + 1)
    BY <2>2
  <2> HIDE DEF h, Is
  <2> QED BY <2>3
<1>3. Nat \subseteq S
  <2> HIDE DEF S
  <2> QED BY <1>1, <1>2, SetOfNats
<1>4. \E g : Is(g, last)
  BY <1>3
<1> DEFINE f == CHOOSE g : Is(g, last)
<1>5. Is(f, last)
  BY <1>4
<1>6. Erased(c) = f[last]
  BY DEF Erased
<1> HIDE DEF f
<1>7. f[0] = c /\ \A n \in 1 .. last : f[n] = Erase(f[n - 1], c.removed[n])
  BY <1>5
<1> QED BY <1>6, <1>7

\* What a sync() may not touch while it goes through its loops.
SameBut(c, d) ==
  /\ d.null = c.null /\ d.nextKey = c.nextKey /\ d.added = c.added /\ d.removed = c.removed

\* The element a key of the index leads to.
Lookup(c, k) == c.values[c.indices[k]]

\* Enter adds one key and leaves the rest of the container alone.
LEMMA EnterMembers ==
  ASSUME NEW T, \A t \in T : t.id \in Nat,
         NEW c \in ContainerOf(T), NEW v \in T
  PROVE  /\ Enter(c, v) \in ContainerOf(T) /\ SameBut(c, Enter(c, v))
         /\ Keys(Enter(c, v)) = Keys(c) \cup {v.id}
<1> DEFINE K == Keys(c) \cup {v.id}
           ix == [j \in K |-> IF j = v.id THEN Len(c.values) + 1 ELSE c.indices[j]]
           vs == Append(c.values, v)
<1>1. Enter(c, v) = [c EXCEPT !.values = vs, !.indices = ix]
  BY DEF Enter, ContainerOf
<1>2. vs \in Seq(T)
  BY AppendProperties DEF ContainerOf
<1>3. ix \in [K -> Nat] /\ K \in SUBSET Nat
  <2>1. \A j \in Keys(c) : j \in Nat /\ c.indices[j] \in Nat
    BY ElementProperties
  <2>2. Len(c.values) + 1 \in Nat /\ v.id \in Nat
    BY ElementProperties
  <2> QED BY <2>1, <2>2
<1>4. ix \in UNION {[L -> Nat] : L \in SUBSET Nat} /\ DOMAIN ix = K
  BY <1>3
<1> HIDE DEF ix, vs
<1> QED BY <1>1, <1>2, <1>4 DEF ContainerOf, SameBut, Keys

\* Erase leaves the rest of the container alone.
LEMMA EraseStays ==
  ASSUME NEW T, \A t \in T : t.id \in Nat,
         NEW c \in ContainerOf(T), Packed(c), NEW k \in Keys(c)
  PROVE  Erase(c, k) \in ContainerOf(T) /\ SameBut(c, Erase(c, k))
<1> DEFINE d == Erase(c, k)
           n == Len(c.values)
<1>1. /\ n > 0 /\ c.indices[k] \in 1 .. n /\ d.values \in Seq(T)
      /\ Keys(d) = Keys(c) \ {k}
      /\ \A j \in Keys(d) :
           d.indices[j] = IF j = c.values[n].id THEN c.indices[k] ELSE c.indices[j]
  BY EraseMembers
<1>2. \A j \in Keys(c) : j \in Nat /\ c.indices[j] \in Nat
  BY ElementProperties
<1> DEFINE vs == d.values
           ix == d.indices
<1>3. d = [c EXCEPT !.values = vs, !.indices = ix]
  BY DEF Erase, ContainerOf
<1>4. ix = [j \in DOMAIN ix |-> ix[j]]
  BY DEF Erase, ContainerOf
<1>5. \A j \in Keys(d) : d.indices[j] \in Nat
  BY <1>1, <1>2
<1>6. ix \in [Keys(d) -> Nat]
  BY <1>4, <1>5 DEF Keys
<1>7. ix \in UNION {[L -> Nat] : L \in SUBSET Nat}
  BY <1>1, <1>2, <1>6
<1>8. vs \in Seq(T)
  BY <1>1
<1> HIDE DEF ix, vs, d
<1>9. d \in ContainerOf(T) /\ SameBut(c, d)
  BY <1>3, <1>7, <1>8 DEF ContainerOf, SameBut
<1> QED BY <1>9 DEF d

\* After the first loop everything that was added is in the array.
LEMMA EnteredSpec ==
  ASSUME NEW T, Elements(T), NEW null, NEW c, Sound(c, T, null)
  PROVE  LET e == Entered(c)
         IN  /\ e \in ContainerOf(T) /\ Packed(e) /\ SameBut(c, e)
             /\ Keys(e) = Keys(c) \cup Ids(c.added)
             /\ \A k \in Keys(c) : Lookup(e, k) = Lookup(c, k)
             /\ \A i \in DOMAIN c.added : Lookup(e, c.added[i].id) = c.added[i]
<1> Shape(c, T) /\ c.null = null /\ Reads(c, null)
  BY SoundProperties, GetProperties
<1> USE DEF Shape, Reads
<1>t. \A t \in T : t.id \in Nat
  BY DEF Elements
<1> DEFINE last == Len(c.added)
<1>1. PICK f : /\ f[0] = c
               /\ \A n \in 1 .. last : f[n] = Enter(f[n - 1], c.added[n])
               /\ Entered(c) = f[last]
  BY EnteredStepwise
<1> DEFINE First(n) == {c.added[i].id : i \in 1 .. n}
           Ok(n) == /\ f[n] \in ContainerOf(T) /\ Packed(f[n]) /\ SameBut(c, f[n])
                    /\ Keys(f[n]) = Keys(c) \cup First(n)
                    /\ \A k \in Keys(c) : Lookup(f[n], k) = Lookup(c, k)
                    /\ \A i \in 1 .. n : Lookup(f[n], c.added[i].id) = c.added[i]
           S == {n \in Nat : n <= last => Ok(n)}
<1>2. 0 \in S
  <2>1. First(0) = {}
    OBVIOUS
  <2>2. c \in ContainerOf(T) /\ Packed(c)
    OBVIOUS
  <2> HIDE DEF First
  <2>3. Ok(0)
    BY <1>1, <2>1, <2>2 DEF SameBut
  <2> QED BY <2>3
<1>3. ASSUME NEW n \in Nat, n \in S PROVE n + 1 \in S
  <2> SUFFICES ASSUME n + 1 <= last PROVE Ok(n + 1)
    OBVIOUS
  <2> DEFINE a == f[n]
             v == c.added[n + 1]
             b == f[n + 1]
  <2>1. Ok(n)
    BY <1>3
  <2>2. n + 1 \in DOMAIN c.added /\ n + 1 \in 1 .. last /\ v \in T
    OBVIOUS
  <2>3. b = Enter(a, v)
    BY <1>1, <2>2
  <2>4. v.id \notin Keys(a)
    <3>1. v.id \notin Keys(c)
      BY <2>2
    <3>2. ASSUME NEW i \in 1 .. n PROVE c.added[i].id # v.id
      <4>1. i \in DOMAIN c.added /\ i # n + 1
        BY <2>2
      <4>2. /\ c.added[i].id = c.nextKey - 1 - Len(c.added) + i
            /\ v.id = c.nextKey - 1 - Len(c.added) + (n + 1)
        BY <2>2, <4>1 DEF Fresh
      <4> QED BY <4>1, <4>2
    <3> QED BY <2>1, <3>1, <3>2
  <2>5. First(n + 1) = First(n) \cup {v.id}
    <3>1. \A i \in 1 .. n + 1 : i \in 1 .. n \/ i = n + 1
      OBVIOUS
    <3>2. n + 1 \in 1 .. n + 1 /\ \A i \in 1 .. n : i \in 1 .. n + 1
      OBVIOUS
    <3> QED BY <3>1, <3>2
  <2>6. /\ b \in ContainerOf(T) /\ SameBut(a, b) /\ Keys(b) = Keys(a) \cup {v.id}
    <3>1. a \in ContainerOf(T)
      BY <2>1
    <3> HIDE DEF a, b, v
    <3>2. /\ Enter(a, v) \in ContainerOf(T) /\ SameBut(a, Enter(a, v))
          /\ Keys(Enter(a, v)) = Keys(a) \cup {v.id}
      BY ONLY <1>t, <2>2, <3>1, EnterMembers
    <3> QED BY <2>3, <3>2
  <2>7. Packed(b) /\ ErasesOnly(b, a, v.id) /\ Lookup(b, v.id) = v
    <3>1. a \in ContainerOf(T) /\ Packed(a)
      BY <2>1
    <3> HIDE DEF a, b, v
    <3>2. /\ Packed(Enter(a, v)) /\ ErasesOnly(Enter(a, v), a, v.id)
          /\ Enter(a, v).values[Enter(a, v).indices[v.id]] = v
      BY ONLY <1>t, <2>2, <2>4, <3>1, EnterKeepsPacked
    <3> QED BY <2>3, <3>2 DEF Lookup
  <2>8. \A k \in Keys(a) : Lookup(b, k) = Lookup(a, k)
    BY <2>7 DEF ErasesOnly, Lookup
  <2>9. \A i \in 1 .. n : c.added[i].id \in Keys(a)
    BY <2>1
  <2> HIDE DEF First, a, b, v
  <2>10. SameBut(c, b)
    BY <2>1, <2>6 DEF SameBut, a
  <2>11. Keys(b) = Keys(c) \cup First(n + 1)
    BY <2>1, <2>5, <2>6 DEF a
  <2>12. \A k \in Keys(c) : Lookup(b, k) = Lookup(c, k)
    BY <2>1, <2>8 DEF a
  <2>13. ASSUME NEW i \in 1 .. n + 1 PROVE Lookup(b, c.added[i].id) = c.added[i]
    <3>1. CASE i = n + 1
      BY <2>7, <3>1 DEF v
    <3>2. CASE i # n + 1
      <4>1. i \in 1 .. n
        BY <3>2
      <4> QED BY <2>1, <2>8, <2>9, <4>1 DEF a
    <3> QED BY <3>1, <3>2
  <2> QED BY <2>6, <2>7, <2>10, <2>11, <2>12, <2>13 DEF b
<1>4. Nat \subseteq S
  <2> HIDE DEF S
  <2> QED BY <1>2, <1>3, SetOfNats
<1>5. Ok(last)
  <2> HIDE DEF Ok
  <2> QED BY <1>4
<1>6. First(last) = Ids(c.added)
  BY DEF Ids
<1> HIDE DEF First
<1> QED BY <1>1, <1>5, <1>6

\* After the second loop exactly the removed elements are gone.
LEMMA ErasedSpec ==
  ASSUME NEW T, \A t \in T : t.id \in Nat, NEW c \in ContainerOf(T), Packed(c),
         \A i, j \in DOMAIN c.removed : c.removed[i] = c.removed[j] => i = j,
         \A i \in DOMAIN c.removed : c.removed[i] \in Keys(c)
  PROVE  LET e == Erased(c)
         IN  /\ e \in ContainerOf(T) /\ Packed(e) /\ SameBut(c, e)
             /\ Keys(e) = Keys(c) \ ToSet(c.removed)
             /\ \A k \in Keys(e) : Lookup(e, k) = Lookup(c, k)
<1> DEFINE last == Len(c.removed)
<1>0. last \in Nat /\ DOMAIN c.removed = 1 .. last
  BY LenProperties DEF ContainerOf
<1>1. PICK f : /\ f[0] = c
               /\ \A n \in 1 .. last : f[n] = Erase(f[n - 1], c.removed[n])
               /\ Erased(c) = f[last]
  BY <1>0, ErasedStepwise
<1> DEFINE First(n) == {c.removed[i] : i \in 1 .. n}
           Ok(n) == /\ f[n] \in ContainerOf(T) /\ Packed(f[n]) /\ SameBut(c, f[n])
                    /\ Keys(f[n]) = Keys(c) \ First(n)
                    /\ \A k \in Keys(f[n]) : Lookup(f[n], k) = Lookup(c, k)
           S == {n \in Nat : n <= last => Ok(n)}
<1>2. 0 \in S
  <2>1. First(0) = {}
    OBVIOUS
  <2> HIDE DEF First
  <2>2. Ok(0)
    BY <1>1, <2>1 DEF SameBut
  <2> QED BY <2>2
<1>3. ASSUME NEW n \in Nat, n \in S PROVE n + 1 \in S
  <2> SUFFICES ASSUME n + 1 <= last PROVE Ok(n + 1)
    OBVIOUS
  <2> DEFINE a == f[n]
             k == c.removed[n + 1]
             b == f[n + 1]
  <2>1. Ok(n)
    BY <1>0, <1>3
  <2>2. n + 1 \in DOMAIN c.removed /\ n + 1 \in 1 .. last
    BY <1>0
  <2>3. b = Erase(a, k)
    BY <1>1, <2>2
  <2>4. k \in Keys(a)
    <3>1. \A i \in 1 .. n : c.removed[i] # k
      BY <1>0, <2>2
    <3> QED BY <2>1, <2>2, <3>1
  <2>5. First(n + 1) = First(n) \cup {k}
    <3>1. \A i \in 1 .. n + 1 : i \in 1 .. n \/ i = n + 1
      OBVIOUS
    <3>2. n + 1 \in 1 .. n + 1 /\ \A i \in 1 .. n : i \in 1 .. n + 1
      OBVIOUS
    <3> QED BY <3>1, <3>2
  <2>6. b \in ContainerOf(T) /\ SameBut(a, b)
    BY <2>1, <2>3, <2>4, EraseStays
  <2>7. Packed(b) /\ ErasesOnly(a, b, k)
    BY <2>1, <2>3, <2>4, EraseKeepsPacked
  <2> HIDE DEF First, a, b, k
  <2>8. Keys(b) = Keys(c) \ First(n + 1)
    BY <2>1, <2>5, <2>7 DEF ErasesOnly, a
  <2>9. \A j \in Keys(b) : Lookup(b, j) = Lookup(c, j)
    BY <2>1, <2>7 DEF ErasesOnly, Lookup, a
  <2>10. SameBut(c, b)
    BY <2>1, <2>6 DEF SameBut, a
  <2> QED BY <2>6, <2>7, <2>8, <2>9, <2>10 DEF b
<1>4. Nat \subseteq S
  <2> HIDE DEF S
  <2> QED BY <1>2, <1>3, SetOfNats
<1>5. Ok(last)
  <2> HIDE DEF Ok
  <2> QED BY <1>0, <1>4
<1>6. First(last) = ToSet(c.removed)
  BY <1>0 DEF ToSet
<1> HIDE DEF First
<1> QED BY <1>1, <1>5, <1>6

\* sync() changes nothing of what is there, whatever is added and removed at
\* once: every element that was found before is found after, and no other
\* (util.h:164-178).
THEOREM SyncKeepsElements ==
  ASSUME NEW T, Elements(T), NEW null, NEW c, Sound(c, T, null)
  PROVE  LET d == Synced(c)
         IN  /\ Sound(d, T, null)
             /\ Live(d) = Live(c)
             /\ \A k \in Live(c) : Get(d, k) = Get(c, k)
             /\ d.added = <<>> /\ d.removed = <<>> /\ d.nextKey = c.nextKey
<1> DEFINE e == Entered(c)
           r == Erased(e)
           d == Synced(c)
<1> Shape(c, T) /\ c.null = null /\ Reads(c, null)
  BY SoundProperties, GetProperties
<1> USE DEF Shape, Reads
<1>1. /\ e \in ContainerOf(T) /\ Packed(e) /\ SameBut(c, e)
      /\ Keys(e) = Keys(c) \cup Ids(c.added)
      /\ \A k \in Keys(c) : Lookup(e, k) = Lookup(c, k)
      /\ \A i \in DOMAIN c.added : Lookup(e, c.added[i].id) = c.added[i]
  BY EnteredSpec
<1>2. /\ r \in ContainerOf(T) /\ Packed(r) /\ SameBut(e, r)
      /\ Keys(r) = Keys(e) \ ToSet(e.removed)
      /\ \A k \in Keys(r) : Lookup(r, k) = Lookup(e, k)
  <2>1. \A t \in T : t.id \in Nat
    BY DEF Elements
  <2>2. e.removed = c.removed
    BY <1>1 DEF SameBut
  <2>3. \A i, j \in DOMAIN e.removed : e.removed[i] = e.removed[j] => i = j
    BY <2>2 DEF Removable
  <2>4. \A i \in DOMAIN e.removed : e.removed[i] \in Keys(e)
    BY <1>1, <2>2 DEF Removable, Known
  <2> HIDE DEF e
  <2> QED BY <1>1, <2>1, <2>3, <2>4, ErasedSpec
<1>3. d = [r EXCEPT !.added = <<>>, !.removed = <<>>]
  BY DEF Synced
<1> HIDE DEF e, r, d
<1>4. /\ d \in ContainerOf(T) /\ d.values = r.values /\ d.indices = r.indices /\ Keys(d) = Keys(r)
      /\ d.null = r.null /\ d.nextKey = r.nextKey /\ d.added = <<>> /\ d.removed = <<>>
  <2>1. \A U : <<>> \in Seq(U)
    OBVIOUS
  <2> QED BY <1>2, <1>3, <2>1 DEF ContainerOf, Keys
<1>5. d.null = c.null /\ d.nextKey = c.nextKey /\ e.removed = c.removed
  BY <1>1, <1>2, <1>4 DEF SameBut
<1>6. Keys(d) = Live(c)
  BY <1>1, <1>2, <1>4, <1>5 DEF Live
<1>7. Live(d) = Live(c)
  BY <1>4, <1>6 DEF Live, Ids, ToSet
<1>8. Packed(d)
  BY <1>2, <1>4 DEF Packed
<1>9. Fresh(d)
  <2>1. \A k \in Live(c) : k \in Nat /\ 1 <= k /\ k < c.nextKey
    BY LiveProperties
  <2>2. Len(d.added) = 0
    BY <1>4
  <2> QED BY <1>4, <1>5, <1>6, <2>1, <2>2 DEF Fresh
<1>10. Removable(d)
  BY <1>4 DEF Removable
<1>11. Sound(d, T, null)
  BY <1>4, <1>5, <1>8, <1>9, <1>10 DEF Sound
<1>12. ASSUME NEW k \in Live(c) PROVE Get(d, k) = Get(c, k)
  <2>1. Reads(d, null)
    BY <1>11, GetProperties
  <2>2. k \in Keys(d) /\ k \notin ToSet(d.removed)
    BY <1>4, <1>6 DEF ToSet
  <2>3. Get(d, k) = d.values[d.indices[k]]
    BY <2>1, <2>2
  <2>4. Get(d, k) = Lookup(e, k)
    BY <1>2, <1>4, <2>2, <2>3 DEF Lookup
  <2>5. CASE k \in Keys(c)
    <3>1. Get(c, k) = Lookup(c, k)
      BY <2>5 DEF Live, Lookup
    <3> QED BY <1>1, <2>4, <2>5, <3>1
  <2>6. CASE k \notin Keys(c)
    <3>1. PICK i \in DOMAIN c.added : c.added[i].id = k
      BY <2>6 DEF Live, Ids
    <3>2. Get(c, k) = c.added[i]
      BY <3>1 DEF Live
    <3> QED BY <1>1, <2>4, <3>1, <3>2
  <2> QED BY <2>5, <2>6
<1> QED BY <1>4, <1>5, <1>7, <1>11, <1>12 DEF d
-----------------------------------------------------------------------------
(* The store: who belongs to whom.                                         *)

\* The elements of the containers that Game does not name.
SpriteType == [id : Nat, entity : Nat, position : Coord]
PhysicsType == [id : Nat, entity : Nat]

\* All four containers are sound.
StoreSound(s) ==
  /\ s \in [entities : ContainerOf(Entity), mobs : ContainerOf(Mob),
            sprites : ContainerOf(SpriteType), physics : ContainerOf(PhysicsType)]
  /\ Sound(s.entities, Entity, NullEntity) /\ Sound(s.mobs, Mob, NullMob)
  /\ Sound(s.sprites, SpriteType, NullSprite) /\ Sound(s.physics, PhysicsType, NullPhysics)

\* A mob and its entity know each other, and the mob the sprites of its pieces.
MobsLinked(s) ==
  \A m \in Live(s.mobs) :
    LET mob == Get(s.mobs, m)
        e   == Get(s.entities, mob.entity)
    IN  /\ mob.entity \in Live(s.entities)
        /\ e.mob = m /\ e.parent = Invalid /\ e.life = -1
        /\ DOMAIN mob.extras = DOMAIN Pieces(mob) /\ DOMAIN e.children = DOMAIN mob.extras
        /\ \A i \in DOMAIN mob.extras : Get(s.entities, e.children[i]).sprite = mob.extras[i]

\* An entity has a sprite; its components know it.
EntitiesLinked(s) ==
  \A k \in Live(s.entities) :
    LET e == Get(s.entities, k)
    IN  /\ e.mob # Invalid => e.mob \in Live(s.mobs) /\ Get(s.mobs, e.mob).entity = k
        /\ e.sprite \in Live(s.sprites) /\ Get(s.sprites, e.sprite).entity = k
        /\ e.physics # Invalid =>
             e.physics \in Live(s.physics) /\ Get(s.physics, e.physics).entity = k

\* Children are there as long as their parent, which knows all of them
\* and is older than they are.
FamiliesLinked(s) ==
  \A k \in Live(s.entities) :
    LET e == Get(s.entities, k)
    IN  /\ \A i \in DOMAIN e.children :
             /\ e.children[i] \in Live(s.entities)
             /\ Get(s.entities, e.children[i]).parent = k
             /\ Get(s.entities, e.children[i]).life = -1
        /\ e.parent < k
        /\ e.parent \in Live(s.entities) =>
             \E i \in DOMAIN Get(s.entities, e.parent).children :
               Get(s.entities, e.parent).children[i] = k

\* A component has an entity, whose component it is.
PartsLinked(s) ==
  /\ \A k \in Live(s.sprites) :
       /\ Get(s.sprites, k).entity \in Live(s.entities)
       /\ Get(s.entities, Get(s.sprites, k).entity).sprite = k
  /\ \A k \in Live(s.physics) :
       /\ Get(s.physics, k).entity \in Live(s.entities)
       /\ Get(s.entities, Get(s.physics, k).entity).physics = k

\* Everyone who belongs to somebody belongs to somebody that knows.
Linked(s) == MobsLinked(s) /\ EntitiesLinked(s) /\ FamiliesLinked(s) /\ PartsLinked(s)

\* The table of mobs: everyone has health to start with (mob.h, mobsystem.cpp).
LEMMA SpeedAndHealth ==
  /\ DOMAIN MobDatabase = {"Rabbit", "RabbitWere", "Snake", "OrcWeak", "OrcStrong", "Player", "Unknown"}
  /\ \A t \in DOMAIN MobDatabase :
       /\ MobDatabase[t].health \in Nat /\ MobDatabase[t].speed \in Nat
       /\ MobDatabase[t].strength \in Nat
       /\ t # "Unknown" => MobDatabase[t].health > 0
       /\ MobDatabase[t].category = "Player" <=> t = "Player"
BY DEF MobDatabase

\* The null elements are elements, with the id that nobody gets.
LEMMA Nulls ==
  /\ NullEntity \in Entity /\ NullMob \in Mob
  /\ NullSprite \in SpriteType /\ NullPhysics \in PhysicsType
  /\ NullEntity.id = 0 /\ NullMob.id = 0 /\ NullSprite.id = 0 /\ NullPhysics.id = 0
<1>1. NullEntity \in Entity
  BY DEF NullEntity, Entity, Invalid
<1>2. NullMob \in Mob
  <2>1. "Unknown" \in DOMAIN MobDatabase
    BY SpeedAndHealth
  <2>2. Origin \in Coord /\ Vec(0, 1) \in Coord
    BY DEF Origin, Vec, Coord
  <2>3. 0 \in 0 .. 2 * TicksPerAction - 1
    BY DEF TicksPerAction
  <2> QED BY <2>1, <2>2, <2>3 DEF NullMob, Mob, Invalid
<1>3. NullSprite \in SpriteType /\ NullPhysics \in PhysicsType
  BY DEF NullSprite, SpriteType, NullPhysics, PhysicsType, Invalid, Origin, Vec, Coord
<1>4. NullEntity.id = 0 /\ NullMob.id = 0 /\ NullSprite.id = 0 /\ NullPhysics.id = 0
  BY DEF NullEntity, NullMob, NullSprite, NullPhysics, Invalid
<1> QED BY <1>1, <1>2, <1>3, <1>4

\* Elements of all four kinds are records with an id.
LEMMA ElementTypes ==
  Elements(Entity) /\ Elements(Mob) /\ Elements(SpriteType) /\ Elements(PhysicsType)
<1>1. Elements(Entity)
  BY DEF Elements, Entity
<1>2. Elements(Mob)
  BY DEF Elements, Mob
<1>3. Elements(SpriteType)
  BY DEF Elements, SpriteType
<1>4. Elements(PhysicsType)
  BY DEF Elements, PhysicsType
<1> QED BY <1>1, <1>2, <1>3, <1>4

\* The elements a store returns, by kind.
LEMMA StoreElements ==
  ASSUME NEW s, StoreSound(s)
  PROVE  /\ \A k \in Live(s.entities) :
              Get(s.entities, k) \in Entity /\ Get(s.entities, k).id = k /\ k \in Nat /\ k # 0
         /\ \A k \in Live(s.mobs) :
              Get(s.mobs, k) \in Mob /\ Get(s.mobs, k).id = k /\ k \in Nat /\ k # 0
         /\ \A k \in Live(s.sprites) :
              Get(s.sprites, k) \in SpriteType /\ Get(s.sprites, k).id = k /\ k \in Nat /\ k # 0
         /\ \A k \in Live(s.physics) :
              Get(s.physics, k) \in PhysicsType /\ Get(s.physics, k).id = k /\ k \in Nat /\ k # 0
         /\ \A k : k \notin Live(s.entities) => Get(s.entities, k) = NullEntity
         /\ \A k : k \notin Live(s.mobs) => Get(s.mobs, k) = NullMob
         /\ \A k : k \notin Live(s.sprites) => Get(s.sprites, k) = NullSprite
         /\ \A k : k \notin Live(s.physics) => Get(s.physics, k) = NullPhysics
<1> USE DEF StoreSound
<1>1. \A k \in Live(s.entities) :
        Get(s.entities, k) \in Entity /\ Get(s.entities, k).id = k /\ k \in Nat /\ k # 0
  BY ElementTypes, LiveProperties
<1>2. \A k \in Live(s.mobs) :
        Get(s.mobs, k) \in Mob /\ Get(s.mobs, k).id = k /\ k \in Nat /\ k # 0
  BY ElementTypes, LiveProperties
<1>3. \A k \in Live(s.sprites) :
        Get(s.sprites, k) \in SpriteType /\ Get(s.sprites, k).id = k /\ k \in Nat /\ k # 0
  BY ElementTypes, LiveProperties
<1>4. \A k \in Live(s.physics) :
        Get(s.physics, k) \in PhysicsType /\ Get(s.physics, k).id = k /\ k \in Nat /\ k # 0
  BY ElementTypes, LiveProperties
<1>5. /\ Reads(s.entities, NullEntity) /\ Reads(s.mobs, NullMob)
      /\ Reads(s.sprites, NullSprite) /\ Reads(s.physics, NullPhysics)
  BY ElementTypes, GetProperties
<1> QED BY <1>1, <1>2, <1>3, <1>4, <1>5 DEF Reads

\* Two stores with the same elements, linked in the same way.
SameLinks(s, t) ==
  /\ Live(t.entities) = Live(s.entities) /\ Live(t.mobs) = Live(s.mobs)
  /\ Live(t.sprites) = Live(s.sprites) /\ Live(t.physics) = Live(s.physics)
  /\ \A k \in Live(s.entities) :
       LET a == Get(s.entities, k)
           b == Get(t.entities, k)
       IN  /\ b.parent = a.parent /\ b.children = a.children /\ b.life = a.life
           /\ b.mob = a.mob /\ b.sprite = a.sprite /\ b.physics = a.physics
  /\ \A k \in Live(s.mobs) :
       LET a == Get(s.mobs, k)
           b == Get(t.mobs, k)
       IN  b.entity = a.entity /\ b.extras = a.extras /\ b.type = a.type
  /\ \A k \in Live(s.sprites) : Get(t.sprites, k).entity = Get(s.sprites, k).entity
  /\ \A k \in Live(s.physics) : Get(t.physics, k).entity = Get(s.physics, k).entity

\* How many pieces a mob has depends on its type alone.
LEMMA PieceCount ==
  ASSUME NEW a, NEW b, a.type = b.type
  PROVE  DOMAIN Pieces(a) = DOMAIN Pieces(b)
<1>1. Category(a) = Category(b)
  BY DEF Category
<1>2. DOMAIN Pieces(a) = IF Category(a) = "Snake" THEN {1} ELSE IF Category(a) = "Orc" THEN {1, 2} ELSE {}
  <2>1. CASE Category(a) = "Snake"
    BY <2>1 DEF Pieces
  <2>2. CASE Category(a) = "Orc"
    BY <2>2 DEF Pieces
  <2>3. CASE Category(a) # "Snake" /\ Category(a) # "Orc"
    BY <2>3 DEF Pieces
  <2> QED BY <2>1, <2>2, <2>3
<1>3. DOMAIN Pieces(b) = IF Category(b) = "Snake" THEN {1} ELSE IF Category(b) = "Orc" THEN {1, 2} ELSE {}
  <2>1. CASE Category(b) = "Snake"
    BY <2>1 DEF Pieces
  <2>2. CASE Category(b) = "Orc"
    BY <2>2 DEF Pieces
  <2>3. CASE Category(b) # "Snake" /\ Category(b) # "Orc"
    BY <2>3 DEF Pieces
  <2> QED BY <2>1, <2>2, <2>3
<1> QED BY <1>1, <1>2, <1>3

\* Who is linked stays linked where only other members change.
LEMMA SameLinksLinked ==
  ASSUME NEW s, NEW t, Linked(s), SameLinks(s, t)
  PROVE  Linked(t)
<1> USE DEF Linked
<1>1. MobsLinked(t)
  <2> SUFFICES ASSUME NEW m \in Live(t.mobs)
      PROVE LET mob == Get(t.mobs, m)
                e   == Get(t.entities, mob.entity)
            IN  /\ mob.entity \in Live(t.entities)
                /\ e.mob = m /\ e.parent = Invalid /\ e.life = -1
                /\ DOMAIN mob.extras = DOMAIN Pieces(mob) /\ DOMAIN e.children = DOMAIN mob.extras
                /\ \A i \in DOMAIN mob.extras : Get(t.entities, e.children[i]).sprite = mob.extras[i]
    BY DEF MobsLinked
  <2> DEFINE mob == Get(t.mobs, m)
             e   == Get(t.entities, mob.entity)
             old == Get(s.mobs, m)
             oe  == Get(s.entities, old.entity)
  <2>1. m \in Live(s.mobs) /\ mob.entity = old.entity /\ mob.extras = old.extras /\ mob.type = old.type
    BY DEF SameLinks
  <2>2. /\ old.entity \in Live(s.entities)
        /\ oe.mob = m /\ oe.parent = Invalid /\ oe.life = -1
        /\ DOMAIN old.extras = DOMAIN Pieces(old) /\ DOMAIN oe.children = DOMAIN old.extras
        /\ \A i \in DOMAIN old.extras : Get(s.entities, oe.children[i]).sprite = old.extras[i]
    BY <2>1 DEF MobsLinked
  <2>3. DOMAIN Pieces(mob) = DOMAIN Pieces(old)
    BY <2>1, PieceCount
  <2>4. mob.entity \in Live(t.entities) /\ e.mob = oe.mob /\ e.parent = oe.parent /\ e.life = oe.life
        /\ e.children = oe.children
    BY <2>1, <2>2 DEF SameLinks
  <2>5. \A i \in DOMAIN oe.children : oe.children[i] \in Live(s.entities)
    BY <2>2 DEF FamiliesLinked
  <2>6. \A i \in DOMAIN oe.children :
          Get(t.entities, oe.children[i]).sprite = Get(s.entities, oe.children[i]).sprite
    BY <2>5 DEF SameLinks
  <2> HIDE DEF mob, e, old, oe
  <2> QED BY <2>1, <2>2, <2>3, <2>4, <2>6 DEF mob, e
<1>2. EntitiesLinked(t)
  BY DEF EntitiesLinked, SameLinks
<1>3. FamiliesLinked(t)
  <2> SUFFICES ASSUME NEW k \in Live(t.entities)
               PROVE  LET e == Get(t.entities, k)
                      IN  /\ \A i \in DOMAIN e.children :
                               /\ e.children[i] \in Live(t.entities)
                               /\ Get(t.entities, e.children[i]).parent = k
                               /\ Get(t.entities, e.children[i]).life = -1
                          /\ e.parent < k
                          /\ e.parent \in Live(t.entities) =>
                               \E i \in DOMAIN Get(t.entities, e.parent).children :
                                 Get(t.entities, e.parent).children[i] = k
    BY DEF FamiliesLinked
  <2>1. k \in Live(s.entities) /\ Live(t.entities) = Live(s.entities)
    BY DEF SameLinks
  <2>2. \A j \in Live(s.entities) :
          /\ Get(t.entities, j).parent = Get(s.entities, j).parent
          /\ Get(t.entities, j).children = Get(s.entities, j).children
          /\ Get(t.entities, j).life = Get(s.entities, j).life
    BY DEF SameLinks
  <2> QED BY <2>1, <2>2 DEF FamiliesLinked
<1>4. PartsLinked(t)
  BY DEF PartsLinked, SameLinks
<1> QED BY <1>1, <1>2, <1>3, <1>4
-----------------------------------------------------------------------------
(* New entities.                                                           *)

\* createSprite: a new entity and its new sprite, which know each other.
SpriteAdded(s, t, life, parent) ==
  LET e == s.entities.nextKey
      k == s.sprites.nextKey
      new == Get(t.entities, e)
  IN  /\ StoreSound(t) /\ t.mobs = s.mobs /\ t.physics = s.physics
      /\ e \in Nat /\ e # 0 /\ e \notin Live(s.entities) /\ t.entities.nextKey = e + 1
      /\ k \in Nat /\ k # 0 /\ k \notin Live(s.sprites) /\ t.sprites.nextKey = k + 1
      /\ Live(t.entities) = Live(s.entities) \cup {e}
      /\ Live(t.sprites) = Live(s.sprites) \cup {k}
      /\ new.parent = parent /\ new.children = <<>> /\ new.life = life
      /\ new.sprite = k /\ new.mob = Invalid /\ new.physics = Invalid
      /\ Get(t.sprites, k).entity = e
      /\ \A j \in Live(s.entities) : Get(t.entities, j) = Get(s.entities, j)
      /\ \A j \in Live(s.sprites) : Get(t.sprites, j) = Get(s.sprites, j)
      /\ Len(t.entities.added) = Len(s.entities.added) + 1
      /\ Len(t.sprites.added) = Len(s.sprites.added) + 1
      /\ t.entities.removed = s.entities.removed /\ t.sprites.removed = s.sprites.removed

\* createSprite does what SpriteAdded says, in a sound store.
LEMMA CreateSpriteSpec ==
  ASSUME NEW s, StoreSound(s), NEW p \in Coord, NEW life \in Int, NEW parent \in Nat
  PROVE  SpriteAdded(s, CreateSprite(s, p, life, parent), life, parent)
<1> DEFINE t == CreateSprite(s, p, life, parent)
           e == s.entities.nextKey
           k == s.sprites.nextKey
           ve == [NullEntity EXCEPT !.sprite = k, !.life = life, !.parent = parent]
           vs == [NullSprite EXCEPT !.entity = e, !.position = p]
<1>1. e \in Nat /\ k \in Nat
  BY DEF StoreSound, ContainerOf
<1>2. ve \in Entity /\ vs \in SpriteType
  BY <1>1, Nulls DEF Entity, SpriteType
<1>3. LET new == [ve EXCEPT !.id = e]
      IN  /\ new.parent = parent /\ new.children = <<>> /\ new.life = life
          /\ new.sprite = k /\ new.mob = Invalid /\ new.physics = Invalid
  BY DEF NullEntity
<1>4. [vs EXCEPT !.id = k].entity = e
  BY DEF NullSprite
<1>5. /\ t.entities = Add(s.entities, ve) /\ t.sprites = Add(s.sprites, vs)
      /\ t.mobs = s.mobs /\ t.physics = s.physics
      /\ t = [entities |-> t.entities, mobs |-> t.mobs, sprites |-> t.sprites, physics |-> t.physics]
  <2>1. t = [s EXCEPT !.entities = Add(s.entities, ve), !.sprites = Add(s.sprites, vs)]
    BY DEF CreateSprite
  <2>2. s = [entities |-> s.entities, mobs |-> s.mobs, sprites |-> s.sprites, physics |-> s.physics]
    BY DEF StoreSound
  <2> HIDE DEF t, ve, vs
  <2> QED BY ONLY <2>1, <2>2
<1> HIDE DEF ve, vs, t
<1>6. LET d == t.entities
      IN  /\ Sound(d, Entity, NullEntity)
          /\ e # 0 /\ e \notin Live(s.entities) /\ d.nextKey = e + 1
          /\ Live(d) = Live(s.entities) \cup {e}
          /\ Get(d, e) = [ve EXCEPT !.id = e]
          /\ \A j \in Live(s.entities) : Get(d, j) = Get(s.entities, j)
          /\ Len(d.added) = Len(s.entities.added) + 1 /\ d.removed = s.entities.removed
  BY <1>2, <1>5, AddSpec, ElementTypes DEF StoreSound
<1>7. LET d == t.sprites
      IN  /\ Sound(d, SpriteType, NullSprite)
          /\ k # 0 /\ k \notin Live(s.sprites) /\ d.nextKey = k + 1
          /\ Live(d) = Live(s.sprites) \cup {k}
          /\ Get(d, k) = [vs EXCEPT !.id = k]
          /\ \A j \in Live(s.sprites) : Get(d, j) = Get(s.sprites, j)
          /\ Len(d.added) = Len(s.sprites.added) + 1 /\ d.removed = s.sprites.removed
  BY <1>2, <1>5, AddSpec, ElementTypes DEF StoreSound
<1>8. StoreSound(t)
  BY <1>5, <1>6, <1>7 DEF StoreSound, Sound
<1> QED BY <1>1, <1>3, <1>4, <1>5, <1>6, <1>7, <1>8 DEF SpriteAdded, t

\* What a store gains when an entity of its own comes into the world: e, with
\* the sprite k and, where ph is not Invalid, the physics component ph.
Gains(s, t, e, k, ph) ==
  /\ t.mobs = s.mobs
  /\ e \notin Live(s.entities) /\ k \notin Live(s.sprites) /\ ph \notin Live(s.physics)
  /\ e # 0 /\ e \in Nat /\ \A j \in Live(s.entities) : j < e
  /\ Live(t.entities) = Live(s.entities) \cup {e}
  /\ Live(t.sprites) = Live(s.sprites) \cup {k}
  /\ Live(t.physics) = IF ph = Invalid THEN Live(s.physics) ELSE Live(s.physics) \cup {ph}
  /\ LET new == Get(t.entities, e)
     IN  /\ new.parent = Invalid /\ new.children = <<>> /\ new.mob = Invalid
         /\ new.sprite = k /\ new.physics = ph
  /\ Get(t.sprites, k).entity = e
  /\ ph # Invalid => Get(t.physics, ph).entity = e
  /\ \A j \in Live(s.entities) : Get(t.entities, j) = Get(s.entities, j)
  /\ \A j \in Live(s.sprites) : Get(t.sprites, j) = Get(s.sprites, j)
  /\ \A j \in Live(s.physics) : Get(t.physics, j) = Get(s.physics, j)

\* An entity with components of its own keeps the store linked.
LEMMA GainsLinked ==
  ASSUME NEW s, NEW t, NEW e, NEW k, NEW ph, StoreSound(s), Linked(s), Gains(s, t, e, k, ph)
  PROVE  Linked(t)
<1> USE DEF Linked
<1>1. \A j \in Live(s.entities) : Get(t.entities, j) = Get(s.entities, j) /\ j # e
  BY DEF Gains
<1>2. MobsLinked(t)
  <2> SUFFICES ASSUME NEW m \in Live(s.mobs)
      PROVE LET mob == Get(s.mobs, m)
                d   == Get(t.entities, mob.entity)
            IN  /\ mob.entity \in Live(t.entities)
                /\ d.mob = m /\ d.parent = Invalid /\ d.life = -1
                /\ DOMAIN mob.extras = DOMAIN Pieces(mob) /\ DOMAIN d.children = DOMAIN mob.extras
                /\ \A i \in DOMAIN mob.extras : Get(t.entities, d.children[i]).sprite = mob.extras[i]
    BY DEF MobsLinked, Gains
  <2> DEFINE mob == Get(s.mobs, m)
             d   == Get(s.entities, mob.entity)
  <2>1. /\ mob.entity \in Live(s.entities)
        /\ d.mob = m /\ d.parent = Invalid /\ d.life = -1
        /\ DOMAIN mob.extras = DOMAIN Pieces(mob) /\ DOMAIN d.children = DOMAIN mob.extras
        /\ \A i \in DOMAIN mob.extras : Get(s.entities, d.children[i]).sprite = mob.extras[i]
    BY DEF MobsLinked
  <2>2. \A i \in DOMAIN d.children : d.children[i] \in Live(s.entities)
    BY <2>1 DEF FamiliesLinked
  <2>3. Get(t.entities, mob.entity) = d /\ mob.entity \in Live(t.entities)
    BY <1>1, <2>1 DEF Gains
  <2>4. \A i \in DOMAIN d.children : Get(t.entities, d.children[i]) = Get(s.entities, d.children[i])
    BY <1>1, <2>2
  <2> QED BY <2>1, <2>3, <2>4
<1>3. EntitiesLinked(t)
  BY <1>1 DEF EntitiesLinked, Gains
<1>4. FamiliesLinked(t)
  <2> SUFFICES ASSUME NEW j \in Live(t.entities)
               PROVE  LET d == Get(t.entities, j)
                      IN  /\ \A i \in DOMAIN d.children :
                               /\ d.children[i] \in Live(t.entities)
                               /\ Get(t.entities, d.children[i]).parent = j
                               /\ Get(t.entities, d.children[i]).life = -1
                          /\ d.parent < j
                          /\ d.parent \in Live(t.entities) =>
                               \E i \in DOMAIN Get(t.entities, d.parent).children :
                                 Get(t.entities, d.parent).children[i] = j
    BY DEF FamiliesLinked
  <2>1. CASE j = e
    <3>1. 0 \notin Live(t.entities)
      BY StoreElements DEF Gains
    <3> QED BY <2>1, <3>1 DEF Gains, Invalid
  <2>2. CASE j # e
    <3> DEFINE d == Get(s.entities, j)
    <3>1. j \in Live(s.entities) /\ Get(t.entities, j) = d /\ d \in Entity /\ j \in Nat
      BY <1>1, <2>2, StoreElements DEF Gains
    <3>2. /\ \A i \in DOMAIN d.children :
               /\ d.children[i] \in Live(s.entities)
               /\ Get(s.entities, d.children[i]).parent = j
               /\ Get(s.entities, d.children[i]).life = -1
          /\ d.parent < j
          /\ d.parent \in Live(s.entities) =>
               \E i \in DOMAIN Get(s.entities, d.parent).children :
                 Get(s.entities, d.parent).children[i] = j
      BY <3>1 DEF FamiliesLinked
    <3>3. d.parent # e
      <4>1. j < e /\ e \in Nat /\ d.parent \in Nat
        BY <3>1 DEF Gains, Entity
      <4> QED BY <3>1, <3>2, <4>1
    <3>4. d.parent \in Live(t.entities) => d.parent \in Live(s.entities)
      BY <3>3 DEF Gains
    <3>5. \A i \in DOMAIN d.children : d.children[i] \in Live(t.entities)
      BY <3>2 DEF Gains
    <3>6. \A i \in DOMAIN d.children :
            /\ d.children[i] \in Live(t.entities)
            /\ Get(t.entities, d.children[i]).parent = j
            /\ Get(t.entities, d.children[i]).life = -1
      BY <1>1, <3>2, <3>5
    <3>7. ASSUME d.parent \in Live(t.entities)
          PROVE  \E i \in DOMAIN Get(t.entities, d.parent).children :
                   Get(t.entities, d.parent).children[i] = j
      <4>1. d.parent \in Live(s.entities)
        BY <3>4, <3>7
      <4>2. Get(t.entities, d.parent) = Get(s.entities, d.parent)
        BY <1>1, <4>1
      <4> QED BY <3>2, <4>1, <4>2
    <3> HIDE DEF d
    <3> QED BY <3>1, <3>2, <3>6, <3>7
  <2> QED BY <2>1, <2>2
<1>5. PartsLinked(t)
  BY <1>1 DEF PartsLinked, Gains, Invalid
<1> QED BY <1>2, <1>3, <1>4, <1>5

\* The world has grown by at most n entities, each of them on its own.
Grows(s, t, n) ==
  /\ t.mobs = s.mobs
  /\ \A k \in Live(s.entities) : k \in Live(t.entities) /\ Get(t.entities, k) = Get(s.entities, k)
  /\ \A k \in Live(t.entities) : k \notin Live(s.entities) =>
       /\ Get(t.entities, k).parent = Invalid /\ Get(t.entities, k).mob = Invalid
       /\ Get(t.entities, k).children = <<>>
  /\ Len(t.entities.added) <= Len(s.entities.added) + n
  /\ Len(t.sprites.added) <= Len(s.sprites.added) + n
  /\ Len(t.physics.added) <= Len(s.physics.added) + n
  /\ t.entities.removed = s.entities.removed /\ t.sprites.removed = s.sprites.removed
  /\ t.physics.removed = s.physics.removed

\* The buffers of a store have a length.
LEMMA Lengths ==
  ASSUME NEW s, StoreSound(s)
  PROVE  /\ Len(s.entities.added) \in Nat /\ Len(s.mobs.added) \in Nat
         /\ Len(s.sprites.added) \in Nat /\ Len(s.physics.added) \in Nat
<1>1. /\ Shape(s.entities, Entity) /\ Shape(s.mobs, Mob)
      /\ Shape(s.sprites, SpriteType) /\ Shape(s.physics, PhysicsType)
  BY SoundProperties DEF StoreSound
<1> QED BY <1>1 DEF Shape

\* A sprite that belongs to nobody is one more entity.
LEMMA SpriteGrows ==
  ASSUME NEW s, StoreSound(s), Linked(s), NEW p \in Coord, NEW life \in Int
  PROVE  LET t == CreateSprite(s, p, life, Invalid)
         IN  StoreSound(t) /\ Linked(t) /\ Grows(s, t, 1)
<1> DEFINE t == CreateSprite(s, p, life, Invalid)
           e == s.entities.nextKey
           k == s.sprites.nextKey
<1>0. Invalid \in Nat /\ Invalid = 0
  BY DEF Invalid
<1>1. SpriteAdded(s, t, life, Invalid)
  BY <1>0, CreateSpriteSpec
<1> HIDE DEF t
<1>2. \A j \in Live(s.entities) : j < e
  BY ElementTypes, LiveProperties DEF StoreSound
<1>3. 0 \notin Live(s.physics)
  BY StoreElements
<1>4. Gains(s, t, e, k, Invalid)
  BY <1>0, <1>1, <1>2, <1>3 DEF Gains, SpriteAdded
<1>5. Linked(t)
  BY <1>4, GainsLinked
<1>6. Grows(s, t, 1)
  <2>1. \A j \in Live(t.entities) : j \notin Live(s.entities) =>
          /\ Get(t.entities, j).parent = Invalid /\ Get(t.entities, j).mob = Invalid
          /\ Get(t.entities, j).children = <<>>
    BY <1>1 DEF SpriteAdded
  <2> HIDE DEF e, k
  <2> QED BY <1>0, <1>1, <2>1, Lengths DEF Grows, SpriteAdded
<1> QED BY <1>1, <1>5, <1>6 DEF t, SpriteAdded

\* A drop of blood, which has physics too, is one more entity.
LEMMA DropGrows ==
  ASSUME NEW s, StoreSound(s), Linked(s), NEW p \in Coord
  PROVE  LET t == CreateDrop(s, p)
         IN  StoreSound(t) /\ Linked(t) /\ Grows(s, t, 1)
<1> DEFINE t == CreateSprite(s, p, ParticleLife, Invalid)
           e == s.entities.nextKey
           k == s.sprites.nextKey
           ph == s.physics.nextKey
           flying == [Get(t.entities, e) EXCEPT !.physics = ph]
           vp == [NullPhysics EXCEPT !.entity = e]
           u == CreateDrop(s, p)
<1>0. Invalid \in Nat /\ Invalid = 0 /\ ParticleLife \in Int
  BY LifeAssumption DEF Invalid
<1>1. SpriteAdded(s, t, ParticleLife, Invalid)
  BY <1>0, CreateSpriteSpec
<1>2. /\ u.entities = Put(t.entities, e, flying) /\ u.physics = Add(s.physics, vp)
      /\ u.mobs = t.mobs /\ u.sprites = t.sprites
      /\ u = [entities |-> u.entities, mobs |-> u.mobs, sprites |-> u.sprites, physics |-> u.physics]
  <2>1. u = [t EXCEPT !.entities = Put(t.entities, e, flying), !.physics = Add(t.physics, vp)]
    BY <1>1 DEF CreateDrop, SpriteAdded
  <2>2. t = [entities |-> t.entities, mobs |-> t.mobs, sprites |-> t.sprites, physics |-> t.physics]
    BY <1>1 DEF SpriteAdded, StoreSound
  <2>3. t.physics = s.physics
    BY <1>1 DEF SpriteAdded
  <2> HIDE DEF t, u, flying, vp
  <2> QED BY ONLY <2>1, <2>2, <2>3
<1>3. ph \in Nat
  BY DEF StoreSound, ContainerOf
<1> HIDE DEF t, ph, u
<1>4. e \in Live(t.entities) /\ Get(t.entities, e) \in Entity /\ Get(t.entities, e).id = e
  BY <1>1, StoreElements DEF SpriteAdded
<1>5. /\ flying \in Entity /\ flying.id = e /\ vp \in PhysicsType
      /\ flying.parent = Invalid /\ flying.children = <<>> /\ flying.mob = Invalid
      /\ flying.sprite = k /\ flying.physics = ph
  BY <1>1, <1>3, <1>4, Nulls DEF Entity, PhysicsType, SpriteAdded
<1> HIDE DEF flying, vp
<1>7. LET d == u.entities
      IN  /\ Sound(d, Entity, NullEntity)
          /\ Live(d) = Live(t.entities)
          /\ Get(d, e) = flying /\ \A j \in Live(t.entities) \ {e} : Get(d, j) = Get(t.entities, j)
          /\ d.removed = t.entities.removed /\ Len(d.added) = Len(t.entities.added)
  BY <1>1, <1>2, <1>4, <1>5, PutSpec, ElementTypes DEF StoreSound, SpriteAdded
<1>8. LET d == u.physics
      IN  /\ Sound(d, PhysicsType, NullPhysics)
          /\ ph # 0 /\ ph \notin Live(s.physics)
          /\ Live(d) = Live(s.physics) \cup {ph}
          /\ Get(d, ph) = [vp EXCEPT !.id = ph]
          /\ \A j \in Live(s.physics) : Get(d, j) = Get(s.physics, j)
          /\ Len(d.added) = Len(s.physics.added) + 1 /\ d.removed = s.physics.removed
  BY <1>2, <1>5, AddSpec, ElementTypes DEF StoreSound, ph
<1>9. [vp EXCEPT !.id = ph].entity = e
  BY DEF vp, NullPhysics
<1>10. StoreSound(u)
  BY <1>1, <1>2, <1>7, <1>8 DEF StoreSound, Sound, SpriteAdded
<1>11. \A j \in Live(s.entities) : j < e
  BY ElementTypes, LiveProperties DEF StoreSound
<1>12. \A j \in Live(s.entities) : Get(u.entities, j) = Get(s.entities, j)
  BY <1>1, <1>7 DEF SpriteAdded
<1>13. Gains(s, u, e, k, ph)
  BY <1>0, <1>1, <1>2, <1>5, <1>7, <1>8, <1>9, <1>11, <1>12 DEF Gains, SpriteAdded
<1>14. Linked(u)
  BY <1>13, GainsLinked
<1>15. Grows(s, u, 1)
  BY <1>0, <1>1, <1>2, <1>5, <1>7, <1>8, <1>12, Lengths DEF Grows, SpriteAdded
<1> QED BY <1>10, <1>14, <1>15 DEF u

\* The recursive function of createBloodSplatter is what it says.
LEMMA SplatterStepwise ==
  ASSUME NEW s, NEW p, NEW tiles \in Nat, NEW drops \in Nat
  PROVE  \/ CreateBloodSplatter(s, p, tiles, drops) = s
         \/ \E f : /\ f[0] = s
                   /\ \A n \in 1 .. tiles + drops :
                        \/ f[n] = CreateSprite(f[n - 1], p, TileLife, Invalid)
                        \/ f[n] = CreateDrop(f[n - 1], p)
                   /\ CreateBloodSplatter(s, p, tiles, drops) = f[tiles + drops]
<1> DEFINE Step(x, n) == IF n <= tiles THEN CreateSprite(x, p, TileLife, Invalid)
                         ELSE CreateDrop(x, p)
           Is(g, m) == g = [n \in 0 .. m |-> IF n = 0 THEN s ELSE Step(g[n - 1], n)]
           S == {m \in Nat : \E g : Is(g, m)}
           last == tiles + drops
<1> HIDE DEF Step
<1>1. 0 \in S
  <2> DEFINE g == [n \in 0 .. 0 |-> s]
  <2>1. Is(g, 0)
    OBVIOUS
  <2> QED BY <2>1
<1>2. ASSUME NEW m \in Nat, m \in S PROVE m + 1 \in S
  <2>1. PICK g : Is(g, m)
    BY <1>2
  <2> DEFINE h == [n \in 0 .. m + 1 |-> IF n = m + 1 THEN Step(g[m], m + 1) ELSE g[n]]
  <2>2. ASSUME NEW n \in 0 .. m + 1
        PROVE  h[n] = IF n = 0 THEN s ELSE Step(h[n - 1], n)
    <3>1. CASE n = m + 1
      BY <3>1
    <3>2. CASE n # m + 1
      <4>1. n \in 0 .. m /\ h[n] = g[n] /\ (n # 0 => h[n - 1] = g[n - 1])
        BY <3>2
      <4>2. g[n] = IF n = 0 THEN s ELSE Step(g[n - 1], n)
        BY <2>1, <4>1
      <4> QED BY <4>1, <4>2
    <3> QED BY <3>1, <3>2
  <2>3. Is(h, m + 1)
    BY <2>2
  <2> HIDE DEF h, Is
  <2> QED BY <2>3
<1>3. Nat \subseteq S
  <2> HIDE DEF S
  <2> QED BY <1>1, <1>2, SetOfNats
<1>4. \E g : Is(g, last)
  <2>1. last \in S
    <3> HIDE DEF S
    <3> QED BY <1>3
  <2> HIDE DEF last, Is
  <2> QED BY <2>1
<1> DEFINE f == CHOOSE g : Is(g, last)
<1>5. Is(f, last)
  BY <1>4
<1>6. CreateBloodSplatter(s, p, tiles, drops) = s
      \/ CreateBloodSplatter(s, p, tiles, drops) = f[last]
  BY DEF CreateBloodSplatter, Step
<1> HIDE DEF f
<1>7. f[0] = s /\ \A n \in 1 .. last : f[n] = Step(f[n - 1], n)
  BY <1>5
<1> QED BY <1>6, <1>7 DEF Step

\* Bounds on growth add up.
LEMMA AddBounds ==
  ASSUME NEW x \in Nat, NEW y \in Nat, NEW z \in Nat, NEW a \in Nat, NEW b \in Nat,
         y <= x + a, z <= y + b
  PROVE  z <= x + (a + b)
OBVIOUS

\* A store that grows twice has grown by the sum.
LEMMA GrowsTransitive ==
  ASSUME NEW s, NEW t, NEW u, StoreSound(s), StoreSound(t), StoreSound(u),
         NEW a \in Nat, NEW b \in Nat, Grows(s, t, a), Grows(t, u, b)
  PROVE  Grows(s, u, a + b)
<1> USE DEF Grows
<1>1. \A k \in Live(s.entities) : k \in Live(u.entities) /\ Get(u.entities, k) = Get(s.entities, k)
  OBVIOUS
<1>2. ASSUME NEW k \in Live(u.entities), k \notin Live(s.entities)
      PROVE  /\ Get(u.entities, k).parent = Invalid /\ Get(u.entities, k).mob = Invalid
             /\ Get(u.entities, k).children = <<>>
  <2>1. CASE k \in Live(t.entities)
    BY <1>2, <2>1
  <2>2. CASE k \notin Live(t.entities)
    BY <1>2, <2>2
  <2> QED BY <2>1, <2>2
<1>3. /\ Len(u.entities.added) <= Len(s.entities.added) + (a + b)
      /\ Len(u.sprites.added) <= Len(s.sprites.added) + (a + b)
      /\ Len(u.physics.added) <= Len(s.physics.added) + (a + b)
  <2>1. /\ Len(s.entities.added) \in Nat /\ Len(t.entities.added) \in Nat /\ Len(u.entities.added) \in Nat
        /\ Len(s.sprites.added) \in Nat /\ Len(t.sprites.added) \in Nat /\ Len(u.sprites.added) \in Nat
        /\ Len(s.physics.added) \in Nat /\ Len(t.physics.added) \in Nat /\ Len(u.physics.added) \in Nat
    BY Lengths
  <2>2. /\ Len(t.entities.added) <= Len(s.entities.added) + a
        /\ Len(t.sprites.added) <= Len(s.sprites.added) + a
        /\ Len(t.physics.added) <= Len(s.physics.added) + a
        /\ Len(u.entities.added) <= Len(t.entities.added) + b
        /\ Len(u.sprites.added) <= Len(t.sprites.added) + b
        /\ Len(u.physics.added) <= Len(t.physics.added) + b
    OBVIOUS
  <2> QED BY ONLY a \in Nat, b \in Nat, <2>1, <2>2, AddBounds
<1>4. u.mobs = s.mobs /\ u.entities.removed = s.entities.removed
      /\ u.sprites.removed = s.sprites.removed /\ u.physics.removed = s.physics.removed
  OBVIOUS
<1> QED BY <1>1, <1>2, <1>3, <1>4

\* A store that stays as it is has grown by at most any number.
LEMMA GrowsNothing ==
  ASSUME NEW s, StoreSound(s), NEW n \in Nat
  PROVE  Grows(s, s, n)
BY Lengths DEF Grows

\* What a killed mob leaves behind.
LEMMA SplatterGrows ==
  ASSUME NEW s, StoreSound(s), Linked(s), NEW p \in Coord, NEW tiles \in Nat, NEW drops \in Nat
  PROVE  LET t == CreateBones(CreateBloodSplatter(s, p, tiles, drops), p)
         IN  StoreSound(t) /\ Linked(t) /\ Grows(s, t, tiles + drops + 1)
<1> DEFINE last == tiles + drops
           b == CreateBloodSplatter(s, p, tiles, drops)
<1>1. StoreSound(b) /\ Linked(b) /\ Grows(s, b, last)
  <2>1. CASE b = s
    BY <2>1, GrowsNothing
  <2>2. CASE b # s
    <3>1. PICK f : /\ f[0] = s
                   /\ \A n \in 1 .. last :
                        \/ f[n] = CreateSprite(f[n - 1], p, TileLife, Invalid)
                        \/ f[n] = CreateDrop(f[n - 1], p)
                   /\ b = f[last]
      BY <2>2, SplatterStepwise
    <3> DEFINE Ok(n) == StoreSound(f[n]) /\ Linked(f[n]) /\ Grows(s, f[n], n)
               S == {n \in Nat : n <= last => Ok(n)}
    <3>2. 0 \in S
      BY <3>1, GrowsNothing
    <3>3. ASSUME NEW n \in Nat, n \in S PROVE n + 1 \in S
      <4> SUFFICES ASSUME n + 1 <= last PROVE Ok(n + 1)
        OBVIOUS
      <4>1. Ok(n)
        BY <3>3
      <4>2. TileLife \in Int
        BY LifeAssumption
      <4>3. \/ f[n + 1] = CreateSprite(f[n], p, TileLife, Invalid)
            \/ f[n + 1] = CreateDrop(f[n], p)
        <5>1. n + 1 \in 1 .. last /\ (n + 1) - 1 = n
          OBVIOUS
        <5> QED BY <3>1, <5>1
      <4>4. StoreSound(f[n + 1]) /\ Linked(f[n + 1]) /\ Grows(f[n], f[n + 1], 1)
        BY <4>1, <4>2, <4>3, SpriteGrows, DropGrows
      <4>5. Grows(s, f[n + 1], n + 1)
        BY <4>1, <4>4, GrowsTransitive
      <4> QED BY <4>4, <4>5
    <3>4. Nat \subseteq S
      <4> HIDE DEF S
      <4> QED BY <3>2, <3>3, SetOfNats
    <3> QED BY <3>1, <3>4
  <2> QED BY <2>1, <2>2
<1> HIDE DEF b
<1>2. BonesLife \in Int
  BY LifeAssumption
<1> DEFINE t == CreateBones(b, p)
<1>3. StoreSound(t) /\ Linked(t) /\ Grows(b, t, 1)
  BY <1>1, <1>2, SpriteGrows DEF CreateBones
<1> HIDE DEF t
<1>4. Grows(s, t, last + 1)
  BY <1>1, <1>3, GrowsTransitive
<1> QED BY <1>3, <1>4 DEF t, b

\* A mob has at most two pieces besides its body.
LEMMA PiecesProperties ==
  ASSUME NEW mob, mob.dir \in Coord
  PROVE  \E n \in 0 .. 2 : DOMAIN Pieces(mob) = 1 .. n /\ \A i \in 1 .. n : Pieces(mob)[i] \in Coord
<1>1. CASE Category(mob) = "Snake"
  <2>1. Pieces(mob) = <<mob.dir>>
    BY <1>1 DEF Pieces
  <2> QED BY <2>1
<1>2. CASE Category(mob) = "Orc"
  <2>1. Pieces(mob) = <<Vec(-1, 1), Vec(1, 1)>>
    BY <1>2 DEF Pieces
  <2>2. Vec(-1, 1) \in Coord /\ Vec(1, 1) \in Coord
    BY DEF Vec, Coord
  <2> HIDE DEF Vec
  <2>3. DOMAIN Pieces(mob) = 1 .. 2 /\ \A i \in 1 .. 2 : Pieces(mob)[i] \in Coord
    BY <2>1, <2>2
  <2> QED BY <2>3
<1>3. CASE Category(mob) # "Snake" /\ Category(mob) # "Orc"
  <2>1. Pieces(mob) = <<>>
    BY <1>3 DEF Pieces
  <2> QED BY <2>1
<1> QED BY <1>1, <1>2, <1>3

\* A mob of n additional pieces is being made: j of their entities are there.
Growing(s, t, type, n, j) ==
  LET e == s.entities.nextKey
      k == s.sprites.nextKey
      m == s.mobs.nextKey
      body == Get(t.entities, e)
      mob == Get(t.mobs, m)
  IN  /\ StoreSound(t)
      /\ t.physics = s.physics
      /\ e \in Nat /\ e # 0 /\ e \notin Live(s.entities) /\ t.entities.nextKey = e + j + 1
      /\ k \in Nat /\ k # 0 /\ k \notin Live(s.sprites) /\ t.sprites.nextKey = k + j + 1
      /\ m \in Nat /\ m # 0 /\ m \notin Live(s.mobs) /\ t.mobs.nextKey = m + 1
      /\ \A i \in Live(s.entities) : i < e
      /\ Live(t.entities) = Live(s.entities) \cup (e .. e + j)
      /\ Live(t.sprites) = Live(s.sprites) \cup (k .. k + j)
      /\ Live(t.mobs) = Live(s.mobs) \cup {m}
      /\ body.parent = Invalid /\ body.life = -1 /\ body.mob = m /\ body.sprite = k
      /\ body.physics = Invalid /\ body.children = [i \in 1 .. n |-> e + i]
      /\ mob.entity = e /\ mob.type = type /\ mob.health = MobDatabase[type].health
      /\ mob.extras = [i \in 1 .. n |-> k + i] /\ DOMAIN Pieces(mob) = 1 .. n
      /\ \A i \in 1 .. j :
           LET piece == Get(t.entities, e + i)
           IN  /\ piece.parent = e /\ piece.life = -1 /\ piece.children = <<>>
               /\ piece.mob = Invalid /\ piece.physics = Invalid /\ piece.sprite = k + i
      /\ \A i \in 0 .. j : Get(t.sprites, k + i).entity = e + i
      /\ \A i \in Live(s.entities) : Get(t.entities, i) = Get(s.entities, i)
      /\ \A i \in Live(s.sprites) : Get(t.sprites, i) = Get(s.sprites, i)
      /\ \A i \in Live(s.mobs) : Get(t.mobs, i) = Get(s.mobs, i)

\* One more piece.
LEMMA PieceAdded ==
  ASSUME NEW s, NEW t, NEW type, NEW n \in Nat, NEW j \in Nat, Growing(s, t, type, n, j),
         NEW q \in Coord
  PROVE  Growing(s, CreateSprite(t, q, -1, s.entities.nextKey), type, n, j + 1)
<1> DEFINE e == s.entities.nextKey
           k == s.sprites.nextKey
           m == s.mobs.nextKey
           u == CreateSprite(t, q, -1, e)
           ne == e + j + 1
           nk == k + j + 1
<1>1. e \in Nat /\ k \in Nat /\ t.entities.nextKey = ne /\ t.sprites.nextKey = nk /\ StoreSound(t)
      /\ m \in Nat
  BY DEF Growing
<1>2. SpriteAdded(t, u, -1, e)
  BY <1>1, CreateSpriteSpec
<1> HIDE DEF u
<1>3. /\ u.mobs = t.mobs /\ u.physics = t.physics /\ StoreSound(u)
      /\ u.entities.nextKey = ne + 1 /\ u.sprites.nextKey = nk + 1
      /\ Live(u.entities) = Live(t.entities) \cup {ne}
      /\ Live(u.sprites) = Live(t.sprites) \cup {nk}
      /\ \A i \in Live(t.entities) : Get(u.entities, i) = Get(t.entities, i)
      /\ \A i \in Live(t.sprites) : Get(u.sprites, i) = Get(t.sprites, i)
      /\ Get(u.sprites, nk).entity = ne
      /\ LET new == Get(u.entities, ne)
         IN  /\ new.parent = e /\ new.children = <<>> /\ new.life = -1
             /\ new.sprite = nk /\ new.mob = Invalid /\ new.physics = Invalid
  BY <1>1, <1>2 DEF SpriteAdded
<1>4. \A i \in 0 .. j : e + i \in Live(t.entities) /\ k + i \in Live(t.sprites)
  <2>1. (e .. e + j) \subseteq Live(t.entities) /\ (k .. k + j) \subseteq Live(t.sprites)
    BY DEF Growing
  <2>2. e \in Nat /\ k \in Nat
    BY <1>1
  <2> HIDE DEF e, k
  <2>3. \A i \in 0 .. j : e + i \in e .. e + j /\ k + i \in k .. k + j
    BY <2>2
  <2> QED BY <2>1, <2>3
<1>5. /\ e .. e + (j + 1) = (e .. e + j) \cup {ne} /\ k .. k + (j + 1) = (k .. k + j) \cup {nk}
      /\ \A i \in 0 .. j + 1 : i \in 0 .. j \/ (i = j + 1 /\ e + i = ne /\ k + i = nk)
      /\ \A i \in 1 .. j : i \in 0 .. j
      /\ e + 0 = e /\ k + 0 = k /\ 0 \in 0 .. j
      /\ ne + 1 = e + (j + 1) + 1 /\ nk + 1 = k + (j + 1) + 1
  <2>1. e \in Nat /\ k \in Nat
    BY <1>1
  <2> HIDE DEF e, k
  <2>2. e .. e + (j + 1) = (e .. e + j) \cup {ne}
    BY <2>1
  <2>3. k .. k + (j + 1) = (k .. k + j) \cup {nk}
    BY <2>1
  <2>4. /\ \A i \in 0 .. j + 1 : i \in 0 .. j \/ (i = j + 1 /\ e + i = ne /\ k + i = nk)
        /\ \A i \in 1 .. j : i \in 0 .. j
    BY <2>1
  <2>5. /\ e + 0 = e /\ k + 0 = k /\ 0 \in 0 .. j
        /\ ne + 1 = e + (j + 1) + 1 /\ nk + 1 = k + (j + 1) + 1
    BY <2>1
  <2> QED BY <2>2, <2>3, <2>4, <2>5
<1>6. /\ StoreSound(u)
      /\ u.physics = s.physics
      /\ e \in Nat /\ e # 0 /\ e \notin Live(s.entities) /\ u.entities.nextKey = e + (j + 1) + 1
      /\ k \in Nat /\ k # 0 /\ k \notin Live(s.sprites) /\ u.sprites.nextKey = k + (j + 1) + 1
      /\ m \in Nat /\ m # 0 /\ m \notin Live(s.mobs) /\ u.mobs.nextKey = m + 1
      /\ \A i \in Live(s.entities) : i < e
  BY <1>3, <1>5 DEF Growing
<1>7. /\ Live(u.entities) = Live(s.entities) \cup (e .. e + (j + 1))
      /\ Live(u.sprites) = Live(s.sprites) \cup (k .. k + (j + 1))
      /\ Live(u.mobs) = Live(s.mobs) \cup {m}
  <2>1. /\ Live(t.entities) = Live(s.entities) \cup (e .. e + j)
        /\ Live(t.sprites) = Live(s.sprites) \cup (k .. k + j)
        /\ Live(t.mobs) = Live(s.mobs) \cup {m}
    BY DEF Growing
  <2>2. /\ e .. e + (j + 1) = (e .. e + j) \cup {ne} /\ k .. k + (j + 1) = (k .. k + j) \cup {nk}
        /\ u.mobs = t.mobs
        /\ Live(u.entities) = Live(t.entities) \cup {ne}
        /\ Live(u.sprites) = Live(t.sprites) \cup {nk}
    BY <1>3, <1>5
  <2> QED BY ONLY <2>1, <2>2
<1>8. LET body == Get(u.entities, e)
          mob == Get(u.mobs, m)
      IN  /\ body.parent = Invalid /\ body.life = -1 /\ body.mob = m /\ body.sprite = k
          /\ body.physics = Invalid /\ body.children = [i \in 1 .. n |-> e + i]
          /\ mob.entity = e /\ mob.type = type /\ mob.health = MobDatabase[type].health
          /\ mob.extras = [i \in 1 .. n |-> k + i] /\ DOMAIN Pieces(mob) = 1 .. n
  <2>1. Get(u.entities, e) = Get(t.entities, e) /\ Get(u.mobs, m) = Get(t.mobs, m)
    BY <1>3, <1>4, <1>5
  <2> QED BY <2>1 DEF Growing
<1>9. ASSUME NEW i \in 1 .. j + 1
      PROVE  LET piece == Get(u.entities, e + i)
             IN  /\ piece.parent = e /\ piece.life = -1 /\ piece.children = <<>>
                 /\ piece.mob = Invalid /\ piece.physics = Invalid /\ piece.sprite = k + i
  <2>1. CASE i \in 1 .. j
    <3>1. Get(u.entities, e + i) = Get(t.entities, e + i)
      BY <1>3, <1>4, <1>5, <2>1
    <3> QED BY <2>1, <3>1 DEF Growing
  <2>2. CASE i = j + 1
    <3>1. e + i = ne /\ k + i = nk
      BY <1>1, <2>2
    <3> QED BY <1>3, <3>1
  <2> QED BY <2>1, <2>2
<1>10. ASSUME NEW i \in 0 .. j + 1 PROVE Get(u.sprites, k + i).entity = e + i
  <2>1. CASE i \in 0 .. j
    <3>1. Get(u.sprites, k + i) = Get(t.sprites, k + i)
      BY <1>3, <1>4, <2>1
    <3> QED BY <2>1, <3>1 DEF Growing
  <2>2. CASE i = j + 1
    <3>1. e + i = ne /\ k + i = nk
      BY <1>1, <2>2
    <3> QED BY <1>3, <3>1
  <2> QED BY <2>1, <2>2
<1>11. /\ \A i \in Live(s.entities) : Get(u.entities, i) = Get(s.entities, i)
       /\ \A i \in Live(s.sprites) : Get(u.sprites, i) = Get(s.sprites, i)
       /\ \A i \in Live(s.mobs) : Get(u.mobs, i) = Get(s.mobs, i)
  BY <1>3 DEF Growing
<1> HIDE DEF e, k, m, ne, nk
<1> QED BY <1>6, <1>7, <1>8, <1>9, <1>10, <1>11 DEF Growing, e, k, m, u

\* With all its pieces the new mob is linked as the others are.
LEMMA GrownLinked ==
  ASSUME NEW s, NEW t, NEW type, NEW n \in Nat, StoreSound(s), Linked(s), Growing(s, t, type, n, n)
  PROVE  Linked(t)
<1> DEFINE e == s.entities.nextKey
           k == s.sprites.nextKey
           m == s.mobs.nextKey
           body == Get(t.entities, e)
           mob == Get(t.mobs, m)
<1> USE DEF Linked
<1>1. e \in Nat /\ k \in Nat /\ m \in Nat /\ e # 0 /\ k # 0 /\ m # 0 /\ StoreSound(t)
      /\ e \notin Live(s.entities) /\ k \notin Live(s.sprites) /\ m \notin Live(s.mobs)
      /\ t.physics = s.physics
      /\ \A i \in Live(s.entities) : i < e
  BY DEF Growing
<1>2. /\ Live(t.entities) = Live(s.entities) \cup (e .. e + n)
      /\ Live(t.sprites) = Live(s.sprites) \cup (k .. k + n)
      /\ Live(t.mobs) = Live(s.mobs) \cup {m}
  BY DEF Growing
<1>3. /\ body.parent = Invalid /\ body.life = -1 /\ body.mob = m /\ body.sprite = k
      /\ body.physics = Invalid /\ body.children = [i \in 1 .. n |-> e + i]
      /\ mob.entity = e /\ mob.type = type
      /\ mob.extras = [i \in 1 .. n |-> k + i] /\ DOMAIN Pieces(mob) = 1 .. n
  BY DEF Growing
<1>4. \A i \in 1 .. n :
        LET piece == Get(t.entities, e + i)
        IN  /\ piece.parent = e /\ piece.life = -1 /\ piece.children = <<>>
            /\ piece.mob = Invalid /\ piece.physics = Invalid /\ piece.sprite = k + i
  BY DEF Growing
<1>5. \A i \in 0 .. n : Get(t.sprites, k + i).entity = e + i
  BY DEF Growing
<1>6. /\ \A i \in Live(s.entities) : Get(t.entities, i) = Get(s.entities, i)
      /\ \A i \in Live(s.sprites) : Get(t.sprites, i) = Get(s.sprites, i)
      /\ \A i \in Live(s.mobs) : Get(t.mobs, i) = Get(s.mobs, i)
  BY DEF Growing
<1> HIDE DEF e, k, m, body, mob
<1>7. /\ \A i \in 0 .. n : e + i \in e .. e + n /\ k + i \in k .. k + n
      /\ \A j \in e .. e + n : j = e \/ \E i \in 1 .. n : j = e + i
      /\ \A j \in k .. k + n : \E i \in 0 .. n : j = k + i
      /\ e + 0 = e /\ k + 0 = k /\ 0 \in 0 .. n
      /\ \A i \in 1 .. n : i \in 0 .. n
  <2>1. \A i \in 0 .. n : e + i \in e .. e + n /\ k + i \in k .. k + n
    BY <1>1
  <2>2. ASSUME NEW j \in e .. e + n, j # e PROVE \E i \in 1 .. n : j = e + i
    <3>1. j - e \in 1 .. n /\ j = e + (j - e)
      BY <1>1, <2>2
    <3> QED BY <3>1
  <2>3. ASSUME NEW j \in k .. k + n PROVE \E i \in 0 .. n : j = k + i
    <3>1. j - k \in 0 .. n /\ j = k + (j - k)
      BY <1>1
    <3> QED BY <3>1
  <2>4. e + 0 = e /\ k + 0 = k /\ 0 \in 0 .. n /\ \A i \in 1 .. n : i \in 0 .. n
    BY <1>1
  <2> QED BY <2>1, <2>2, <2>3, <2>4
<1>8. e \in Live(t.entities) /\ k \in Live(t.sprites)
      /\ \A i \in 1 .. n : e + i \in Live(t.entities) /\ k + i \in Live(t.sprites)
  BY <1>2, <1>7
<1>9. \A j \in Live(t.entities) :
        j \in Live(s.entities) \/ j = e \/ \E i \in 1 .. n : j = e + i
  BY <1>2, <1>7
<1>10. MobsLinked(t)
  <2> SUFFICES ASSUME NEW o \in Live(t.mobs)
      PROVE LET old == Get(t.mobs, o)
                d   == Get(t.entities, old.entity)
            IN  /\ old.entity \in Live(t.entities)
                /\ d.mob = o /\ d.parent = Invalid /\ d.life = -1
                /\ DOMAIN old.extras = DOMAIN Pieces(old) /\ DOMAIN d.children = DOMAIN old.extras
                /\ \A i \in DOMAIN old.extras : Get(t.entities, d.children[i]).sprite = old.extras[i]
    BY DEF MobsLinked
  <2>1. CASE o = m
    <3>1. \A i \in 1 .. n : Get(t.entities, body.children[i]).sprite = mob.extras[i]
      BY <1>3, <1>4
    <3>2. DOMAIN mob.extras = 1 .. n /\ DOMAIN body.children = 1 .. n
      BY <1>3
    <3> QED BY <1>3, <1>8, <2>1, <3>1, <3>2 DEF body, mob
  <2>2. CASE o # m
    <3> DEFINE old == Get(s.mobs, o)
               d == Get(s.entities, old.entity)
    <3>1. o \in Live(s.mobs) /\ Get(t.mobs, o) = old
      BY <1>2, <1>6, <2>2
    <3>2. /\ old.entity \in Live(s.entities)
          /\ d.mob = o /\ d.parent = Invalid /\ d.life = -1
          /\ DOMAIN old.extras = DOMAIN Pieces(old) /\ DOMAIN d.children = DOMAIN old.extras
          /\ \A i \in DOMAIN old.extras : Get(s.entities, d.children[i]).sprite = old.extras[i]
      BY <3>1 DEF MobsLinked
    <3>3. \A i \in DOMAIN d.children : d.children[i] \in Live(s.entities)
      BY <3>2 DEF FamiliesLinked
    <3>4. Get(t.entities, old.entity) = d /\ old.entity \in Live(t.entities)
      BY <1>2, <1>6, <3>2
    <3>5. \A i \in DOMAIN d.children : Get(t.entities, d.children[i]) = Get(s.entities, d.children[i])
      BY <1>6, <3>3
    <3> HIDE DEF old, d
    <3> QED BY <3>1, <3>2, <3>4, <3>5
  <2> QED BY <2>1, <2>2
<1>11. EntitiesLinked(t)
  <2> SUFFICES ASSUME NEW j \in Live(t.entities)
      PROVE LET d == Get(t.entities, j)
            IN  /\ d.mob # Invalid => d.mob \in Live(t.mobs) /\ Get(t.mobs, d.mob).entity = j
                /\ d.sprite \in Live(t.sprites) /\ Get(t.sprites, d.sprite).entity = j
                /\ d.physics # Invalid =>
                     d.physics \in Live(t.physics) /\ Get(t.physics, d.physics).entity = j
    BY DEF EntitiesLinked
  <2>1. CASE j = e
    <3>1. m \in Live(t.mobs) /\ Get(t.sprites, k).entity = e
      BY <1>2, <1>5, <1>7
    <3> QED BY <1>3, <1>8, <2>1, <3>1 DEF body, mob
  <2>2. CASE \E i \in 1 .. n : j = e + i
    <3>1. PICK i \in 1 .. n : j = e + i
      BY <2>2
    <3>2. Get(t.sprites, k + i).entity = j /\ k + i \in Live(t.sprites)
      BY <1>5, <1>7, <1>8, <3>1
    <3> QED BY <1>4, <3>1, <3>2
  <2>3. CASE j \in Live(s.entities)
    <3>1. Get(t.entities, j) = Get(s.entities, j)
      BY <1>6, <2>3
    <3> QED BY <1>1, <1>2, <1>6, <2>3, <3>1 DEF EntitiesLinked
  <2> QED BY <1>9, <2>1, <2>2, <2>3
<1>12. FamiliesLinked(t)
  <2> SUFFICES ASSUME NEW j \in Live(t.entities)
               PROVE  LET d == Get(t.entities, j)
                      IN  /\ \A i \in DOMAIN d.children :
                               /\ d.children[i] \in Live(t.entities)
                               /\ Get(t.entities, d.children[i]).parent = j
                               /\ Get(t.entities, d.children[i]).life = -1
                          /\ d.parent < j
                          /\ d.parent \in Live(t.entities) =>
                               \E i \in DOMAIN Get(t.entities, d.parent).children :
                                 Get(t.entities, d.parent).children[i] = j
    BY DEF FamiliesLinked
  <2>0. 0 \notin Live(t.entities)
    BY <1>1, StoreElements
  <2>1. CASE j = e
    <3>1. DOMAIN body.children = 1 .. n /\ \A i \in 1 .. n : body.children[i] = e + i
      BY <1>3
    <3>2. \A i \in DOMAIN body.children :
               /\ body.children[i] \in Live(t.entities)
               /\ Get(t.entities, body.children[i]).parent = e
               /\ Get(t.entities, body.children[i]).life = -1
      BY <1>4, <1>8, <3>1
    <3>3. body.parent = 0 /\ 0 < e
      BY <1>1, <1>3 DEF Invalid
    <3> QED BY <2>0, <2>1, <3>2, <3>3 DEF body
  <2>2. CASE \E i \in 1 .. n : j = e + i
    <3>1. PICK i \in 1 .. n : j = e + i
      BY <2>2
    <3>2. i \in DOMAIN body.children /\ body.children[i] = j
      BY <1>3, <3>1
    <3>3. e < j
      BY <1>1, <3>1
    <3>4. Get(t.entities, j).parent = e /\ DOMAIN Get(t.entities, j).children = {}
      BY <1>4, <3>1
    <3> QED BY <3>2, <3>3, <3>4 DEF body
  <2>3. CASE j \in Live(s.entities)
    <3> DEFINE d == Get(s.entities, j)
    <3>1. Get(t.entities, j) = d /\ d \in Entity /\ j \in Nat /\ j < e
      BY <1>1, <1>6, <2>3, StoreElements
    <3>2. /\ \A i \in DOMAIN d.children :
               /\ d.children[i] \in Live(s.entities)
               /\ Get(s.entities, d.children[i]).parent = j
               /\ Get(s.entities, d.children[i]).life = -1
          /\ d.parent < j
          /\ d.parent \in Live(s.entities) =>
               \E i \in DOMAIN Get(s.entities, d.parent).children :
                 Get(s.entities, d.parent).children[i] = j
      BY <2>3 DEF FamiliesLinked
    <3>3. d.parent \in Live(t.entities) => d.parent \in Live(s.entities)
      <4>1. d.parent \in Nat
        BY <3>1 DEF Entity
      <4>2. d.parent \notin e .. e + n
        BY <1>1, <3>1, <3>2, <4>1
      <4> QED BY <1>2, <4>2
    <3>4. \A i \in DOMAIN d.children :
            /\ d.children[i] \in Live(t.entities)
            /\ Get(t.entities, d.children[i]).parent = j
            /\ Get(t.entities, d.children[i]).life = -1
      BY <1>2, <1>6, <3>2
    <3>5. ASSUME d.parent \in Live(t.entities)
          PROVE  \E i \in DOMAIN Get(t.entities, d.parent).children :
                   Get(t.entities, d.parent).children[i] = j
      <4>1. d.parent \in Live(s.entities)
        BY <3>3, <3>5
      <4>2. Get(t.entities, d.parent) = Get(s.entities, d.parent)
        BY <1>6, <4>1
      <4> QED BY <3>2, <4>1, <4>2
    <3> HIDE DEF d
    <3> QED BY <3>1, <3>2, <3>4, <3>5
  <2> QED BY <1>9, <2>1, <2>2, <2>3
<1>13. PartsLinked(t)
  <2>1. ASSUME NEW j \in Live(t.sprites)
        PROVE  /\ Get(t.sprites, j).entity \in Live(t.entities)
               /\ Get(t.entities, Get(t.sprites, j).entity).sprite = j
    <3>1. CASE j \in Live(s.sprites)
      <4>1. Get(t.sprites, j) = Get(s.sprites, j)
        BY <1>6, <3>1
      <4> QED BY <1>2, <1>6, <3>1, <4>1 DEF PartsLinked
    <3>2. CASE j \notin Live(s.sprites)
      <4>1. PICK i \in 0 .. n : j = k + i
        BY <1>2, <1>7, <3>2
      <4>2. Get(t.sprites, j).entity = e + i
        BY <1>5, <4>1
      <4>3. CASE i = 0
        BY <1>3, <1>7, <1>8, <4>1, <4>2, <4>3 DEF body
      <4>4. CASE i \in 1 .. n
        BY <1>4, <1>8, <4>1, <4>2, <4>4
      <4> QED BY <4>3, <4>4
    <3> QED BY <3>1, <3>2
  <2>2. ASSUME NEW j \in Live(t.physics)
        PROVE  /\ Get(t.physics, j).entity \in Live(t.entities)
               /\ Get(t.entities, Get(t.physics, j).entity).physics = j
    <3>1. j \in Live(s.physics) /\ Get(t.physics, j) = Get(s.physics, j)
      BY <1>1
    <3> QED BY <1>2, <1>6, <3>1 DEF PartsLinked
  <2> QED BY <2>1, <2>2 DEF PartsLinked
<1> QED BY <1>10, <1>11, <1>12, <1>13

\* What createMob adds to the world: a mob that lives, its entity and the
\* entities of its pieces, which are its children.
MobAdded(s, t, type) ==
  LET e == s.entities.nextKey
      m == s.mobs.nextKey
  IN  /\ StoreSound(t) /\ Linked(t)
      /\ e \in Live(t.entities) /\ e \notin Live(s.entities) /\ Get(t.entities, e).mob = m
      /\ m \notin Live(s.mobs) /\ t.mobs.nextKey = m + 1
      /\ Live(t.mobs) = Live(s.mobs) \cup {m}
      /\ Get(t.mobs, m).type = type /\ Get(t.mobs, m).health = MobDatabase[type].health
      /\ \A i \in Live(s.mobs) : Get(t.mobs, i) = Get(s.mobs, i)
      /\ \A i \in Live(s.entities) : i \in Live(t.entities) /\ Get(t.entities, i) = Get(s.entities, i)
      /\ \A i \in Live(t.entities) : i \notin Live(s.entities) =>
           Get(t.entities, i).parent = Invalid \/ Get(t.entities, i).parent \in Live(t.entities)

\* createMob does what MobAdded says: the loop over the pieces leaves all of
\* them linked (game.cpp).
LEMMA CreateMobSpec ==
  ASSUME NEW s, StoreSound(s), Linked(s), NEW type \in DOMAIN MobDatabase, NEW p \in Coord
  PROVE  MobAdded(s, CreateMob(s, type, p), type)
<1> DEFINE e == s.entities.nextKey
           k == s.sprites.nextKey
           m == s.mobs.nextKey
           mob == [NullMob EXCEPT !.entity = e, !.type = type, !.position = p,
                                  !.health = MobDatabase[type].health]
           pieces == Pieces(mob)
           ve == [NullEntity EXCEPT !.mob = m, !.sprite = k,
                                    !.children = [i \in DOMAIN pieces |-> e + i]]
           vm == [mob EXCEPT !.extras = [i \in DOMAIN pieces |-> k + i]]
           vs == [NullSprite EXCEPT !.entity = e, !.position = p]
           body == [s EXCEPT !.entities = Add(@, ve), !.mobs = Add(@, vm), !.sprites = Add(@, vs)]
           WithPiece(t, i) ==
             IF i \in DOMAIN pieces THEN CreateSprite(t, Plus(p, pieces[i]), -1, e) ELSE t
<1>1. CreateMob(s, type, p) = WithPiece(WithPiece(body, 1), 2)
  BY DEF CreateMob
<1>2. e \in Nat /\ k \in Nat /\ m \in Nat
  BY DEF StoreSound, ContainerOf
<1>3. mob.dir \in Coord /\ mob.type = type /\ mob.health = MobDatabase[type].health
      /\ mob.entity = e /\ mob \in Mob /\ mob.dir = Vec(0, 1)
  <2>1. /\ NullMob \in Mob /\ NullMob.dir = Vec(0, 1) /\ MobDatabase[type].health \in Int
    <3>1. NullMob.dir = Vec(0, 1)
      BY DEF NullMob
    <3>2. NullMob \in Mob /\ MobDatabase[type].health \in Int
      BY Nulls, SpeedAndHealth
    <3> QED BY <3>1, <3>2
  <2>2. mob.dir \in Coord /\ mob.type = type /\ mob.health = MobDatabase[type].health
        /\ mob.entity = e /\ mob.dir = Vec(0, 1)
    BY DEF NullMob, Vec, Coord
  <2>3. mob \in Mob
    <3> DEFINE h == MobDatabase[type].health
    <3>1. h \in Int
      BY <2>1
    <3> HIDE DEF e, h
    <3> QED BY <1>2, <2>1, <3>1 DEF Mob, h
  <2> QED BY <2>2, <2>3
<1> HIDE DEF mob
<1>4. PICK n \in 0 .. 2 : DOMAIN pieces = 1 .. n /\ \A i \in 1 .. n : pieces[i] \in Coord
  BY <1>3, PiecesProperties
<1> HIDE DEF pieces
<1> DEFINE xs == [i \in DOMAIN pieces |-> k + i]
           cs == [i \in DOMAIN pieces |-> e + i]
<1>5. xs \in Seq(Nat) /\ cs \in Seq(Nat) /\ DOMAIN xs = 1 .. n /\ DOMAIN cs = 1 .. n
      /\ xs = [i \in 1 .. n |-> k + i] /\ cs = [i \in 1 .. n |-> e + i]
  BY <1>2, <1>4
<1>6. ve \in Entity /\ ve.parent = Invalid /\ ve.life = -1 /\ ve.mob = m /\ ve.sprite = k
      /\ ve.physics = Invalid /\ ve.children = cs
  <2>1. NullEntity \in Entity
    BY Nulls
  <2> HIDE DEF cs
  <2>2. [NullEntity EXCEPT !.mob = m, !.sprite = k, !.children = cs] \in Entity
    BY <1>2, <1>5, <2>1 DEF Entity
  <2> QED BY <2>2 DEF NullEntity, Invalid, cs
<1>7. vm \in Mob /\ vm.entity = e /\ vm.type = type /\ vm.health = MobDatabase[type].health
      /\ vm.extras = xs /\ vm.dir = mob.dir
  <2> HIDE DEF xs
  <2>1. [mob EXCEPT !.extras = xs] \in Mob
    BY <1>3, <1>5 DEF Mob
  <2>2. /\ [mob EXCEPT !.extras = xs].entity = e /\ [mob EXCEPT !.extras = xs].type = type
        /\ [mob EXCEPT !.extras = xs].health = MobDatabase[type].health
        /\ [mob EXCEPT !.extras = xs].extras = xs /\ [mob EXCEPT !.extras = xs].dir = mob.dir
    BY <1>3 DEF Mob
  <2> QED BY <2>1, <2>2 DEF xs
<1>8. vs \in SpriteType /\ vs.entity = e
  BY <1>2, Nulls DEF SpriteType
<1>9. /\ body.entities = Add(s.entities, ve) /\ body.sprites = Add(s.sprites, vs)
      /\ body.mobs = Add(s.mobs, vm) /\ body.physics = s.physics
      /\ body = [entities |-> body.entities, mobs |-> body.mobs,
                 sprites |-> body.sprites, physics |-> body.physics]
  <2>1. s = [entities |-> s.entities, mobs |-> s.mobs, sprites |-> s.sprites, physics |-> s.physics]
    BY DEF StoreSound
  <2>2. body = [s EXCEPT !.entities = Add(s.entities, ve), !.mobs = Add(s.mobs, vm),
                         !.sprites = Add(s.sprites, vs)]
    OBVIOUS
  <2> HIDE DEF ve, vm, vs, body
  <2> QED BY ONLY <2>1, <2>2
<1> HIDE DEF ve, vm, vs, body, xs, cs
<1>10. LET d == body.entities
           new == Get(d, e)
       IN  /\ Sound(d, Entity, NullEntity)
           /\ e # 0 /\ e \notin Live(s.entities) /\ d.nextKey = e + 1
           /\ Live(d) = Live(s.entities) \cup {e}
           /\ new = [ve EXCEPT !.id = e]
           /\ \A j \in Live(s.entities) : Get(d, j) = Get(s.entities, j)
  BY <1>6, <1>9, AddSpec, ElementTypes DEF StoreSound
<1>11. LET d == body.sprites
           new == Get(d, k)
       IN  /\ Sound(d, SpriteType, NullSprite)
           /\ k # 0 /\ k \notin Live(s.sprites) /\ d.nextKey = k + 1
           /\ Live(d) = Live(s.sprites) \cup {k}
           /\ new = [vs EXCEPT !.id = k]
           /\ \A j \in Live(s.sprites) : Get(d, j) = Get(s.sprites, j)
  BY <1>8, <1>9, AddSpec, ElementTypes DEF StoreSound
<1>12. LET d == body.mobs
           new == Get(d, m)
       IN  /\ Sound(d, Mob, NullMob)
           /\ m # 0 /\ m \notin Live(s.mobs) /\ d.nextKey = m + 1
           /\ Live(d) = Live(s.mobs) \cup {m}
           /\ new = [vm EXCEPT !.id = m]
           /\ \A j \in Live(s.mobs) : Get(d, j) = Get(s.mobs, j)
  BY <1>7, <1>9, AddSpec, ElementTypes DEF StoreSound
<1>13. StoreSound(body)
  BY <1>9, <1>10, <1>11, <1>12 DEF StoreSound, Sound
<1>14. LET new == Get(body.entities, e)
       IN  /\ new.parent = Invalid /\ new.life = -1 /\ new.mob = m /\ new.sprite = k
           /\ new.physics = Invalid /\ new.children = [i \in 1 .. n |-> e + i]
  <2>1. Get(body.entities, e) = [ve EXCEPT !.id = e]
    BY <1>10
  <2> QED BY <1>5, <1>6, <2>1 DEF Entity
<1>15. LET new == Get(body.mobs, m)
       IN  /\ new.entity = e /\ new.type = type /\ new.health = MobDatabase[type].health
           /\ new.extras = [i \in 1 .. n |-> k + i] /\ DOMAIN Pieces(new) = 1 .. n
  <2>1. Get(body.mobs, m) = [vm EXCEPT !.id = m]
    BY <1>12
  <2>2. [vm EXCEPT !.id = m].type = mob.type
    BY <1>3, <1>7 DEF Mob
  <2>3. DOMAIN Pieces(Get(body.mobs, m)) = 1 .. n
    BY <1>4, <2>1, <2>2, PieceCount DEF pieces
  <2> QED BY <1>5, <1>7, <2>1, <2>3 DEF Mob
<1>16. Get(body.sprites, k).entity = e
  <2>1. Get(body.sprites, k) = [vs EXCEPT !.id = k]
    BY <1>11
  <2> QED BY <1>8, <2>1 DEF SpriteType
<1>17. \A i \in Live(s.entities) : i < e
  BY ElementTypes, LiveProperties DEF StoreSound
<1>18. Growing(s, body, type, n, 0)
  <2>1. e .. e + 0 = {e} /\ k .. k + 0 = {k} /\ e + 0 + 1 = e + 1 /\ k + 0 + 1 = k + 1
        /\ 1 .. 0 = {} /\ 0 .. 0 = {0} /\ e + 0 = e /\ k + 0 = k
    <3> HIDE DEF e, k
    <3> QED BY <1>2
  <2> HIDE DEF e, k, m
  <2>2. Get(body.sprites, k + 0).entity = e + 0
    BY <1>16, <2>1
  <2>3. \A i \in 0 .. 0 : Get(body.sprites, k + i).entity = e + i
    BY <2>1, <2>2
  <2> QED BY <1>2, <1>9, <1>10, <1>11, <1>12, <1>13, <1>14, <1>15, <1>17, <2>1, <2>3
          DEF Growing, e, k, m
<1> DEFINE t1 == WithPiece(body, 1)
           t2 == WithPiece(t1, 2)
<1>19. \A i \in DOMAIN pieces : Plus(p, pieces[i]) \in Coord
  BY <1>4 DEF Plus, Vec, Coord
<1>20. Growing(s, t2, type, n, n)
  <2>1. CASE n = 0
    <3>1. 1 \notin DOMAIN pieces /\ 2 \notin DOMAIN pieces
      BY <1>4, <2>1
    <3>2. t2 = body
      BY <3>1
    <3> QED BY <1>18, <2>1, <3>2
  <2>2. CASE n = 1
    <3>1. 1 \in DOMAIN pieces /\ 2 \notin DOMAIN pieces
      BY <1>4, <2>2
    <3>2. t2 = CreateSprite(body, Plus(p, pieces[1]), -1, e)
      BY <3>1
    <3>3. Growing(s, CreateSprite(body, Plus(p, pieces[1]), -1, e), type, n, 0 + 1)
      BY <1>18, <1>19, <3>1, PieceAdded
    <3> QED BY <2>2, <3>2, <3>3
  <2>3. CASE n = 2
    <3>1. 1 \in DOMAIN pieces /\ 2 \in DOMAIN pieces
      BY <1>4, <2>3
    <3>2. t1 = CreateSprite(body, Plus(p, pieces[1]), -1, e)
          /\ t2 = CreateSprite(t1, Plus(p, pieces[2]), -1, e)
      BY <3>1
    <3>3. Growing(s, CreateSprite(body, Plus(p, pieces[1]), -1, e), type, n, 0 + 1)
      BY <1>18, <1>19, <3>1, PieceAdded
    <3>4. Growing(s, t1, type, n, 1)
      BY <3>2, <3>3
    <3> HIDE DEF t1, t2
    <3>5. Growing(s, CreateSprite(t1, Plus(p, pieces[2]), -1, e), type, n, 1 + 1)
      BY <1>19, <3>1, <3>4, PieceAdded
    <3> QED BY <2>3, <3>2, <3>5
  <2> QED BY <2>1, <2>2, <2>3
<1>21. CreateMob(s, type, p) = t2
  BY <1>1
<1> HIDE DEF t2
<1>22. Linked(t2)
  BY <1>20, GrownLinked
<1>23. ASSUME NEW i \in Live(t2.entities), i \notin Live(s.entities)
       PROVE  Get(t2.entities, i).parent = Invalid \/ Get(t2.entities, i).parent \in Live(t2.entities)
  <2>1. i \in e .. e + n /\ e \in Live(t2.entities)
    <3>1. e \in e .. e + n
      <4> HIDE DEF e
      <4> QED BY <1>2
    <3> QED BY <1>20, <1>23, <3>1 DEF Growing
  <2>2. CASE i = e
    BY <1>20, <2>2 DEF Growing
  <2>3. CASE i # e
    <3>1. i - e \in 1 .. n /\ i = e + (i - e)
      <4> HIDE DEF e
      <4> QED BY <1>2, <2>1, <2>3
    <3>2. Get(t2.entities, e + (i - e)).parent = e
      BY <1>20, <3>1 DEF Growing
    <3> QED BY <2>1, <3>1, <3>2
  <2> QED BY <2>2, <2>3
<1>24. e \in Live(t2.entities) /\ \A i \in Live(s.entities) : i \in Live(t2.entities)
  <2>1. e \in e .. e + n
    <3> HIDE DEF e
    <3> QED BY <1>2
  <2> QED BY <1>20, <2>1 DEF Growing
<1>25. MobAdded(s, t2, type)
  BY <1>20, <1>22, <1>23, <1>24 DEF MobAdded, Growing
<1> QED BY <1>21, <1>25
-----------------------------------------------------------------------------
(* The beginning, the end of a tick, and removals.                         *)

\* The end of a tick changes no element of the world.
Settled(s, t) ==
  /\ StoreSound(t) /\ SameLinks(s, t)
  /\ \A k \in Live(s.entities) : Get(t.entities, k) = Get(s.entities, k)
  /\ \A k \in Live(s.mobs) : Get(t.mobs, k) = Get(s.mobs, k)
  /\ \A c \in Container : t[c].added = <<>> /\ t[c].removed = <<>>
  /\ t.mobs.nextKey = s.mobs.nextKey

\* The four sync() calls that end a tick settle the store.
LEMMA SyncAllSpec ==
  ASSUME NEW s, StoreSound(s)
  PROVE  Settled(s, SyncAll(s))
<1> DEFINE t == SyncAll(s)
<1>1. /\ t.entities = Synced(s.entities) /\ t.mobs = Synced(s.mobs)
      /\ t.sprites = Synced(s.sprites) /\ t.physics = Synced(s.physics)
      /\ t = [entities |-> t.entities, mobs |-> t.mobs, sprites |-> t.sprites, physics |-> t.physics]
  BY DEF SyncAll
<1> HIDE DEF t
<1>2. LET d == t.entities
      IN  /\ Sound(d, Entity, NullEntity) /\ Live(d) = Live(s.entities)
          /\ \A k \in Live(s.entities) : Get(d, k) = Get(s.entities, k)
          /\ d.added = <<>> /\ d.removed = <<>> /\ d.nextKey = s.entities.nextKey
  BY <1>1, SyncKeepsElements, ElementTypes DEF StoreSound
<1>3. LET d == t.mobs
      IN  /\ Sound(d, Mob, NullMob) /\ Live(d) = Live(s.mobs)
          /\ \A k \in Live(s.mobs) : Get(d, k) = Get(s.mobs, k)
          /\ d.added = <<>> /\ d.removed = <<>> /\ d.nextKey = s.mobs.nextKey
  BY <1>1, SyncKeepsElements, ElementTypes DEF StoreSound
<1>4. LET d == t.sprites
      IN  /\ Sound(d, SpriteType, NullSprite) /\ Live(d) = Live(s.sprites)
          /\ \A k \in Live(s.sprites) : Get(d, k) = Get(s.sprites, k)
          /\ d.added = <<>> /\ d.removed = <<>> /\ d.nextKey = s.sprites.nextKey
  BY <1>1, SyncKeepsElements, ElementTypes DEF StoreSound
<1>5. LET d == t.physics
      IN  /\ Sound(d, PhysicsType, NullPhysics) /\ Live(d) = Live(s.physics)
          /\ \A k \in Live(s.physics) : Get(d, k) = Get(s.physics, k)
          /\ d.added = <<>> /\ d.removed = <<>> /\ d.nextKey = s.physics.nextKey
  BY <1>1, SyncKeepsElements, ElementTypes DEF StoreSound
<1>6. StoreSound(t)
  BY <1>1, <1>2, <1>3, <1>4, <1>5 DEF StoreSound, Sound
<1>7. \A c \in Container : t[c].added = <<>> /\ t[c].removed = <<>>
  BY <1>2, <1>3, <1>4, <1>5 DEF Container
<1>8. SameLinks(s, t)
  BY <1>2, <1>3, <1>4, <1>5 DEF SameLinks
<1> QED BY <1>2, <1>3, <1>6, <1>7, <1>8 DEF Settled, t

\* The store the game starts from.
LEMMA EmptyStoreSound ==
  /\ StoreSound(EmptyStore) /\ Linked(EmptyStore)
  /\ Live(EmptyStore.entities) = {} /\ Live(EmptyStore.mobs) = {}
  /\ EmptyStore.entities.nextKey = 1 /\ EmptyStore.mobs.nextKey = 1
<1>1. /\ EmptyStore.entities = EmptyContainer(NullEntity) /\ EmptyStore.mobs = EmptyContainer(NullMob)
      /\ EmptyStore.sprites = EmptyContainer(NullSprite)
      /\ EmptyStore.physics = EmptyContainer(NullPhysics)
      /\ EmptyStore = [entities |-> EmptyStore.entities, mobs |-> EmptyStore.mobs,
                       sprites |-> EmptyStore.sprites, physics |-> EmptyStore.physics]
  BY DEF EmptyStore
<1>2. /\ Sound(EmptyStore.entities, Entity, NullEntity) /\ Live(EmptyStore.entities) = {}
      /\ Sound(EmptyStore.mobs, Mob, NullMob) /\ Live(EmptyStore.mobs) = {}
      /\ Sound(EmptyStore.sprites, SpriteType, NullSprite) /\ Live(EmptyStore.sprites) = {}
      /\ Sound(EmptyStore.physics, PhysicsType, NullPhysics) /\ Live(EmptyStore.physics) = {}
  BY <1>1, Nulls, EmptySound
<1>3. StoreSound(EmptyStore)
  BY <1>1, <1>2 DEF StoreSound, Sound
<1>4. Linked(EmptyStore)
  BY <1>2 DEF Linked, MobsLinked, EntitiesLinked, FamiliesLinked, PartsLinked
<1>5. EmptyStore.entities.nextKey = 1 /\ EmptyStore.mobs.nextKey = 1
  BY <1>1 DEF EmptyContainer
<1> QED BY <1>2, <1>3, <1>4, <1>5

\* The recursive function of setup() is what it says.
LEMMA PopulatedStepwise ==
  ASSUME NEW w, NEW place, Len(w.mobs) \in Nat
  PROVE  \E f : /\ f[0] = CreateMob(EmptyStore, "Player", Origin)
                /\ \A n \in 1 .. Len(w.mobs) : f[n] = CreateMob(f[n - 1], w.mobs[n], place[n])
                /\ Populated(w, place) = f[Len(w.mobs)]
<1> DEFINE first == CreateMob(EmptyStore, "Player", Origin)
           Is(g, m) == g = [n \in 0 .. m |-> IF n = 0 THEN first
                                             ELSE CreateMob(g[n - 1], w.mobs[n], place[n])]
           S == {m \in Nat : \E g : Is(g, m)}
           last == Len(w.mobs)
<1> HIDE DEF first
<1>1. 0 \in S
  <2> DEFINE g == [n \in 0 .. 0 |-> first]
  <2>1. Is(g, 0)
    OBVIOUS
  <2> QED BY <2>1
<1>2. ASSUME NEW m \in Nat, m \in S PROVE m + 1 \in S
  <2>1. PICK g : Is(g, m)
    BY <1>2
  <2> DEFINE h == [n \in 0 .. m + 1 |->
                     IF n = m + 1 THEN CreateMob(g[m], w.mobs[m + 1], place[m + 1]) ELSE g[n]]
  <2>2. ASSUME NEW n \in 0 .. m + 1
        PROVE  h[n] = IF n = 0 THEN first ELSE CreateMob(h[n - 1], w.mobs[n], place[n])
    <3>1. CASE n = m + 1
      BY <3>1
    <3>2. CASE n # m + 1
      <4>1. n \in 0 .. m /\ h[n] = g[n] /\ (n # 0 => h[n - 1] = g[n - 1])
        BY <3>2
      <4>2. g[n] = IF n = 0 THEN first ELSE CreateMob(g[n - 1], w.mobs[n], place[n])
        BY <2>1, <4>1
      <4> QED BY <4>1, <4>2
    <3> QED BY <3>1, <3>2
  <2>3. Is(h, m + 1)
    BY <2>2
  <2> HIDE DEF h, Is
  <2> QED BY <2>3
<1>3. Nat \subseteq S
  <2> HIDE DEF S
  <2> QED BY <1>1, <1>2, SetOfNats
<1>4. \E g : Is(g, last)
  BY <1>3
<1> DEFINE f == CHOOSE g : Is(g, last)
<1>5. Is(f, last)
  BY <1>4
<1>6. Populated(w, place) = f[last]
  BY DEF Populated, first
<1> HIDE DEF f
<1>7. f[0] = first /\ \A n \in 1 .. last : f[n] = CreateMob(f[n - 1], w.mobs[n], place[n])
  BY <1>5
<1> QED BY <1>6, <1>7 DEF first

\* The new mob stands where it was put, and has not saved up any time.
LEMMA CreateMobPlace ==
  ASSUME NEW s, StoreSound(s), NEW type \in DOMAIN MobDatabase, NEW p \in Coord
  PROVE  LET new == Get(CreateMob(s, type, p).mobs, s.mobs.nextKey)
         IN  new.position = p /\ new.tick = 0
<1> DEFINE e == s.entities.nextKey
           k == s.sprites.nextKey
           mob == [NullMob EXCEPT !.entity = e, !.type = type, !.position = p,
                                  !.health = MobDatabase[type].health]
           pieces == Pieces(mob)
           xs == [i \in DOMAIN pieces |-> k + i]
           vm == [mob EXCEPT !.extras = xs]
           ve == [NullEntity EXCEPT !.mob = s.mobs.nextKey, !.sprite = k,
                                    !.children = [i \in DOMAIN pieces |-> e + i]]
           vs == [NullSprite EXCEPT !.entity = e, !.position = p]
           body == [s EXCEPT !.entities = Add(@, ve), !.mobs = Add(@, vm), !.sprites = Add(@, vs)]
           WithPiece(t, i) ==
             IF i \in DOMAIN pieces THEN CreateSprite(t, Plus(p, pieces[i]), -1, e) ELSE t
           Named(t) == t = [entities |-> t.entities, mobs |-> t.mobs,
                            sprites |-> t.sprites, physics |-> t.physics]
<1>1. CreateMob(s, type, p) = WithPiece(WithPiece(body, 1), 2)
  BY DEF CreateMob
<1>2. mob.dir = Vec(0, 1) /\ mob \in Mob /\ mob.position = p /\ mob.tick = 0
  <2> DEFINE h == MobDatabase[type].health
  <2>1. NullMob \in Mob /\ h \in Int /\ e \in Nat
    <3>1. NullMob \in Mob /\ MobDatabase[type].health \in Int
      BY Nulls, SpeedAndHealth
    <3>2. s.entities.nextKey \in Nat
      BY DEF StoreSound, ContainerOf
    <3> QED BY <3>1, <3>2
  <2>2. mob.dir = Vec(0, 1) /\ mob.position = p /\ mob.tick = 0
    <3>1. NullMob.dir = Vec(0, 1) /\ NullMob.tick = 0
      BY DEF NullMob
    <3> HIDE DEF h, e
    <3> QED BY <2>1, <3>1 DEF Mob, h
  <2>3. mob \in Mob
    <3> HIDE DEF h, e
    <3> QED BY <2>1 DEF Mob, h
  <2> QED BY <2>2, <2>3
<1> HIDE DEF mob
<1>3. PICK n \in 0 .. 2 : DOMAIN pieces = 1 .. n
  BY <1>2, PiecesProperties DEF Vec, Coord
<1> HIDE DEF pieces
<1>4. xs \in Seq(Nat)
  <2>1. k \in Nat
    BY DEF StoreSound, ContainerOf
  <2> HIDE DEF k
  <2>2. xs = [i \in 1 .. n |-> k + i] /\ n \in Nat
    BY <1>3
  <2> QED BY ONLY <2>1, <2>2
<1> HIDE DEF xs
<1>5. vm \in Mob /\ vm.position = p /\ vm.tick = 0
  BY <1>2, <1>4 DEF Mob
<1>6. body.mobs = Add(s.mobs, vm) /\ Named(body)
  <2>1. s = [entities |-> s.entities, mobs |-> s.mobs, sprites |-> s.sprites, physics |-> s.physics]
    BY DEF StoreSound
  <2>2. body = [s EXCEPT !.entities = Add(s.entities, ve), !.mobs = Add(s.mobs, vm),
                         !.sprites = Add(s.sprites, vs)]
    OBVIOUS
  <2> HIDE DEF ve, vm, vs, body
  <2> QED BY ONLY <2>1, <2>2
<1> HIDE DEF vm, body
<1>7. ASSUME NEW t, Named(t), NEW i
      PROVE  Named(WithPiece(t, i)) /\ WithPiece(t, i).mobs = t.mobs
  <2> DEFINE q == Plus(p, pieces[i])
             u == CreateSprite(t, q, -1, e)
             a == Add(t.entities, [NullEntity EXCEPT !.sprite = t.sprites.nextKey,
                                                     !.life = -1, !.parent = e])
             b == Add(t.sprites, [NullSprite EXCEPT !.entity = t.entities.nextKey, !.position = q])
  <2>1. Named(u) /\ u.mobs = t.mobs
    <3>1. u = [t EXCEPT !.entities = a, !.sprites = b]
      BY DEF CreateSprite
    <3> HIDE DEF u, a, b
    <3> QED BY ONLY <1>7, <3>1
  <2> QED BY <1>7, <2>1
<1> HIDE DEF WithPiece, Named
<1>8. CreateMob(s, type, p).mobs = Add(s.mobs, vm)
  BY <1>1, <1>6, <1>7
<1>9. Get(Add(s.mobs, vm), s.mobs.nextKey) = [vm EXCEPT !.id = s.mobs.nextKey]
  BY <1>5, AddSpec, ElementTypes DEF StoreSound
<1> QED BY <1>5, <1>8, <1>9 DEF Mob

\* The worlds setup() makes.
Inhabited(t, n) ==
  /\ StoreSound(t) /\ Linked(t)
  /\ 1 \in Live(t.entities) /\ Get(t.entities, 1).mob = 1
  /\ 1 \in Live(t.mobs) /\ Get(t.mobs, 1).type = "Player"
  /\ Get(t.mobs, 1).position = Origin /\ Get(t.mobs, 1).tick = 0
  /\ t.mobs.nextKey = n + 2
  /\ \A m \in Live(t.mobs) : Get(t.mobs, m).health > 0
  /\ \A k \in Live(t.entities) :
       Get(t.entities, k).parent = Invalid \/ Get(t.entities, k).parent \in Live(t.entities)

\* setup() makes a world with the player first and everyone else after it.
LEMMA PopulatedInhabited ==
  ASSUME NEW w \in Scenario, NEW place \in [DOMAIN w.mobs -> Places(w.bounds)]
  PROVE  Inhabited(Populated(w, place), Len(w.mobs)) /\ Len(w.mobs) \in Nat
<1>1. /\ w.bounds \in [left : Int, top : Int, width : Nat, height : Nat]
      /\ w.mobs \in Seq(DOMAIN MobDatabase \ {"Player", "Unknown"})
  BY ScenarioAssumption
<1>2. /\ Len(w.mobs) \in Nat /\ DOMAIN w.mobs = 1 .. Len(w.mobs)
      /\ \A n \in 1 .. Len(w.mobs) : w.mobs[n] \in DOMAIN MobDatabase \ {"Player", "Unknown"}
  BY <1>1
<1>3. \A n \in 1 .. Len(w.mobs) : place[n] \in Coord
  <2>1. Places(w.bounds) \subseteq Coord
    BY <1>1 DEF Places, Coord
  <2> QED BY <1>2, <2>1
<1>4. PICK f : /\ f[0] = CreateMob(EmptyStore, "Player", Origin)
               /\ \A n \in 1 .. Len(w.mobs) : f[n] = CreateMob(f[n - 1], w.mobs[n], place[n])
               /\ Populated(w, place) = f[Len(w.mobs)]
  BY <1>2, PopulatedStepwise
<1> DEFINE S == {n \in Nat : n <= Len(w.mobs) => Inhabited(f[n], n)}
<1>5. 0 \in S
  <2>1. "Player" \in DOMAIN MobDatabase /\ MobDatabase["Player"].health > 0
    BY SpeedAndHealth
  <2>2. Origin \in Coord
    BY DEF Origin, Vec, Coord
  <2>3. MobAdded(EmptyStore, f[0], "Player")
    BY <1>4, <2>1, <2>2, EmptyStoreSound, CreateMobSpec
  <2>4. Get(f[0].mobs, 1).position = Origin /\ Get(f[0].mobs, 1).tick = 0
    BY <1>4, <2>1, <2>2, EmptyStoreSound, CreateMobPlace
  <2>5. Inhabited(f[0], 0)
    <3>1. 1 + 1 = 0 + 2
      OBVIOUS
    <3> QED BY <2>1, <2>3, <2>4, <3>1, EmptyStoreSound DEF MobAdded, Inhabited
  <2> QED BY <2>5
<1>6. ASSUME NEW n \in Nat, n \in S PROVE n + 1 \in S
  <2> SUFFICES ASSUME n + 1 <= Len(w.mobs) PROVE Inhabited(f[n + 1], n + 1)
    OBVIOUS
  <2> DEFINE type == w.mobs[n + 1]
             s == f[n]
             t == f[n + 1]
  <2>1. Inhabited(s, n)
    BY <1>2, <1>6
  <2>2. n + 1 \in 1 .. Len(w.mobs) /\ (n + 1) - 1 = n
    BY <1>2
  <2>3. type \in DOMAIN MobDatabase \ {"Player", "Unknown"} /\ place[n + 1] \in Coord
        /\ t = CreateMob(s, type, place[n + 1])
    BY <1>2, <1>3, <1>4, <2>2
  <2> HIDE DEF type, s, t
  <2>4. MobAdded(s, t, type)
    BY <2>1, <2>3, CreateMobSpec DEF Inhabited
  <2>5. MobDatabase[type].health > 0
    BY <2>3, SpeedAndHealth
  <2>6. \A k \in Live(t.entities) :
          Get(t.entities, k).parent = Invalid \/ Get(t.entities, k).parent \in Live(t.entities)
    BY <2>1, <2>4 DEF MobAdded, Inhabited
  <2>7. \A m \in Live(t.mobs) : Get(t.mobs, m).health > 0
    BY <2>1, <2>4, <2>5 DEF MobAdded, Inhabited
  <2>8. t.mobs.nextKey = (n + 1) + 2
    BY <2>1, <2>4 DEF MobAdded, Inhabited
  <2> QED BY <2>1, <2>4, <2>6, <2>7, <2>8 DEF MobAdded, Inhabited, t
<1>7. Nat \subseteq S
  <2> HIDE DEF S
  <2> QED BY <1>5, <1>6, SetOfNats
<1> QED BY <1>2, <1>4, <1>7

\* An entity goes, with the components it has.
Parted(s, t, k) ==
  LET e == Get(s.entities, k)
  IN  /\ StoreSound(t) /\ Linked(t)
      /\ Live(t.entities) = Live(s.entities) \ {k}
      /\ \A j \in Live(t.entities) : Get(t.entities, j) = Get(s.entities, j)
      /\ Live(t.mobs) = Live(s.mobs) \ {e.mob}
      /\ \A m \in Live(t.mobs) : Get(t.mobs, m) = Get(s.mobs, m)
      /\ t.mobs.added = s.mobs.added /\ t.mobs.nextKey = s.mobs.nextKey
      /\ \A c \in Container : Len(t[c].added) = Len(s[c].added)

\* RemoveComponent of a component that is there, or of none.
LEMMA RemoveComponentSpec ==
  ASSUME NEW T, Elements(T), NEW null, NEW c, Sound(c, T, null),
         NEW k, k # Invalid => k \in Live(c)
  PROVE  LET d == RemoveComponent(c, k)
         IN  /\ Sound(d, T, null)
             /\ Live(d) = Live(c) \ {k}
             /\ \A j \in Live(d) : Get(d, j) = Get(c, j)
             /\ d.nextKey = c.nextKey /\ d.added = c.added
<1>1. CASE k = Invalid
  <2>1. 0 \notin Live(c)
    BY LiveProperties
  <2>2. RemoveComponent(c, k) = c
    BY <1>1 DEF RemoveComponent
  <2> QED BY <1>1, <2>1, <2>2 DEF Invalid
<1>2. CASE k # Invalid
  <2>1. RemoveComponent(c, k) = RemoveLater(c, k)
    BY <1>2 DEF RemoveComponent
  <2> QED BY <1>2, <2>1, RemoveLaterSpec
<1> QED BY <1>1, <1>2

\* RemoveEntity removes an entity whose parent is gone, with its components,
\* and leaves everyone else linked.
LEMMA WithoutSpec ==
  ASSUME NEW s, StoreSound(s), Linked(s), NEW k \in Live(s.entities),
         Get(s.entities, k).parent \notin Live(s.entities)
  PROVE  Parted(s, Without(s, Get(s.entities, k)), k)
<1> DEFINE e == Get(s.entities, k)
           v == [e EXCEPT !.children = <<>>]
           c == Put(s.entities, k, v)
           t == Without(s, e)
<1>1. e \in Entity /\ e.id = k /\ k \in Nat /\ k # 0 /\ v \in Entity /\ v.id = k
  <2>1. e \in Entity /\ e.id = k /\ k \in Nat /\ k # 0
    BY StoreElements
  <2>2. \A x \in Entity, q \in Seq(Nat) :
          [x EXCEPT !.children = q] \in Entity /\ [x EXCEPT !.children = q].id = x.id
    BY DEF Entity
  <2>3. <<>> \in Seq(Nat)
    OBVIOUS
  <2> HIDE DEF e
  <2> QED BY <2>1, <2>2, <2>3
<1>2. /\ t.entities = RemoveLater(c, k) /\ t.mobs = RemoveComponent(s.mobs, e.mob)
      /\ t.sprites = RemoveComponent(s.sprites, e.sprite)
      /\ t.physics = RemoveComponent(s.physics, e.physics)
      /\ t = [entities |-> t.entities, mobs |-> t.mobs, sprites |-> t.sprites, physics |-> t.physics]
  <2>1. t = [entities |-> RemoveLater(Put(s.entities, e.id, [e EXCEPT !.children = <<>>]), e.id),
             mobs     |-> RemoveComponent(s.mobs, e.mob),
             sprites  |-> RemoveComponent(s.sprites, e.sprite),
             physics  |-> RemoveComponent(s.physics, e.physics)]
    BY DEF Without
  <2>2. e.id = k
    BY <1>1
  <2> HIDE DEF t, e
  <2> QED BY ONLY <2>1, <2>2 DEF c, v
<1> HIDE DEF t
<1>3. /\ e.mob # Invalid => e.mob \in Live(s.mobs) /\ Get(s.mobs, e.mob).entity = k
      /\ e.sprite \in Live(s.sprites) /\ Get(s.sprites, e.sprite).entity = k
      /\ e.physics # Invalid => e.physics \in Live(s.physics) /\ Get(s.physics, e.physics).entity = k
  BY DEF Linked, EntitiesLinked
<1> HIDE DEF v
<1>4. /\ Sound(c, Entity, NullEntity) /\ Live(c) = Live(s.entities)
      /\ \A j \in Live(s.entities) \ {k} : Get(c, j) = Get(s.entities, j)
      /\ Len(c.added) = Len(s.entities.added)
  <2> HIDE DEF e
  <2> QED BY <1>1, PutSpec, ElementTypes DEF StoreSound
<1> HIDE DEF c
<1>5. LET d == t.entities
      IN  /\ Sound(d, Entity, NullEntity) /\ Live(d) = Live(s.entities) \ {k}
          /\ \A j \in Live(d) : Get(d, j) = Get(s.entities, j)
          /\ Len(d.added) = Len(s.entities.added)
  <2>1. LET d == t.entities
        IN  /\ Sound(d, Entity, NullEntity)
            /\ Live(d) = Live(c) \ {k}
            /\ \A j \in Live(d) : Get(d, j) = Get(c, j)
            /\ d.added = c.added
    BY <1>2, <1>4, RemoveLaterSpec, ElementTypes
  <2> QED BY <1>4, <2>1
<1>6. LET d == t.mobs
      IN  /\ Sound(d, Mob, NullMob) /\ Live(d) = Live(s.mobs) \ {e.mob}
          /\ \A j \in Live(d) : Get(d, j) = Get(s.mobs, j)
          /\ d.nextKey = s.mobs.nextKey /\ d.added = s.mobs.added
  BY <1>2, <1>3, RemoveComponentSpec, ElementTypes DEF StoreSound
<1>7. LET d == t.sprites
      IN  /\ Sound(d, SpriteType, NullSprite) /\ Live(d) = Live(s.sprites) \ {e.sprite}
          /\ \A j \in Live(d) : Get(d, j) = Get(s.sprites, j)
          /\ d.added = s.sprites.added
  BY <1>2, <1>3, RemoveComponentSpec, ElementTypes DEF StoreSound
<1>8. LET d == t.physics
      IN  /\ Sound(d, PhysicsType, NullPhysics) /\ Live(d) = Live(s.physics) \ {e.physics}
          /\ \A j \in Live(d) : Get(d, j) = Get(s.physics, j)
          /\ d.added = s.physics.added
  BY <1>2, <1>3, RemoveComponentSpec, ElementTypes DEF StoreSound
<1>9. StoreSound(t)
  BY <1>2, <1>5, <1>6, <1>7, <1>8 DEF StoreSound, Sound
<1>10. \A j \in Live(s.entities) : \A i \in DOMAIN Get(s.entities, j).children :
         /\ Get(s.entities, j).children[i] \in Live(s.entities)
         /\ Get(s.entities, j).children[i] # k
         /\ Get(s.entities, Get(s.entities, j).children[i]).parent = j
         /\ Get(s.entities, Get(s.entities, j).children[i]).life = -1
  BY DEF Linked, FamiliesLinked
<1> HIDE DEF e
<1>11. MobsLinked(t)
  <2> SUFFICES ASSUME NEW m \in Live(t.mobs)
      PROVE LET mob == Get(t.mobs, m)
                d   == Get(t.entities, mob.entity)
            IN  /\ mob.entity \in Live(t.entities)
                /\ d.mob = m /\ d.parent = Invalid /\ d.life = -1
                /\ DOMAIN mob.extras = DOMAIN Pieces(mob) /\ DOMAIN d.children = DOMAIN mob.extras
                /\ \A i \in DOMAIN mob.extras : Get(t.entities, d.children[i]).sprite = mob.extras[i]
    BY DEF MobsLinked
  <2> DEFINE mob == Get(s.mobs, m)
             d   == Get(s.entities, mob.entity)
  <2>1. m \in Live(s.mobs) /\ m # e.mob /\ Get(t.mobs, m) = mob
    BY <1>6
  <2>2. /\ mob.entity \in Live(s.entities)
        /\ d.mob = m /\ d.parent = Invalid /\ d.life = -1
        /\ DOMAIN mob.extras = DOMAIN Pieces(mob) /\ DOMAIN d.children = DOMAIN mob.extras
        /\ \A i \in DOMAIN mob.extras : Get(s.entities, d.children[i]).sprite = mob.extras[i]
    BY <2>1 DEF Linked, MobsLinked
  <2>3. mob.entity # k
    BY <2>1, <2>2 DEF e
  <2>4. mob.entity \in Live(t.entities) /\ Get(t.entities, mob.entity) = d
    BY <1>5, <2>2, <2>3
  <2>5. \A i \in DOMAIN d.children : Get(t.entities, d.children[i]) = Get(s.entities, d.children[i])
    BY <1>5, <1>10, <2>2
  <2> HIDE DEF mob, d
  <2> QED BY <2>1, <2>2, <2>4, <2>5
<1>12. EntitiesLinked(t)
  <2> SUFFICES ASSUME NEW j \in Live(t.entities)
      PROVE LET d == Get(t.entities, j)
            IN  /\ d.mob # Invalid => d.mob \in Live(t.mobs) /\ Get(t.mobs, d.mob).entity = j
                /\ d.sprite \in Live(t.sprites) /\ Get(t.sprites, d.sprite).entity = j
                /\ d.physics # Invalid =>
                     d.physics \in Live(t.physics) /\ Get(t.physics, d.physics).entity = j
    BY DEF EntitiesLinked
  <2> DEFINE d == Get(s.entities, j)
  <2>1. j \in Live(s.entities) /\ j # k /\ Get(t.entities, j) = d
    BY <1>5
  <2>2. /\ d.mob # Invalid => d.mob \in Live(s.mobs) /\ Get(s.mobs, d.mob).entity = j
        /\ d.sprite \in Live(s.sprites) /\ Get(s.sprites, d.sprite).entity = j
        /\ d.physics # Invalid =>
             d.physics \in Live(s.physics) /\ Get(s.physics, d.physics).entity = j
    BY <2>1 DEF Linked, EntitiesLinked
  <2> HIDE DEF d
  <2>3. d.mob # Invalid => d.mob \in Live(t.mobs) /\ Get(t.mobs, d.mob).entity = j
    BY <1>3, <1>6, <2>1, <2>2
  <2>4. d.sprite \in Live(t.sprites) /\ Get(t.sprites, d.sprite).entity = j
    BY <1>3, <1>7, <2>1, <2>2
  <2>5. d.physics # Invalid => d.physics \in Live(t.physics) /\ Get(t.physics, d.physics).entity = j
    BY <1>3, <1>8, <2>1, <2>2
  <2> QED BY <2>1, <2>3, <2>4, <2>5
<1>13. FamiliesLinked(t)
  <2> SUFFICES ASSUME NEW j \in Live(t.entities)
               PROVE  LET d == Get(t.entities, j)
                      IN  /\ \A i \in DOMAIN d.children :
                               /\ d.children[i] \in Live(t.entities)
                               /\ Get(t.entities, d.children[i]).parent = j
                               /\ Get(t.entities, d.children[i]).life = -1
                          /\ d.parent < j
                          /\ d.parent \in Live(t.entities) =>
                               \E i \in DOMAIN Get(t.entities, d.parent).children :
                                 Get(t.entities, d.parent).children[i] = j
    BY DEF FamiliesLinked
  <2> DEFINE d == Get(s.entities, j)
  <2>1. j \in Live(s.entities) /\ j # k /\ Get(t.entities, j) = d
    BY <1>5
  <2>2. /\ d.parent < j
        /\ d.parent \in Live(s.entities) =>
               \E i \in DOMAIN Get(s.entities, d.parent).children :
                 Get(s.entities, d.parent).children[i] = j
    BY <2>1 DEF Linked, FamiliesLinked
  <2>3. \A i \in DOMAIN d.children :
               /\ d.children[i] \in Live(t.entities)
               /\ Get(t.entities, d.children[i]).parent = j
               /\ Get(t.entities, d.children[i]).life = -1
    BY <1>5, <1>10, <2>1
  <2>4. ASSUME d.parent \in Live(t.entities)
        PROVE  \E i \in DOMAIN Get(t.entities, d.parent).children :
                 Get(t.entities, d.parent).children[i] = j
    BY <1>5, <2>2, <2>4
  <2> HIDE DEF d
  <2> QED BY <2>1, <2>2, <2>3, <2>4
<1>14. PartsLinked(t)
  <2>1. ASSUME NEW j \in Live(t.sprites)
        PROVE  /\ Get(t.sprites, j).entity \in Live(t.entities)
               /\ Get(t.entities, Get(t.sprites, j).entity).sprite = j
    <3> DEFINE x == Get(s.sprites, j).entity
    <3>1. j \in Live(s.sprites) /\ j # e.sprite /\ Get(t.sprites, j).entity = x
      BY <1>7
    <3>2. x \in Live(s.entities) /\ Get(s.entities, x).sprite = j
      BY <3>1 DEF Linked, PartsLinked
    <3>3. x # k
      BY <3>1, <3>2 DEF e
    <3> HIDE DEF x
    <3> QED BY <1>5, <3>1, <3>2, <3>3
  <2>2. ASSUME NEW j \in Live(t.physics)
        PROVE  /\ Get(t.physics, j).entity \in Live(t.entities)
               /\ Get(t.entities, Get(t.physics, j).entity).physics = j
    <3> DEFINE x == Get(s.physics, j).entity
    <3>1. j \in Live(s.physics) /\ j # e.physics /\ Get(t.physics, j).entity = x
      BY <1>8
    <3>2. x \in Live(s.entities) /\ Get(s.entities, x).physics = j
      BY <3>1 DEF Linked, PartsLinked
    <3>3. x # k
      BY <3>1, <3>2 DEF e
    <3> HIDE DEF x
    <3> QED BY <1>5, <3>1, <3>2, <3>3
  <2> QED BY <2>1, <2>2 DEF PartsLinked
<1>15. \A x \in Container : Len(t[x].added) = Len(s[x].added)
  BY <1>5, <1>6, <1>7, <1>8 DEF Container
<1>16. Parted(s, t, k)
  BY <1>5, <1>6, <1>9, <1>11, <1>12, <1>13, <1>14, <1>15 DEF Parted, Linked, e
<1> QED BY <1>16 DEF t, e
-----------------------------------------------------------------------------
(* Assignments.                                                            *)

\* A step that neither adds nor removes anything, nor changes who belongs to whom.
SameFrame(s, t) ==
  /\ StoreSound(t) /\ SameLinks(s, t)
  /\ t.mobs.nextKey = s.mobs.nextKey
  /\ Len(t.mobs.values) = Len(s.mobs.values)
  /\ \A i \in DOMAIN s.mobs.values : t.mobs.values[i].id = s.mobs.values[i].id
  /\ \A c \in Container : Len(t[c].added) = Len(s[c].added) /\ t[c].removed = s[c].removed

\* The same mob in another state.
SameMob(a, b) == b.id = a.id /\ b.entity = a.entity /\ b.extras = a.extras /\ b.type = a.type

\* A handler assigns to a mob.
WithMob(s, m, v) == [s EXCEPT !.mobs = Put(s.mobs, m, v)]

\* Assigning to a mob through operator[] changes that mob and no link.
LEMMA MobPutSpec ==
  ASSUME NEW s, StoreSound(s), NEW m \in Live(s.mobs), NEW v \in Mob, SameMob(Get(s.mobs, m), v)
  PROVE  LET t == WithMob(s, m, v)
         IN  /\ SameFrame(s, t) /\ t.entities = s.entities
             /\ Get(t.mobs, m) = v
             /\ \A k \in Live(s.mobs) \ {m} : Get(t.mobs, k) = Get(s.mobs, k)
<1> DEFINE d == Put(s.mobs, m, v)
           t == WithMob(s, m, v)
<1>0. v.id = m /\ SameMob(Get(s.mobs, m), v)
  BY StoreElements DEF SameMob
<1>1. /\ Sound(d, Mob, NullMob) /\ Live(d) = Live(s.mobs) /\ Get(d, m) = v
      /\ \A k \in Live(s.mobs) \ {m} : Get(d, k) = Get(s.mobs, k)
      /\ d.nextKey = s.mobs.nextKey /\ d.removed = s.mobs.removed
      /\ Len(d.added) = Len(s.mobs.added) /\ Len(d.values) = Len(s.mobs.values)
      /\ \A i \in DOMAIN s.mobs.values :
           d.values[i] = IF s.mobs.values[i].id = m THEN v ELSE s.mobs.values[i]
  BY <1>0, PutSpec, ElementTypes DEF StoreSound
<1> HIDE DEF d
<1>2. /\ t.mobs = d /\ t.entities = s.entities /\ t.sprites = s.sprites /\ t.physics = s.physics
      /\ t = [entities |-> t.entities, mobs |-> t.mobs, sprites |-> t.sprites, physics |-> t.physics]
  <2>1. s = [entities |-> s.entities, mobs |-> s.mobs, sprites |-> s.sprites, physics |-> s.physics]
    BY DEF StoreSound
  <2>2. t = [s EXCEPT !.mobs = d]
    BY DEF WithMob, d
  <2> HIDE DEF t
  <2> QED BY ONLY <2>1, <2>2
<1> HIDE DEF t
<1>3. StoreSound(t)
  BY <1>1, <1>2 DEF StoreSound, Sound
<1>4. \A i \in DOMAIN s.mobs.values : t.mobs.values[i].id = s.mobs.values[i].id
  BY <1>0, <1>1, <1>2
<1>5. \A k \in Live(s.mobs) : SameMob(Get(s.mobs, k), Get(t.mobs, k))
  BY <1>0, <1>1, <1>2 DEF SameMob
<1>6. SameLinks(s, t)
  BY <1>1, <1>2, <1>5 DEF SameLinks, SameMob
<1>7. \A c \in Container : Len(t[c].added) = Len(s[c].added) /\ t[c].removed = s[c].removed
  BY <1>1, <1>2 DEF Container
<1>8. SameFrame(s, t) /\ t.entities = s.entities /\ Get(t.mobs, m) = v
      /\ \A k \in Live(s.mobs) \ {m} : Get(t.mobs, k) = Get(s.mobs, k)
  BY <1>1, <1>2, <1>3, <1>4, <1>6, <1>7 DEF SameFrame
<1> QED BY <1>8 DEF t, d

\* A sprite is placed.
LEMMA MoveSpriteSpec ==
  ASSUME NEW c, Sound(c, SpriteType, NullSprite), NEW k \in Live(c), NEW p \in Coord
  PROVE  LET d == MoveSprite(c, k, p)
         IN  /\ Sound(d, SpriteType, NullSprite) /\ Live(d) = Live(c)
             /\ \A j \in Live(c) : Get(d, j).entity = Get(c, j).entity
             /\ Len(d.added) = Len(c.added) /\ d.removed = c.removed
<1> DEFINE v == [Get(c, k) EXCEPT !.position = p]
<1>1. Get(c, k) \in SpriteType /\ Get(c, k).id = k
  BY ElementTypes, LiveProperties
<1>2. v \in SpriteType /\ v.id = k /\ v.entity = Get(c, k).entity
  BY <1>1 DEF SpriteType
<1>3. MoveSprite(c, k, p) = Put(c, k, v)
  BY DEF MoveSprite
<1> HIDE DEF v
<1>4. LET d == Put(c, k, v)
      IN  /\ Sound(d, SpriteType, NullSprite) /\ Live(d) = Live(c)
          /\ Get(d, k) = v /\ \A j \in Live(c) \ {k} : Get(d, j) = Get(c, j)
          /\ Len(d.added) = Len(c.added) /\ d.removed = c.removed
  BY <1>2, PutSpec, ElementTypes
<1>5. \A j \in Live(c) : Get(Put(c, k, v), j).entity = Get(c, j).entity
  BY <1>2, <1>4
<1> QED BY <1>3, <1>4, <1>5

\* The sprites of a mob, of its body and its pieces, are there.
LEMMA PlacedSpec ==
  ASSUME StoreSound(store), Linked(store), NEW mob, mob.position \in Coord, mob.dir \in Coord,
         mob.id \in Live(store.mobs), SameMob(Get(store.mobs, mob.id), mob)
  PROVE  LET d == Placed(store.sprites, mob)
         IN  /\ Sound(d, SpriteType, NullSprite) /\ Live(d) = Live(store.sprites)
             /\ \A j \in Live(store.sprites) : Get(d, j).entity = Get(store.sprites, j).entity
             /\ Len(d.added) = Len(store.sprites.added) /\ d.removed = store.sprites.removed
<1> DEFINE c == store.sprites
           e == Get(store.entities, mob.entity)
           pieces == Pieces(mob)
           a == MoveSprite(c, e.sprite, mob.position)
           WithPiece(x, i) ==
             IF i \in DOMAIN pieces
               THEN MoveSprite(x, mob.extras[i], Plus(mob.position, pieces[i])) ELSE x
           Like(d) == /\ Sound(d, SpriteType, NullSprite) /\ Live(d) = Live(c)
                      /\ \A j \in Live(c) : Get(d, j).entity = Get(c, j).entity
                      /\ Len(d.added) = Len(c.added) /\ d.removed = c.removed
<1>1. /\ mob.entity \in Live(store.entities)
      /\ DOMAIN mob.extras = DOMAIN Pieces(Get(store.mobs, mob.id))
      /\ DOMAIN e.children = DOMAIN mob.extras
      /\ \A i \in DOMAIN mob.extras : Get(store.entities, e.children[i]).sprite = mob.extras[i]
  BY DEF Linked, MobsLinked, SameMob
<1>2. DOMAIN mob.extras = DOMAIN pieces
  <2>1. Get(store.mobs, mob.id).type = mob.type
    BY DEF SameMob
  <2> QED BY <1>1, <2>1, PieceCount
<1>3. e.sprite \in Live(c)
  BY <1>1 DEF Linked, EntitiesLinked
<1>4. \A i \in DOMAIN pieces : e.children[i] \in Live(store.entities)
  BY <1>1, <1>2 DEF Linked, FamiliesLinked
<1>5. \A i \in DOMAIN pieces : mob.extras[i] \in Live(c)
  BY <1>1, <1>2, <1>4 DEF Linked, EntitiesLinked
<1>6. \A i \in DOMAIN pieces : Plus(mob.position, pieces[i]) \in Coord
  <2>1. \A i \in DOMAIN pieces : pieces[i] \in Coord
    BY PiecesProperties
  <2> HIDE DEF pieces
  <2> QED BY <2>1 DEF Plus, Vec, Coord
<1>7. Placed(c, mob) = WithPiece(WithPiece(a, 1), 2)
  BY DEF Placed
<1> HIDE DEF e, pieces
<1>8. Like(a)
  BY <1>3, MoveSpriteSpec DEF StoreSound
<1> HIDE DEF a
<1>9. ASSUME NEW x, Like(x), NEW i PROVE Like(WithPiece(x, i))
  <2>1. CASE i \notin DOMAIN pieces
    BY <1>9, <2>1
  <2>2. CASE i \in DOMAIN pieces
    <3> DEFINE y == MoveSprite(x, mob.extras[i], Plus(mob.position, pieces[i]))
    <3>1. /\ Sound(y, SpriteType, NullSprite) /\ Live(y) = Live(x)
          /\ \A j \in Live(x) : Get(y, j).entity = Get(x, j).entity
          /\ Len(y.added) = Len(x.added) /\ y.removed = x.removed
      BY <1>5, <1>6, <1>9, <2>2, MoveSpriteSpec
    <3>2. WithPiece(x, i) = y
      BY <2>2
    <3> HIDE DEF y, c
    <3> QED BY <1>9, <3>1, <3>2
  <2> QED BY <2>1, <2>2
<1> HIDE DEF WithPiece, Like
<1>10. Like(Placed(c, mob))
  BY <1>7, <1>8, <1>9
<1> QED BY <1>10 DEF Like

\* A mob walks: it and its sprites are somewhere else.
WithWalk(m, moved) ==
  [store EXCEPT !.mobs = Put(store.mobs, m, moved), !.sprites = Placed(store.sprites, moved)]

\* A walk moves the mob and leaves every other mob and every link alone.
LEMMA WalkSpec ==
  ASSUME StoreSound(store), Linked(store), NEW m \in Live(store.mobs), NEW q \in Coord
  PROVE  LET moved == [Get(store.mobs, m) EXCEPT !.position = q]
             t == WithWalk(m, moved)
         IN  /\ SameFrame(store, t) /\ t.entities = store.entities
             /\ Get(t.mobs, m) = moved
             /\ \A k \in Live(store.mobs) \ {m} : Get(t.mobs, k) = Get(store.mobs, k)
<1> DEFINE mob == Get(store.mobs, m)
           moved == [mob EXCEPT !.position = q]
           u == WithMob(store, m, moved)
           d == Placed(store.sprites, moved)
           t == WithWalk(m, moved)
<1>1. mob \in Mob /\ mob.id = m
  BY StoreElements
<1>2. moved \in Mob /\ SameMob(mob, moved) /\ moved.id = m /\ moved.position = q
      /\ moved.dir \in Coord
  <2> HIDE DEF mob
  <2> QED BY <1>1 DEF Mob, SameMob
<1>3. /\ SameFrame(store, u) /\ u.entities = store.entities
      /\ Get(u.mobs, m) = moved
      /\ \A k \in Live(store.mobs) \ {m} : Get(u.mobs, k) = Get(store.mobs, k)
  <2> HIDE DEF moved
  <2> QED BY <1>2, MobPutSpec
<1>4. /\ Sound(d, SpriteType, NullSprite) /\ Live(d) = Live(store.sprites)
      /\ \A j \in Live(store.sprites) : Get(d, j).entity = Get(store.sprites, j).entity
      /\ Len(d.added) = Len(store.sprites.added) /\ d.removed = store.sprites.removed
  <2> HIDE DEF moved
  <2> QED BY <1>2, PlacedSpec
<1>5. /\ t.mobs = u.mobs /\ t.entities = u.entities /\ t.sprites = d /\ t.physics = u.physics
      /\ t = [entities |-> t.entities, mobs |-> t.mobs, sprites |-> t.sprites, physics |-> t.physics]
      /\ u.sprites = store.sprites
  <2>1. store = [entities |-> store.entities, mobs |-> store.mobs,
                 sprites |-> store.sprites, physics |-> store.physics]
    BY DEF StoreSound
  <2>2. u = [store EXCEPT !.mobs = Put(store.mobs, m, moved)]
    BY DEF WithMob
  <2>3. t = [store EXCEPT !.mobs = Put(store.mobs, m, moved), !.sprites = d]
    BY DEF WithWalk
  <2> HIDE DEF t, u, d, moved
  <2> QED BY ONLY <2>1, <2>2, <2>3
<1> HIDE DEF t, u, d, moved
<1>6. StoreSound(t)
  BY <1>3, <1>4, <1>5 DEF SameFrame, StoreSound, Sound
<1>7. SameLinks(store, t)
  BY <1>3, <1>4, <1>5 DEF SameFrame, SameLinks
<1>8. \A c \in Container : Len(t[c].added) = Len(store[c].added) /\ t[c].removed = store[c].removed
  BY <1>3, <1>4, <1>5 DEF SameFrame, Container
<1>9. /\ SameFrame(store, t) /\ t.entities = store.entities
      /\ Get(t.mobs, m) = moved
      /\ \A k \in Live(store.mobs) \ {m} : Get(t.mobs, k) = Get(store.mobs, k)
  BY <1>3, <1>5, <1>6, <1>7, <1>8 DEF SameFrame
<1> QED BY <1>9 DEF t, d, moved, mob

\* MobSystem::update assigns to the mob whose turn it is.
WithTurn(s, i, v) == [s EXCEPT !.mobs.values[i] = v]

\* Assigning to the mob whose turn it is changes that mob and no link.
LEMMA TurnSpec ==
  ASSUME NEW s, StoreSound(s), s.mobs.added = <<>>, s.mobs.removed = <<>>,
         NEW i \in DOMAIN s.mobs.values, NEW v \in Mob, SameMob(s.mobs.values[i], v)
  PROVE  LET t == WithTurn(s, i, v)
             m == s.mobs.values[i].id
         IN  /\ SameFrame(s, t) /\ t.entities = s.entities
             /\ m \in Live(s.mobs) /\ Get(s.mobs, m) = s.mobs.values[i]
             /\ Get(t.mobs, m) = v
             /\ \A k \in Live(s.mobs) \ {m} : Get(t.mobs, k) = Get(s.mobs, k)
<1> DEFINE w == [s.mobs.values EXCEPT ![i] = v]
           d == Reassigned(s.mobs, w)
           t == WithTurn(s, i, v)
           m == s.mobs.values[i].id
<1>0. t = [s EXCEPT !.mobs = d]
  BY DEF Reassigned, WithTurn
<1>1. Sound(s.mobs, Mob, NullMob) /\ s.mobs \in ContainerOf(Mob) /\ s.mobs.values \in Seq(Mob)
      /\ DOMAIN s.mobs.values = 1 .. Len(s.mobs.values) /\ Len(s.mobs.values) \in Nat
  <2>1. Sound(s.mobs, Mob, NullMob)
    BY DEF StoreSound
  <2>2. Shape(s.mobs, Mob)
    BY <2>1, SoundProperties
  <2> QED BY <2>1, <2>2 DEF Shape
<1>2. w \in Seq(Mob) /\ Len(w) = Len(s.mobs.values) /\ DOMAIN w = DOMAIN s.mobs.values
      /\ w[i] = v /\ \A j \in DOMAIN s.mobs.values : j # i => w[j] = s.mobs.values[j]
  BY <1>1
<1>3. \A j \in DOMAIN s.mobs.values : w[j].id = s.mobs.values[j].id
  BY <1>2 DEF SameMob
<1> HIDE DEF w
<1>4. /\ Sound(d, Mob, NullMob) /\ Live(d) = Live(s.mobs)
      /\ \A j \in DOMAIN s.mobs.values : Get(d, s.mobs.values[j].id) = w[j]
      /\ d.added = <<>> /\ d.removed = <<>> /\ d.values = w /\ d.nextKey = s.mobs.nextKey
  <2> DEFINE c == s.mobs
  <2>1. /\ Sound(c, Mob, NullMob) /\ c.added = <<>> /\ c.removed = <<>>
        /\ w \in Seq(Mob) /\ Len(w) = Len(c.values)
        /\ \A j \in DOMAIN c.values : w[j].id = c.values[j].id
    BY <1>1, <1>2, <1>3
  <2> HIDE DEF c
  <2>2. LET x == Reassigned(c, w)
        IN  /\ Sound(x, Mob, NullMob) /\ Live(x) = Live(c)
            /\ \A j \in DOMAIN c.values : Get(x, c.values[j].id) = w[j]
            /\ x.added = <<>> /\ x.removed = <<>> /\ x.values = w /\ x.nextKey = c.nextKey
    BY ONLY <2>1, ReplaceSpec, ElementTypes
  <2> QED BY <2>2 DEF c
<1>5. /\ t.mobs = d /\ t.entities = s.entities /\ t.sprites = s.sprites /\ t.physics = s.physics
      /\ t = [entities |-> t.entities, mobs |-> t.mobs, sprites |-> t.sprites, physics |-> t.physics]
  <2>1. s = [entities |-> s.entities, mobs |-> s.mobs, sprites |-> s.sprites, physics |-> s.physics]
    BY DEF StoreSound
  <2> HIDE DEF t, d
  <2> QED BY ONLY <1>0, <2>1
<1> HIDE DEF t, d
<1>6. /\ \A j, k \in DOMAIN s.mobs.values : s.mobs.values[j].id = s.mobs.values[k].id => j = k
      /\ \A j \in DOMAIN s.mobs.values :
           s.mobs.values[j].id \in Live(s.mobs) /\ Get(s.mobs, s.mobs.values[j].id) = s.mobs.values[j]
      /\ \A k \in Live(s.mobs) : \E j \in DOMAIN s.mobs.values : s.mobs.values[j].id = k
  BY <1>1, ArraySpec, ElementTypes
<1>7. ASSUME NEW k \in Live(s.mobs)
      PROVE  Get(t.mobs, k) = IF k = m THEN v ELSE Get(s.mobs, k)
  <2>1. PICK j \in DOMAIN s.mobs.values : s.mobs.values[j].id = k
    BY <1>6
  <2>2. Get(t.mobs, k) = w[j]
    BY <1>4, <1>5, <2>1
  <2>3. CASE j = i
    BY <1>2, <2>1, <2>2, <2>3
  <2>4. CASE j # i
    BY <1>2, <1>6, <2>1, <2>2, <2>4
  <2> QED BY <2>3, <2>4
<1>8. m \in Live(s.mobs) /\ Get(s.mobs, m) = s.mobs.values[i]
  BY <1>6
<1>9. \A k \in Live(s.mobs) : SameMob(Get(s.mobs, k), Get(t.mobs, k))
  BY <1>7, <1>8 DEF SameMob
<1> HIDE DEF m
<1>10. StoreSound(t)
  BY <1>4, <1>5 DEF StoreSound, Sound
<1>11. SameLinks(s, t)
  BY <1>4, <1>5, <1>9 DEF SameLinks, SameMob
<1>12. \A c \in Container : Len(t[c].added) = Len(s[c].added) /\ t[c].removed = s[c].removed
  BY <1>4, <1>5 DEF Container
<1>13. Len(t.mobs.values) = Len(s.mobs.values) /\ t.mobs.nextKey = s.mobs.nextKey
       /\ \A j \in DOMAIN s.mobs.values : t.mobs.values[j].id = s.mobs.values[j].id
  BY <1>2, <1>3, <1>4, <1>5
<1>14. SameFrame(s, t)
  BY <1>10, <1>11, <1>12, <1>13 DEF SameFrame
<1> QED BY <1>5, <1>7, <1>8, <1>14 DEF t, m

\* The ages of all entities.
WithAges(s, aged) == [s EXCEPT !.entities.values = aged]

\* Ageing all entities changes no link, and each life is one less.
LEMMA AgesSpec ==
  ASSUME NEW s, StoreSound(s), s.entities.added = <<>>, s.entities.removed = <<>>
  PROVE  LET aged == [i \in DOMAIN s.entities.values |-> Older(s.entities.values[i])]
             t == WithAges(s, aged)
         IN  /\ SameFrame(s, t) /\ t.mobs = s.mobs
             /\ aged \in Seq(Entity)
             /\ \A i \in DOMAIN aged : aged[i].id \in Live(s.entities)
                                       /\ aged[i].life = Get(s.entities, aged[i].id).life
<1> DEFINE vs == s.entities.values
           w == [i \in DOMAIN vs |-> Older(vs[i])]
           d == Reassigned(s.entities, w)
           t == WithAges(s, w)
<1>0. t = [s EXCEPT !.entities = d]
  BY DEF Reassigned, WithAges
<1>1. Sound(s.entities, Entity, NullEntity) /\ vs \in Seq(Entity)
      /\ DOMAIN vs = 1 .. Len(vs) /\ Len(vs) \in Nat
      /\ \A i \in DOMAIN vs : vs[i] \in Entity
  <2>1. Sound(s.entities, Entity, NullEntity)
    BY DEF StoreSound
  <2>2. Shape(s.entities, Entity)
    BY <2>1, SoundProperties
  <2> QED BY <2>1, <2>2 DEF Shape
<1>2. \A a \in Entity :
        /\ Older(a) \in Entity /\ Older(a).id = a.id /\ Older(a).life = a.life
        /\ Older(a).parent = a.parent /\ Older(a).children = a.children
        /\ Older(a).mob = a.mob /\ Older(a).sprite = a.sprite /\ Older(a).physics = a.physics
  BY DEF Older, Entity
<1> HIDE DEF vs
<1>3. w \in Seq(Entity) /\ Len(w) = Len(vs) /\ DOMAIN w = DOMAIN vs
      /\ \A i \in DOMAIN vs : w[i] = Older(vs[i]) /\ w[i].id = vs[i].id
  <2>1. \A i \in 1 .. Len(vs) : Older(vs[i]) \in Entity
    BY <1>1, <1>2
  <2>2. w \in [1 .. Len(vs) -> Entity]
    BY <1>1, <2>1
  <2>3. w \in Seq(Entity) /\ Len(w) = Len(vs)
    BY <1>1, <2>2
  <2> QED BY <1>1, <1>2, <2>3
<1> HIDE DEF w
<1>4. /\ Sound(d, Entity, NullEntity) /\ Live(d) = Live(s.entities)
      /\ \A j \in DOMAIN vs : Get(d, vs[j].id) = w[j]
      /\ d.added = <<>> /\ d.removed = <<>> /\ d.values = w /\ d.nextKey = s.entities.nextKey
  <2> DEFINE c == s.entities
  <2>1. /\ Sound(c, Entity, NullEntity) /\ c.added = <<>> /\ c.removed = <<>>
        /\ w \in Seq(Entity) /\ Len(w) = Len(c.values)
        /\ \A j \in DOMAIN c.values : w[j].id = c.values[j].id
    BY <1>1, <1>3 DEF vs
  <2> HIDE DEF c
  <2>2. LET x == Reassigned(c, w)
        IN  /\ Sound(x, Entity, NullEntity) /\ Live(x) = Live(c)
            /\ \A j \in DOMAIN c.values : Get(x, c.values[j].id) = w[j]
            /\ x.added = <<>> /\ x.removed = <<>> /\ x.values = w /\ x.nextKey = c.nextKey
    BY ONLY <2>1, ReplaceSpec, ElementTypes
  <2> QED BY <2>2 DEF c, vs
<1>5. /\ t.entities = d /\ t.mobs = s.mobs /\ t.sprites = s.sprites /\ t.physics = s.physics
      /\ t = [entities |-> t.entities, mobs |-> t.mobs, sprites |-> t.sprites, physics |-> t.physics]
  <2>1. s = [entities |-> s.entities, mobs |-> s.mobs, sprites |-> s.sprites, physics |-> s.physics]
    BY DEF StoreSound
  <2> HIDE DEF t, d
  <2> QED BY ONLY <1>0, <2>1
<1> HIDE DEF t, d
<1>6. /\ \A j \in DOMAIN vs : vs[j].id \in Live(s.entities) /\ Get(s.entities, vs[j].id) = vs[j]
      /\ \A k \in Live(s.entities) : \E j \in DOMAIN vs : vs[j].id = k
  BY <1>1, ArraySpec, ElementTypes DEF vs
<1>7. ASSUME NEW k \in Live(s.entities)
      PROVE  Get(t.entities, k) = Older(Get(s.entities, k)) /\ Get(s.entities, k) \in Entity
  <2>1. PICK j \in DOMAIN vs : vs[j].id = k
    BY <1>6
  <2> QED BY <1>1, <1>3, <1>4, <1>5, <1>6, <2>1
<1>8. StoreSound(t)
  BY <1>4, <1>5 DEF StoreSound, Sound
<1>9. SameLinks(s, t)
  BY <1>2, <1>4, <1>5, <1>7 DEF SameLinks
<1>10. \A c \in Container : Len(t[c].added) = Len(s[c].added) /\ t[c].removed = s[c].removed
  BY <1>4, <1>5 DEF Container
<1>11. SameFrame(s, t)
  BY <1>5, <1>8, <1>9, <1>10 DEF SameFrame
<1>12. \A i \in DOMAIN w : w[i].id \in Live(s.entities) /\ w[i].life = Get(s.entities, w[i].id).life
  BY <1>1, <1>2, <1>3, <1>6
<1> QED BY <1>3, <1>5, <1>11, <1>12 DEF t, w, vs

-----------------------------------------------------------------------------
(* The events of the ages.                                                 *)

\* The recursive function of the ages is what it says.
LEMMA ExpiredStepwise ==
  ASSUME NEW q, NEW es, Len(es) \in Nat
  PROVE  \E f : /\ f[0] = q
                /\ \A n \in 1 .. Len(es) :
                     f[n] = IF Expired(es[n]) THEN QueueEvent(f[n - 1], EvRemove(es[n].id)) ELSE f[n - 1]
                /\ WithExpired(q, es) = f[Len(es)]
<1> DEFINE Step(x, n) == IF Expired(es[n]) THEN QueueEvent(x, EvRemove(es[n].id)) ELSE x
           Is(g, m) == g = [n \in 0 .. m |-> IF n = 0 THEN q ELSE Step(g[n - 1], n)]
           S == {m \in Nat : \E g : Is(g, m)}
           last == Len(es)
<1> HIDE DEF Step
<1>1. 0 \in S
  <2> DEFINE g == [n \in 0 .. 0 |-> q]
  <2>1. Is(g, 0)
    OBVIOUS
  <2> QED BY <2>1
<1>2. ASSUME NEW m \in Nat, m \in S PROVE m + 1 \in S
  <2>1. PICK g : Is(g, m)
    BY <1>2
  <2> DEFINE h == [n \in 0 .. m + 1 |-> IF n = m + 1 THEN Step(g[m], m + 1) ELSE g[n]]
  <2>2. ASSUME NEW n \in 0 .. m + 1
        PROVE  h[n] = IF n = 0 THEN q ELSE Step(h[n - 1], n)
    <3>1. CASE n = m + 1
      BY <3>1
    <3>2. CASE n # m + 1
      <4>1. n \in 0 .. m /\ h[n] = g[n] /\ (n # 0 => h[n - 1] = g[n - 1])
        BY <3>2
      <4>2. g[n] = IF n = 0 THEN q ELSE Step(g[n - 1], n)
        BY <2>1, <4>1
      <4> QED BY <4>1, <4>2
    <3> QED BY <3>1, <3>2
  <2>3. Is(h, m + 1)
    BY <2>2
  <2> HIDE DEF h, Is
  <2> QED BY <2>3
<1>3. Nat \subseteq S
  <2> HIDE DEF S
  <2> QED BY <1>1, <1>2, SetOfNats
<1>4. \E g : Is(g, last)
  BY <1>3
<1> DEFINE f == CHOOSE g : Is(g, last)
<1>5. Is(f, last)
  BY <1>4
<1>6. WithExpired(q, es) = f[last]
  BY DEF WithExpired, Step
<1> HIDE DEF f
<1>7. f[0] = q /\ \A n \in 1 .. last : f[n] = Step(f[n - 1], n)
  BY <1>5
<1> QED BY <1>6, <1>7 DEF Step
-----------------------------------------------------------------------------

(* Sequences of events.                                                    *)

\* An event of that kind is among them.
HasKind(s, kind) == \E i \in DOMAIN s : s[i].kind = kind

\* No two events of that kind are.
AtMostOne(s, kind) == \A i, j \in DOMAIN s : s[i].kind = kind /\ s[j].kind = kind => i = j

\* In one tick every mob tries at most one step, the player attacks at most
\* once and before any mob moves, and at most one mob dies.
Orderly(s) ==
  /\ \A i, j \in DOMAIN s :
       s[i].kind = "TryWalk" /\ s[j].kind = "TryWalk" /\ s[i].mob = s[j].mob => i = j
  /\ \A i, j \in DOMAIN s : s[i].kind = "TryWalk" /\ s[j].kind = "Attack" => j < i
  /\ AtMostOne(s, "Attack") /\ AtMostOne(s, "KillMob")

\* What a sequence holds after an element is queued.
LEMMA AppendSet ==
  ASSUME NEW T, NEW q \in Seq(T), NEW x \in T
  PROVE  /\ Append(q, x) \in Seq(T) /\ Append(q, x) # <<>>
         /\ ToSet(Append(q, x)) = ToSet(q) \cup {x}
<1> DEFINE r == Append(q, x)
<1>1. r \in Seq(T) /\ Len(q) \in Nat /\ DOMAIN q = 1 .. Len(q)
      /\ DOMAIN r = 1 .. Len(q) + 1 /\ Len(r) = Len(q) + 1
      /\ r[Len(q) + 1] = x /\ \A i \in 1 .. Len(q) : r[i] = q[i]
  BY AppendProperties, LenProperties
<1> HIDE DEF r
<1>2. r # <<>>
  BY <1>1
<1>3. ToSet(r) \subseteq ToSet(q) \cup {x}
  <2> SUFFICES ASSUME NEW i \in DOMAIN r PROVE r[i] \in ToSet(q) \cup {x}
    BY DEF ToSet
  <2>1. i = Len(q) + 1 \/ i \in 1 .. Len(q)
    BY <1>1
  <2> QED BY <1>1, <2>1 DEF ToSet
<1>4. ToSet(q) \cup {x} \subseteq ToSet(r)
  <2>1. \A i \in 1 .. Len(q) : i \in DOMAIN r
    BY <1>1
  <2>2. Len(q) + 1 \in DOMAIN r
    BY <1>1
  <2> QED BY <1>1, <2>1, <2>2 DEF ToSet
<1> QED BY <1>1, <1>2, <1>3, <1>4 DEF r

\* What a sequence holds after its first element is taken.
LEMMA TailSet ==
  ASSUME NEW T, NEW q \in Seq(T), q # <<>>
  PROVE  /\ Head(q) \in T /\ Tail(q) \in Seq(T) /\ Head(q) = q[1] /\ 1 \in DOMAIN q
         /\ ToSet(q) = {Head(q)} \cup ToSet(Tail(q))
         /\ DOMAIN Tail(q) = 1 .. Len(q) - 1 /\ DOMAIN q = 1 .. Len(q) /\ Len(q) \in Nat \ {0}
         /\ \A i \in DOMAIN Tail(q) : i + 1 \in DOMAIN q /\ Tail(q)[i] = q[i + 1]
<1> DEFINE r == Tail(q)
<1>1. Head(q) \in T /\ r \in Seq(T) /\ Len(r) = Len(q) - 1 /\ Head(q) = q[1]
      /\ \A i \in 1 .. Len(r) : r[i] = q[i + 1]
  BY HeadTailProperties
<1>2. Len(q) \in Nat \ {0} /\ DOMAIN q = 1 .. Len(q) /\ DOMAIN r = 1 .. Len(r)
  BY <1>1, LenProperties, EmptySeq
<1> HIDE DEF r
<1>3. \A i \in DOMAIN r : i + 1 \in DOMAIN q /\ r[i] = q[i + 1]
  BY <1>1, <1>2
<1>4. 1 \in DOMAIN q
  BY <1>2
<1>5. ToSet(q) \subseteq {q[1]} \cup ToSet(r)
  <2> SUFFICES ASSUME NEW i \in DOMAIN q, i # 1 PROVE q[i] \in ToSet(r)
    BY DEF ToSet
  <2>1. i - 1 \in DOMAIN r /\ (i - 1) + 1 = i
    BY <1>1, <1>2
  <2>2. r[i - 1] = q[i]
    BY <1>3, <2>1
  <2> QED BY <2>1, <2>2 DEF ToSet
<1>6. {q[1]} \cup ToSet(r) \subseteq ToSet(q)
  BY <1>3, <1>4 DEF ToSet
<1>7. ToSet(q) = {Head(q)} \cup ToSet(r)
  BY <1>1, <1>5, <1>6
<1>8. DOMAIN r = 1 .. Len(q) - 1
  BY <1>1, <1>2
<1> QED BY <1>1, <1>2, <1>3, <1>4, <1>7, <1>8 DEF r

\* What a sequence holds after another is appended.
LEMMA ConcatSet ==
  ASSUME NEW T, NEW q \in Seq(T), NEW r \in Seq(T)
  PROVE  /\ q \o r \in Seq(T) /\ ToSet(q \o r) = ToSet(q) \cup ToSet(r)
         /\ DOMAIN q = 1 .. Len(q) /\ Len(q) \in Nat /\ DOMAIN (q \o r) = 1 .. Len(q) + Len(r)
         /\ \A i \in DOMAIN q : i \in DOMAIN (q \o r) /\ (q \o r)[i] = q[i]
         /\ \A i \in DOMAIN (q \o r) : i \notin DOMAIN q => (q \o r)[i] \in ToSet(r)
<1> DEFINE s == q \o r
<1>1. /\ s \in Seq(T) /\ Len(s) = Len(q) + Len(r)
      /\ \A i \in 1 .. Len(s) : s[i] = IF i <= Len(q) THEN q[i] ELSE r[i - Len(q)]
  BY ConcatProperties
<1>2. Len(q) \in Nat /\ Len(r) \in Nat /\ DOMAIN q = 1 .. Len(q) /\ DOMAIN r = 1 .. Len(r)
      /\ DOMAIN s = 1 .. Len(s)
  BY <1>1, LenProperties
<1> HIDE DEF s
<1>3. \A i \in DOMAIN q : i \in DOMAIN s /\ s[i] = q[i]
  BY <1>1, <1>2
<1>4. ASSUME NEW i \in DOMAIN s, i \notin DOMAIN q PROVE s[i] \in ToSet(r)
  <2>1. i - Len(q) \in DOMAIN r /\ s[i] = r[i - Len(q)]
    BY <1>1, <1>2, <1>4
  <2> QED BY <2>1 DEF ToSet
<1>5. ASSUME NEW i \in DOMAIN r PROVE r[i] \in ToSet(s)
  <2>1. i + Len(q) \in DOMAIN s /\ (i + Len(q)) - Len(q) = i /\ ~(i + Len(q) <= Len(q))
    BY <1>1, <1>2
  <2>2. s[i + Len(q)] = r[i]
    BY <1>1, <1>2, <2>1
  <2> QED BY <2>1, <2>2 DEF ToSet
<1>6. ToSet(s) = ToSet(q) \cup ToSet(r)
  <2>1. ToSet(s) \subseteq ToSet(q) \cup ToSet(r)
    BY <1>3, <1>4 DEF ToSet
  <2>2. ToSet(q) \subseteq ToSet(s)
    BY <1>3 DEF ToSet
  <2>3. ToSet(r) \subseteq ToSet(s)
    BY <1>5 DEF ToSet
  <2> QED BY <2>1, <2>2, <2>3
<1>7. DOMAIN s = 1 .. Len(q) + Len(r)
  BY <1>1, <1>2
<1> QED BY <1>1, <1>2, <1>3, <1>4, <1>6, <1>7 DEF s

\* An event of a kind is in a sequence when it is among its elements.
LEMMA HasKindSet ==
  ASSUME NEW s, NEW kind
  PROVE  HasKind(s, kind) <=> \E ev \in ToSet(s) : ev.kind = kind
BY DEF HasKind, ToSet

\* A batch stays in order as events are taken from it, and what is taken does
\* not come again.
LEMMA OrderlyTail ==
  ASSUME NEW q \in Seq(Event), q # <<>>, Orderly(q)
  PROVE  /\ Orderly(Tail(q))
         /\ Head(q).kind = "TryWalk" =>
              /\ ~HasKind(Tail(q), "Attack")
              /\ \A ev \in ToSet(Tail(q)) : ev.kind = "TryWalk" => ev.mob # Head(q).mob
         /\ Head(q).kind = "Attack" => ~HasKind(Tail(q), "Attack")
         /\ Head(q).kind = "KillMob" => ~HasKind(Tail(q), "KillMob")
<1> DEFINE r == Tail(q)
<1>1. /\ Head(q) = q[1] /\ 1 \in DOMAIN q /\ DOMAIN r = 1 .. Len(q) - 1 /\ Len(q) \in Nat \ {0}
      /\ \A i \in DOMAIN r : i + 1 \in DOMAIN q /\ r[i] = q[i + 1]
  BY TailSet
<1> HIDE DEF r
<1>2. \A i \in DOMAIN r : i \in Nat /\ i + 1 # 1 /\ ~(i + 1 < 1)
      /\ \A j \in DOMAIN r : (i + 1 = j + 1 => i = j) /\ (j + 1 < i + 1 => j < i)
  BY <1>1
<1>3. AtMostOne(r, "Attack") /\ AtMostOne(r, "KillMob")
  BY <1>1, <1>2 DEF Orderly, AtMostOne
<1>4. \A i, j \in DOMAIN r :
        r[i].kind = "TryWalk" /\ r[j].kind = "TryWalk" /\ r[i].mob = r[j].mob => i = j
  BY <1>1, <1>2 DEF Orderly
<1>5. \A i, j \in DOMAIN r : r[i].kind = "TryWalk" /\ r[j].kind = "Attack" => j < i
  BY <1>1, <1>2 DEF Orderly
<1>6. Orderly(r)
  BY <1>3, <1>4, <1>5 DEF Orderly
<1>7. ASSUME Head(q).kind = "TryWalk"
      PROVE  /\ ~HasKind(r, "Attack")
             /\ \A i \in DOMAIN r : r[i].kind = "TryWalk" => r[i].mob # Head(q).mob
  BY <1>1, <1>2, <1>7 DEF Orderly, HasKind
<1>8. Head(q).kind = "Attack" => ~HasKind(r, "Attack")
  BY <1>1, <1>2 DEF Orderly, AtMostOne, HasKind
<1>9. Head(q).kind = "KillMob" => ~HasKind(r, "KillMob")
  BY <1>1, <1>2 DEF Orderly, AtMostOne, HasKind
<1> QED BY <1>6, <1>7, <1>8, <1>9 DEF r, ToSet

\* A queue stays in order as an event is added that nothing forbids.
LEMMA OrderlyAppend ==
  ASSUME NEW q \in Seq(Event), Orderly(q), NEW ev \in Event,
         ev.kind = "TryWalk" => \A e \in ToSet(q) : e.kind = "TryWalk" => e.mob # ev.mob,
         ev.kind = "Attack" => ~HasKind(q, "TryWalk") /\ ~HasKind(q, "Attack"),
         ev.kind = "KillMob" => ~HasKind(q, "KillMob")
  PROVE  Orderly(Append(q, ev))
<1> DEFINE r == Append(q, ev)
           n == Len(q) + 1
<1>1. /\ Len(q) \in Nat /\ DOMAIN q = 1 .. Len(q) /\ DOMAIN r = 1 .. n
      /\ r[n] = ev /\ \A i \in 1 .. Len(q) : r[i] = q[i]
  BY AppendProperties, LenProperties
<1> HIDE DEF r
<1>2. \A i \in DOMAIN r : i \in Nat /\ (i = n \/ (i \in DOMAIN q /\ r[i] = q[i] /\ i < n))
  BY <1>1
<1>3. \A e \in ToSet(q) : \E i \in DOMAIN q : q[i] = e
  BY DEF ToSet
<1>4. \A i \in DOMAIN q : q[i] \in ToSet(q)
  BY DEF ToSet
<1> HIDE DEF n
<1>5. AtMostOne(r, "Attack")
  BY <1>1, <1>2 DEF Orderly, AtMostOne, HasKind
<1>6. AtMostOne(r, "KillMob")
  BY <1>1, <1>2 DEF Orderly, AtMostOne, HasKind
<1>7. \A i, j \in DOMAIN r :
        r[i].kind = "TryWalk" /\ r[j].kind = "TryWalk" /\ r[i].mob = r[j].mob => i = j
  BY <1>1, <1>2, <1>4 DEF Orderly
<1>8. \A i, j \in DOMAIN r : r[i].kind = "TryWalk" /\ r[j].kind = "Attack" => j < i
  BY <1>1, <1>2 DEF Orderly, HasKind
<1> QED BY <1>5, <1>6, <1>7, <1>8 DEF Orderly, r

\* A queue stays in order as removals are added.
LEMMA OrderlyConcat ==
  ASSUME NEW q \in Seq(Event), Orderly(q), NEW r \in Seq(Event),
         \A e \in ToSet(r) : e.kind = "Remove"
  PROVE  Orderly(q \o r)
<1> DEFINE s == q \o r
<1>1. /\ \A i \in DOMAIN q : i \in DOMAIN s /\ s[i] = q[i]
      /\ \A i \in DOMAIN s : i \notin DOMAIN q => s[i] \in ToSet(r)
  BY ConcatSet
<1> HIDE DEF s
<1>2. \A i \in DOMAIN s : (i \in DOMAIN q /\ s[i] = q[i]) \/ s[i].kind = "Remove"
  BY <1>1
<1>3. AtMostOne(s, "Attack") /\ AtMostOne(s, "KillMob")
  BY <1>2 DEF Orderly, AtMostOne
<1>4. \A i, j \in DOMAIN s :
        s[i].kind = "TryWalk" /\ s[j].kind = "TryWalk" /\ s[i].mob = s[j].mob => i = j
  BY <1>2 DEF Orderly
<1>5. \A i, j \in DOMAIN s : s[i].kind = "TryWalk" /\ s[j].kind = "Attack" => j < i
  BY <1>2 DEF Orderly
<1> QED BY <1>3, <1>4, <1>5 DEF Orderly, s

\* The batch of a tick: what was queued, and removals of entities whose life is over.
LEMMA WithExpiredSpec ==
  ASSUME NEW q \in Seq(Event), Orderly(q), NEW es \in Seq(Entity)
  PROVE  LET b == WithExpired(q, es)
         IN  /\ b \in Seq(Event) /\ Orderly(b)
             /\ ToSet(q) \subseteq ToSet(b)
             /\ \A ev \in ToSet(b) :
                  \/ ev \in ToSet(q)
                  \/ \E i \in DOMAIN es : es[i].life > 0 /\ ev = EvRemove(es[i].id)
<1>1. Len(es) \in Nat /\ DOMAIN es = 1 .. Len(es) /\ \A i \in DOMAIN es : es[i] \in Entity
  BY LenProperties, ElementOfSeq
<1>2. PICK f : /\ f[0] = q
               /\ \A n \in 1 .. Len(es) :
                    f[n] = IF Expired(es[n]) THEN QueueEvent(f[n - 1], EvRemove(es[n].id))
                           ELSE f[n - 1]
               /\ WithExpired(q, es) = f[Len(es)]
  BY <1>1, ExpiredStepwise
<1> DEFINE Ended(ev) == \E i \in DOMAIN es : es[i].life > 0 /\ ev = EvRemove(es[i].id)
           Ok(b) == /\ b \in Seq(Event) /\ Orderly(b) /\ ToSet(q) \subseteq ToSet(b)
                    /\ \A ev \in ToSet(b) : ev \in ToSet(q) \/ Ended(ev)
           S == {n \in Nat : n <= Len(es) => Ok(f[n])}
<1>3. 0 \in S
  BY <1>2
<1>4. ASSUME NEW n \in Nat, n \in S PROVE n + 1 \in S
  <2> SUFFICES ASSUME n + 1 <= Len(es) PROVE Ok(f[n + 1])
    OBVIOUS
  <2> DEFINE b == f[n]
             e == es[n + 1]
             ev == EvRemove(e.id)
  <2>1. Ok(b)
    BY <1>1, <1>4
  <2>2. n + 1 \in DOMAIN es /\ e \in Entity /\ (n + 1) - 1 = n
    BY <1>1
  <2>3. f[n + 1] = IF Expired(e) THEN QueueEvent(b, ev) ELSE b
    BY <1>1, <1>2, <2>2
  <2>4. ev \in Event /\ ev.kind = "Remove"
    BY <2>2 DEF EvRemove, Event, Entity
  <2>5. CASE ~Expired(e)
    BY <2>1, <2>3, <2>5
  <2>6. CASE Expired(e)
    <3>1. Ended(ev)
      BY <2>2, <2>6 DEF Expired
    <3> HIDE DEF ev, Ended, e, b
    <3>2. f[n + 1] = Append(b, ev)
      BY <2>3, <2>6 DEF QueueEvent
    <3>3. Append(b, ev) \in Seq(Event) /\ ToSet(Append(b, ev)) = ToSet(b) \cup {ev}
      BY <2>1, <2>4, AppendSet
    <3>4. Orderly(Append(b, ev))
      BY <2>1, <2>4, OrderlyAppend
    <3> QED BY <2>1, <3>1, <3>2, <3>3, <3>4
  <2> QED BY <2>5, <2>6
<1>5. Nat \subseteq S
  <2> HIDE DEF S
  <2> QED BY <1>3, <1>4, SetOfNats
<1>6. Ok(f[Len(es)])
  BY <1>1, <1>5
<1> QED BY <1>2, <1>6
=============================================================================
