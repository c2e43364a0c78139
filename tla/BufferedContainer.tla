------------------------- MODULE BufferedContainer -------------------------
(***************************************************************************)
(* container<T> and buffered_container<T> of the game's util.h: a packed   *)
(* array of components with an index from id to place.  Additions and      *)
(* removals are buffered until sync().                                     *)
(*                                                                         *)
(* A container is one value:                                               *)
(*   values   the packed array                      container::values_     *)
(*   indices  id -> place in values                 container::indices_    *)
(*   null     what a lookup of no element returns   container::nullElement_*)
(*   nextKey  the next id                           container::nextKey_    *)
(*   added    elements that wait for sync()         add_                   *)
(*   removed  ids that wait for sync()              remove_                *)
(* buffered_ is not kept: it is TRUE exactly when one of the two buffers   *)
(* has something in it, and a lookup in empty buffers finds nothing.       *)
(***************************************************************************)
EXTENDS Integers, SequencesExt

Invalid == 0                                                  \* invalid_id

EmptyContainer(null) ==
  [values |-> <<>>, indices |-> [k \in {} |-> 0], null |-> null,
   nextKey |-> 1, added |-> <<>>, removed |-> <<>>]

Ids(s) == {s[i].id : i \in DOMAIN s}
Keys(c) == DOMAIN c.indices

\* What remove() asserts of its argument: the element is in the array or the buffer.
Known(c, k) == k \in Keys(c) \cup Ids(c.added)

\* Where operator[] finds the element: a removed one is gone at once.
InArray(c, k)  == k \in Keys(c) /\ k \notin ToSet(c.removed)
InBuffer(c, k) == k \in Ids(c.added) \ (ToSet(c.removed) \cup Keys(c))
Has(c, k)      == InArray(c, k) \/ InBuffer(c, k)

PlaceInBuffer(c, k) == CHOOSE i \in DOMAIN c.added : c.added[i].id = k

Get(c, k) ==
  IF InArray(c, k) THEN c.values[c.indices[k]]
  ELSE IF InBuffer(c, k) THEN c.added[PlaceInBuffer(c, k)]
  ELSE c.null

\* An assignment through the reference operator[] returns; without an element
\* it is the shared null element that is written.
Put(c, k, v) ==
  IF InArray(c, k) THEN [c EXCEPT !.values[c.indices[k]] = v]
  ELSE IF InBuffer(c, k) THEN [c EXCEPT !.added[PlaceInBuffer(c, k)] = v]
  ELSE [c EXCEPT !.null = v]

\* buffered_container::add; the id it gives the element is c.nextKey.
Add(c, v) ==
  [c EXCEPT !.added = Append(@, [v EXCEPT !.id = c.nextKey]), !.nextKey = @ + 1]

\* buffered_container::remove; its assertion is Known(c, k).
RemoveLater(c, k) == [c EXCEPT !.removed = Append(@, k)]

\* Mutant of Erase: the last element is dropped instead of moved.
EraseNoMove(c, k) ==
  LET moved == [c.indices EXCEPT ![c.values[Len(c.values)].id] = c.indices[k]]
  IN  [c EXCEPT !.values = SubSeq(@, 1, Len(@) - 1),
                !.indices = [j \in Keys(c) \ {k} |-> moved[j]]]

\* container::remove: the last element moves into the hole.
Erase(c, k) ==
  LET hole == c.indices[k]
      back == c.values[Len(c.values)]
      moved == [c.indices EXCEPT ![back.id] = hole]
  IN  [c EXCEPT !.values = SubSeq([@ EXCEPT ![hole] = back], 1, Len(@) - 1),
                !.indices = [j \in Keys(c) \ {k} |-> moved[j]]]

\* One element of the buffer enters the array.
Enter(c, v) ==
  [c EXCEPT !.values = Append(@, v),
            !.indices = [j \in Keys(c) \cup {v.id} |->
                           IF j = v.id THEN Len(c.values) + 1 ELSE @[j]]]

\* container::remove asserts that the key is there: the erasures of a sync()
\* are possible when the ids to remove are distinct and all present by then.
Removable(c) ==
  /\ \A i, j \in DOMAIN c.removed : c.removed[i] = c.removed[j] => i = j
  /\ \A i \in DOMAIN c.removed : Known(c, c.removed[i])

\* The two loops of sync(), over the buffer and over the ids to remove.
Entered(c) ==
  LET after[n \in 0 .. Len(c.added)] ==
        IF n = 0 THEN c ELSE Enter(after[n - 1], c.added[n])
  IN  after[Len(c.added)]

Erased(c) ==
  LET after[n \in 0 .. Len(c.removed)] ==
        IF n = 0 THEN c ELSE Erase(after[n - 1], c.removed[n])
  IN  after[Len(c.removed)]

\* Mutant of Synced: the buffer is not cleared.
SyncedKeepsBuffer(c) == [Erased(Entered(c)) EXCEPT !.removed = <<>>]

Synced(c) == [Erased(Entered(c)) EXCEPT !.added = <<>>, !.removed = <<>>]

\* The packed array and its index describe the same elements.
Packed(c) ==
  /\ \A k \in Keys(c) : c.indices[k] \in DOMAIN c.values /\ c.values[c.indices[k]].id = k
  /\ \A i \in DOMAIN c.values : c.values[i].id \in Keys(c) /\ c.indices[c.values[i].id] = i
=============================================================================
