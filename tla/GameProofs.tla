----------------------------- MODULE GameProofs -----------------------------
(***************************************************************************)
(* The invariant of the game, and what follows from it, for every world,   *)
(* any number of mobs and every choice the game makes at random.           *)
(***************************************************************************)
EXTENDS StoreProofs, TLAPS, SequenceTheorems, WellFoundedInduction
-----------------------------------------------------------------------------

(* The inductive invariant.                                                *)

\* The types of the variables other than the store.
Typed ==
  /\ queue \in Seq(Event) /\ batch \in Seq(Event) /\ remove \in Seq(Nat)
  /\ turn \in Nat \ {0}
  /\ pc \in {"frame", "player", "mobs", "age", "events"}
  /\ windowEvents \in Seq(Arrow) /\ Len(windowEvents) <= 1
  /\ clock \in [subTick : 0 .. SubTicksPerTick, freeze : 0 .. 1]
  /\ world.player = 1 /\ world.keys \subseteq Arrow

\* The mob of the player.
Hero == Get(store.entities, world.player).mob

PlayerLives ==
  /\ world.player \in Live(store.entities)
  /\ Hero \in Live(store.mobs) /\ Get(store.mobs, Hero).type = "Player"

\* The events of this tick that are still to be handled.
Pending == ToSet(queue) \cup ToSet(batch)

\* The removal of k has been asked for.
Asked(k) == EvRemove(k) \in Pending \/ k \in ToSet(remove)

\* Who is asked to go is no one's child any more, not the player, and has no
\* mob that lives; and who has lost its parent is asked to go.
Removals ==
  \A k \in Live(store.entities) :
    LET e == Get(store.entities, k)
    IN  /\ e.parent = Invalid \/ e.parent \in Live(store.entities) \/ Asked(k)
        /\ Asked(k) =>
             /\ e.parent \notin Live(store.entities)
             /\ k # world.player
             /\ e.mob # Invalid => Get(store.mobs, e.mob).health <= 0

\* Who is to be killed has no health left, and is not the player.
Deaths ==
  \A ev \in Pending : ev.kind = "KillMob" /\ ev.who \in Live(store.mobs) =>
    Get(store.mobs, ev.who).health <= 0 /\ ev.who # Hero

\* What a mob has decided is possible from where it stands.
Decided(ev) ==
  /\ ev.kind = "TryWalk" =>
       ev.mob \in Live(store.mobs) /\ Get(store.mobs, ev.mob).position = ev.from
  /\ ev.kind = "Attack" =>
       /\ ev.mob \in Live(store.mobs) /\ ev.target \in Live(store.mobs)
       /\ ev.target # Hero
       /\ Adjacent(Get(store.mobs, ev.mob).position, Get(store.mobs, ev.target).position)

Decisions ==
  /\ pc \notin {"mobs", "age"} =>
       \A ev \in ToSet(queue) : ev.kind # "TryWalk" /\ ev.kind # "Attack"
  /\ \A ev \in Pending : Decided(ev)

\* The queue and the batch are in order, and a mob is not killed by an attack
\* that is still to be handled.
EventOrder ==
  /\ Orderly(queue) /\ Orderly(batch)
  /\ HasKind(batch, "Attack") => ~HasKind(queue, "KillMob")

\* Only mobs whose turn has been have tried a step.
Turns ==
  pc = "mobs" =>
    /\ turn \in DOMAIN store.mobs.values
    /\ \A ev \in ToSet(queue) : ev.kind = "TryWalk" =>
         \/ ev.mob = Hero
         \/ \E j \in DOMAIN store.mobs.values : j < turn /\ store.mobs.values[j].id = ev.mob

\* When the buffers are empty.
Buffers ==
  /\ store.mobs.added = <<>>
  /\ pc # "events" => batch = <<>> /\ remove = <<>>
  /\ pc # "events" \/ HasKind(batch, "KillMob") => \A c \in Container : store[c].added = <<>>
  /\ pc # "events" \/ batch # <<>> => \A c \in Container : store[c].removed = <<>>
  /\ \A c \in Container : Len(store[c].added) <= MaxSize

\* All of it together.
GameInv ==
  /\ Typed /\ StoreSound(store) /\ Linked(store) /\ PlayerLives /\ Removals /\ Deaths
  /\ Decisions /\ EventOrder /\ Turns /\ Buffers

\* The events the game queues are events.
LEMMA EventTypes ==
  /\ \A k \in Nat : EvRemove(k) \in Event /\ EvKillMob(k) \in Event
  /\ \A m \in Nat, p \in Coord, q \in Coord : EvTryWalk(m, p, q) \in Event /\ EvWalked(m, p, q) \in Event
  /\ \A m \in Nat, t \in Nat : EvAttack(m, t) \in Event
BY DEF EvRemove, EvKillMob, EvTryWalk, EvWalked, EvAttack, Event

\* An empty queue holds nothing and is in order.
LEMMA EmptySets ==
  ToSet(<<>>) = {} /\ Orderly(<<>>) /\ \A kind : ~HasKind(<<>>, kind)
BY DEF ToSet, Orderly, AtMostOne, HasKind

\* A sequence of length 0 is the empty one.
LEMMA EmptyLength ==
  ASSUME NEW T, NEW s \in Seq(T), Len(s) = 0
  PROVE  s = <<>>
BY EmptySeq

\* The arrays and buffers of the store are sequences of their elements.
LEMMA Sequences ==
  ASSUME StoreSound(store)
  PROVE  /\ store.mobs.added \in Seq(Mob) /\ store.entities.added \in Seq(Entity)
         /\ store.sprites.added \in Seq(SpriteType) /\ store.physics.added \in Seq(PhysicsType)
         /\ store.mobs.values \in Seq(Mob)
         /\ DOMAIN store.mobs.values = 1 .. Len(store.mobs.values) /\ Len(store.mobs.values) \in Nat
<1>1. /\ Shape(store.entities, Entity) /\ Shape(store.mobs, Mob)
      /\ Shape(store.sprites, SpriteType) /\ Shape(store.physics, PhysicsType)
  BY SoundProperties DEF StoreSound
<1> QED BY <1>1 DEF Shape

\* setup() establishes the invariant, and everybody starts alive.
LEMMA InitInv ==
  ASSUME Init
  PROVE  GameInv /\ \A m \in Live(store.mobs) : Get(store.mobs, m).health > 0
<1>0. PICK w \in Scenario : \E place \in [DOMAIN w.mobs -> Places(w.bounds)] :
        /\ world = [bounds |-> w.bounds, window |-> w.window, player |-> 1, keys |-> w.keys]
        /\ store = SyncAll(Populated(w, place))
        /\ clock = [subTick |-> 0, freeze |-> 0]
        /\ queue = <<>> /\ batch = <<>> /\ remove = <<>> /\ windowEvents = <<>>
        /\ turn = 1 /\ pc = "frame"
  BY DEF Init
<1>1. PICK place \in [DOMAIN w.mobs -> Places(w.bounds)] :
        /\ world = [bounds |-> w.bounds, window |-> w.window, player |-> 1, keys |-> w.keys]
        /\ store = SyncAll(Populated(w, place))
        /\ clock = [subTick |-> 0, freeze |-> 0]
        /\ queue = <<>> /\ batch = <<>> /\ remove = <<>> /\ windowEvents = <<>>
        /\ turn = 1 /\ pc = "frame"
  BY <1>0
<1> DEFINE p == Populated(w, place)
<1>2. Inhabited(p, Len(w.mobs))
  BY PopulatedInhabited
<1> HIDE DEF p
<1>3. Settled(p, store)
  BY <1>1, <1>2, SyncAllSpec DEF Inhabited, p
<1>4. StoreSound(store) /\ Linked(store)
  BY <1>2, <1>3, SameLinksLinked DEF Inhabited, Settled
<1>5. Typed
  <2>1. w.keys \subseteq Arrow
    BY ScenarioAssumption
  <2>2. world.player = 1 /\ world.keys \subseteq Arrow
    BY <1>1, <2>1
  <2>3. clock \in [subTick : 0 .. SubTicksPerTick, freeze : 0 .. 1]
    BY <1>1 DEF SubTicksPerTick
  <2>4. queue \in Seq(Event) /\ batch \in Seq(Event) /\ remove \in Seq(Nat)
        /\ windowEvents \in Seq(Arrow) /\ Len(windowEvents) <= 1
    BY <1>1
  <2> QED BY <1>1, <2>2, <2>3, <2>4 DEF Typed
<1>6. world.player = 1
  BY <1>5 DEF Typed
<1>7. /\ Live(store.entities) = Live(p.entities) /\ Live(store.mobs) = Live(p.mobs)
      /\ \A k \in Live(p.entities) : Get(store.entities, k) = Get(p.entities, k)
      /\ \A k \in Live(p.mobs) : Get(store.mobs, k) = Get(p.mobs, k)
      /\ \A c \in Container : store[c].added = <<>> /\ store[c].removed = <<>>
  BY <1>3 DEF Settled, SameLinks
<1>8. PlayerLives
  BY <1>2, <1>6, <1>7 DEF PlayerLives, Hero, Inhabited
<1>9. Pending = {} /\ \A k : ~Asked(k)
  BY <1>1, EmptySets DEF Pending, Asked
<1>10. Removals
  BY <1>2, <1>7, <1>9 DEF Removals, Inhabited
<1>11. Deaths /\ Decisions /\ EventOrder /\ Turns
  <2>1. Deaths
    BY <1>9 DEF Deaths
  <2>2. Decisions
    BY <1>1, <1>9, EmptySets DEF Decisions
  <2>3. EventOrder
    BY <1>1, EmptySets DEF EventOrder
  <2>4. Turns
    BY <1>1 DEF Turns
  <2> QED BY <2>1, <2>2, <2>3, <2>4
<1>12. Buffers
  <2>1. Len(<<>>) = 0 /\ 0 <= MaxSize
    <3>1. Len(<<>>) = 0
      OBVIOUS
    <3>2. MaxSize \in Nat
      BY SplatterAssumption
    <3> QED BY ONLY <3>1, <3>2
  <2>2. \A c \in Container : Len(store[c].added) <= MaxSize
    BY <1>7, <2>1
  <2>3. "mobs" \in Container
    BY DEF Container
  <2>4. store.mobs.added = <<>>
    BY <1>7, <2>3
  <2> QED BY <1>1, <1>7, <2>2, <2>4 DEF Buffers
<1>13. \A m \in Live(store.mobs) : Get(store.mobs, m).health > 0
  BY <1>2, <1>7 DEF Inhabited
<1> QED BY <1>4, <1>5, <1>8, <1>10, <1>11, <1>12, <1>13 DEF GameInv
-----------------------------------------------------------------------------

(* Steps after which everyone is still there.                              *)

\* The same elements, linked in the same way; no mob is healthier.
Kept(s, t) ==
  /\ StoreSound(t) /\ SameLinks(s, t)
  /\ \A m \in Live(s.mobs) : Get(t.mobs, m).health <= Get(s.mobs, m).health

\* No mob is struck, and none has moved.
Steady(s, t) ==
  /\ Live(t.mobs) = Live(s.mobs)
  /\ \A m \in Live(s.mobs) : /\ Get(t.mobs, m).position = Get(s.mobs, m).position
                             /\ Get(t.mobs, m).health = Get(s.mobs, m).health

\* Every store is linked as it is itself.
LEMMA SameLinksSelf ==
  ASSUME NEW s
  PROVE  SameLinks(s, s)
BY DEF SameLinks

\* A step that leaves the store alone keeps everyone.
LEMMA KeptSelf ==
  ASSUME NEW s, StoreSound(s)
  PROVE  Kept(s, s) /\ SameFrame(s, s)
<1>1. \A m \in Live(s.mobs) : Get(s.mobs, m).health \in Int
  BY StoreElements DEF Mob
<1>2. \A m \in Live(s.mobs) : Get(s.mobs, m).health <= Get(s.mobs, m).health
  BY <1>1
<1> QED BY <1>2, SameLinksSelf DEF Kept, SameFrame

\* The end of a tick keeps everyone.
LEMMA SettledKept ==
  ASSUME NEW s, NEW t, StoreSound(s), Settled(s, t)
  PROVE  Kept(s, t)
<1>1. \A m \in Live(s.mobs) : Get(t.mobs, m).health <= Get(s.mobs, m).health
  BY KeptSelf DEF Kept, Settled
<1> QED BY <1>1 DEF Kept, Settled

\* The mob of the player is one of the entity of the player.
LEMMA HeroProperties ==
  ASSUME GameInv
  PROVE  /\ Hero # Invalid /\ Get(store.mobs, Hero).entity = world.player
         /\ Hero \in Nat /\ Get(store.mobs, Hero) \in Mob /\ Get(store.mobs, Hero).id = Hero
         /\ Get(store.entities, world.player).life = -1
         /\ PlayerMob = Get(store.mobs, Hero)
<1>1. /\ Hero \in Live(store.mobs) /\ world.player \in Live(store.entities)
      /\ StoreSound(store) /\ Linked(store)
  BY DEF GameInv, PlayerLives
<1>2. Hero # Invalid /\ Hero \in Nat /\ Get(store.mobs, Hero) \in Mob /\ Get(store.mobs, Hero).id = Hero
  BY <1>1, StoreElements DEF Invalid
<1>3. Get(store.mobs, Hero).entity = world.player
  BY <1>1, <1>2 DEF Linked, EntitiesLinked, Hero
<1>4. Get(store.entities, world.player).life = -1
  BY <1>1, <1>3 DEF Linked, MobsLinked
<1>5. PlayerMob = Get(store.mobs, Hero)
  BY DEF PlayerMob, Hero
<1> QED BY <1>2, <1>3, <1>4, <1>5

\* Where everyone is kept, the links and the player are.
LEMMA KeptStore ==
  ASSUME GameInv, Kept(store, store'), world' = world
  PROVE  StoreSound(store') /\ Linked(store') /\ PlayerLives' /\ Hero' = Hero
<1>1. StoreSound(store') /\ Linked(store')
  BY SameLinksLinked DEF GameInv, Kept
<1>2. /\ Live(store'.entities) = Live(store.entities) /\ Live(store'.mobs) = Live(store.mobs)
      /\ \A k \in Live(store.entities) : Get(store'.entities, k).mob = Get(store.entities, k).mob
      /\ \A m \in Live(store.mobs) : Get(store'.mobs, m).type = Get(store.mobs, m).type
  BY DEF Kept, SameLinks
<1>3. Hero' = Hero
  BY <1>2 DEF Hero, GameInv, PlayerLives
<1>4. PlayerLives'
  BY <1>2, <1>3 DEF GameInv, PlayerLives
<1> QED BY <1>1, <1>3, <1>4

\* Where everyone is kept and nobody else is asked to go, Removals holds.
LEMMA KeptRemovals ==
  ASSUME GameInv, Kept(store, store'), world' = world,
         \A k \in Live(store.entities) : Asked(k)' <=> Asked(k)
  PROVE  Removals'
<1>1. /\ Live(store'.entities) = Live(store.entities)
      /\ \A k \in Live(store.entities) :
           /\ Get(store'.entities, k).mob = Get(store.entities, k).mob
           /\ Get(store'.entities, k).parent = Get(store.entities, k).parent
  BY DEF Kept, SameLinks
<1> SUFFICES ASSUME NEW k \in Live(store.entities)
    PROVE LET e == Get(store'.entities, k)
          IN  /\ e.parent = Invalid \/ e.parent \in Live(store'.entities) \/ Asked(k)'
              /\ Asked(k)' =>
                   /\ e.parent \notin Live(store'.entities)
                   /\ k # world'.player
                   /\ e.mob # Invalid => Get(store'.mobs, e.mob).health <= 0
  BY <1>1 DEF Removals
<1> DEFINE e == Get(store.entities, k)
           f == Get(store'.entities, k)
<1>2. f.mob = e.mob /\ f.parent = e.parent
  BY <1>1
<1>3. /\ e.parent = Invalid \/ e.parent \in Live(store.entities) \/ Asked(k)
      /\ Asked(k) =>
           /\ e.parent \notin Live(store.entities)
           /\ k # world.player
           /\ e.mob # Invalid => Get(store.mobs, e.mob).health <= 0
  BY DEF GameInv, Removals
<1>4. ASSUME e.mob # Invalid, Get(store.mobs, e.mob).health <= 0
      PROVE  Get(store'.mobs, e.mob).health <= 0
  <2>1. e.mob \in Live(store.mobs) /\ e.mob \in Live(store'.mobs)
    BY <1>4 DEF GameInv, Linked, EntitiesLinked, Kept, SameLinks
  <2>2. Get(store.mobs, e.mob).health \in Int /\ Get(store'.mobs, e.mob).health \in Int
    BY <2>1, StoreElements DEF GameInv, Kept, Mob
  <2>3. Get(store'.mobs, e.mob).health <= Get(store.mobs, e.mob).health
    BY <2>1 DEF Kept
  <2> QED BY <1>4, <2>2, <2>3
<1>5. Asked(k)' <=> Asked(k)
  OBVIOUS
<1> HIDE DEF e, f
<1>6. f.parent = Invalid \/ f.parent \in Live(store'.entities) \/ Asked(k)'
  BY <1>1, <1>2, <1>3, <1>5
<1>7. ASSUME Asked(k)'
      PROVE  /\ f.parent \notin Live(store'.entities)
             /\ k # world'.player
             /\ f.mob # Invalid => Get(store'.mobs, f.mob).health <= 0
  BY <1>1, <1>2, <1>3, <1>4, <1>5, <1>7
<1> QED BY <1>6, <1>7 DEF f

\* Nobody else is to die.
LEMMA KeptDeaths ==
  ASSUME GameInv, Kept(store, store'), world' = world,
         \A ev \in Pending' : ev.kind = "KillMob" => ev \in Pending
  PROVE  Deaths'
<1>1. Hero' = Hero /\ Live(store'.mobs) = Live(store.mobs)
  BY KeptStore DEF Kept, SameLinks
<1> SUFFICES ASSUME NEW ev \in Pending', ev.kind = "KillMob", ev.who \in Live(store'.mobs)
             PROVE  Get(store'.mobs, ev.who).health <= 0 /\ ev.who # Hero'
  BY DEF Deaths
<1>2. Get(store.mobs, ev.who).health <= 0 /\ ev.who # Hero
  BY <1>1 DEF GameInv, Deaths
<1>3. Get(store.mobs, ev.who).health \in Int /\ Get(store'.mobs, ev.who).health \in Int
  BY <1>1, StoreElements DEF GameInv, Kept, Mob
<1>4. Get(store'.mobs, ev.who).health <= Get(store.mobs, ev.who).health
  BY <1>1 DEF Kept
<1> QED BY <1>1, <1>2, <1>3, <1>4

\* What was decided before still holds of a mob that stands where it stood.
LEMMA KeptDecided ==
  ASSUME GameInv, Kept(store, store'), world' = world,
         \A m \in Live(store.mobs) : Get(store'.mobs, m).position = Get(store.mobs, m).position,
         NEW ev, Decided(ev)
  PROVE  Decided(ev)'
<1>1. Hero' = Hero /\ Live(store'.mobs) = Live(store.mobs)
  BY KeptStore DEF Kept, SameLinks
<1> QED BY <1>1 DEF Decided

\* A step that adds and removes nothing leaves the buffers as they are.
LEMMA FramesKept ==
  ASSUME SameFrame(store, store'), StoreSound(store), Buffers
  PROVE  /\ store'.mobs.added = <<>>
         /\ \A c \in Container : Len(store'[c].added) <= MaxSize
         /\ \A c \in Container : store[c].added = <<>> => store'[c].added = <<>>
         /\ \A c \in Container : store'[c].removed = store[c].removed
<1>1. \A c \in Container : Len(store'[c].added) = Len(store[c].added) /\ store'[c].removed = store[c].removed
  BY DEF SameFrame
<1>2. StoreSound(store')
  BY DEF SameFrame
<1>3. \A c \in Container : Len(store'[c].added) <= MaxSize
  BY <1>1 DEF Buffers
<1>4. Shape(store'.entities, Entity) /\ Shape(store'.mobs, Mob)
      /\ Shape(store'.sprites, SpriteType) /\ Shape(store'.physics, PhysicsType)
  BY <1>2, SoundProperties DEF StoreSound
<1>5. /\ Len(store'.entities.added) = 0 => store'.entities.added = <<>>
      /\ Len(store'.mobs.added) = 0 => store'.mobs.added = <<>>
      /\ Len(store'.sprites.added) = 0 => store'.sprites.added = <<>>
      /\ Len(store'.physics.added) = 0 => store'.physics.added = <<>>
  BY <1>4, EmptyLength DEF Shape
<1>6. Len(<<>>) = 0
  OBVIOUS
<1>7. ASSUME NEW c \in Container, store[c].added = <<>> PROVE store'[c].added = <<>>
  <2>1. Len(store'[c].added) = 0
    BY <1>1, <1>6, <1>7
  <2> QED BY <1>5, <2>1 DEF Container
<1>8. "mobs" \in Container
  BY DEF Container
<1>9. store'.mobs.added = <<>>
  BY <1>7, <1>8 DEF Buffers
<1> QED BY <1>1, <1>3, <1>7, <1>9
-----------------------------------------------------------------------------

(* The steps of the game keep the invariant.                               *)

\* A frame, which polls the window and may start a tick, keeps the invariant.
LEMMA FrameInv ==
  ASSUME GameInv, Frame
  PROVE  GameInv'
<1> USE DEF GameInv
<1>1. pc = "frame" /\ batch = <<>> /\ remove = <<>>
  BY DEF Frame, Buffers
<1>2. Thawed.freeze = 0 /\ Thawed.subTick = SubTicksPerTick
  BY DEF Thawed, Typed
<1>3. /\ store' = store /\ queue' = queue /\ batch' = batch /\ remove' = remove
      /\ turn' = turn /\ world' = world /\ pc' \in {"frame", "player"}
  BY <1>2 DEF Frame
<1>4. Typed'
  <2>1. clock' \in [subTick : 0 .. SubTicksPerTick, freeze : 0 .. 1]
    <3>1. CASE clock.subTick - 1 > 0
      <4>1. clock' = [clock EXCEPT !.subTick = @ - 1]
        BY <3>1 DEF Frame
      <4>2. clock.subTick - 1 \in 0 .. SubTicksPerTick
        BY <3>1 DEF Typed, SubTicksPerTick
      <4> QED BY <4>1, <4>2 DEF Typed
    <3>2. CASE ~(clock.subTick - 1 > 0)
      <4>1. clock' = Thawed
        BY <3>2 DEF Frame
      <4> QED BY <1>2, <4>1 DEF Thawed, SubTicksPerTick
    <3> QED BY <3>1, <3>2
  <2>2. windowEvents' \in Seq(Arrow) /\ Len(windowEvents') <= 1
    <3>1. PICK input \in {<<>>} \cup {<<a>> : a \in world.keys} : HandleInput(input)
      BY DEF Frame
    <3>2. input \in Seq(Arrow) /\ Len(input) <= 1
      <4>1. CASE input = <<>>
        BY <4>1
      <4>2. CASE input # <<>>
        <5>1. PICK a \in world.keys : input = <<a>>
          BY <4>2
        <5>2. a \in Arrow
          BY DEF Typed
        <5> HIDE DEF GameInv
        <5> QED BY ONLY <5>1, <5>2
      <4> QED BY <4>1, <4>2
    <3> QED BY <3>1, <3>2 DEF HandleInput, Typed
  <2> QED BY <1>3, <2>1, <2>2 DEF Typed
<1>5. Pending' = Pending /\ \A k : Asked(k)' <=> Asked(k)
  BY <1>3 DEF Pending, Asked
<1>6. Kept(store, store')
  BY <1>3, KeptSelf
<1>7. StoreSound(store') /\ Linked(store') /\ PlayerLives' /\ Hero' = Hero
  BY <1>3, <1>6, KeptStore
<1>8. Removals'
  BY <1>3, <1>5, <1>6, KeptRemovals
<1>9. Deaths'
  BY <1>3, <1>5, <1>6, KeptDeaths
<1>10. Decisions'
  <2>1. \A ev \in Pending : Decided(ev)'
    BY <1>3 DEF Decisions, Decided, Hero
  <2> QED BY <1>1, <1>3, <1>5, <2>1 DEF Decisions
<1>11. EventOrder'
  BY <1>3 DEF EventOrder
<1>12. Turns'
  BY <1>3 DEF Turns
<1>13. Buffers'
  BY <1>1, <1>3 DEF Buffers
<1> QED BY <1>4, <1>7, <1>8, <1>9, <1>10, <1>11, <1>12, <1>13

-----------------------------------------------------------------------------
(* The player.                                                             *)

\* The time a mob has saved up stays in its range.
LEMMA TickTypes ==
  \A mob \in Mob :
    /\ Rested(mob) \in 0 .. 2 * TicksPerAction - 1
    /\ Rested(mob) >= TicksPerAction => Rested(mob) - TicksPerAction \in 0 .. 2 * TicksPerAction - 1
<1> TAKE mob \in Mob
<1>1. mob.tick \in 0 .. 29 /\ MobDatabase[mob.type].speed \in Nat
  <2>1. 2 * TicksPerAction - 1 = 29
    BY DEF TicksPerAction
  <2>2. mob.tick \in 0 .. 2 * TicksPerAction - 1 /\ mob.type \in DOMAIN MobDatabase
    BY DEF Mob
  <2> QED BY <2>1, <2>2, SpeedAndHealth
<1> DEFINE v == mob.tick + MobDatabase[mob.type].speed
<1>2. v \in Nat
  BY <1>1
<1>3. Rested(mob) = IF v < 2 * 15 THEN v ELSE 2 * 15 - 1
  BY DEF Rested, TicksPerAction
<1> HIDE DEF v
<1>4. Rested(mob) \in 0 .. 29
  BY <1>2, <1>3
<1> QED BY <1>4 DEF TicksPerAction

\* The player's mob has its time credited, and nothing else changes.
LEMMA PlayerTicksKept ==
  ASSUME GameInv, NEW tick \in 0 .. 2 * TicksPerAction - 1, PlayerTicks(PlayerMob, tick)
  PROVE  /\ Kept(store, store') /\ SameFrame(store, store') /\ store'.entities = store.entities
         /\ \A m \in Live(store.mobs) : Get(store'.mobs, m).position = Get(store.mobs, m).position
         /\ Steady(store, store') /\ Get(store'.mobs, Hero).tick = tick
<1> DEFINE mob == Get(store.mobs, Hero)
           v == [mob EXCEPT !.tick = tick]
<1>1. Hero \in Live(store.mobs) /\ StoreSound(store)
  BY DEF GameInv, PlayerLives
<1>2. mob \in Mob /\ mob.id = Hero /\ PlayerMob = mob
  BY HeroProperties
<1> HIDE DEF mob
<1>3. /\ v \in Mob /\ SameMob(mob, v) /\ v.health = mob.health /\ v.position = mob.position
      /\ v.tick = tick
  BY <1>2 DEF Mob, SameMob
<1>4. store' = WithMob(store, Hero, v)
  <2>1. store' = [store EXCEPT !.mobs = Put(store.mobs, PlayerMob.id, [PlayerMob EXCEPT !.tick = tick])]
    BY DEF PlayerTicks
  <2>2. PlayerMob = mob /\ PlayerMob.id = Hero
    BY <1>2
  <2> QED BY <2>1, <2>2 DEF WithMob
<1> HIDE DEF v
<1>5. /\ SameFrame(store, store') /\ store'.entities = store.entities
      /\ Get(store'.mobs, Hero) = v
      /\ \A k \in Live(store.mobs) \ {Hero} : Get(store'.mobs, k) = Get(store.mobs, k)
  BY <1>1, <1>3, <1>4, MobPutSpec DEF mob
<1>6. \A m \in Live(store.mobs) : /\ Get(store'.mobs, m).position = Get(store.mobs, m).position
                                  /\ Get(store'.mobs, m).health = Get(store.mobs, m).health
  BY <1>3, <1>5 DEF mob
<1>7. Kept(store, store')
  BY <1>1, <1>5, <1>6, KeptSelf DEF Kept, SameFrame
<1>8. Steady(store, store')
  BY <1>6, <1>7 DEF Kept, SameLinks, Steady
<1> QED BY <1>3, <1>5, <1>6, <1>7, <1>8

\* The first turn is that of a mob, for there is the player's.
LEMMA FirstTurn ==
  ASSUME StoreSound(store), store.mobs.added = <<>>, NEW m \in Live(store.mobs)
  PROVE  1 \in DOMAIN store.mobs.values
<1>1. \A k \in Live(store.mobs) : \E i \in DOMAIN store.mobs.values : store.mobs.values[i].id = k
  BY ArraySpec, ElementTypes DEF StoreSound
<1>2. PICK i \in DOMAIN store.mobs.values : TRUE
  BY <1>1
<1>3. DOMAIN store.mobs.values = 1 .. Len(store.mobs.values) /\ Len(store.mobs.values) \in Nat
  BY Sequences
<1> QED BY <1>2, <1>3

\* A step that adds and removes nothing leaves the array as long as it is.
LEMMA FramesTurn ==
  ASSUME GameInv, SameFrame(store, store')
  PROVE  DOMAIN store'.mobs.values = DOMAIN store.mobs.values
<1>1. DOMAIN store.mobs.values = 1 .. Len(store.mobs.values)
  BY Sequences DEF GameInv
<1>2. StoreSound(store') /\ Len(store'.mobs.values) = Len(store.mobs.values)
  BY DEF SameFrame
<1>3. Shape(store'.mobs, Mob)
  BY <1>2, SoundProperties DEF StoreSound
<1> QED BY <1>1, <1>2, <1>3 DEF Shape

\* A player that rests, or has no time, keeps the invariant.
LEMMA PlayerWaitsInv ==
  ASSUME GameInv, PlayerWaits
  PROVE  GameInv'
<1> USE DEF GameInv
<1>1. /\ pc = "player" /\ batch = <<>> /\ remove = <<>> /\ pc' = "mobs" /\ turn' = 1
      /\ queue' = queue /\ batch' = batch /\ remove' = remove /\ world' = world
      /\ windowEvents' = windowEvents /\ clock' = clock
      /\ PlayerTicks(PlayerMob, Rested(PlayerMob))
  BY DEF PlayerWaits, Buffers
<1>2. Rested(PlayerMob) \in 0 .. 2 * TicksPerAction - 1
  BY HeroProperties, TickTypes
<1>3. /\ Kept(store, store') /\ SameFrame(store, store') /\ store'.entities = store.entities
      /\ \A m \in Live(store.mobs) : Get(store'.mobs, m).position = Get(store.mobs, m).position
  BY <1>1, <1>2, PlayerTicksKept
<1>4. Typed'
  BY <1>1 DEF Typed
<1>5. Pending' = Pending /\ \A k : Asked(k)' <=> Asked(k)
  BY <1>1 DEF Pending, Asked
<1>6. StoreSound(store') /\ Linked(store') /\ PlayerLives' /\ Hero' = Hero
  BY <1>1, <1>3, KeptStore
<1>7. Removals'
  BY <1>1, <1>3, <1>5, KeptRemovals
<1>8. Deaths'
  BY <1>1, <1>3, <1>5, KeptDeaths
<1>9. Decisions'
  <2>1. \A ev \in Pending : Decided(ev)'
    BY <1>1, <1>3, KeptDecided DEF Decisions
  <2> QED BY <1>1, <1>5, <2>1 DEF Decisions
<1>10. EventOrder'
  BY <1>1 DEF EventOrder
<1>11. Turns'
  <2>1. 1 \in DOMAIN store'.mobs.values
    BY <1>3, FirstTurn, FramesTurn DEF Buffers, PlayerLives
  <2>2. \A ev \in ToSet(queue) : ev.kind # "TryWalk"
    BY <1>1 DEF Decisions
  <2> QED BY <1>1, <2>1, <2>2 DEF Turns
<1>12. Buffers'
  BY <1>1, <1>3, FramesKept DEF Buffers
<1> QED BY <1>4, <1>6, <1>7, <1>8, <1>9, <1>10, <1>11, <1>12

\* A set of natural numbers has a least member.
LEMMA LeastNat ==
  ASSUME NEW S, S \subseteq Nat, S # {}
  PROVE  \E i \in S : \A j \in S : i <= j
<1> DEFINE R == OpToRel(<, Nat)
<1>1. IsWellFoundedOn(R, Nat)
  BY NatLessThanWellFounded, Zenon
<1>2. \A i, j \in Nat : j < i => <<j, i>> \in R
  BY DEF OpToRel
<1> HIDE DEF R
<1>3. PICK x \in S : TRUE
  OBVIOUS
<1>4. PICK i \in S : \A j \in S : ~(<<j, i>> \in R)
  BY <1>1, <1>3, WFMin
<1>5. \A j \in S : ~(j < i)
  BY <1>2, <1>4
<1>6. \A j \in S : i <= j
  BY ONLY <1>5, S \subseteq Nat
<1> QED BY <1>6

\* The first other mob on a cell is one that is there.
LEMMA FirstMobAtSpec ==
  ASSUME StoreSound(store), store.mobs.removed = <<>>, NEW p, NEW self, MobsAt(p, self) # {}
  PROVE  LET t == FirstMobAt(p, self)
         IN  t \in Live(store.mobs) /\ t # self /\ Get(store.mobs, t).position = p
<1>1. DOMAIN store.mobs.values = 1 .. Len(store.mobs.values) /\ Len(store.mobs.values) \in Nat
  BY Sequences
<1>2. MobsAt(p, self) \subseteq Nat
  BY <1>1 DEF MobsAt
<1> DEFINE least == CHOOSE i \in MobsAt(p, self) : \A j \in MobsAt(p, self) : i <= j
<1>3. \E i \in MobsAt(p, self) : \A j \in MobsAt(p, self) : i <= j
  BY <1>2, LeastNat
<1>4. least \in MobsAt(p, self)
  BY <1>3
<1>5. FirstMobAt(p, self) = store.mobs.values[least].id
  BY DEF FirstMobAt
<1> HIDE DEF least
<1>6. least \in DOMAIN store.mobs.values /\ store.mobs.values[least].id # self
      /\ store.mobs.values[least].position = p
  BY <1>4 DEF MobsAt
<1>7. /\ \A i \in DOMAIN store.mobs.values :
           store.mobs.values[i].id \in Live(store.mobs) =>
             Get(store.mobs, store.mobs.values[i].id) = store.mobs.values[i]
      /\ \A i \in DOMAIN store.mobs.values : store.mobs.values[i].id \in Live(store.mobs)
  BY ArraySpec, ElementTypes DEF StoreSound
<1> QED BY <1>5, <1>6, <1>7

\* An event that asks nobody to go leaves the requests as they are.
LEMMA AskedKept ==
  ASSUME GameInv, NEW ev \in Event, ev.kind # "Remove", queue' = Append(queue, ev),
         batch' = batch, remove' = remove
  PROVE  Pending' = Pending \cup {ev} /\ \A k : Asked(k)' <=> Asked(k)
<1>1. ToSet(queue') = ToSet(queue) \cup {ev}
  BY AppendSet DEF GameInv, Typed
<1>2. Pending' = Pending \cup {ev}
  BY <1>1 DEF Pending
<1>3. \A k : EvRemove(k) # ev
  BY DEF EvRemove
<1> QED BY <1>2, <1>3 DEF Asked

\* A player that walks or attacks decides on something that is possible.
LEMMA PlayerActsInv ==
  ASSUME GameInv, PlayerActs
  PROVE  GameInv'
<1> USE DEF GameInv
<1> DEFINE mob == Get(store.mobs, Hero)
           to == Plus(mob.position, Head(windowEvents))
<1>1. PlayerMob = mob /\ mob \in Mob /\ mob.id = Hero /\ Hero \in Live(store.mobs) /\ Hero \in Nat
  BY HeroProperties DEF PlayerLives
<1>2. /\ pc = "player" /\ batch = <<>> /\ remove = <<>> /\ pc' = "mobs" /\ turn' = 1
      /\ batch' = batch /\ remove' = remove /\ world' = world /\ clock' = clock
      /\ windowEvents # <<>> /\ windowEvents' = Tail(windowEvents)
      /\ store.mobs.removed = <<>>
  <2>1. "mobs" \in Container
    BY DEF Container
  <2> QED BY <2>1 DEF PlayerActs, Buffers
<1>3. /\ PlayerTicks(PlayerMob, Rested(PlayerMob) - TicksPerAction)
      /\ queue' = Append(queue, IF MobsAt(to, mob.id) # {} THEN EvAttack(mob.id, FirstMobAt(to, mob.id))
                                            ELSE EvTryWalk(mob.id, mob.position, to))
      /\ Rested(PlayerMob) >= TicksPerAction
  <2> HIDE DEF mob
  <2> QED BY <1>1 DEF PlayerActs, QueueEvent
<1>4. Rested(PlayerMob) - TicksPerAction \in 0 .. 2 * TicksPerAction - 1
  BY <1>1, <1>3, TickTypes
<1>5. /\ Kept(store, store') /\ SameFrame(store, store') /\ store'.entities = store.entities
      /\ \A m \in Live(store.mobs) : Get(store'.mobs, m).position = Get(store.mobs, m).position
  BY <1>3, <1>4, PlayerTicksKept
<1> HIDE DEF mob
<1>6. Head(windowEvents) \in Arrow /\ Tail(windowEvents) \in Seq(Arrow) /\ Len(Tail(windowEvents)) <= 1
  <2>1. windowEvents \in Seq(Arrow) /\ Len(windowEvents) <= 1 /\ windowEvents # <<>>
    BY <1>2 DEF Typed
  <2> HIDE DEF GameInv
  <2> QED BY ONLY <2>1, HeadTailProperties, LenProperties
<1>7. to \in Coord /\ mob.position \in Coord
  <2>1. mob.position \in Coord
    BY <1>1 DEF Mob
  <2>2. Head(windowEvents) \in Coord
    BY <1>6 DEF Arrow, Vec, Coord
  <2> QED BY <2>1, <2>2 DEF Plus, Vec, Coord
<1>8. Adjacent(mob.position, to)
  BY <1>6 DEF Adjacent
<1> HIDE DEF to
<1>9. PICK ev \in Event :
        /\ queue' = Append(queue, ev) /\ ev.mob = Hero
        /\ \/ ev.kind = "TryWalk" /\ ev.from = mob.position /\ ev.to = to
           \/ /\ ev.kind = "Attack" /\ ev.target \in Live(store.mobs) /\ ev.target # Hero
              /\ Get(store.mobs, ev.target).position = to
  <2>1. CASE MobsAt(to, mob.id) # {}
    <3> DEFINE t == FirstMobAt(to, mob.id)
    <3>1. t \in Live(store.mobs) /\ t # Hero /\ Get(store.mobs, t).position = to
      BY <1>1, <1>2, <2>1, FirstMobAtSpec
    <3>2. t \in Nat
      BY <3>1, StoreElements
    <3>3. queue' = Append(queue, EvAttack(Hero, t))
      BY <1>1, <1>3, <2>1
    <3> HIDE DEF t
    <3>4. EvAttack(Hero, t) \in Event
      BY <1>1, <3>2, EventTypes
    <3> QED BY <3>1, <3>3, <3>4 DEF EvAttack
  <2>2. CASE MobsAt(to, mob.id) = {}
    <3>1. queue' = Append(queue, EvTryWalk(Hero, mob.position, to))
      BY <1>1, <1>3, <2>2
    <3>2. EvTryWalk(Hero, mob.position, to) \in Event
      BY <1>1, <1>7, EventTypes
    <3> QED BY <3>1, <3>2 DEF EvTryWalk
  <2> QED BY <2>1, <2>2
<1>10. Typed'
  <2>1. queue' \in Seq(Event)
    BY <1>9, AppendSet DEF Typed
  <2> QED BY <1>2, <1>6, <2>1 DEF Typed
<1>11. Pending' = Pending \cup {ev} /\ \A k : Asked(k)' <=> Asked(k)
  BY <1>2, <1>9, AskedKept
<1>12. StoreSound(store') /\ Linked(store') /\ PlayerLives' /\ Hero' = Hero
  BY <1>2, <1>5, KeptStore
<1>13. Removals'
  BY <1>2, <1>5, <1>11, KeptRemovals
<1>14. Deaths'
  BY <1>2, <1>5, <1>9, <1>11, KeptDeaths
<1>15. Decisions'
  <2>1. \A e \in Pending : Decided(e)'
    BY <1>2, <1>5, KeptDecided DEF Decisions
  <2>2. Decided(ev)
    BY <1>1, <1>8, <1>9 DEF Decided, mob
  <2>3. Decided(ev)'
    BY <1>2, <1>5, <2>2, KeptDecided
  <2> QED BY <1>2, <1>11, <2>1, <2>3 DEF Decisions
<1>16. EventOrder'
  <2>0. \A e \in ToSet(queue) : e.kind # "TryWalk" /\ e.kind # "Attack"
    BY <1>2 DEF Decisions
  <2>1. /\ ~HasKind(queue, "TryWalk") /\ ~HasKind(queue, "Attack")
        /\ \A e \in ToSet(queue) : e.kind # "TryWalk"
    BY <2>0, HasKindSet
  <2>2. Orderly(queue')
    BY <1>9, <2>1, OrderlyAppend DEF EventOrder, Typed
  <2> QED BY <1>2, <2>2, EmptySets DEF EventOrder
<1>17. Turns'
  <2>1. 1 \in DOMAIN store'.mobs.values
    BY <1>1, <1>5, FirstTurn, FramesTurn DEF Buffers
  <2>2. \A e \in ToSet(queue) : e.kind # "TryWalk"
    BY <1>2 DEF Decisions
  <2>3. ToSet(queue') = ToSet(queue) \cup {ev}
    BY <1>9, AppendSet DEF Typed
  <2> QED BY <1>2, <1>9, <1>12, <2>1, <2>2, <2>3 DEF Turns
<1>18. Buffers'
  BY <1>2, <1>5, FramesKept DEF Buffers
<1> QED BY <1>10, <1>12, <1>13, <1>14, <1>15, <1>16, <1>17, <1>18
-----------------------------------------------------------------------------

(* The mobs.                                                               *)

\* A mob looks somewhere, and tries at most one step.
LEMMA MovesProperties ==
  ASSUME NEW mob \in Mob, NEW move \in Moves(mob)
  PROVE  /\ move.dir \in Coord
         /\ move.walk = <<>> \/ \E d \in Coord : move.walk = <<d>>
<1>1. Inwards(mob.position) \in Coord
  BY DEF Inwards, Vec, Origin, Coord
<1>2. mob.dir \in Coord /\ \A a \in Arrow : a \in Coord
  BY DEF Mob, Arrow, Vec, Coord
<1>3. \A i, j \in -1 .. 1 : Vec(i, j) \in Coord
  BY DEF Vec, Coord
<1> DEFINE Ok(m) == m.dir \in Coord /\ (m.walk = <<>> \/ \E d \in Coord : m.walk = <<d>>)
           in == Inwards(mob.position)
<1>4. Ok(Stay(mob)) /\ \A d \in Coord : Ok(Walk(mob, d))
  BY <1>2 DEF Stay, Walk
<1>5. \A d \in Coord : Ok([dir |-> d, walk |-> <<>>])
  OBVIOUS
<1> HIDE DEF Ok, in
<1>6. \A m \in RabbitMoves(mob) : Ok(m)
  <2> SUFFICES ASSUME NEW m \in RabbitMoves(mob), m # Stay(mob) PROVE Ok(m)
    BY <1>4
  <2>1. PICK d \in IF in # Origin THEN {in} ELSE {Vec(i, j) : i, j \in -1 .. 1} : m = Walk(mob, d)
    BY DEF RabbitMoves, in
  <2>2. d \in Coord
    BY <1>1, <1>3, <2>1 DEF in
  <2> QED BY <1>4, <2>1, <2>2
<1>7. \A m \in SnakeMoves(mob) : Ok(m)
  <2> SUFFICES ASSUME NEW m \in SnakeMoves(mob), m # Walk(mob, mob.dir) PROVE Ok(m)
    BY <1>2, <1>4
  <2>1. PICK d \in {a \in Arrow : (a.x = 0) = (mob.dir.x # 0)} :
          m = [dir |-> IF in # Origin THEN in ELSE d, walk |-> <<>>]
    BY DEF SnakeMoves, in
  <2>2. d \in Coord /\ in \in Coord
    BY <1>1, <1>2 DEF in
  <2> QED BY <1>5, <2>1, <2>2
<1>8. \A m \in OrcMoves(mob) : Ok(m)
  <2> SUFFICES ASSUME NEW m \in OrcMoves(mob) PROVE Ok(m)
    OBVIOUS
  <2>1. m = Stay(mob) \/ m = Walk(mob, in) \/ \E d \in Arrow : m = Walk(mob, d)
    BY DEF OrcMoves, in
  <2> QED BY <1>1, <1>2, <1>4, <2>1 DEF in
<1>9. move \in RabbitMoves(mob) \cup SnakeMoves(mob) \cup OrcMoves(mob) \cup {Stay(mob)}
  BY DEF Moves
<1>10. Ok(move)
  BY <1>4, <1>6, <1>7, <1>8, <1>9
<1> QED BY <1>10 DEF Ok

\* The mob whose turn it is.
LEMMA AtTurn ==
  ASSUME GameInv, pc = "mobs"
  PROVE  LET mob == store.mobs.values[turn]
         IN  /\ turn \in DOMAIN store.mobs.values /\ mob \in Mob
             /\ mob.id \in Live(store.mobs) /\ Get(store.mobs, mob.id) = mob
             /\ \A j \in DOMAIN store.mobs.values : store.mobs.values[j].id = mob.id => j = turn
             /\ Category(mob) # "Player" => mob.id # Hero
<1>1. turn \in DOMAIN store.mobs.values /\ StoreSound(store)
  BY DEF GameInv, Turns
<1>2. store.mobs.removed = <<>>
  <2>1. "mobs" \in Container
    BY DEF Container
  <2> QED BY <2>1 DEF GameInv, Buffers
<1>3. \A i \in DOMAIN store.mobs.values : store.mobs.values[i] \in Mob
  BY <1>1, SoundProperties DEF StoreSound, Shape
<1>4. /\ \A i \in DOMAIN store.mobs.values :
           store.mobs.values[i].id \in Live(store.mobs) =>
             Get(store.mobs, store.mobs.values[i].id) = store.mobs.values[i]
      /\ \A i, j \in DOMAIN store.mobs.values : store.mobs.values[i].id = store.mobs.values[j].id => i = j
      /\ \A i \in DOMAIN store.mobs.values : store.mobs.values[i].id \in Live(store.mobs)
  BY <1>1, <1>2, ArraySpec, ElementTypes DEF StoreSound
<1> DEFINE mob == store.mobs.values[turn]
<1>5. ASSUME mob.id = Hero PROVE Category(mob) = "Player"
  <2>1. mob = Get(store.mobs, Hero)
    BY <1>1, <1>4, <1>5
  <2>2. mob.type = "Player" /\ "Player" \in DOMAIN MobDatabase
    BY <2>1, SpeedAndHealth DEF GameInv, PlayerLives
  <2> HIDE DEF mob
  <2> QED BY <2>2, SpeedAndHealth DEF Category
<1> QED BY <1>1, <1>3, <1>4, <1>5

\* A mob that only looks around and saves its time stays what it is.
LEMMA TurnKept ==
  ASSUME GameInv, pc = "mobs", NEW tick \in 0 .. 2 * TicksPerAction - 1, NEW d \in Coord,
         store' = WithTurn(store, turn, [store.mobs.values[turn] EXCEPT !.tick = tick, !.dir = d])
  PROVE  /\ Kept(store, store') /\ SameFrame(store, store')
         /\ \A m \in Live(store.mobs) : Get(store'.mobs, m).position = Get(store.mobs, m).position
         /\ Steady(store, store')
         /\ \A m \in Live(store.mobs) :
              m # store.mobs.values[turn].id => Get(store'.mobs, m) = Get(store.mobs, m)
<1> DEFINE mob == store.mobs.values[turn]
           v == [mob EXCEPT !.tick = tick, !.dir = d]
<1>1. /\ turn \in DOMAIN store.mobs.values /\ mob \in Mob
      /\ mob.id \in Live(store.mobs) /\ Get(store.mobs, mob.id) = mob
      /\ StoreSound(store)
  BY AtTurn DEF GameInv
<1>2. store.mobs.added = <<>> /\ store.mobs.removed = <<>>
  <2>1. "mobs" \in Container
    BY DEF Container
  <2> QED BY <2>1 DEF GameInv, Buffers
<1> HIDE DEF mob
<1>3. v \in Mob /\ SameMob(mob, v) /\ v.health = mob.health /\ v.position = mob.position
  BY <1>1 DEF Mob, SameMob
<1>4. store' = WithTurn(store, turn, v)
  BY DEF mob
<1> HIDE DEF v
<1>5. /\ SameFrame(store, store')
      /\ Get(store'.mobs, mob.id) = v
      /\ \A k \in Live(store.mobs) \ {mob.id} : Get(store'.mobs, k) = Get(store.mobs, k)
  <2>1. turn \in DOMAIN store.mobs.values /\ SameMob(store.mobs.values[turn], v)
    BY <1>1, <1>3 DEF mob
  <2>2. LET t == WithTurn(store, turn, v)
            m == store.mobs.values[turn].id
        IN  /\ SameFrame(store, t) /\ t.entities = store.entities
            /\ m \in Live(store.mobs) /\ Get(store.mobs, m) = store.mobs.values[turn]
            /\ Get(t.mobs, m) = v
            /\ \A k \in Live(store.mobs) \ {m} : Get(t.mobs, k) = Get(store.mobs, k)
    <3>1. StoreSound(store) /\ turn \in DOMAIN store.mobs.values /\ v \in Mob
      BY <1>1, <1>3
    <3> QED BY ONLY <3>1, <1>2, <2>1, TurnSpec, Zenon
  <2> QED BY <1>4, <2>2 DEF mob
<1>6. \A m \in Live(store.mobs) : /\ Get(store'.mobs, m).position = Get(store.mobs, m).position
                                  /\ Get(store'.mobs, m).health = Get(store.mobs, m).health
  BY <1>1, <1>3, <1>5
<1>7. Kept(store, store')
  BY <1>1, <1>5, <1>6, KeptSelf DEF Kept, SameFrame
<1>8. Steady(store, store')
  BY <1>6, <1>7 DEF Kept, SameLinks, Steady
<1>9. \A m \in Live(store.mobs) : m # mob.id => Get(store'.mobs, m) = Get(store.mobs, m)
  BY <1>5
<1> QED BY <1>5, <1>6, <1>7, <1>8, <1>9 DEF mob

\* What a turn does.
LEMMA TurnSteps ==
  ASSUME GameInv, MobUpdates
  PROVE  /\ Kept(store, store') /\ SameFrame(store, store')
         /\ \A m \in Live(store.mobs) : Get(store'.mobs, m).position = Get(store.mobs, m).position
         /\ Steady(store, store') /\ Get(store'.mobs, Hero) = Get(store.mobs, Hero)
         /\ \/ queue' = queue
            \/ \E ev \in Event :
                 /\ queue' = Append(queue, ev)
                 /\ ev.kind = "TryWalk" /\ ev.mob = store.mobs.values[turn].id /\ ev.mob # Hero
                 /\ ev.mob \in Live(store.mobs) /\ ev.from = Get(store.mobs, ev.mob).position
<1> DEFINE mob == store.mobs.values[turn]
<1>1. /\ turn \in DOMAIN store.mobs.values /\ mob \in Mob
      /\ mob.id \in Live(store.mobs) /\ Get(store.mobs, mob.id) = mob
      /\ Category(mob) # "Player" => mob.id # Hero
      /\ pc = "mobs" /\ StoreSound(store) /\ Hero \in Live(store.mobs)
  BY AtTurn DEF MobUpdates, GameInv, PlayerLives
<1>2. mob.dir \in Coord /\ mob.position \in Coord /\ mob.id \in Nat
  BY <1>1 DEF Mob
<1>3. /\ Rested(mob) \in 0 .. 2 * TicksPerAction - 1
      /\ Rested(mob) >= TicksPerAction => Rested(mob) - TicksPerAction \in 0 .. 2 * TicksPerAction - 1
  BY <1>1, TickTypes
<1>4. Rested(mob) \in Int /\ TicksPerAction \in Int
  BY <1>3 DEF TicksPerAction
<1>5. CASE store' = store /\ queue' = queue
  <2>1. Kept(store, store') /\ SameFrame(store, store') /\ Steady(store, store')
    BY <1>1, <1>5, KeptSelf DEF Steady
  <2> QED BY <1>5, <2>1
<1>6. CASE /\ Category(mob) # "Player" /\ Rested(mob) < TicksPerAction
           /\ store' = [store EXCEPT !.mobs.values[turn] = [mob EXCEPT !.tick = Rested(mob)]]
           /\ queue' = queue
  <2>1. [mob EXCEPT !.tick = Rested(mob)] = [mob EXCEPT !.tick = Rested(mob), !.dir = mob.dir]
    <3> HIDE DEF mob
    <3> QED BY <1>1 DEF Mob
  <2>2. store' = WithTurn(store, turn, [mob EXCEPT !.tick = Rested(mob), !.dir = mob.dir])
    <3> HIDE DEF mob
    <3> QED BY <1>6, <2>1 DEF WithTurn
  <2>3. mob.id # Hero
    BY <1>1, <1>6
  <2> QED BY <1>1, <1>2, <1>3, <1>6, <2>2, <2>3, TurnKept
<1>7. CASE /\ Category(mob) # "Player" /\ ~(Rested(mob) < TicksPerAction)
           /\ \E move \in Moves(mob) :
                /\ store' = [store EXCEPT !.mobs.values[turn] =
                                  [mob EXCEPT !.tick = Rested(mob) - TicksPerAction, !.dir = move.dir]]
                /\ queue' = IF move.walk = <<>> THEN queue
                            ELSE QueueEvent(queue, EvTryWalk(mob.id, mob.position,
                                              Plus(mob.position, Head(move.walk))))
  <2>1. PICK move \in Moves(mob) :
          /\ store' = WithTurn(store, turn, [mob EXCEPT !.tick = Rested(mob) - TicksPerAction,
                                                        !.dir = move.dir])
          /\ queue' = IF move.walk = <<>> THEN queue
                      ELSE QueueEvent(queue, EvTryWalk(mob.id, mob.position,
                                        Plus(mob.position, Head(move.walk))))
    <3> HIDE DEF mob
    <3> QED BY <1>7 DEF WithTurn
  <2>2. /\ move.dir \in Coord
        /\ move.walk = <<>> \/ \E d \in Coord : move.walk = <<d>>
    BY <1>1, MovesProperties
  <2>3. Rested(mob) - TicksPerAction \in 0 .. 2 * TicksPerAction - 1
    <3> HIDE DEF mob
    <3>1. Rested(mob) >= TicksPerAction
      BY <1>4, <1>7
    <3> QED BY <1>3, <3>1
  <2>4. /\ Kept(store, store') /\ SameFrame(store, store')
        /\ \A m \in Live(store.mobs) : Get(store'.mobs, m).position = Get(store.mobs, m).position
        /\ Steady(store, store') /\ Get(store'.mobs, Hero) = Get(store.mobs, Hero)
    <3>1. mob.id # Hero
      BY <1>1, <1>7
    <3> QED BY <1>1, <2>1, <2>2, <2>3, <3>1, TurnKept
  <2>5. CASE move.walk = <<>>
    BY <2>1, <2>4, <2>5
  <2>6. CASE move.walk # <<>>
    <3>1. PICK d \in Coord : move.walk = <<d>>
      BY <2>2, <2>6
    <3> DEFINE to == Plus(mob.position, d)
               ev == EvTryWalk(mob.id, mob.position, to)
    <3> HIDE DEF mob
    <3>2. queue' = Append(queue, ev)
      <4>1. Head(<<d>>) = d
        OBVIOUS
      <4> QED BY <2>1, <2>6, <3>1, <4>1 DEF QueueEvent
    <3>3. to \in Coord
      BY <1>2 DEF Plus, Vec, Coord
    <3> HIDE DEF to
    <3>4. ev \in Event
      BY <1>2, <3>3, EventTypes
    <3>5. ev.kind = "TryWalk" /\ ev.mob = mob.id /\ ev.from = mob.position
      BY DEF EvTryWalk
    <3>6. ev.mob # Hero /\ ev.mob \in Live(store.mobs) /\ ev.from = Get(store.mobs, ev.mob).position
      BY <1>1, <1>7, <3>5
    <3> HIDE DEF ev
    <3>7. \E x \in Event :
            /\ queue' = Append(queue, x)
            /\ x.kind = "TryWalk" /\ x.mob = mob.id /\ x.mob # Hero
            /\ x.mob \in Live(store.mobs) /\ x.from = Get(store.mobs, x.mob).position
      BY <3>2, <3>4, <3>5, <3>6
    <3> QED BY <2>4, <3>7 DEF mob
  <2> QED BY <2>5, <2>6
<1> QED
  <2>1. \/ store' = store /\ queue' = queue
        \/ /\ Category(mob) # "Player" /\ Rested(mob) < TicksPerAction
           /\ store' = [store EXCEPT !.mobs.values[turn] = [mob EXCEPT !.tick = Rested(mob)]]
           /\ queue' = queue
        \/ /\ Category(mob) # "Player" /\ ~(Rested(mob) < TicksPerAction)
           /\ \E move \in Moves(mob) :
                /\ store' = [store EXCEPT !.mobs.values[turn] =
                                  [mob EXCEPT !.tick = Rested(mob) - TicksPerAction, !.dir = move.dir]]
                /\ queue' = IF move.walk = <<>> THEN queue
                            ELSE QueueEvent(queue, EvTryWalk(mob.id, mob.position,
                                              Plus(mob.position, Head(move.walk))))
    BY DEF MobUpdates
  <2> QED BY <1>5, <1>6, <1>7, <2>1

\* A turn of a mob keeps the invariant: the step it tries is one from where it
\* stands, and its only one in this tick.
LEMMA MobUpdatesInv ==
  ASSUME GameInv, MobUpdates
  PROVE  GameInv'
<1> USE DEF GameInv
<1>1. /\ pc = "mobs" /\ batch = <<>> /\ remove = <<>> /\ pc' \in {"mobs", "age"}
      /\ batch' = batch /\ remove' = remove /\ world' = world
      /\ windowEvents' = windowEvents /\ clock' = clock
      /\ turn' = IF turn = Len(store.mobs.values) THEN 1 ELSE turn + 1
      /\ pc' = "mobs" => turn # Len(store.mobs.values)
  BY DEF MobUpdates, Buffers
<1>2. /\ Kept(store, store') /\ SameFrame(store, store')
      /\ \A m \in Live(store.mobs) : Get(store'.mobs, m).position = Get(store.mobs, m).position
  BY TurnSteps
<1>3. /\ turn \in DOMAIN store.mobs.values
      /\ \A j \in DOMAIN store.mobs.values :
           store.mobs.values[j].id = store.mobs.values[turn].id => j = turn
      /\ DOMAIN store.mobs.values = 1 .. Len(store.mobs.values) /\ Len(store.mobs.values) \in Nat
      /\ turn \in Nat \ {0}
  BY <1>1, AtTurn, Sequences DEF Typed
<1>4. /\ queue' \in Seq(Event)
      /\ \A e \in ToSet(queue') :
           \/ e \in ToSet(queue)
           \/ /\ e.kind = "TryWalk" /\ e.mob = store.mobs.values[turn].id /\ e.mob # Hero
              /\ e.mob \in Live(store.mobs) /\ e.from = Get(store.mobs, e.mob).position
      /\ ToSet(queue) \subseteq ToSet(queue')
      /\ Orderly(queue')
  <2>1. CASE queue' = queue
    BY <2>1 DEF Typed, EventOrder
  <2>2. CASE queue' # queue
    <3>1. PICK ev \in Event :
            /\ queue' = Append(queue, ev)
            /\ ev.kind = "TryWalk" /\ ev.mob = store.mobs.values[turn].id /\ ev.mob # Hero
            /\ ev.mob \in Live(store.mobs) /\ ev.from = Get(store.mobs, ev.mob).position
      BY <2>2, TurnSteps
    <3>2. queue' \in Seq(Event) /\ ToSet(queue') = ToSet(queue) \cup {ev}
      BY <3>1, AppendSet DEF Typed
    <3>3. ASSUME NEW e \in ToSet(queue), e.kind = "TryWalk" PROVE e.mob # ev.mob
      <4>1. \/ e.mob = Hero
            \/ \E j \in DOMAIN store.mobs.values : j < turn /\ store.mobs.values[j].id = e.mob
        BY <1>1, <3>3 DEF Turns
      <4>2. ASSUME NEW j \in DOMAIN store.mobs.values, j < turn, store.mobs.values[j].id = ev.mob
            PROVE  FALSE
        <5>1. j = turn
          BY <1>3, <3>1, <4>2
        <5> QED BY <1>3, <4>2, <5>1
      <4> QED BY <3>1, <4>1, <4>2
    <3>4. Orderly(queue)
      BY DEF EventOrder
    <3>5. Orderly(Append(queue, ev))
      BY <3>1, <3>3, <3>4, OrderlyAppend DEF Typed
    <3> QED BY <3>1, <3>2, <3>5
  <2> QED BY <2>1, <2>2
<1>5. Typed'
  BY <1>1, <1>3, <1>4 DEF Typed
<1>6. \A ev \in Pending' : ev \in Pending \/ ev.kind = "TryWalk"
  BY <1>1, <1>4 DEF Pending
<1>7. \A k : Asked(k)' <=> Asked(k)
  <2>1. Pending \subseteq Pending'
    BY <1>1, <1>4 DEF Pending
  <2>2. \A k : EvRemove(k).kind # "TryWalk"
    BY DEF EvRemove
  <2> QED BY <1>1, <1>6, <2>1, <2>2 DEF Asked
<1>8. StoreSound(store') /\ Linked(store') /\ PlayerLives' /\ Hero' = Hero
  BY <1>1, <1>2, KeptStore
<1>9. Removals'
  BY <1>1, <1>2, <1>7, KeptRemovals
<1>10. Deaths'
  BY <1>1, <1>2, <1>6, KeptDeaths
<1>11. Decisions'
  <2> SUFFICES ASSUME NEW ev \in Pending' PROVE Decided(ev)'
    BY <1>1 DEF Decisions
  <2>1. Decided(ev)
    <3>1. CASE ev \in Pending
      BY <3>1 DEF Decisions
    <3>2. CASE ev \notin Pending
      <4>1. /\ ev.kind = "TryWalk" /\ ev.mob \in Live(store.mobs)
            /\ ev.from = Get(store.mobs, ev.mob).position
        BY <1>1, <1>4, <3>2 DEF Pending
      <4> QED BY <4>1 DEF Decided
    <3> QED BY <3>1, <3>2
  <2> QED BY <1>1, <1>2, <2>1, KeptDecided
<1>12. EventOrder'
  <2>1. batch' = <<>>
    BY <1>1
  <2> QED BY <1>4, <2>1, EmptySets DEF EventOrder
<1>13. Turns'
  <2> SUFFICES ASSUME pc' = "mobs" PROVE Turns'
    BY DEF Turns
  <2>1. turn # Len(store.mobs.values) /\ turn' = turn + 1
    BY <1>1
  <2>2. turn + 1 \in DOMAIN store.mobs.values /\ turn < turn + 1
        /\ \A j \in DOMAIN store.mobs.values : j < turn => j < turn + 1
    BY <1>3, <2>1
  <2>3. DOMAIN store'.mobs.values = DOMAIN store.mobs.values
    BY <1>2, FramesTurn
  <2>4. \A i \in DOMAIN store.mobs.values : store'.mobs.values[i].id = store.mobs.values[i].id
    BY <1>2 DEF SameFrame
  <2>5. ASSUME NEW ev \in ToSet(queue'), ev.kind = "TryWalk", ev.mob # Hero
        PROVE  \E j \in DOMAIN store.mobs.values : j < turn + 1 /\ store.mobs.values[j].id = ev.mob
    <3>1. CASE ev \in ToSet(queue)
      <4>1. PICK j \in DOMAIN store.mobs.values : j < turn /\ store.mobs.values[j].id = ev.mob
        BY <1>1, <2>5, <3>1 DEF Turns
      <4> QED BY <2>2, <4>1
    <3>2. CASE ev \notin ToSet(queue)
      BY <1>3, <1>4, <2>2, <3>2
    <3> QED BY <3>1, <3>2
  <2>6. turn' \in DOMAIN store'.mobs.values
    BY <2>1, <2>2, <2>3
  <2>7. ASSUME NEW ev \in ToSet(queue'), ev.kind = "TryWalk"
        PROVE  \/ ev.mob = Hero'
               \/ \E j \in DOMAIN store'.mobs.values : j < turn' /\ store'.mobs.values[j].id = ev.mob
    BY <1>8, <2>1, <2>3, <2>4, <2>5, <2>7
  <2> QED BY <2>6, <2>7 DEF Turns
<1>14. Buffers'
  BY <1>1, <1>2, FramesKept DEF Buffers
<1> QED BY <1>5, <1>8, <1>9, <1>10, <1>11, <1>12, <1>13, <1>14
-----------------------------------------------------------------------------

(* The ages.                                                               *)

\* Who has a life that ends is nobody's child, and neither a mob nor the player.
LEMMA EndsAlone ==
  ASSUME GameInv, NEW k \in Live(store.entities), Get(store.entities, k).life > 0
  PROVE  /\ Get(store.entities, k).parent \notin Live(store.entities)
         /\ k # world.player /\ Get(store.entities, k).mob = Invalid
<1> DEFINE e == Get(store.entities, k)
<1>1. e.life > 0 /\ e.life # -1
  OBVIOUS
<1>2. MobsLinked(store) /\ EntitiesLinked(store) /\ FamiliesLinked(store)
  BY DEF GameInv, Linked
<1>3. e.parent \notin Live(store.entities)
  BY <1>1, <1>2 DEF FamiliesLinked
<1>4. k # world.player
  BY <1>1, HeroProperties
<1>5. e.mob = Invalid
  BY <1>1, <1>2 DEF EntitiesLinked, MobsLinked
<1> QED BY <1>3, <1>4, <1>5

\* Ageing keeps the invariant: the entities it asks to go may go.
LEMMA AgeEntitiesInv ==
  ASSUME GameInv, AgeEntities
  PROVE  GameInv'
<1> USE DEF GameInv
<1> DEFINE aged == [i \in DOMAIN store.entities.values |-> Older(store.entities.values[i])]
<1>1. /\ pc = "age" /\ batch = <<>> /\ remove = <<>> /\ pc' = "events" /\ queue' = <<>>
      /\ remove' = remove /\ world' = world /\ turn' = turn
      /\ windowEvents' = windowEvents /\ clock' = clock
      /\ store' = WithAges(store, aged) /\ batch' = WithExpired(queue, aged)
  BY DEF AgeEntities, Buffers, WithAges
<1>2. \A c \in Container : store[c].added = <<>> /\ store[c].removed = <<>>
  BY <1>1 DEF Buffers
<1>3. store.entities.added = <<>> /\ store.entities.removed = <<>>
  BY <1>2 DEF Container
<1>4. /\ SameFrame(store, store') /\ store'.mobs = store.mobs
      /\ aged \in Seq(Entity)
      /\ \A i \in DOMAIN aged : aged[i].id \in Live(store.entities)
                                /\ aged[i].life = Get(store.entities, aged[i].id).life
  BY <1>1, <1>3, AgesSpec
<1> HIDE DEF aged
<1>5. /\ batch' \in Seq(Event) /\ Orderly(batch')
      /\ ToSet(queue) \subseteq ToSet(batch')
      /\ \A ev \in ToSet(batch') :
           \/ ev \in ToSet(queue)
           \/ \E i \in DOMAIN aged : aged[i].life > 0 /\ ev = EvRemove(aged[i].id)
  BY <1>1, <1>4, WithExpiredSpec DEF Typed, EventOrder
<1>6. \A ev \in ToSet(batch') :
        \/ ev \in ToSet(queue)
        \/ \E k \in Live(store.entities) : Get(store.entities, k).life > 0 /\ ev = EvRemove(k)
  BY <1>4, <1>5
<1>7. Pending' = ToSet(batch') /\ Pending = ToSet(queue)
  BY <1>1, EmptySets DEF Pending
<1>8. /\ Kept(store, store')
      /\ \A m \in Live(store.mobs) : Get(store'.mobs, m).position = Get(store.mobs, m).position
  BY <1>4, KeptSelf DEF Kept, SameFrame
<1>9. StoreSound(store') /\ Linked(store') /\ PlayerLives' /\ Hero' = Hero
  BY <1>1, <1>8, KeptStore
<1>10. Typed'
  BY <1>1, <1>5 DEF Typed
<1>11. Removals'
  <2>1. ASSUME NEW k, Asked(k) PROVE Asked(k)'
    BY <1>1, <1>5, <1>7, <2>1 DEF Asked
  <2>2. ASSUME NEW k, Asked(k)', ~Asked(k) PROVE Get(store.entities, k).life > 0
    <3>1. EvRemove(k) \in ToSet(batch') /\ EvRemove(k) \notin ToSet(queue)
      BY <1>1, <1>7, <2>2 DEF Asked
    <3>2. PICK j \in Live(store.entities) :
            Get(store.entities, j).life > 0 /\ EvRemove(k) = EvRemove(j)
      BY <1>6, <3>1
    <3>3. j = k
      BY <3>2 DEF EvRemove
    <3> QED BY <3>2, <3>3
  <2>3. /\ Live(store'.entities) = Live(store.entities)
        /\ \A k \in Live(store.entities) :
             /\ Get(store'.entities, k).mob = Get(store.entities, k).mob
             /\ Get(store'.entities, k).parent = Get(store.entities, k).parent
    BY <1>8 DEF Kept, SameLinks
  <2> SUFFICES ASSUME NEW k \in Live(store.entities)
      PROVE LET f == Get(store'.entities, k)
            IN  /\ f.parent = Invalid \/ f.parent \in Live(store'.entities) \/ Asked(k)'
                /\ Asked(k)' =>
                     /\ f.parent \notin Live(store'.entities)
                     /\ k # world'.player
                     /\ f.mob # Invalid => Get(store'.mobs, f.mob).health <= 0
    BY <2>3 DEF Removals
  <2> DEFINE e == Get(store.entities, k)
             f == Get(store'.entities, k)
  <2>4. f.mob = e.mob /\ f.parent = e.parent
    BY <2>3
  <2>5. /\ e.parent = Invalid \/ e.parent \in Live(store.entities) \/ Asked(k)
        /\ Asked(k) =>
             /\ e.parent \notin Live(store.entities)
             /\ k # world.player
             /\ e.mob # Invalid => Get(store.mobs, e.mob).health <= 0
    BY DEF Removals
  <2>6. e.life > 0 =>
          e.parent \notin Live(store.entities) /\ k # world.player /\ e.mob = Invalid
    BY EndsAlone
  <2>7. Asked(k)' => Asked(k) \/ e.life > 0
    BY <2>2
  <2>8. Asked(k) => Asked(k)'
    BY <2>1
  <2> HIDE DEF e, f
  <2>9. f.parent = Invalid \/ f.parent \in Live(store'.entities) \/ Asked(k)'
    BY <2>3, <2>4, <2>5, <2>8
  <2>10. ASSUME Asked(k)'
         PROVE  /\ f.parent \notin Live(store'.entities)
                /\ k # world'.player
                /\ f.mob # Invalid => Get(store'.mobs, f.mob).health <= 0
    BY <1>1, <1>4, <2>3, <2>4, <2>5, <2>6, <2>7, <2>10
  <2> QED BY <2>9, <2>10 DEF f
<1>12. Deaths'
  <2>1. \A k : EvRemove(k).kind # "KillMob"
    BY DEF EvRemove
  <2>2. \A ev \in Pending' : ev.kind = "KillMob" => ev \in Pending
    BY <1>6, <1>7, <2>1
  <2> QED BY <1>1, <1>8, <2>2, KeptDeaths
<1>13. Decisions'
  <2>1. ASSUME NEW ev \in Pending' PROVE Decided(ev)'
    <3>1. Decided(ev)
      <4>1. CASE ev \in Pending
        BY <4>1 DEF Decisions
      <4>2. CASE ev \notin Pending
        <5>1. ev.kind = "Remove"
          BY <1>6, <1>7, <4>2 DEF EvRemove
        <5> QED BY <5>1 DEF Decided
      <4> QED BY <4>1, <4>2
    <3> QED BY <1>1, <1>8, <3>1, KeptDecided
  <2> QED BY <1>1, <2>1, EmptySets DEF Decisions
<1>14. EventOrder'
  BY <1>1, <1>5, EmptySets DEF EventOrder
<1>15. Turns'
  BY <1>1 DEF Turns
<1>16. Buffers'
  <2>1. /\ store'.mobs.added = <<>>
        /\ \A c \in Container : Len(store'[c].added) <= MaxSize
        /\ \A c \in Container : store'[c].added = <<>> /\ store'[c].removed = <<>>
    BY <1>2, <1>4, FramesKept
  <2> QED BY <1>1, <2>1 DEF Buffers
<1> QED BY <1>9, <1>10, <1>11, <1>12, <1>13, <1>14, <1>15, <1>16
-----------------------------------------------------------------------------

(* The events.                                                             *)

\* What a handler finds, and what is left.
LEMMA BatchTail ==
  ASSUME GameInv, NEW kind, Handle(kind)
  PROVE  /\ Head(batch) \in Event /\ Head(batch).kind = kind /\ Head(batch) \in Pending
         /\ batch # <<>> /\ batch' = Tail(batch) /\ batch' \in Seq(Event)
         /\ ToSet(batch) = {Head(batch)} \cup ToSet(batch') /\ HasKind(batch, kind)
         /\ Orderly(batch')
         /\ HasKind(batch, "Attack") => ~HasKind(queue, "KillMob")
         /\ \A k : HasKind(batch', k) => HasKind(batch, k)
         /\ pc = "events" /\ pc' = "events" /\ turn' = turn /\ windowEvents' = windowEvents
         /\ world' = world
         /\ \A c \in Container : store[c].removed = <<>>
         /\ \A ev \in ToSet(queue) : ev.kind # "TryWalk" /\ ev.kind # "Attack"
<1>1. /\ pc = "events" /\ pc' = "events" /\ turn' = turn /\ windowEvents' = windowEvents
      /\ world' = world /\ batch # <<>> /\ batch' = Tail(batch) /\ Head(batch).kind = kind
  BY DEF Handle
<1>2. batch \in Seq(Event) /\ Orderly(batch) /\ (HasKind(batch, "Attack") => ~HasKind(queue, "KillMob"))
  BY DEF GameInv, Typed, EventOrder
<1>3. /\ Head(batch) \in Event /\ batch' \in Seq(Event)
      /\ ToSet(batch) = {Head(batch)} \cup ToSet(batch')
  BY <1>1, <1>2, TailSet
<1>4. Orderly(batch')
  BY <1>1, <1>2, OrderlyTail
<1>5. HasKind(batch, kind) /\ \A k : HasKind(batch', k) => HasKind(batch, k)
  BY <1>1, <1>3, HasKindSet
<1>6. Head(batch) \in Pending
  BY <1>3 DEF Pending
<1>7. /\ \A c \in Container : store[c].removed = <<>>
      /\ \A ev \in ToSet(queue) : ev.kind # "TryWalk" /\ ev.kind # "Attack"
  BY <1>1 DEF GameInv, Buffers, Decisions
<1> QED BY <1>1, <1>2, <1>3, <1>4, <1>5, <1>6, <1>7

\* The entity of an EvRemove waits in remove.
LEMMA HandleRemoveInv ==
  ASSUME GameInv, HandleRemove
  PROVE  GameInv'
<1> USE DEF GameInv
<1>0. Handle("Remove")
  BY DEF HandleRemove
<1>1. /\ Head(batch) \in Event /\ Head(batch).kind = "Remove" /\ Head(batch) \in Pending
      /\ batch # <<>> /\ batch' \in Seq(Event)
      /\ ToSet(batch) = {Head(batch)} \cup ToSet(batch')
      /\ Orderly(batch')
      /\ \A k : HasKind(batch', k) => HasKind(batch, k)
      /\ HasKind(batch, "Attack") => ~HasKind(queue, "KillMob")
      /\ pc = "events" /\ pc' = "events" /\ turn' = turn /\ windowEvents' = windowEvents
      /\ world' = world
  BY <1>0, BatchTail
<1>2. /\ remove' = Append(remove, Head(batch).entity)
      /\ store' = store /\ queue' = queue /\ clock' = clock
  BY DEF HandleRemove
<1> DEFINE ev == Head(batch)
<1>3. ev.entity \in Nat /\ ev = EvRemove(ev.entity)
  <2> HIDE DEF ev
  <2>1. ev \in Event /\ ev.kind = "Remove"
    BY <1>1 DEF ev
  <2>2. ev \in [kind : {"Remove"}, entity : Nat]
    BY <2>1 DEF Event
  <2> QED BY <2>2 DEF EvRemove
<1>4. remove' \in Seq(Nat) /\ ToSet(remove') = ToSet(remove) \cup {ev.entity}
  BY <1>2, <1>3, AppendSet DEF Typed
<1>5. Pending = Pending' \cup {ev} /\ Pending' \subseteq Pending
  BY <1>1, <1>2 DEF Pending
<1> HIDE DEF ev
<1>6. ASSUME NEW k PROVE Asked(k)' <=> Asked(k)
  <2>1. EvRemove(k) = ev <=> k = ev.entity
    BY <1>3 DEF EvRemove
  <2> QED BY <1>3, <1>4, <1>5, <2>1 DEF Asked
<1>7. Typed'
  BY <1>1, <1>2, <1>4 DEF Typed
<1>8. Kept(store, store')
  BY <1>2, KeptSelf
<1>9. StoreSound(store') /\ Linked(store') /\ PlayerLives' /\ Hero' = Hero
  BY <1>1, <1>8, KeptStore
<1>10. Removals'
  BY <1>1, <1>6, <1>8, KeptRemovals
<1>11. Deaths'
  BY <1>1, <1>5, <1>8, KeptDeaths
<1>12. Decisions'
  <2>1. \A e \in Pending : Decided(e)'
    BY <1>1, <1>2, <1>8, KeptDecided DEF Decisions
  <2> QED BY <1>1, <1>2, <1>5, <2>1 DEF Decisions
<1>13. EventOrder'
  BY <1>1, <1>2 DEF EventOrder
<1>14. Turns'
  BY <1>1 DEF Turns
<1>15. Buffers'
  <2>1. HasKind(batch', "KillMob") => \A c \in Container : store[c].added = <<>>
    BY <1>1 DEF Buffers
  <2> QED BY <1>1, <1>2, <2>1 DEF Buffers
<1> QED BY <1>7, <1>9, <1>10, <1>11, <1>12, <1>13, <1>14, <1>15

\* A handler after which everyone is still there, and that queues nothing but
\* that a mob walked, or that the one attacked is to be killed.
LEMMA HandledInv ==
  ASSUME GameInv, NEW kind, kind # "Remove", Handle(kind),
         Kept(store, store'), SameFrame(store, store'), remove' = remove, clock' = clock,
         \/ queue' = queue
         \/ \E ev \in Event :
              /\ queue' = Append(queue, ev)
              /\ \/ ev.kind = "Walked"
                 \/ /\ ev.kind = "KillMob" /\ kind = "Attack"
                    /\ ev.who # Hero /\ Get(store'.mobs, ev.who).health <= 0,
         \A ev \in Pending : ev \in Pending' => Decided(ev)'
  PROVE  GameInv'
<1> USE DEF GameInv
<1>1. /\ Head(batch) \in Event /\ Head(batch).kind = kind /\ Head(batch) \in Pending
      /\ batch # <<>> /\ batch' \in Seq(Event)
      /\ ToSet(batch) = {Head(batch)} \cup ToSet(batch') /\ HasKind(batch, kind)
      /\ Orderly(batch')
      /\ \A k : HasKind(batch', k) => HasKind(batch, k)
      /\ HasKind(batch, "Attack") => ~HasKind(queue, "KillMob")
      /\ pc = "events" /\ pc' = "events" /\ turn' = turn /\ windowEvents' = windowEvents
      /\ world' = world
      /\ \A c \in Container : store[c].removed = <<>>
      /\ \A ev \in ToSet(queue) : ev.kind # "TryWalk" /\ ev.kind # "Attack"
  BY BatchTail
<1>2. kind = "Attack" => ~HasKind(batch', "Attack")
  BY <1>1, OrderlyTail DEF Handle, EventOrder, Typed
<1>3. /\ queue' \in Seq(Event) /\ ToSet(queue) \subseteq ToSet(queue')
      /\ \A ev \in ToSet(queue') :
           \/ ev \in ToSet(queue)
           \/ ev.kind = "Walked"
           \/ ev.kind = "KillMob" /\ ev.who # Hero /\ Get(store'.mobs, ev.who).health <= 0
      /\ Orderly(queue')
      /\ HasKind(batch', "Attack") => ~HasKind(queue', "KillMob")
  <2>1. CASE queue' = queue
    <3>1. HasKind(batch', "Attack") => ~HasKind(queue', "KillMob")
      BY <1>1, <2>1
    <3> QED BY <2>1, <3>1 DEF Typed, EventOrder
  <2>2. CASE queue' # queue
    <3>1. PICK ev \in Event :
            /\ queue' = Append(queue, ev)
            /\ \/ ev.kind = "Walked"
               \/ /\ ev.kind = "KillMob" /\ kind = "Attack"
                  /\ ev.who # Hero /\ Get(store'.mobs, ev.who).health <= 0
      BY <2>2
    <3>2. queue' \in Seq(Event) /\ ToSet(queue') = ToSet(queue) \cup {ev}
      BY <3>1, AppendSet DEF Typed
    <3>3. ev.kind = "KillMob" => ~HasKind(queue, "KillMob")
      BY <1>1, <3>1
    <3>4. Orderly(queue) /\ queue \in Seq(Event)
      BY DEF EventOrder, Typed
    <3>5. Orderly(Append(queue, ev))
      BY <3>1, <3>3, <3>4, OrderlyAppend
    <3>6. ASSUME HasKind(batch', "Attack") PROVE ~HasKind(queue', "KillMob")
      <4>1. kind # "Attack" /\ ~HasKind(queue, "KillMob")
        BY <1>1, <1>2, <3>6
      <4>2. ev.kind # "KillMob"
        BY <3>1, <4>1
      <4> QED BY <3>2, <4>1, <4>2, HasKindSet
    <3> QED BY <3>1, <3>2, <3>5, <3>6
  <2> QED BY <2>1, <2>2
<1>4. Typed'
  BY <1>1, <1>3 DEF Typed
<1>5. ASSUME NEW ev \in Pending', ev \notin Pending
      PROVE  \/ ev.kind = "Walked"
             \/ ev.kind = "KillMob" /\ ev.who # Hero /\ Get(store'.mobs, ev.who).health <= 0
  BY <1>1, <1>3, <1>5 DEF Pending
<1>6. \A ev \in Pending : ev = Head(batch) \/ ev \in Pending'
  BY <1>1, <1>3 DEF Pending
<1>7. ASSUME NEW k PROVE Asked(k)' <=> Asked(k)
  <2>1. EvRemove(k).kind = "Remove"
    BY DEF EvRemove
  <2> QED BY <1>1, <1>5, <1>6, <2>1 DEF Asked
<1>8. StoreSound(store') /\ Linked(store') /\ PlayerLives' /\ Hero' = Hero
  BY <1>1, KeptStore
<1>9. Removals'
  BY <1>1, <1>7, KeptRemovals
<1>10. Deaths'
  <2> SUFFICES ASSUME NEW ev \in Pending', ev.kind = "KillMob", ev.who \in Live(store'.mobs)
               PROVE  Get(store'.mobs, ev.who).health <= 0 /\ ev.who # Hero'
    BY DEF Deaths
  <2>1. CASE ev \notin Pending
    BY <1>5, <1>8, <2>1
  <2>2. CASE ev \in Pending
    <3>1. ev.who \in Live(store.mobs)
      BY DEF Kept, SameLinks
    <3>2. Get(store.mobs, ev.who).health <= 0 /\ ev.who # Hero
      BY <2>2, <3>1 DEF Deaths
    <3>3. Get(store.mobs, ev.who).health \in Int /\ Get(store'.mobs, ev.who).health \in Int
      BY <1>8, <3>1, StoreElements DEF Mob
    <3>4. Get(store'.mobs, ev.who).health <= Get(store.mobs, ev.who).health
      BY <3>1 DEF Kept
    <3> QED BY <1>8, <3>2, <3>3, <3>4
  <2> QED BY <2>1, <2>2
<1>11. Decisions'
  <2>1. ASSUME NEW ev \in Pending' PROVE Decided(ev)'
    <3>1. CASE ev \in Pending
      BY <3>1
    <3>2. CASE ev \notin Pending
      <4>1. ev.kind # "TryWalk" /\ ev.kind # "Attack"
        BY <1>5, <3>2
      <4> QED BY <4>1 DEF Decided
    <3> QED BY <3>1, <3>2
  <2>2. \A ev \in ToSet(queue') : ev.kind # "TryWalk" /\ ev.kind # "Attack"
    BY <1>1, <1>3
  <2> QED BY <2>1, <2>2 DEF Decisions
<1>12. EventOrder'
  BY <1>1, <1>3 DEF EventOrder
<1>13. Turns'
  BY <1>1 DEF Turns
<1>14. Buffers'
  <2>1. /\ store'.mobs.added = <<>>
        /\ \A c \in Container : Len(store'[c].added) <= MaxSize
        /\ \A c \in Container : store[c].added = <<>> => store'[c].added = <<>>
        /\ \A c \in Container : store'[c].removed = <<>>
    BY <1>1, FramesKept
  <2>2. HasKind(batch', "KillMob") => \A c \in Container : store[c].added = <<>>
    BY <1>1 DEF Buffers
  <2> QED BY <1>1, <2>1, <2>2 DEF Buffers
<1> QED BY <1>4, <1>8, <1>9, <1>10, <1>11, <1>12, <1>13, <1>14

\* Nobody listens to EvWalked but the camera.
LEMMA HandleWalkedInv ==
  ASSUME GameInv, HandleWalked
  PROVE  GameInv'
<1>1. /\ Handle("Walked") /\ store' = store /\ queue' = queue /\ remove' = remove
      /\ clock' = clock /\ world' = world
  BY DEF HandleWalked, Handle
<1>2. Kept(store, store') /\ SameFrame(store, store')
  BY <1>1, KeptSelf DEF GameInv
<1>3. \A ev \in Pending : Decided(ev)'
  BY <1>1, <1>2, KeptDecided DEF GameInv, Decisions
<1> QED BY <1>1, <1>2, <1>3, HandledInv

\* A mob that tries a step either stays or takes it, and nobody else moves.
LEMMA TryWalkSteps ==
  ASSUME GameInv, HandleTryWalk
  PROVE  LET ev == Head(batch)
         IN  /\ ev.mob \in Live(store.mobs)
             /\ Kept(store, store') /\ SameFrame(store, store')
             /\ \A k \in Live(store.mobs) : Get(store'.mobs, k).health = Get(store.mobs, k).health
             /\ \A k \in Live(store.mobs) :
                  k # ev.mob => Get(store'.mobs, k).position = Get(store.mobs, k).position
             /\ \A k \in Live(store.mobs) : Get(store'.mobs, k).tick = Get(store.mobs, k).tick
             /\ \/ store' = store /\ queue' = queue
                \/ /\ ~Blocked(Get(store.mobs, ev.mob), ev.to)
                   /\ Get(store'.mobs, ev.mob).position = ev.to
                   /\ \E x \in Event :
                        /\ queue' = Append(queue, x) /\ x.kind = "Walked"
                        /\ x.mob = ev.mob /\ x.from = ev.from /\ x.to = ev.to
<1> DEFINE ev == Head(batch)
           m == ev.mob
           q == ev.to
           mob == Get(store.mobs, m)
           moved == [mob EXCEPT !.position = q]
           walked == EvWalked(m, ev.from, q)
<1>1. /\ Handle("TryWalk")
      /\ IF Blocked(mob, q) THEN store' = store /\ queue' = queue
         ELSE store' = WithWalk(m, moved) /\ queue' = Append(queue, EvWalked(mob.id, ev.from, q))
  BY DEF HandleTryWalk, WithWalk, QueueEvent
<1>2. ev \in Event /\ ev.kind = "TryWalk" /\ ev \in Pending
  BY <1>1, BatchTail
<1>3. m \in Live(store.mobs) /\ mob \in Mob /\ mob.id = m
  <2>1. m \in Live(store.mobs)
    BY <1>2 DEF GameInv, Decisions, Decided
  <2> QED BY <2>1, StoreElements DEF GameInv
<1>4. q \in Coord /\ ev.from \in Coord /\ m \in Nat
  <2> HIDE DEF ev
  <2> QED BY <1>2 DEF Event
<1> HIDE DEF m, q
<1>5. CASE Blocked(mob, q)
  <2>1. store' = store /\ queue' = queue
    BY <1>1, <1>5
  <2>2. Kept(store, store') /\ SameFrame(store, store')
    BY <2>1, KeptSelf DEF GameInv
  <2> QED BY <1>3, <2>1, <2>2 DEF m
<1>6. CASE ~Blocked(mob, q)
  <2>1. store' = WithWalk(m, moved) /\ queue' = Append(queue, walked)
    BY <1>1, <1>3, <1>6
  <2>2. StoreSound(store) /\ Linked(store) /\ m \in Live(store.mobs) /\ q \in Coord
    BY <1>3, <1>4 DEF GameInv
  <2>3. LET v == [Get(store.mobs, m) EXCEPT !.position = q]
            t == WithWalk(m, v)
        IN  /\ SameFrame(store, t) /\ t.entities = store.entities
            /\ Get(t.mobs, m) = v
            /\ \A k \in Live(store.mobs) \ {m} : Get(t.mobs, k) = Get(store.mobs, k)
    BY ONLY <2>2, WalkSpec, Zenon
  <2>4. /\ SameFrame(store, store') /\ Get(store'.mobs, m) = moved
        /\ \A k \in Live(store.mobs) \ {m} : Get(store'.mobs, k) = Get(store.mobs, k)
    BY <2>1, <2>3
  <2>5. moved.health = mob.health /\ moved.position = q /\ moved.tick = mob.tick
    <3> HIDE DEF mob
    <3> QED BY <1>3 DEF Mob
  <2>6. /\ \A k \in Live(store.mobs) : Get(store'.mobs, k).health = Get(store.mobs, k).health
        /\ \A k \in Live(store.mobs) :
             k # m => Get(store'.mobs, k).position = Get(store.mobs, k).position
        /\ \A k \in Live(store.mobs) : Get(store'.mobs, k).tick = Get(store.mobs, k).tick
        /\ Get(store'.mobs, m).position = q
    BY <2>4, <2>5
  <2>7. Kept(store, store')
    BY <2>2, <2>4, <2>6, KeptSelf DEF Kept, SameFrame
  <2>8. /\ walked \in Event /\ walked.kind = "Walked"
        /\ walked.mob = m /\ walked.from = ev.from /\ walked.to = q
    <3>1. walked \in Event
      BY <1>4, EventTypes
    <3> QED BY <3>1 DEF EvWalked
  <2> HIDE DEF walked
  <2>9. \E x \in Event : /\ queue' = Append(queue, x) /\ x.kind = "Walked"
                         /\ x.mob = m /\ x.from = ev.from /\ x.to = q
    BY <2>1, <2>8
  <2> QED BY <1>3, <1>6, <2>4, <2>6, <2>7, <2>9 DEF m, q
<1> QED BY <1>5, <1>6

\* A step that is tried keeps the invariant: others decided from where they
\* stand, and nobody else moves.
LEMMA HandleTryWalkInv ==
  ASSUME GameInv, HandleTryWalk
  PROVE  GameInv'
<1> DEFINE ev == Head(batch)
           m == ev.mob
<1>1. Handle("TryWalk") /\ remove' = remove /\ clock' = clock /\ world' = world
  BY DEF HandleTryWalk, Handle
<1>2. /\ ev \in Event /\ ev.kind = "TryWalk" /\ ev \in Pending /\ batch # <<>> /\ batch' = Tail(batch)
      /\ \A e \in ToSet(queue) : e.kind # "TryWalk" /\ e.kind # "Attack"
  BY <1>1, BatchTail
<1>3. /\ m \in Live(store.mobs)
      /\ Kept(store, store') /\ SameFrame(store, store')
      /\ \A k \in Live(store.mobs) :
           k # m => Get(store'.mobs, k).position = Get(store.mobs, k).position
      /\ \/ store' = store /\ queue' = queue
         \/ \E x \in Event : queue' = Append(queue, x) /\ x.kind = "Walked"
  BY TryWalkSteps
<1>4. /\ ~HasKind(batch', "Attack")
      /\ \A e \in ToSet(batch') : e.kind = "TryWalk" => e.mob # m
  BY <1>2, OrderlyTail DEF GameInv, Typed, EventOrder
<1> HIDE DEF m, ev
<1>5. CASE store' = store /\ queue' = queue
  <2>1. \A e \in Pending : Decided(e)'
    BY <1>1, <1>3, <1>5, KeptDecided DEF GameInv, Decisions
  <2> QED BY <1>1, <1>3, <1>5, <2>1, HandledInv
<1>6. CASE \E x \in Event : queue' = Append(queue, x) /\ x.kind = "Walked"
  <2>1. PICK x \in Event : queue' = Append(queue, x) /\ x.kind = "Walked"
    BY <1>6
  <2>2. ToSet(queue') = ToSet(queue) \cup {x}
    BY <2>1, AppendSet DEF GameInv, Typed
  <2>3. ASSUME NEW e \in Pending, e \in Pending' PROVE Decided(e)'
    <3>1. e.kind # "Attack" /\ (e.kind = "TryWalk" => e.mob # m)
      <4>1. e \in ToSet(queue') \/ e \in ToSet(batch')
        BY <2>3 DEF Pending
      <4>2. CASE e \in ToSet(batch')
        BY <1>4, <4>2, HasKindSet
      <4>3. CASE e \in ToSet(queue')
        BY <1>2, <2>1, <2>2, <4>3
      <4> QED BY <4>1, <4>2, <4>3
    <3>2. e.kind = "TryWalk" => e.mob \in Live(store.mobs) /\ Get(store.mobs, e.mob).position = e.from
      BY DEF GameInv, Decisions, Decided
    <3>3. Live(store'.mobs) = Live(store.mobs)
      BY <1>3 DEF Kept, SameLinks
    <3>4. e.kind = "TryWalk" => e.mob \in Live(store'.mobs) /\ Get(store'.mobs, e.mob).position = e.from
      BY <1>3, <3>1, <3>2, <3>3
    <3> QED BY <3>1, <3>4 DEF Decided
  <2> QED BY <1>1, <1>3, <1>6, <2>3, HandledInv
<1> QED BY <1>3, <1>5, <1>6

\* Only the one attacked is hurt, and nobody moves.
LEMMA AttackSteps ==
  ASSUME GameInv, HandleAttack
  PROVE  LET m == Head(batch).target
         IN  /\ m \in Live(store.mobs) /\ m # Hero
             /\ Kept(store, store') /\ SameFrame(store, store')
             /\ Get(store'.mobs, Hero) = Get(store.mobs, Hero)
             /\ \A k \in Live(store.mobs) : Get(store'.mobs, k).position = Get(store.mobs, k).position
             /\ \A k \in Live(store.mobs) : k # m => Get(store'.mobs, k).health = Get(store.mobs, k).health
             /\ \/ queue' = queue
                \/ \E x \in Event :
                     /\ queue' = Append(queue, x)
                     /\ x.kind = "KillMob"
                     /\ x.who # Hero /\ Get(store'.mobs, x.who).health <= 0
<1> DEFINE ev == Head(batch)
           mob == Get(store.mobs, ev.mob)
           target == Get(store.mobs, ev.target)
           hurt == [target EXCEPT !.health = @ - MobDatabase[mob.type].strength]
<1>1. /\ Handle("Attack") /\ remove' = remove /\ clock' = clock /\ world' = world
      /\ IF mob.id # Invalid /\ target.id # Invalid
           THEN /\ store' = WithMob(store, target.id, hurt)
                /\ queue' = IF hurt.health <= 0 THEN Append(queue, EvKillMob(target.id)) ELSE queue
           ELSE store' = store /\ queue' = queue
  BY DEF HandleAttack, Handle, WithMob, QueueEvent
<1>2. ev \in Event /\ ev.kind = "Attack" /\ ev \in Pending
  BY <1>1, BatchTail
<1>3. /\ ev.mob \in Live(store.mobs) /\ ev.target \in Live(store.mobs) /\ ev.target # Hero
      /\ StoreSound(store)
  BY <1>2 DEF GameInv, Decisions, Decided
<1>4. /\ mob \in Mob /\ mob.id = ev.mob /\ mob.id # Invalid
      /\ target \in Mob /\ target.id = ev.target /\ target.id # Invalid /\ ev.target \in Nat
  BY <1>3, StoreElements DEF Invalid
<1> DEFINE m == ev.target
<1>5. /\ store' = WithMob(store, m, hurt)
      /\ queue' = IF hurt.health <= 0 THEN Append(queue, EvKillMob(m)) ELSE queue
  BY <1>1, <1>4
<1> HIDE DEF mob, target, ev
<1>6. MobDatabase[mob.type].strength \in Nat
  BY <1>4, SpeedAndHealth DEF Mob
<1>7. /\ hurt \in Mob /\ SameMob(target, hurt) /\ hurt.position = target.position
      /\ hurt.health = target.health - MobDatabase[mob.type].strength
      /\ target.health \in Int
  <2> DEFINE h == target.health - MobDatabase[mob.type].strength
  <2>1. target.health \in Int /\ h \in Int
    BY <1>4, <1>6 DEF Mob
  <2>2. hurt = [target EXCEPT !.health = h]
    OBVIOUS
  <2> HIDE DEF h
  <2>3. [target EXCEPT !.health = h] \in Mob /\ [target EXCEPT !.health = h].health = h
        /\ SameMob(target, [target EXCEPT !.health = h])
        /\ [target EXCEPT !.health = h].position = target.position
    BY <1>4, <2>1 DEF Mob, SameMob
  <2> HIDE DEF hurt
  <2> QED BY <2>1, <2>2, <2>3 DEF h
<1>8. hurt.health <= target.health
  BY <1>6, <1>7
<1> HIDE DEF hurt, m
<1>9. Get(store.mobs, m) = target /\ m \in Live(store.mobs) /\ m # Hero /\ m \in Nat
  BY <1>3, <1>4 DEF target, m
<1>10. LET t == WithMob(store, m, hurt)
       IN  /\ SameFrame(store, t) /\ t.entities = store.entities
           /\ Get(t.mobs, m) = hurt
           /\ \A k \in Live(store.mobs) \ {m} : Get(t.mobs, k) = Get(store.mobs, k)
  <2>1. StoreSound(store) /\ m \in Live(store.mobs) /\ hurt \in Mob /\ SameMob(Get(store.mobs, m), hurt)
    BY <1>3, <1>7, <1>9
  <2> QED BY ONLY <2>1, MobPutSpec, Zenon
<1>11. /\ SameFrame(store, store') /\ Get(store'.mobs, m) = hurt
       /\ \A k \in Live(store.mobs) \ {m} : Get(store'.mobs, k) = Get(store.mobs, k)
  BY <1>5, <1>10
<1>12. \A k \in Live(store.mobs) : Get(store'.mobs, k).position = Get(store.mobs, k).position
  BY <1>7, <1>9, <1>11
<1>13. \A k \in Live(store.mobs) : Get(store'.mobs, k).health <= Get(store.mobs, k).health
  <2> SUFFICES ASSUME NEW k \in Live(store.mobs)
               PROVE  Get(store'.mobs, k).health <= Get(store.mobs, k).health
    OBVIOUS
  <2>1. Get(store.mobs, k).health <= Get(store.mobs, k).health
    BY <1>3, KeptSelf DEF Kept
  <2>2. CASE k = m
    BY <1>8, <1>9, <1>11, <2>2
  <2>3. CASE k # m
    BY <1>11, <2>1, <2>3
  <2> QED BY <2>2, <2>3
<1>14. Kept(store, store')
  BY <1>11, <1>13 DEF Kept, SameFrame
<1>15. /\ \A k \in Live(store.mobs) : k # m => Get(store'.mobs, k).health = Get(store.mobs, k).health
       /\ Get(store'.mobs, Hero) = Get(store.mobs, Hero)
  <2>1. Hero \in Live(store.mobs)
    BY DEF GameInv, PlayerLives
  <2> QED BY <1>9, <1>11, <2>1
<1>16. CASE hurt.health <= 0
  <2>1. queue' = Append(queue, EvKillMob(m))
    BY <1>5, <1>16
  <2>2. EvKillMob(m) \in Event
    BY <1>9, EventTypes
  <2>3. EvKillMob(m).kind = "KillMob" /\ EvKillMob(m).who = m
    BY DEF EvKillMob
  <2>4. \E x \in Event : /\ queue' = Append(queue, x)
                         /\ x.kind = "KillMob"
                         /\ x.who # Hero /\ Get(store'.mobs, x.who).health <= 0
    BY <1>9, <1>11, <1>16, <2>1, <2>2, <2>3
  <2> QED BY <1>9, <1>11, <1>12, <1>14, <1>15, <2>4 DEF m, ev
<1>17. CASE ~(hurt.health <= 0)
  <2>1. queue' = queue
    BY <1>5, <1>17
  <2> QED BY <1>9, <1>11, <1>12, <1>14, <1>15, <2>1 DEF m, ev
<1> QED BY <1>16, <1>17

\* An attack keeps the invariant: who dies of it had health left, and is not
\* the player.
LEMMA HandleAttackInv ==
  ASSUME GameInv, HandleAttack
  PROVE  GameInv'
<1>1. Handle("Attack") /\ remove' = remove /\ clock' = clock /\ world' = world
  BY DEF HandleAttack, Handle
<1>2. /\ Kept(store, store') /\ SameFrame(store, store')
      /\ \A k \in Live(store.mobs) : Get(store'.mobs, k).position = Get(store.mobs, k).position
      /\ \/ queue' = queue
         \/ \E x \in Event :
              /\ queue' = Append(queue, x)
              /\ x.kind = "KillMob"
              /\ x.who # Hero /\ Get(store'.mobs, x.who).health <= 0
  BY AttackSteps
<1>3. \A e \in Pending : Decided(e)'
  BY <1>1, <1>2, KeptDecided DEF GameInv, Decisions
<1> QED BY <1>1, <1>2, <1>3, HandledInv

\* Blood and bones are added, and fit into the buffer if it is empty.
LEMMA KillMobGrows ==
  ASSUME GameInv, HandleKillMob
  PROVE  \E n \in Nat : n <= MaxSize /\ StoreSound(store') /\ Linked(store') /\ Grows(store, store', n)
<1> DEFINE p == Get(store.mobs, Head(batch).who).position
<1>1. PICK tiles \in Stains, drops \in Drops :
        store' = CreateBones(CreateBloodSplatter(store, p, tiles, drops), p)
  BY DEF HandleKillMob
<1>2. /\ tiles \in Nat /\ drops \in Nat /\ tiles + drops + 1 <= MaxSize
      /\ tiles + drops + 1 \in Nat
  BY SplatterAssumption
<1>3. StoreSound(store) /\ Linked(store)
  BY DEF GameInv
<1>4. p \in Coord
  <2>1. Get(store.mobs, Head(batch).who) \in Mob
    BY <1>3, StoreElements, Nulls
  <2> QED BY <2>1 DEF Mob
<1> HIDE DEF p
<1>5. StoreSound(store') /\ Linked(store') /\ Grows(store, store', tiles + drops + 1)
  BY <1>1, <1>2, <1>3, <1>4, SplatterGrows
<1> QED BY <1>2, <1>5

\* The mob of an EvKillMob leaves blood and bones, and its entity is asked to go.
LEMMA HandleKillMobInv ==
  ASSUME GameInv, HandleKillMob
  PROVE  GameInv'
<1> USE DEF GameInv
<1> DEFINE ev == Head(batch)
           mob == Get(store.mobs, ev.who)
           gone == EvRemove(mob.entity)
<1>1. PICK n \in Nat : n <= MaxSize /\ StoreSound(store') /\ Linked(store') /\ Grows(store, store', n)
  BY KillMobGrows
<1>2. /\ Handle("KillMob") /\ remove' = remove
      /\ queue' = Append(queue, gone)
      /\ clock' = [clock EXCEPT !.freeze = 1] \/ clock' = clock
  BY DEF HandleKillMob, QueueEvent
<1>3. /\ ev \in Event /\ ev.kind = "KillMob" /\ ev \in Pending
      /\ batch # <<>> /\ batch' = Tail(batch) /\ batch' \in Seq(Event)
      /\ ToSet(batch) = {ev} \cup ToSet(batch') /\ HasKind(batch, "KillMob")
      /\ Orderly(batch')
      /\ HasKind(batch, "Attack") => ~HasKind(queue, "KillMob")
      /\ \A k : HasKind(batch', k) => HasKind(batch, k)
      /\ pc = "events" /\ pc' = "events" /\ turn' = turn /\ windowEvents' = windowEvents
      /\ world' = world
      /\ \A c \in Container : store[c].removed = <<>>
      /\ \A e \in ToSet(queue) : e.kind # "TryWalk" /\ e.kind # "Attack"
  BY <1>2, BatchTail
<1>4. ~HasKind(batch', "KillMob")
  BY <1>3, OrderlyTail DEF EventOrder, Typed
<1>6. mob \in Mob
  BY StoreElements, Nulls
<1>7. mob.entity \in Nat
  <2> HIDE DEF mob
  <2> QED BY <1>6 DEF Mob
<1>8. gone \in Event /\ gone.kind = "Remove" /\ \A k : EvRemove(k) = gone <=> k = mob.entity
  <2>1. gone \in Event
    BY <1>7, EventTypes
  <2> HIDE DEF mob
  <2> QED BY <2>1 DEF EvRemove
<1> HIDE DEF gone
<1>9. StoreSound(store') /\ Linked(store') /\ Grows(store, store', n)
  BY <1>1
<1> HIDE DEF ev, mob
<1>10. /\ store'.mobs = store.mobs
       /\ \A k \in Live(store.entities) :
            k \in Live(store'.entities) /\ Get(store'.entities, k) = Get(store.entities, k)
       /\ \A k \in Live(store'.entities) : k \notin Live(store.entities) =>
            /\ Get(store'.entities, k).parent = Invalid /\ Get(store'.entities, k).mob = Invalid
            /\ Get(store'.entities, k).children = <<>>
  BY <1>9 DEF Grows
<1>11. PlayerLives' /\ Hero' = Hero
  BY <1>3, <1>10 DEF PlayerLives, Hero
<1>12. queue' \in Seq(Event) /\ ToSet(queue') = ToSet(queue) \cup {gone}
  BY <1>2, <1>8, AppendSet DEF Typed
<1>13. Typed'
  <2>1. clock' \in [subTick : 0 .. SubTicksPerTick, freeze : 0 .. 1]
    BY <1>2 DEF Typed
  <2> QED BY <1>2, <1>3, <1>12, <2>1 DEF Typed
<1>14. /\ \A e \in Pending : e = ev \/ e \in Pending'
       /\ \A e \in Pending' : e = gone \/ e \in Pending
       /\ gone \in Pending'
  BY <1>3, <1>12 DEF Pending
<1>15. ASSUME NEW k PROVE Asked(k)' <=> Asked(k) \/ k = mob.entity
  <2>1. EvRemove(k) # ev
    BY <1>3 DEF EvRemove
  <2> QED BY <1>2, <1>8, <1>14, <2>1 DEF Asked
<1>16. mob.entity \in Live(store.entities) =>
         LET e == Get(store.entities, mob.entity)
         IN  /\ e.parent = Invalid /\ mob.entity # world.player
             /\ Get(store.mobs, e.mob).health <= 0
  <2> SUFFICES ASSUME mob.entity \in Live(store.entities)
      PROVE LET e == Get(store.entities, mob.entity)
            IN  /\ e.parent = Invalid /\ mob.entity # world.player
                /\ Get(store.mobs, e.mob).health <= 0
    OBVIOUS
  <2>1. ev.who \in Live(store.mobs)
    <3>1. mob.entity # 0
      BY StoreElements
    <3>2. NullMob.entity = 0
      BY DEF NullMob, Invalid
    <3>3. ev.who \notin Live(store.mobs) => mob = NullMob
      BY StoreElements DEF mob
    <3> QED BY <3>1, <3>2, <3>3
  <2>2. /\ Get(store.entities, mob.entity).mob = ev.who
        /\ Get(store.entities, mob.entity).parent = Invalid
    BY <2>1 DEF Linked, MobsLinked, mob
  <2>3. mob.health <= 0 /\ ev.who # Hero
    BY <1>3, <2>1 DEF Deaths, mob
  <2>4. mob.entity # world.player
    BY <2>2, <2>3 DEF Hero
  <2> QED BY <2>2, <2>3, <2>4 DEF mob
<1>17. Removals'
  <2> SUFFICES ASSUME NEW k \in Live(store'.entities)
      PROVE LET f == Get(store'.entities, k)
            IN  /\ f.parent = Invalid \/ f.parent \in Live(store'.entities) \/ Asked(k)'
                /\ Asked(k)' =>
                     /\ f.parent \notin Live(store'.entities)
                     /\ k # world'.player
                     /\ f.mob # Invalid => Get(store'.mobs, f.mob).health <= 0
    BY DEF Removals
  <2> DEFINE f == Get(store'.entities, k)
  <2>0. Invalid \notin Live(store'.entities)
    BY <1>9, StoreElements DEF Invalid
  <2>1. CASE k \notin Live(store.entities)
    <3>1. f.parent = Invalid /\ f.mob = Invalid
      BY <1>10, <2>1
    <3>2. k # world'.player
      BY <1>3, <2>1 DEF PlayerLives
    <3> HIDE DEF f
    <3> QED BY <2>0, <3>1, <3>2 DEF f
  <2>2. CASE k \in Live(store.entities)
    <3>1. f = Get(store.entities, k)
      BY <1>10, <2>2
    <3> HIDE DEF f
    <3>2. /\ f.parent = Invalid \/ f.parent \in Live(store.entities) \/ Asked(k)
          /\ Asked(k) =>
               /\ f.parent \notin Live(store.entities)
               /\ k # world.player
               /\ f.mob # Invalid => Get(store.mobs, f.mob).health <= 0
      BY <2>2, <3>1 DEF Removals
    <3>3. f.parent = Invalid \/ f.parent \in Live(store'.entities) \/ Asked(k)'
      BY <1>10, <1>15, <3>2
    <3>4. f.parent \notin Live(store.entities) => f.parent \notin Live(store'.entities)
      <4> SUFFICES ASSUME f.parent \notin Live(store.entities), f.parent \in Live(store'.entities)
                   PROVE  FALSE
        OBVIOUS
      <4>1. Get(store'.entities, f.parent).children = <<>>
        BY <1>10
      <4>2. \E i \in DOMAIN Get(store'.entities, f.parent).children : TRUE
        BY <1>9 DEF Linked, FamiliesLinked, f
      <4> QED BY <4>1, <4>2
    <3>5. CASE k = mob.entity
      <4>1. f.parent = Invalid /\ k # world.player /\ Get(store.mobs, f.mob).health <= 0
        BY <1>16, <2>2, <3>1, <3>5
      <4> QED BY <1>3, <1>10, <2>0, <3>3, <4>1 DEF f
    <3>6. CASE k # mob.entity
      <4>1. Asked(k)' <=> Asked(k)
        BY <1>15, <3>6
      <4>2. ASSUME Asked(k)'
            PROVE  /\ f.parent \notin Live(store'.entities)
                   /\ k # world'.player
                   /\ f.mob # Invalid => Get(store'.mobs, f.mob).health <= 0
        BY <1>3, <1>10, <3>2, <3>4, <4>1, <4>2
      <4> QED BY <3>3, <4>2 DEF f
    <3> QED BY <3>5, <3>6
  <2> QED BY <2>1, <2>2
<1>18. Deaths'
  <2> SUFFICES ASSUME NEW e \in Pending', e.kind = "KillMob", e.who \in Live(store'.mobs)
               PROVE  Get(store'.mobs, e.who).health <= 0 /\ e.who # Hero'
    BY DEF Deaths
  <2>1. e # gone
    BY <1>8
  <2>2. e \in Pending
    BY <1>14, <2>1
  <2> QED BY <1>10, <1>11, <2>2 DEF Deaths
<1>19. Decisions'
  <2>1. ASSUME NEW e \in Pending' PROVE Decided(e)'
    <3>1. Decided(e)
      <4>1. CASE e = gone
        BY <1>8, <4>1 DEF Decided
      <4>2. CASE e # gone
        <5>1. e \in Pending
          BY <1>14, <4>2
        <5> QED BY <5>1 DEF Decisions
      <4> QED BY <4>1, <4>2
    <3> QED BY <1>10, <1>11, <3>1 DEF Decided
  <2>2. \A e \in ToSet(queue') : e.kind # "TryWalk" /\ e.kind # "Attack"
    BY <1>3, <1>8, <1>12
  <2> QED BY <2>1, <2>2 DEF Decisions
<1>20. EventOrder'
  <2>1. Orderly(Append(queue, gone))
    BY <1>8, OrderlyAppend DEF EventOrder, Typed
  <2>2. HasKind(batch', "Attack") => ~HasKind(queue', "KillMob")
    <3> SUFFICES ASSUME HasKind(batch', "Attack") PROVE ~HasKind(queue', "KillMob")
      OBVIOUS
    <3>1. ~HasKind(queue, "KillMob")
      BY <1>3
    <3> QED BY <1>8, <1>12, <3>1, HasKindSet
  <2> QED BY <1>2, <1>3, <2>1, <2>2 DEF EventOrder
<1>21. Turns'
  BY <1>3 DEF Turns
<1>22. Buffers'
  <2>1. \A c \in Container : store[c].added = <<>>
    BY <1>3 DEF Buffers
  <2>2. /\ store.entities.added = <<>> /\ store.mobs.added = <<>>
        /\ store.sprites.added = <<>> /\ store.physics.added = <<>>
    BY <2>1 DEF Container
  <2>3. Len(<<>>) = 0
    OBVIOUS
  <2>4. MaxSize \in Nat
    BY SplatterAssumption
  <2>5. /\ Len(store'.entities.added) <= 0 + n /\ Len(store'.sprites.added) <= 0 + n
        /\ Len(store'.physics.added) <= 0 + n
    BY <1>9, <2>2, <2>3 DEF Grows
  <2>6. /\ Len(store'.entities.added) \in Nat /\ Len(store'.sprites.added) \in Nat
        /\ Len(store'.physics.added) \in Nat
    BY <1>9, Lengths
  <2>7. /\ Len(store'.entities.added) <= MaxSize /\ Len(store'.sprites.added) <= MaxSize
        /\ Len(store'.physics.added) <= MaxSize
    BY ONLY <1>1, <2>4, <2>5, <2>6
  <2>8. Len(store'.mobs.added) <= MaxSize
    BY <1>10 DEF Buffers, Container
  <2>9. \A c \in Container : Len(store'[c].added) <= MaxSize
    BY <2>7, <2>8 DEF Container
  <2>10. \A c \in Container : store'[c].removed = store[c].removed
    BY <1>9 DEF Grows, Container
  <2> QED BY <1>3, <1>4, <1>10, <2>2, <2>9, <2>10 DEF Buffers
<1> QED BY <1>9, <1>11, <1>13, <1>17, <1>18, <1>19, <1>20, <1>21, <1>22
-----------------------------------------------------------------------------

(* The end of a tick.                                                      *)

\* An entity that is asked to go has no one left it belongs to.
LEMMA RemoveSteps ==
  ASSUME GameInv, RemoveEntity
  PROVE  LET k == Head(remove)
             e == Get(store.entities, k)
         IN  \/ k \notin Live(store.entities) /\ store' = store /\ queue' = queue
             \/ /\ k \in Live(store.entities) /\ e \in Entity /\ e.id = k /\ k # Invalid
                /\ e.parent \notin Live(store.entities) /\ k # world.player
                /\ e.mob # Invalid => Get(store.mobs, e.mob).health <= 0
                /\ Parted(store, store', k) /\ queue' = queue \o ChildrenRemoved(e)
<1> USE DEF GameInv
<1> DEFINE k == Head(remove)
           e == Get(store.entities, k)
<1>1. /\ remove # <<>>
      /\ IF e.id = Invalid THEN store' = store /\ queue' = queue
         ELSE /\ store' = Without(store, e)
              /\ queue' = queue \o ChildrenRemoved(e)
  BY DEF RemoveEntity, AlreadyRemoved
<1>2. k \in ToSet(remove)
  BY <1>1, TailSet DEF Typed
<1>3. CASE e.id = Invalid
  <2>1. k \notin Live(store.entities)
    BY <1>3, StoreElements DEF Invalid
  <2> QED BY <1>1, <1>3, <2>1
<1>4. CASE e.id # Invalid
  <2>1. k \in Live(store.entities)
    <3>1. k \notin Live(store.entities) => e = NullEntity
      BY StoreElements
    <3>2. NullEntity.id = Invalid
      BY Nulls DEF Invalid
    <3> QED BY <1>4, <3>1, <3>2
  <2>2. e \in Entity /\ e.id = k /\ k # Invalid
    BY <2>1, StoreElements DEF Invalid
  <2>3. store' = Without(store, Get(store.entities, k)) /\ queue' = queue \o ChildrenRemoved(e)
    BY <1>1, <1>4
  <2> HIDE DEF k
  <2>4. Asked(k)
    BY <1>2 DEF Asked
  <2>5. /\ e.parent \notin Live(store.entities) /\ k # world.player
        /\ e.mob # Invalid => Get(store.mobs, e.mob).health <= 0
    BY <2>1, <2>4 DEF Removals
  <2>6. Parted(store, store', k)
    BY <2>1, <2>3, <2>5, WithoutSpec
  <2> QED BY <2>1, <2>2, <2>3, <2>5, <2>6 DEF k
<1> QED BY <1>3, <1>4

\* A removal keeps the invariant: the children it leaves behind are asked to
\* go at once, and nobody waits for an entity that is gone.
LEMMA RemoveEntityInv ==
  ASSUME GameInv, RemoveEntity
  PROVE  GameInv'
<1> USE DEF GameInv
<1> DEFINE k == Head(remove)
           e == Get(store.entities, k)
<1>1. /\ pc = "events" /\ batch = <<>> /\ remove # <<>> /\ pc' = pc /\ turn' = turn
      /\ batch' = batch /\ windowEvents' = windowEvents /\ clock' = clock /\ world' = world
      /\ remove' = Tail(remove)
  BY DEF RemoveEntity
<1>2. k \in Nat /\ remove' \in Seq(Nat) /\ ToSet(remove) = {k} \cup ToSet(remove')
  BY <1>1, TailSet DEF Typed
<1>3. Pending = ToSet(queue) /\ Pending' = ToSet(queue')
  BY <1>1, EmptySets DEF Pending
<1>4. \A ev \in ToSet(queue) : ev.kind # "TryWalk" /\ ev.kind # "Attack"
  BY <1>1 DEF Decisions
<1>5. CASE k \notin Live(store.entities)
  <2>1. store' = store /\ queue' = queue
    BY <1>5, RemoveSteps
  <2>2. k \notin Live(store.entities)
    BY <1>5
  <2> HIDE DEF k
  <2>3. \A j \in Live(store.entities) : Asked(j)' <=> Asked(j)
    BY <1>2, <1>3, <2>1, <2>2 DEF Asked
  <2>4. Kept(store, store')
    BY <2>1, KeptSelf
  <2>5. StoreSound(store') /\ Linked(store') /\ PlayerLives'
    BY <1>1, <2>4, KeptStore
  <2>6. Removals'
    BY <1>1, <2>3, <2>4, KeptRemovals
  <2>7. Deaths'
    BY <1>1, <1>3, <2>1, <2>4, KeptDeaths
  <2>8. Decisions'
    <3>1. \A ev \in Pending : Decided(ev)'
      BY <1>3, <1>4 DEF Decided
    <3> QED BY <1>1, <1>3, <2>1, <3>1 DEF Decisions
  <2>9. Typed' /\ EventOrder' /\ Turns' /\ Buffers'
    <3>1. Typed'
      BY <1>1, <1>2, <2>1 DEF Typed
    <3>2. EventOrder'
      BY <1>1, <2>1 DEF EventOrder
    <3>3. Turns'
      BY <1>1 DEF Turns
    <3>4. Buffers'
      BY <1>1, <2>1 DEF Buffers
    <3> QED BY <3>1, <3>2, <3>3, <3>4
  <2> QED BY <2>5, <2>6, <2>7, <2>8, <2>9
<1>6. CASE k \in Live(store.entities)
  <2>1. k \in Live(store.entities)
    BY <1>6
  <2>2. e \in Entity /\ e.id = k /\ k # Invalid
    BY <1>6, RemoveSteps
  <2>3. queue' = queue \o ChildrenRemoved(e)
    BY <1>6, RemoveSteps
  <2>5. /\ e.parent \notin Live(store.entities) /\ k # world.player
        /\ e.mob # Invalid => Get(store.mobs, e.mob).health <= 0
    BY <1>6, RemoveSteps
  <2>6. Parted(store, store', k)
    BY <1>6, RemoveSteps
  <2> HIDE DEF k
  <2>7. /\ StoreSound(store') /\ Linked(store')
        /\ Live(store'.entities) = Live(store.entities) \ {k}
        /\ \A j \in Live(store'.entities) : Get(store'.entities, j) = Get(store.entities, j)
        /\ Live(store'.mobs) = Live(store.mobs) \ {e.mob}
        /\ \A m \in Live(store'.mobs) : Get(store'.mobs, m) = Get(store.mobs, m)
        /\ store'.mobs.added = store.mobs.added
        /\ \A c \in Container : Len(store'[c].added) = Len(store[c].added)
    BY <2>6 DEF Parted
  <2>8. /\ ChildrenRemoved(e) \in Seq(Event)
        /\ \A ev \in ToSet(ChildrenRemoved(e)) : ev.kind = "Remove"
        /\ \A ev \in ToSet(ChildrenRemoved(e)) : \E i \in DOMAIN e.children : ev = EvRemove(e.children[i])
        /\ \A i \in DOMAIN e.children : EvRemove(e.children[i]) \in ToSet(ChildrenRemoved(e))
    <3>1. e.children \in Seq(Nat)
      <4> HIDE DEF e
      <4> QED BY <2>2 DEF Entity
    <3> DEFINE c == e.children
               r == [i \in DOMAIN c |-> EvRemove(c[i])]
    <3>2. ChildrenRemoved(e) = r
      BY DEF ChildrenRemoved
    <3> HIDE DEF e, c
    <3>3. DOMAIN c = 1 .. Len(c) /\ Len(c) \in Nat /\ \A i \in DOMAIN c : c[i] \in Nat
      BY <3>1, LenProperties, ElementOfSeq DEF c
    <3>4. \A i \in DOMAIN c : EvRemove(c[i]) \in Event /\ EvRemove(c[i]).kind = "Remove"
      <4>1. \A i \in DOMAIN c : EvRemove(c[i]) \in Event
        BY <3>3, EventTypes
      <4> QED BY <4>1 DEF EvRemove
    <3>5. r \in Seq(Event)
      BY <3>3, <3>4
    <3>6. ToSet(r) = {EvRemove(c[i]) : i \in DOMAIN c}
      BY DEF ToSet
    <3> HIDE DEF r
    <3>7. /\ \A ev \in ToSet(r) : ev.kind = "Remove"
          /\ \A ev \in ToSet(r) : \E i \in DOMAIN c : ev = EvRemove(c[i])
          /\ \A i \in DOMAIN c : EvRemove(c[i]) \in ToSet(r)
      BY <3>4, <3>6
    <3> QED BY <3>2, <3>5, <3>7 DEF c
  <2> HIDE DEF e
  <2>9. queue' \in Seq(Event) /\ ToSet(queue') = ToSet(queue) \cup ToSet(ChildrenRemoved(e))
    BY <2>3, <2>8, ConcatSet DEF Typed
  <2>10. Typed'
    BY <1>1, <1>2, <2>9 DEF Typed
  <2>11. e.mob # Hero
    <3>1. Get(store.mobs, Hero).entity = world.player /\ Hero # Invalid
      BY HeroProperties
    <3>2. e.mob # Invalid => Get(store.mobs, e.mob).entity = k
      BY <2>1 DEF Linked, EntitiesLinked, e
    <3> QED BY <2>5, <3>1, <3>2
  <2>12. PlayerLives' /\ Hero' = Hero
    <3>1. world.player \in Live(store'.entities)
      BY <2>5, <2>7 DEF PlayerLives
    <3>2. Hero' = Hero
      BY <1>1, <2>7, <3>1 DEF Hero
    <3>3. Hero \in Live(store'.mobs) /\ Get(store'.mobs, Hero) = Get(store.mobs, Hero)
      BY <2>7, <2>11 DEF PlayerLives
    <3> QED BY <1>1, <3>1, <3>2, <3>3 DEF PlayerLives
  <2>13. Removals'
    <3> SUFFICES ASSUME NEW j \in Live(store'.entities)
        PROVE LET g == Get(store'.entities, j)
              IN  /\ g.parent = Invalid \/ g.parent \in Live(store'.entities) \/ Asked(j)'
                  /\ Asked(j)' =>
                       /\ g.parent \notin Live(store'.entities)
                       /\ j # world'.player
                       /\ g.mob # Invalid => Get(store'.mobs, g.mob).health <= 0
      BY DEF Removals
    <3> DEFINE g == Get(store'.entities, j)
    <3>1. j \in Live(store.entities) /\ j # k /\ g = Get(store.entities, j)
      BY <2>7
    <3> HIDE DEF g
    <3>2. /\ g.parent = Invalid \/ g.parent \in Live(store.entities) \/ Asked(j)
          /\ Asked(j) =>
               /\ g.parent \notin Live(store.entities)
               /\ j # world.player
               /\ g.mob # Invalid => Get(store.mobs, g.mob).health <= 0
      BY <3>1 DEF Removals
    <3>3. g.parent = k => \E i \in DOMAIN e.children : e.children[i] = j
      BY <2>1, <3>1 DEF Linked, FamiliesLinked, e
    <3>4. \A i \in DOMAIN e.children : Get(store.entities, e.children[i]).parent = k
      BY <2>1 DEF Linked, FamiliesLinked, e
    <3>5. Asked(j) => Asked(j)'
      BY <1>2, <1>3, <2>9, <3>1 DEF Asked
    <3>6. Asked(j)' => Asked(j) \/ g.parent = k
      <4> SUFFICES ASSUME Asked(j)', ~Asked(j) PROVE g.parent = k
        OBVIOUS
      <4>1. EvRemove(j) \in ToSet(ChildrenRemoved(e))
        BY <1>2, <1>3, <2>9 DEF Asked
      <4>2. PICK i \in DOMAIN e.children : EvRemove(j) = EvRemove(e.children[i])
        BY <2>8, <4>1
      <4>3. j = e.children[i]
        BY <4>2 DEF EvRemove
      <4> QED BY <3>1, <3>4, <4>3
    <3>7. g.parent = k => Asked(j)'
      BY <1>3, <2>8, <2>9, <3>3 DEF Asked
    <3>8. g.parent = Invalid \/ g.parent \in Live(store'.entities) \/ Asked(j)'
      BY <2>7, <3>2, <3>5, <3>7
    <3>9. g.parent = k => j # world.player /\ g.mob = Invalid
      <4> SUFFICES ASSUME g.parent = k PROVE j # world.player /\ g.mob = Invalid
        OBVIOUS
      <4>1. ASSUME NEW m \in Live(store.mobs) PROVE Get(store.mobs, m).entity # j
        BY <2>2, <3>1, <4>1 DEF Linked, MobsLinked
      <4>2. j # world.player
        BY <4>1, HeroProperties DEF PlayerLives
      <4>3. g.mob = Invalid
        BY <3>1, <4>1 DEF Linked, EntitiesLinked
      <4> QED BY <4>2, <4>3
    <3>10. ASSUME Asked(j), g.mob # Invalid PROVE Get(store'.mobs, g.mob).health <= 0
      <4>1. g.mob \in Live(store.mobs) /\ Get(store.mobs, g.mob).entity = j
        BY <3>1, <3>10 DEF Linked, EntitiesLinked
      <4>2. e.mob # Invalid => Get(store.mobs, e.mob).entity = k
        BY <2>1 DEF Linked, EntitiesLinked, e
      <4>3. g.mob # e.mob
        BY <3>1, <3>10, <4>1, <4>2
      <4>4. g.mob \in Live(store'.mobs)
        BY <2>7, <4>1, <4>3
      <4> QED BY <2>7, <3>2, <3>10, <4>4
    <3>11. ASSUME Asked(j)'
           PROVE  /\ g.parent \notin Live(store'.entities)
                  /\ j # world'.player
                  /\ g.mob # Invalid => Get(store'.mobs, g.mob).health <= 0
      <4>1. CASE Asked(j)
        BY <1>1, <2>7, <3>2, <3>10, <4>1
      <4>2. CASE ~Asked(j)
        BY <1>1, <2>7, <3>6, <3>9, <3>11, <4>2
      <4> QED BY <4>1, <4>2
    <3> QED BY <3>8, <3>11 DEF g
  <2>14. Deaths'
    <3> SUFFICES ASSUME NEW ev \in Pending', ev.kind = "KillMob", ev.who \in Live(store'.mobs)
                 PROVE  Get(store'.mobs, ev.who).health <= 0 /\ ev.who # Hero'
      BY DEF Deaths
    <3>1. ev \in Pending
      BY <1>3, <2>8, <2>9
    <3> QED BY <2>7, <2>12, <3>1 DEF Deaths
  <2>15. Decisions'
    <3>1. \A ev \in ToSet(queue') : ev.kind # "TryWalk" /\ ev.kind # "Attack"
      BY <1>4, <2>8, <2>9
    <3>2. \A ev \in Pending' : Decided(ev)'
      BY <1>3, <3>1 DEF Decided
    <3> QED BY <3>1, <3>2 DEF Decisions
  <2>16. EventOrder'
    <3>1. Orderly(queue \o ChildrenRemoved(e))
      BY <2>8, OrderlyConcat DEF EventOrder, Typed
    <3>2. batch' = <<>>
      BY <1>1
    <3> QED BY <2>3, <3>1, <3>2, EmptySets DEF EventOrder
  <2>17. Turns'
    BY <1>1 DEF Turns
  <2>18. Buffers'
    <3>1. batch' = <<>> /\ pc' = "events"
      BY <1>1
    <3> QED BY <2>7, <3>1, EmptySets DEF Buffers
  <2> QED BY <2>7, <2>10, <2>12, <2>13, <2>14, <2>15, <2>16, <2>17, <2>18
<1> QED BY <1>5, <1>6

\* The end of a tick keeps the invariant: sync() makes everyone who was added
\* part of the arrays.
LEMMA EndTickInv ==
  ASSUME GameInv, EndTick
  PROVE  GameInv'
<1> USE DEF GameInv
<1>1. /\ pc = "events" /\ batch = <<>> /\ remove = <<>> /\ pc' = "frame" /\ turn' = turn
      /\ queue' = queue /\ batch' = batch /\ remove' = remove
      /\ windowEvents' = windowEvents /\ clock' = clock /\ world' = world
      /\ store' = SyncAll(store)
  BY DEF EndTick
<1>2. Settled(store, store')
  BY <1>1, SyncAllSpec
<1>3. Kept(store, store')
  BY <1>2, SettledKept
<1>4. StoreSound(store') /\ Linked(store') /\ PlayerLives' /\ Hero' = Hero
  BY <1>1, <1>3, KeptStore
<1>5. Pending' = Pending /\ \A j : Asked(j)' <=> Asked(j)
  BY <1>1 DEF Pending, Asked
<1>6. Removals'
  BY <1>1, <1>3, <1>5, KeptRemovals
<1>7. Deaths'
  BY <1>1, <1>3, <1>5, KeptDeaths
<1>8. Decisions'
  <2>1. \A m \in Live(store.mobs) : Get(store'.mobs, m).position = Get(store.mobs, m).position
    BY <1>2 DEF Settled
  <2>2. \A ev \in Pending : Decided(ev)'
    BY <1>1, <1>3, <2>1, KeptDecided DEF Decisions
  <2> QED BY <1>1, <1>5, <2>2 DEF Decisions
<1>9. Typed'
  BY <1>1 DEF Typed
<1>10. EventOrder'
  BY <1>1 DEF EventOrder
<1>11. Turns'
  BY <1>1 DEF Turns
<1>12. Buffers'
  <2>1. \A c \in Container : store'[c].added = <<>> /\ store'[c].removed = <<>>
    BY <1>2 DEF Settled
  <2>2. Len(<<>>) = 0 /\ 0 <= MaxSize
    <3>1. Len(<<>>) = 0
      OBVIOUS
    <3>2. MaxSize \in Nat
      BY SplatterAssumption
    <3> QED BY ONLY <3>1, <3>2
  <2>3. \A c \in Container : Len(store'[c].added) <= MaxSize
    BY <2>1, <2>2
  <2>4. store'.mobs.added = <<>>
    BY <2>1 DEF Container
  <2> QED BY <1>1, <2>1, <2>3, <2>4 DEF Buffers
<1> QED BY <1>4, <1>6, <1>7, <1>8, <1>9, <1>10, <1>11, <1>12

\* A step that changes nothing keeps the invariant.
LEMMA StutterInv ==
  ASSUME GameInv, UNCHANGED vars
  PROVE  GameInv'
BY DEF vars, GameInv, Typed, PlayerLives, Hero, Removals, Asked, Pending, Deaths, Decisions,
   Decided, EventOrder, Turns, Buffers

\* Every step keeps the invariant.
LEMMA StepInv ==
  ASSUME GameInv, [Next]_vars
  PROVE  GameInv'
<1>1. CASE Frame
  BY <1>1, FrameInv
<1>2. CASE PlayerWaits
  BY <1>2, PlayerWaitsInv
<1>3. CASE PlayerActs
  BY <1>3, PlayerActsInv
<1>4. CASE MobUpdates
  BY <1>4, MobUpdatesInv
<1>5. CASE AgeEntities
  BY <1>5, AgeEntitiesInv
<1>6. CASE Events
  BY <1>6, HandleRemoveInv, HandleKillMobInv, HandleTryWalkInv, HandleWalkedInv, HandleAttackInv
     DEF Events
<1>7. CASE RemoveEntity
  BY <1>7, RemoveEntityInv
<1>8. CASE EndTick
  BY <1>8, EndTickInv
<1>9. CASE UNCHANGED vars
  BY <1>9, StutterInv
<1> QED BY <1>1, <1>2, <1>3, <1>4, <1>5, <1>6, <1>7, <1>8, <1>9 DEF Next

\* The inductive invariant: what links entities, mobs, sprites and physics, what
\* the events of a tick say of them, and what waits for its end.  Everything
\* below follows from it (game.cpp, mobsystem.cpp, eventmanager.h, util.h).
THEOREM GameInvariant == Spec => []GameInv
<1>1. Init => GameInv
  BY InitInv
<1>2. GameInv /\ [Next]_vars => GameInv'
  BY StepInv
<1> QED BY <1>1, <1>2, PTL DEF Spec
-----------------------------------------------------------------------------

(* What the invariant says of the game.                                    *)

\* All four containers of the store have the shape of a sound container.
LEMMA StoreShapes ==
  ASSUME StoreSound(store)
  PROVE  /\ Shape(store.entities, Entity) /\ Shape(store.mobs, Mob)
         /\ Shape(store.sprites, SpriteType) /\ Shape(store.physics, PhysicsType)
BY SoundProperties DEF StoreSound

\* The variables keep their types, for every world and any number of mobs.
THEOREM Typing == Spec => []TypeOK
<1>1. ASSUME GameInv PROVE TypeOK
  <2>1. Typed /\ StoreSound(store)
    BY <1>1 DEF GameInv
  <2>2. /\ HoldsOnly(store.entities, Entity) /\ HoldsOnly(store.mobs, Mob)
        /\ HoldsOnly(store.sprites, SpriteType) /\ HoldsOnly(store.physics, PhysicsType)
    BY <2>1, StoreShapes DEF Shape, HoldsOnly
  <2> QED BY <2>1, <2>2 DEF Typed, TypeOK, SpriteType, PhysicsType
<1> QED BY <1>1, GameInvariant, PTL

\* Entities are only removed that are there, once per tick, however often and by
\* whomever their removal is asked for (componentManager.h, util.h:112-118).
THEOREM Removing == Spec => []RemovalIsSafe
<1>1. ASSUME GameInv PROVE RemovalIsSafe
  BY <1>1, StoreShapes DEF GameInv, Shape, RemovalIsSafe, Container
<1> QED BY <1>1, GameInvariant, PTL

\* At any time the index of each container leads to the element with that id,
\* and each element is in the index (util.h:38-93).
THEOREM Indexing == Spec => []IndexMatches
<1>1. ASSUME GameInv PROVE IndexMatches
  BY <1>1, StoreShapes DEF GameInv, Shape, IndexMatches, Container
<1> QED BY <1>1, GameInvariant, PTL

\* The buffers hold what one tick adds: a killed mob leaves the largest splatter
\* into empty ones, for at most one mob dies in a tick (util.h:104-110).
THEOREM Capacity == Spec => []CapacityHolds
<1>1. GameInv => CapacityHolds
  BY DEF GameInv, Buffers, CapacityHolds
<1> QED BY <1>1, GameInvariant, PTL

\* Nobody writes to the null element, which all missing elements share: every id
\* a handler assigns through is that of an element that is there (util.h:38-50).
THEOREM Nobody == Spec => []NullUntouched
<1>1. GameInv => NullUntouched
  BY DEF GameInv, StoreSound, Sound, NullUntouched
<1> QED BY <1>1, GameInvariant, PTL

\* What a mob decided in one phase still makes sense when its event is handled
\* in a later one: it stands where it stood, and who it attacks is there.
THEOREM Freshness == Spec => []EventsAreFresh
<1>1. ASSUME GameInv, pc = "events", batch # <<>>
      PROVE  LET ev == Head(batch) IN
             /\ ev.kind = "TryWalk" => Get(store.mobs, ev.mob).position = ev.from
             /\ ev.kind = "Attack" =>
                  Adjacent(Get(store.mobs, ev.mob).position, Get(store.mobs, ev.target).position)
  <2>1. Head(batch) \in Pending
    BY <1>1, TailSet DEF GameInv, Typed, Pending
  <2>2. Decided(Head(batch))
    BY <1>1, <2>1 DEF GameInv, Decisions
  <2> QED BY <2>2 DEF Decided
<1>2. GameInv => EventsAreFresh
  BY <1>1 DEF EventsAreFresh
<1> QED BY <1>2, GameInvariant, PTL

\* The elements of an array from which nobody is to be removed are those that are there.
LEMMA ArraysOfStore ==
  ASSUME StoreSound(store), \A c \in Container : store[c].added = <<>> /\ store[c].removed = <<>>
  PROVE  /\ \A i \in DOMAIN store.entities.values :
              /\ store.entities.values[i].id \in Live(store.entities)
              /\ Get(store.entities, store.entities.values[i].id) = store.entities.values[i]
         /\ \A i \in DOMAIN store.mobs.values :
              /\ store.mobs.values[i].id \in Live(store.mobs)
              /\ Get(store.mobs, store.mobs.values[i].id) = store.mobs.values[i]
         /\ \A i \in DOMAIN store.sprites.values :
              /\ store.sprites.values[i].id \in Live(store.sprites)
              /\ Get(store.sprites, store.sprites.values[i].id) = store.sprites.values[i]
         /\ \A i \in DOMAIN store.physics.values :
              /\ store.physics.values[i].id \in Live(store.physics)
              /\ Get(store.physics, store.physics.values[i].id) = store.physics.values[i]
<1>1. /\ store.entities.removed = <<>> /\ store.mobs.removed = <<>>
      /\ store.sprites.removed = <<>> /\ store.physics.removed = <<>>
  BY DEF Container
<1>2. /\ Sound(store.entities, Entity, NullEntity) /\ Sound(store.mobs, Mob, NullMob)
      /\ Sound(store.sprites, SpriteType, NullSprite) /\ Sound(store.physics, PhysicsType, NullPhysics)
  BY DEF StoreSound
<1>3. \A i \in DOMAIN store.entities.values :
        /\ store.entities.values[i].id \in Live(store.entities)
        /\ Get(store.entities, store.entities.values[i].id) = store.entities.values[i]
  BY <1>1, <1>2, ArraySpec, ElementTypes
<1>4. \A i \in DOMAIN store.mobs.values :
        /\ store.mobs.values[i].id \in Live(store.mobs)
        /\ Get(store.mobs, store.mobs.values[i].id) = store.mobs.values[i]
  BY <1>1, <1>2, ArraySpec, ElementTypes
<1>5. \A i \in DOMAIN store.sprites.values :
        /\ store.sprites.values[i].id \in Live(store.sprites)
        /\ Get(store.sprites, store.sprites.values[i].id) = store.sprites.values[i]
  BY <1>1, <1>2, ArraySpec, ElementTypes
<1>6. \A i \in DOMAIN store.physics.values :
        /\ store.physics.values[i].id \in Live(store.physics)
        /\ Get(store.physics, store.physics.values[i].id) = store.physics.values[i]
  BY <1>1, <1>2, ArraySpec, ElementTypes
<1> QED BY <1>3, <1>4, <1>5, <1>6

\* has() tells whether an id is in use.
LEMMA HasLive ==
  ASSUME StoreSound(store)
  PROVE  /\ \A k : Has(store.entities, k) <=> k \in Live(store.entities)
         /\ \A k : Has(store.mobs, k) <=> k \in Live(store.mobs)
<1>1. Reads(store.entities, NullEntity) /\ Reads(store.mobs, NullMob)
  BY GetProperties, ElementTypes DEF StoreSound
<1> QED BY <1>1 DEF Reads

\* After each tick nobody has lost its owner: no component without its entity,
\* no mob without its sprites, no child without its parent.
THEOREM Belonging == Spec => []NoOrphans
<1>1. ASSUME GameInv, pc = "frame" PROVE NoOrphans
  <2> USE <1>1 DEF GameInv
  <2>1. \A c \in Container : store[c].added = <<>> /\ store[c].removed = <<>>
    BY DEF Buffers
  <2>2. batch = <<>> /\ remove = <<>>
    BY DEF Buffers
  <2>3. MobsLinked(store) /\ EntitiesLinked(store) /\ FamiliesLinked(store) /\ PartsLinked(store)
    BY DEF Linked
  <2>4. ASSUME NEW n \in DOMAIN store.entities.values
        PROVE  LET e == store.entities.values[n] IN
               /\ Leads(e, store.mobs, e.mob) /\ Leads(e, store.sprites, e.sprite)
               /\ Leads(e, store.physics, e.physics)
               /\ \A i \in DOMAIN e.children : Get(store.entities, e.children[i]).parent = e.id
               /\ \/ e.parent = Invalid \/ Has(store.entities, e.parent)
                  \/ \E i \in DOMAIN queue : queue[i] = EvRemove(e.id)
    <3> DEFINE e == store.entities.values[n]
    <3>1. e.id \in Live(store.entities) /\ Get(store.entities, e.id) = e
      BY <2>1, ArraysOfStore
    <3> HIDE DEF e
    <3>2. /\ Leads(e, store.mobs, e.mob) /\ Leads(e, store.sprites, e.sprite)
          /\ Leads(e, store.physics, e.physics)
      BY <2>3, <3>1 DEF EntitiesLinked, Leads
    <3>3. \A i \in DOMAIN e.children : Get(store.entities, e.children[i]).parent = e.id
      BY <2>3, <3>1 DEF FamiliesLinked
    <3>4. e.parent = Invalid \/ e.parent \in Live(store.entities) \/ Asked(e.id)
      BY <3>1 DEF Removals
    <3>5. Asked(e.id) => EvRemove(e.id) \in ToSet(queue)
      BY <2>2, EmptySets DEF Asked, Pending
    <3>6. EvRemove(e.id) \in ToSet(queue) => \E i \in DOMAIN queue : queue[i] = EvRemove(e.id)
      BY DEF ToSet
    <3>7. e.parent \in Live(store.entities) => Has(store.entities, e.parent)
      BY HasLive
    <3> QED BY <3>2, <3>3, <3>4, <3>5, <3>6, <3>7 DEF e
  <2>5. ASSUME NEW i \in DOMAIN store.mobs.values
        PROVE  Has(store.entities, store.mobs.values[i].entity)
    BY <2>1, <2>3, ArraysOfStore, HasLive DEF MobsLinked
  <2>6. ASSUME NEW i \in DOMAIN store.sprites.values
        PROVE  Has(store.entities, store.sprites.values[i].entity)
    BY <2>1, <2>3, ArraysOfStore, HasLive DEF PartsLinked
  <2>7. ASSUME NEW i \in DOMAIN store.physics.values
        PROVE  Has(store.entities, store.physics.values[i].entity)
    BY <2>1, <2>3, ArraysOfStore, HasLive DEF PartsLinked
  <2>8. \A c \in Container \ {"entities"} : \A i \in DOMAIN store[c].values :
          Has(store.entities, store[c].values[i].entity)
    BY <2>5, <2>6, <2>7 DEF Container
  <2> QED BY <2>4, <2>8 DEF NoOrphans
<1>2. GameInv => NoOrphans
  BY <1>1 DEF NoOrphans
<1> QED BY <1>2, GameInvariant, PTL

-----------------------------------------------------------------------------
(* What a step may do to the mobs.                                         *)

\* Only a step to walk, an attack and a removal concern the mobs.
LEMMA MobSteps ==
  ASSUME GameInv, [Next]_vars
  PROVE  Steady(store, store') \/ HandleTryWalk \/ HandleAttack \/ RemoveEntity
<1>1. CASE store' = store
  BY <1>1 DEF Steady
<1>2. CASE Frame
  BY <1>1, <1>2 DEF Frame
<1>3. CASE PlayerWaits
  <2>1. Rested(PlayerMob) \in 0 .. 2 * TicksPerAction - 1
    BY HeroProperties, TickTypes
  <2> QED BY <1>3, <2>1, PlayerTicksKept DEF PlayerWaits
<1>4. CASE PlayerActs
  <2>1. Rested(PlayerMob) >= TicksPerAction
    BY <1>4 DEF PlayerActs
  <2>2. Rested(PlayerMob) - TicksPerAction \in 0 .. 2 * TicksPerAction - 1
    BY <2>1, HeroProperties, TickTypes
  <2>3. PlayerTicks(PlayerMob, Rested(PlayerMob) - TicksPerAction)
    BY <1>4 DEF PlayerActs
  <2> QED BY <2>2, <2>3, PlayerTicksKept
<1>5. CASE MobUpdates
  BY <1>5, TurnSteps
<1>6. CASE AgeEntities
  <2>1. store'.mobs = store.mobs
    BY <1>6 DEF AgeEntities, GameInv, StoreSound
  <2> QED BY <2>1 DEF Steady
<1>7. CASE HandleRemove \/ HandleWalked
  BY <1>1, <1>7 DEF HandleRemove, HandleWalked
<1>8. CASE HandleKillMob
  <2>1. store'.mobs = store.mobs
    BY <1>8, KillMobGrows DEF Grows
  <2> QED BY <2>1 DEF Steady
<1>9. CASE EndTick
  <2>1. Settled(store, store')
    BY <1>9, SyncAllSpec DEF EndTick, GameInv
  <2> QED BY <2>1 DEF Settled, SameLinks, Steady
<1>10. CASE UNCHANGED vars
  BY <1>1, <1>10 DEF vars
<1> QED BY <1>2, <1>3, <1>4, <1>5, <1>6, <1>7, <1>8, <1>9, <1>10 DEF Next, Events

\* Who moves goes where no other mob stands.
LEMMA CollisionStep ==
  ASSUME GameInv, [Next]_vars
  PROVE  \A i \in DOMAIN store.mobs.values :
           LET mob == store.mobs.values[i] IN
           Has(store'.mobs, mob.id) /\ Get(store'.mobs, mob.id).position # mob.position =>
             \A j \in DOMAIN store.mobs.values \ {i} :
               store.mobs.values[j].position # Get(store'.mobs, mob.id).position
<1>0. GameInv'
  BY StepInv
<1> SUFFICES ASSUME NEW i \in DOMAIN store.mobs.values,
                    Has(store'.mobs, store.mobs.values[i].id),
                    Get(store'.mobs, store.mobs.values[i].id).position # store.mobs.values[i].position,
                    NEW j \in DOMAIN store.mobs.values \ {i}
             PROVE  store.mobs.values[j].position # Get(store'.mobs, store.mobs.values[i].id).position
  OBVIOUS
<1> DEFINE mob == store.mobs.values[i]
           k == mob.id
<1>1. StoreSound(store) /\ StoreSound(store')
  BY <1>0 DEF GameInv
<1>2. k \in Live(store'.mobs)
  <2>1. Reads(store'.mobs, NullMob)
    BY <1>1, GetProperties, ElementTypes DEF StoreSound
  <2> QED BY <2>1 DEF Reads
<1>3. /\ k \in Live(store.mobs) => Get(store.mobs, k) = mob
      /\ \A a, b \in DOMAIN store.mobs.values : store.mobs.values[a].id = store.mobs.values[b].id => a = b
  BY <1>1, ArraySpec, ElementTypes DEF StoreSound
<1> HIDE DEF mob, k
<1>4. ASSUME k \in Live(store.mobs), Get(store'.mobs, k).position = Get(store.mobs, k).position
      PROVE  FALSE
  BY <1>3, <1>4 DEF mob, k
<1>5. ~Steady(store, store')
  BY <1>2, <1>4 DEF Steady
<1>6. ~HandleAttack
  <2> SUFFICES ASSUME HandleAttack PROVE FALSE
    OBVIOUS
  <2>1. /\ Live(store'.mobs) = Live(store.mobs)
        /\ \A m \in Live(store.mobs) : Get(store'.mobs, m).position = Get(store.mobs, m).position
    BY AttackSteps DEF Kept, SameLinks
  <2> QED BY <1>2, <1>4, <2>1
<1>7. ~RemoveEntity
  <2> SUFFICES ASSUME RemoveEntity PROVE FALSE
    OBVIOUS
  <2>1. store' = store \/ Parted(store, store', Head(remove))
    BY RemoveSteps
  <2>2. Live(store'.mobs) \subseteq Live(store.mobs)
        /\ \A m \in Live(store'.mobs) : Get(store'.mobs, m) = Get(store.mobs, m)
    BY <2>1 DEF Parted
  <2> QED BY <1>2, <1>4, <2>2
<1>8. HandleTryWalk
  BY <1>5, <1>6, <1>7, MobSteps
<1> DEFINE ev == Head(batch)
<1>9. /\ Live(store'.mobs) = Live(store.mobs)
      /\ \A m \in Live(store.mobs) :
           m # ev.mob => Get(store'.mobs, m).position = Get(store.mobs, m).position
      /\ \/ store' = store
         \/ /\ ~Blocked(Get(store.mobs, ev.mob), ev.to)
            /\ Get(store'.mobs, ev.mob).position = ev.to
  BY <1>8, TryWalkSteps DEF Kept, SameLinks
<1> HIDE DEF ev
<1>10. k = ev.mob /\ k \in Live(store.mobs) /\ store' # store
  BY <1>2, <1>4, <1>9
<1>11. /\ Get(store.mobs, ev.mob) = mob /\ MobsAt(ev.to, mob.id) = {}
       /\ Get(store'.mobs, k).position = ev.to
  BY <1>3, <1>9, <1>10 DEF Blocked
<1>12. store.mobs.values[j].id # mob.id
  BY <1>3 DEF mob
<1>13. store.mobs.values[j].position # ev.to
  BY <1>11, <1>12 DEF MobsAt
<1> QED BY <1>11, <1>13 DEF mob, k

\* No mob walks onto another: that a cell is free is looked up when the event is
\* handled, not when the step was decided on (mobsystem.cpp).
THEOREM Colliding == Spec => NoNewCollision
<1> DEFINE Step ==
      \A i \in DOMAIN store.mobs.values :
        LET mob == store.mobs.values[i] IN
        Has(store'.mobs, mob.id) /\ Get(store'.mobs, mob.id).position # mob.position =>
          \A j \in DOMAIN store.mobs.values \ {i} :
            store.mobs.values[j].position # Get(store'.mobs, mob.id).position
<1>1. GameInv /\ [Next]_vars => [Step]_vars
  BY CollisionStep
<1>2. NoNewCollision <=> [][Step]_vars
  BY DEF NoNewCollision
<1> HIDE DEF Step
<1> QED BY <1>1, <1>2, GameInvariant, PTL DEF Spec
-----------------------------------------------------------------------------

(* Life and death: the game implements MobLife.                            *)

\* The ids that mobs get.
Numbers == 1 .. 1 + MaxMobs

\* What a mob's life has come to.
Stage(s, m) ==
  IF m \notin Live(s.mobs) THEN "gone"
  ELSE IF Get(s.mobs, m).health <= 0 THEN "dying" ELSE "alive"

\* The refinement mapping to MobLife, as a function of the store.
LifeOf(s) ==
  [m \in Numbers |->
     IF ~Has(s.mobs, m) THEN "gone"
     ELSE IF Get(s.mobs, m).health <= 0 THEN "dying" ELSE "alive"]

\* The refinement mapping, by the ids in use.
LEMMA LifeOfStore ==
  ASSUME NEW s, StoreSound(s)
  PROVE  LifeOf(s) = [m \in Numbers |-> Stage(s, m)]
<1>1. Reads(s.mobs, NullMob)
  BY GetProperties, ElementTypes DEF StoreSound
<1> QED BY <1>1 DEF Reads, LifeOf, Stage

\* Lives begin as MobLife says.
LEMMA LifeBegins ==
  ASSUME Init
  PROVE  LifeOf(store) \in [Numbers -> {"alive", "gone"}]
<1>1. StoreSound(store) /\ \A m \in Live(store.mobs) : Get(store.mobs, m).health > 0
  BY InitInv DEF GameInv
<1>2. \A m \in Live(store.mobs) : Get(store.mobs, m).health \in Int
  BY <1>1, StoreElements DEF Mob
<1>3. \A m \in Live(store.mobs) : ~(Get(store.mobs, m).health <= 0)
  BY <1>1, <1>2
<1> QED BY <1>1, <1>3, LifeOfStore DEF Stage

\* A step ends the life of one mob, or takes one away that is dead, or neither.
LEMMA LifeGoesOn ==
  ASSUME GameInv, [Next]_vars
  PROVE  \/ LifeOf(store') = LifeOf(store)
         \/ \E m \in Numbers :
              \/ LifeOf(store)[m] = "alive" /\ LifeOf(store') = [LifeOf(store) EXCEPT ![m] = "dying"]
              \/ LifeOf(store)[m] = "dying" /\ LifeOf(store') = [LifeOf(store) EXCEPT ![m] = "gone"]
<1>1. StoreSound(store) /\ StoreSound(store')
  BY StepInv DEF GameInv
<1>2. /\ LifeOf(store) = [m \in Numbers |-> Stage(store, m)]
      /\ LifeOf(store') = [m \in Numbers |-> Stage(store', m)]
  BY <1>1, LifeOfStore
<1>3. ASSUME NEW x, \A m \in Numbers : m # x => Stage(store', m) = Stage(store, m)
      PROVE  \/ LifeOf(store') = LifeOf(store)
             \/ /\ x \in Numbers /\ Stage(store', x) # Stage(store, x)
                /\ LifeOf(store') = [LifeOf(store) EXCEPT ![x] = Stage(store', x)]
  <2>1. CASE x \in Numbers /\ Stage(store', x) # Stage(store, x)
    BY <1>2, <1>3, <2>1
  <2>2. CASE ~(x \in Numbers /\ Stage(store', x) # Stage(store, x))
    <3>1. \A m \in Numbers : Stage(store', m) = Stage(store, m)
      BY <1>3, <2>2
    <3> QED BY <1>2, <3>1
  <2> QED BY <2>1, <2>2
<1>4. CASE Steady(store, store')
  <2>1. \A m \in Numbers : Stage(store', m) = Stage(store, m)
    BY <1>4 DEF Steady, Stage
  <2> QED BY <1>2, <2>1
<1>5. CASE HandleTryWalk
  <2>1. \A m \in Numbers : Stage(store', m) = Stage(store, m)
    BY <1>5, TryWalkSteps DEF Kept, SameLinks, Stage
  <2> QED BY <1>2, <2>1
<1>6. CASE HandleAttack
  <2>1. PICK x : x = Head(batch).target
    OBVIOUS
  <2>2. /\ x \in Live(store.mobs) /\ Live(store'.mobs) = Live(store.mobs)
        /\ \A m \in Live(store.mobs) : Get(store'.mobs, m).health <= Get(store.mobs, m).health
        /\ \A m \in Live(store.mobs) : m # x => Get(store'.mobs, m).health = Get(store.mobs, m).health
    BY <1>6, <2>1, AttackSteps DEF Kept, SameLinks
  <2>3. \A m \in Numbers : m # x => Stage(store', m) = Stage(store, m)
    BY <2>2 DEF Stage
  <2>4. Get(store.mobs, x).health \in Int /\ Get(store'.mobs, x).health \in Int
    BY <1>1, <2>2, StoreElements DEF Mob
  <2>5. Get(store.mobs, x).health <= 0 => Get(store'.mobs, x).health <= 0
    BY <2>2, <2>4
  <2>6. Stage(store', x) # Stage(store, x) => Stage(store, x) = "alive" /\ Stage(store', x) = "dying"
    BY <2>2, <2>5 DEF Stage
  <2>7. x \in Numbers => LifeOf(store)[x] = Stage(store, x)
    BY <1>2
  <2> QED BY <1>3, <2>3, <2>6, <2>7
<1>7. CASE RemoveEntity
  <2>1. PICK x : x = Get(store.entities, Head(remove)).mob
    OBVIOUS
  <2>2. \/ store' = store
        \/ /\ Live(store'.mobs) = Live(store.mobs) \ {x}
           /\ \A m \in Live(store'.mobs) : Get(store'.mobs, m) = Get(store.mobs, m)
           /\ x # Invalid => Get(store.mobs, x).health <= 0
    BY <1>7, <2>1, RemoveSteps DEF Parted
  <2>3. CASE store' = store
    BY <2>3
  <2>4. CASE store' # store
    <3>1. /\ Live(store'.mobs) = Live(store.mobs) \ {x}
          /\ \A m \in Live(store'.mobs) : Get(store'.mobs, m) = Get(store.mobs, m)
          /\ x # Invalid => Get(store.mobs, x).health <= 0
      BY <2>2, <2>4
    <3>2. \A m \in Numbers : m # x => Stage(store', m) = Stage(store, m)
      BY <3>1 DEF Stage
    <3>3. Invalid \notin Live(store.mobs)
      BY <1>1, StoreElements DEF Invalid
    <3>4. Stage(store', x) # Stage(store, x) => Stage(store, x) = "dying" /\ Stage(store', x) = "gone"
      BY <3>1, <3>3 DEF Stage
    <3>5. x \in Numbers => LifeOf(store)[x] = Stage(store, x)
      BY <1>2
    <3> QED BY <1>3, <3>2, <3>4, <3>5
  <2> QED BY <2>3, <2>4
<1> QED BY <1>4, <1>5, <1>6, <1>7, MobSteps

\* The game implements the safe part of MobLife: who has no health left never
\* recovers and never acts as the living do, and a mob that is gone was dying
\* before and does not come back.
THEOREM LivingAndDying == Spec => Life!Safe
<1> DEFINE life == [m \in 1 .. 1 + MaxMobs |->
                      IF ~Has(store.mobs, m) THEN "gone"
                      ELSE IF Get(store.mobs, m).health <= 0 THEN "dying" ELSE "alive"]
<1>1. life = LifeOf(store) /\ life' = LifeOf(store')
  BY DEF LifeOf, Numbers
<1>2. Init => Life!Init
  BY <1>1, LifeBegins DEF Life!Init, Numbers
<1>3. ASSUME GameInv, [Next]_vars PROVE [Life!Next]_life
  <2>1. CASE LifeOf(store') = LifeOf(store)
    BY <1>1, <2>1
  <2>2. CASE \E m \in Numbers :
               \/ LifeOf(store)[m] = "alive" /\ LifeOf(store') = [LifeOf(store) EXCEPT ![m] = "dying"]
               \/ LifeOf(store)[m] = "dying" /\ LifeOf(store') = [LifeOf(store) EXCEPT ![m] = "gone"]
    <3>1. PICK m \in Numbers :
            \/ LifeOf(store)[m] = "alive" /\ LifeOf(store') = [LifeOf(store) EXCEPT ![m] = "dying"]
            \/ LifeOf(store)[m] = "dying" /\ LifeOf(store') = [LifeOf(store) EXCEPT ![m] = "gone"]
      BY <2>2
    <3> HIDE DEF life
    <3>2. \/ life[m] = "alive" /\ life' = [life EXCEPT ![m] = "dying"]
          \/ life[m] = "dying" /\ life' = [life EXCEPT ![m] = "gone"]
      BY <1>1, <3>1
    <3>3. Life!StruckDead(m) \/ Life!Leaves(m)
      BY <3>2 DEF Life!StruckDead, Life!Leaves, life
    <3> QED BY <3>3 DEF Life!Next, Numbers
  <2> QED BY <1>3, <2>1, <2>2, LifeGoesOn
<1>4. Life!Safe <=> Life!Init /\ [][Life!Next]_life
  BY DEF Life!Safe
<1> HIDE DEF life
<1> QED BY <1>2, <1>3, <1>4, GameInvariant, PTL DEF Spec
-----------------------------------------------------------------------------

(* The camera.                                                             *)

\* One side of one axis: how far the player is from the camera, d, and how far
\* the camera has to go, lead, both counted towards an edge of the window; r
\* is the last d at which the target stays, m the margin.  The player, who
\* has saved up t, makes 6 steps in 15 ticks, the camera one in each: d
\* shrinks as long as the camera goes to this edge and grows while it goes to
\* the other one, which is what the sums say.
Side(phase, d, lead, t, p, r, m) ==
  /\ lead <= 2 * m - 1
  /\ phase = "over" =>
       /\ lead < 0 => 15 * d + t - 21 * lead <= 15 * r + 14
       /\ lead = 0 => d <= r \/ (d = r + 1 /\ p = 1 /\ t <= 14)
       /\ lead > 0 => /\ 15 * d + t - 9 * lead <= 15 * r + 14
                      /\ d <= r \/ (d = r + 1 /\ t <= 20) \/ (d = r + 2 /\ p = 1 /\ t <= 5 /\ lead = m)
  /\ phase = "moved" =>
       /\ lead < 0 => 15 * d + t - 21 * lead <= 15 * r + 8
       /\ lead = 0 => d <= r \/ (d = r + 1 /\ p = 1 /\ t <= 14)
       /\ lead > 0 => /\ 15 * d + t - 9 * lead <= 15 * r + 8
                      /\ d <= r - 1 \/ (d = r /\ t <= 20) \/ (d = r + 1 /\ p = 1 /\ t <= 5 /\ lead = m - 1)
  /\ phase = "acted" =>
       /\ lead < 0 => 15 * d + t - 21 * lead <= 15 * r + 14
       /\ lead = 0 => d <= r \/ (d = r + 1 /\ p = 1 /\ t <= 20)
       /\ lead > 0 => /\ 15 * d + t - 9 * lead <= 15 * r + 14
                      /\ d <= r - 1 \/ (d = r /\ t <= 26) \/ (d = r + 1 /\ p = 1 /\ t <= 11 /\ lead = m - 1)
  /\ phase = "tracked" =>
       /\ lead < 0 => 15 * d + t - 21 * lead <= 15 * r + 14
       /\ lead = 0 => d <= r
       /\ lead > 0 => /\ 15 * d + t - 9 * lead <= 15 * r + 14
                      /\ d <= r - 1 \/ (d = r /\ t <= 26) \/ (d = r + 1 /\ t <= 20 /\ (lead = m \/ t <= 14))

\* Both sides of an axis along which the window has that size.
Axis(phase, d, lead, t, p, size, m) ==
  /\ Side(phase, d, lead, t, p, size - m - size \div 2, m)
  /\ Side(phase, -d, -lead, t, p, size \div 2 - m, m)

\* The margins of the camera, and sizes of a window in which they are enough.
Enough(size, m) == (m = 8 /\ size >= 36) \/ (m = 4 /\ size >= 17)

\* A camera, a window that is big enough, and whether the player is in sight:
\* the rows of the window are counted downwards.
CameraType == [at : Coord, target : Coord, shake : BOOLEAN, timer : Int, strength : Int,
               offset : Coord, tick : {0, 1}]
WindowType == {w \in [width : Int, height : Int] : Enough(w.width, 8) /\ Enough(w.height, 4)}

Sight(phase, win, v, p, t, px, py) ==
  /\ Axis(phase, p.x - v.at.x, v.target.x - v.at.x, t, px, win.width, 8)
  /\ Axis(phase, v.at.y - p.y, v.at.y - v.target.y, t, py, win.height, 4)

\* The two sides of an axis of a window that is big enough.
LEMMA Sides ==
  ASSUME NEW m \in {4, 8}, NEW size \in Int, Enough(size, m)
  PROVE  LET r == size - m - size \div 2
             q == size \div 2 - m
         IN  /\ r \in Int /\ q \in Int
             /\ m = 8 => r + q >= 20 /\ r >= 9 /\ q >= 9
             /\ m = 4 => r + q >= 9 /\ r >= 3 /\ q >= 3
<1> DEFINE h == size \div 2
<1>1. h \in Int /\ 2 * h <= size /\ size <= 2 * h + 1
  OBVIOUS
<1> HIDE DEF h
<1>2. /\ size - m - h \in Int /\ h - m \in Int
      /\ m = 8 => (size - m - h) + (h - m) >= 20 /\ size - m - h >= 9 /\ h - m >= 9
      /\ m = 4 => (size - m - h) + (h - m) >= 9 /\ size - m - h >= 3 /\ h - m >= 3
  BY <1>1 DEF Enough
<1> QED BY <1>2 DEF h

\* A step of the camera.
LEMMA AxisMoves ==
  ASSUME NEW m \in {4, 8}, NEW size \in Int, Enough(size, m),
         NEW d \in Int, NEW lead \in Int, NEW t \in 0 .. 29, NEW p \in {0, 1},
         Axis("over", d, lead, t, p, size, m)
  PROVE  /\ Axis("moved", d - Sign(lead), lead - Sign(lead), t, p, size, m)
         /\ lead = 0 => Axis("moved", d, lead, t, p, size, m)
<1> DEFINE r == size - m - size \div 2
           q == size \div 2 - m
<1>1. r \in Int /\ q \in Int
  BY Sides
<1>2. Side("over", d, lead, t, p, r, m) /\ Side("over", -d, -lead, t, p, q, m)
  BY DEF Axis
<1> HIDE DEF r, q
<1>3. CASE lead < 0
  <2>1. Side("moved", d + 1, lead + 1, t, p, r, m)
    BY <1>1, <1>2, <1>3 DEF Side
  <2>2. Side("moved", -(d + 1), -(lead + 1), t, p, q, m)
    BY <1>1, <1>2, <1>3 DEF Side
  <2>3. d - Sign(lead) = d + 1 /\ lead - Sign(lead) = lead + 1 /\ lead # 0
    BY <1>3 DEF Sign
  <2> QED BY ONLY <2>1, <2>2, <2>3 DEF Axis, r, q
<1>4. CASE lead = 0
  <2>1. Side("moved", d, lead, t, p, r, m)
    BY <1>1, <1>2, <1>4 DEF Side
  <2>2. Side("moved", -d, -lead, t, p, q, m)
    BY <1>1, <1>2, <1>4 DEF Side
  <2>3. d - Sign(lead) = d /\ lead - Sign(lead) = lead
    BY <1>4 DEF Sign
  <2> QED BY ONLY <2>1, <2>2, <2>3 DEF Axis, r, q
<1>5. CASE lead > 0
  <2>1. Side("moved", d - 1, lead - 1, t, p, r, m)
    BY <1>1, <1>2, <1>5 DEF Side
  <2>2. Side("moved", -(d - 1), -(lead - 1), t, p, q, m)
    BY <1>1, <1>2, <1>5 DEF Side
  <2>3. d - Sign(lead) = d - 1 /\ lead - Sign(lead) = lead - 1 /\ lead # 0
    BY <1>5 DEF Sign
  <2> QED BY ONLY <2>1, <2>2, <2>3 DEF Axis, r, q
<1>6. lead < 0 \/ lead = 0 \/ lead > 0
  OBVIOUS
<1> QED BY ONLY <1>3, <1>4, <1>5, <1>6, Zenon

\* A tick more is saved up.
LEMMA AxisActs ==
  ASSUME NEW m \in {4, 8}, NEW size \in Int, Enough(size, m),
         NEW d \in Int, NEW lead \in Int, NEW t \in 0 .. 29, NEW p \in {0, 1},
         Axis("moved", d, lead, t, p, size, m), NEW u \in 0 .. 29, u <= t + 6
  PROVE  Axis("acted", d, lead, u, p, size, m)
<1> DEFINE r == size - m - size \div 2
           q == size \div 2 - m
<1>1. r \in Int /\ q \in Int
  BY Sides
<1>2. Side("moved", d, lead, t, p, r, m) /\ Side("moved", -d, -lead, t, p, q, m)
  BY DEF Axis
<1> HIDE DEF r, q
<1>3. Side("acted", d, lead, u, p, r, m)
  BY <1>1, <1>2 DEF Side
<1>4. Side("acted", -d, -lead, u, p, q, m)
  BY <1>1, <1>2 DEF Side
<1> QED BY ONLY <1>3, <1>4 DEF Axis, r, q

\* The player has not walked along the axis: the target stays.
LEMMA AxisUntracked ==
  ASSUME NEW m \in {4, 8}, NEW size \in Int, Enough(size, m),
         NEW d \in Int, NEW lead \in Int, NEW t \in 0 .. 29, Axis("acted", d, lead, t, 0, size, m)
  PROVE  /\ Axis("tracked", d, lead, t, 0, size, m)
         /\ ~(size - (d + size \div 2) < m) /\ ~(d + size \div 2 < m)
<1> DEFINE r == size - m - size \div 2
           q == size \div 2 - m
<1>1. r \in Int /\ q \in Int /\ size \div 2 \in Int
  BY Sides
<1>2. Side("acted", d, lead, t, 0, r, m) /\ Side("acted", -d, -lead, t, 0, q, m)
  BY DEF Axis
<1>3. /\ d <= r => ~(size - (d + size \div 2) < m)
      /\ -d <= q => ~(d + size \div 2 < m)
  BY <1>1
<1> HIDE DEF r, q
<1>4. d <= r /\ Side("tracked", d, lead, t, 0, r, m)
  BY <1>1, <1>2 DEF Side
<1>5. -d <= q /\ Side("tracked", -d, -lead, t, 0, q, m)
  BY <1>1, <1>2 DEF Side
<1>6. Axis("tracked", d, lead, t, 0, size, m)
  BY ONLY <1>4, <1>5 DEF Axis, r, q
<1> QED BY ONLY <1>3, <1>4, <1>5, <1>6, Zenon

\* The player has walked along the axis: near an edge the target moves on.
LEMMA AxisTracked ==
  ASSUME NEW m \in {4, 8}, NEW size \in Int, Enough(size, m),
         NEW d \in Int, NEW lead \in Int, NEW t \in 0 .. 29, Axis("acted", d, lead, t, 1, size, m)
  PROVE  /\ size - (d + size \div 2) < m => Axis("tracked", d, lead + m, t, 0, size, m)
         /\ ~(size - (d + size \div 2) < m) /\ d + size \div 2 < m => Axis("tracked", d, lead - m, t, 0, size, m)
         /\ ~(size - (d + size \div 2) < m) /\ ~(d + size \div 2 < m) => Axis("tracked", d, lead, t, 0, size, m)
<1> DEFINE r == size - m - size \div 2
           q == size \div 2 - m
<1>1. /\ r \in Int /\ q \in Int /\ size \div 2 \in Int
      /\ m = 8 => r + q >= 20 /\ r >= 9 /\ q >= 9
      /\ m = 4 => r + q >= 9 /\ r >= 3 /\ q >= 3
  BY Sides
<1>2. Side("acted", d, lead, t, 1, r, m) /\ Side("acted", -d, -lead, t, 1, q, m)
  BY DEF Axis
<1>3. (size - (d + size \div 2) < m <=> d > r) /\ (d + size \div 2 < m <=> -d > q)
  BY <1>1
<1> HIDE DEF r, q
<1>4. ASSUME d > r PROVE Axis("tracked", d, lead + m, t, 0, size, m)
  <2>1. (lead = 0 /\ d = r + 1 /\ t <= 20) \/ (lead > 0 /\ d = r + 1 /\ t <= 11 /\ lead = m - 1)
    BY <1>1, <1>2, <1>4 DEF Side
  <2>2. Side("tracked", d, lead + m, t, 0, r, m)
    BY <1>1, <2>1 DEF Side
  <2>3. Side("tracked", -d, -(lead + m), t, 0, q, m)
    BY <1>1, <2>1 DEF Side
  <2> QED BY ONLY <2>2, <2>3 DEF Axis, r, q
<1>5. ASSUME -d > q PROVE Axis("tracked", d, lead - m, t, 0, size, m)
  <2>1. (lead = 0 /\ -d = q + 1 /\ t <= 20) \/ (-lead > 0 /\ -d = q + 1 /\ t <= 11 /\ -lead = m - 1)
    BY <1>1, <1>2, <1>5 DEF Side
  <2>2. Side("tracked", d, lead - m, t, 0, r, m)
    BY <1>1, <2>1 DEF Side
  <2>3. Side("tracked", -d, -(lead - m), t, 0, q, m)
    BY <1>1, <2>1 DEF Side
  <2> QED BY ONLY <2>2, <2>3 DEF Axis, r, q
<1>6. ASSUME ~(d > r), ~(-d > q) PROVE Axis("tracked", d, lead, t, 0, size, m)
  <2>1. Side("tracked", d, lead, t, 0, r, m)
    BY <1>1, <1>2, <1>6 DEF Side
  <2>2. Side("tracked", -d, -lead, t, 0, q, m)
    BY <1>1, <1>2, <1>6 DEF Side
  <2> QED BY ONLY <2>1, <2>2 DEF Axis, r, q
<1> QED BY ONLY <1>3, <1>4, <1>5, <1>6, Zenon

\* The player stays, or saves up less.
LEMMA AxisRests ==
  ASSUME NEW m \in {4, 8}, NEW size \in Int, Enough(size, m),
         NEW d \in Int, NEW lead \in Int, NEW t \in 0 .. 29, NEW p \in {0, 1},
         Axis("tracked", d, lead, t, p, size, m), NEW u \in 0 .. t, NEW b \in {0, 1}
  PROVE  Axis("over", d, lead, u, b, size, m)
<1> DEFINE r == size - m - size \div 2
           q == size \div 2 - m
<1>1. r \in Int /\ q \in Int
  BY Sides
<1>2. Side("tracked", d, lead, t, p, r, m) /\ Side("tracked", -d, -lead, t, p, q, m)
  BY DEF Axis
<1> HIDE DEF r, q
<1>3. Side("over", d, lead, u, b, r, m)
  BY <1>1, <1>2 DEF Side
<1>4. Side("over", -d, -lead, u, b, q, m)
  BY <1>1, <1>2 DEF Side
<1> QED BY ONLY <1>3, <1>4 DEF Axis, r, q

\* The player takes a step along the axis.
LEMMA AxisSteps ==
  ASSUME NEW m \in {4, 8}, NEW size \in Int, Enough(size, m),
         NEW d \in Int, NEW lead \in Int, NEW t \in 15 .. 29, NEW p \in {0, 1},
         Axis("tracked", d, lead, t, p, size, m), NEW e \in {d - 1, d + 1}
  PROVE  Axis("over", e, lead, t - 15, 1, size, m)
<1> DEFINE r == size - m - size \div 2
           q == size \div 2 - m
<1>1. r \in Int /\ q \in Int
  BY Sides
<1>2. Side("tracked", d, lead, t, p, r, m) /\ Side("tracked", -d, -lead, t, p, q, m)
  BY DEF Axis
<1> HIDE DEF r, q
<1>3. Side("over", e, lead, t - 15, 1, r, m)
  BY <1>1, <1>2 DEF Side
<1>4. Side("over", -e, -lead, t - 15, 1, q, m)
  BY <1>1, <1>2 DEF Side
<1> QED BY ONLY <1>3, <1>4 DEF Axis, r, q

\* The player is in the window.
LEMMA AxisInside ==
  ASSUME NEW m \in {4, 8}, NEW size \in Int, Enough(size, m),
         NEW d \in Int, NEW lead \in Int, NEW t \in 0 .. 29, NEW p \in {0, 1},
         NEW phase \in {"over", "moved", "acted", "tracked"}, Axis(phase, d, lead, t, p, size, m)
  PROVE  d + size \div 2 >= 0 /\ d + size \div 2 < size
<1> DEFINE r == size - m - size \div 2
           q == size \div 2 - m
<1>1. r \in Int /\ q \in Int /\ size \div 2 \in Int
  BY Sides
<1>2. Side(phase, d, lead, t, p, r, m) /\ Side(phase, -d, -lead, t, p, q, m)
  BY DEF Axis
<1>3. (d <= r + 3 => d + size \div 2 < size) /\ (-d <= q + 3 => d + size \div 2 >= 0)
  BY <1>1
<1> HIDE DEF r, q
<1>4. d <= r + 3
  BY <1>1, <1>2 DEF Side
<1>5. -d <= q + 3
  BY <1>1, <1>2 DEF Side
<1> QED BY ONLY <1>3, <1>4, <1>5, Zenon

\* What the axes of a sight are made of.
LEMMA SightTypes ==
  ASSUME NEW win \in WindowType, NEW v \in CameraType, NEW p \in Coord
  PROVE  /\ win.width \in Int /\ Enough(win.width, 8) /\ win.height \in Int /\ Enough(win.height, 4)
         /\ p.x \in Int /\ p.y \in Int /\ v.at \in Coord /\ v.target \in Coord /\ v.tick \in {0, 1}
         /\ v.at.x \in Int /\ v.at.y \in Int /\ v.target.x \in Int /\ v.target.y \in Int
         /\ p.x - v.at.x \in Int /\ v.target.x - v.at.x \in Int
         /\ v.at.y - p.y \in Int /\ v.at.y - v.target.y \in Int
BY DEF WindowType, CameraType, Coord

\* What the camera does in a frame while nothing shakes it.
LEMMA SightFollows ==
  ASSUME NEW win \in WindowType, NEW v \in CameraType, NEW p \in Coord, NEW t \in 0 .. 29,
         NEW px \in {0, 1}, NEW py \in {0, 1}
  PROVE  LET w == Followed(v)
         IN  /\ w \in CameraType /\ w.shake = v.shake /\ w.target = v.target
             /\ v.at = v.target => w = v
             /\ v.at # v.target => w.tick = 1 - v.tick
             /\ \A phase : v.tick = 0 /\ Sight(phase, win, v, p, t, px, py) => Sight(phase, win, w, p, t, px, py)
             /\ v.at = v.target \/ v.tick = 1 =>
                  (Sight("over", win, v, p, t, px, py) => Sight("moved", win, w, p, t, px, py))
<1> DEFINE w == Followed(v)
<1>1. /\ win.width \in Int /\ Enough(win.width, 8) /\ win.height \in Int /\ Enough(win.height, 4)
      /\ p.x \in Int /\ p.y \in Int /\ v.at \in Coord /\ v.target \in Coord /\ v.tick \in {0, 1}
      /\ v.at.x \in Int /\ v.at.y \in Int /\ v.target.x \in Int /\ v.target.y \in Int
      /\ p.x - v.at.x \in Int /\ v.target.x - v.at.x \in Int
      /\ v.at.y - p.y \in Int /\ v.at.y - v.target.y \in Int
  BY SightTypes
<1>2. CASE v.at = v.target
  <2>1. w = v
    BY <1>2 DEF Followed
  <2>2. v.target.x - v.at.x = 0 /\ v.at.y - v.target.y = 0
    BY <1>1, <1>2
  <2>3. ASSUME Sight("over", win, v, p, t, px, py) PROVE Sight("moved", win, v, p, t, px, py)
    <3>1. /\ Axis("over", p.x - v.at.x, v.target.x - v.at.x, t, px, win.width, 8)
          /\ Axis("over", v.at.y - p.y, v.at.y - v.target.y, t, py, win.height, 4)
      BY <2>3 DEF Sight
    <3>0. 8 \in {4, 8} /\ 4 \in {4, 8}
      OBVIOUS
    <3>2. Axis("moved", p.x - v.at.x, v.target.x - v.at.x, t, px, win.width, 8)
      BY <1>1, <2>2, <3>1, AxisMoves
    <3>3. Axis("moved", v.at.y - p.y, v.at.y - v.target.y, t, py, win.height, 4)
      BY <1>1, <2>2, <3>1, AxisMoves
    <3> QED BY <3>2, <3>3 DEF Sight
  <2> HIDE DEF w
  <2> QED BY <1>1, <1>2, <2>1, <2>3 DEF w
<1>3. CASE v.at # v.target /\ v.tick = 0
  <2>1. w = [v EXCEPT !.tick = 1]
    BY <1>3 DEF Followed
  <2> HIDE DEF w
  <2>2. w \in CameraType /\ w.at = v.at /\ w.target = v.target /\ w.tick = 1 /\ w.shake = v.shake
    BY <2>1 DEF CameraType
  <2>3. \A phase : Sight(phase, win, v, p, t, px, py) => Sight(phase, win, w, p, t, px, py)
    BY <2>2 DEF Sight
  <2> QED BY <1>1, <1>3, <2>2, <2>3 DEF w
<1>4. CASE v.at # v.target /\ v.tick = 1
  <2> DEFINE dx == Sign(v.target.x - v.at.x)
             dy == Sign(v.at.y - v.target.y)
  <2>1. dx \in Int /\ dy \in Int /\ Sign(v.target.y - v.at.y) = -dy
    BY <1>1 DEF Sign
  <2> DEFINE at == [x |-> v.at.x + dx, y |-> v.at.y - dy]
  <2>2. w = [v EXCEPT !.tick = 0, !.at = at]
    <3>1. w = [v EXCEPT !.tick = 0, !.at = [x |-> v.at.x + dx, y |-> v.at.y + Sign(v.target.y - v.at.y)]]
      BY <1>4 DEF Followed, Plus, Vec
    <3> HIDE DEF w, dx, dy
    <3>2. v.at.y + Sign(v.target.y - v.at.y) = v.at.y - dy
      BY <1>1, <2>1
    <3> QED BY <3>1, <3>2
  <2> HIDE DEF w, dx, dy
  <2>5. at \in Coord /\ at.x = v.at.x + dx /\ at.y = v.at.y - dy
    BY <1>1, <2>1 DEF Coord
  <2> HIDE DEF at
  <2>3. /\ w \in CameraType /\ w.at.x = v.at.x + dx /\ w.at.y = v.at.y - dy /\ w.target = v.target
        /\ w.tick = 0 /\ w.shake = v.shake
    BY <2>2, <2>5 DEF CameraType
  <2>4. ASSUME Sight("over", win, v, p, t, px, py) PROVE Sight("moved", win, w, p, t, px, py)
    <3>1. /\ Axis("over", p.x - v.at.x, v.target.x - v.at.x, t, px, win.width, 8)
          /\ Axis("over", v.at.y - p.y, v.at.y - v.target.y, t, py, win.height, 4)
      BY <2>4 DEF Sight
    <3>2. Axis("moved", p.x - v.at.x - dx, v.target.x - v.at.x - dx, t, px, win.width, 8)
      BY <1>1, <3>1, AxisMoves DEF dx
    <3>3. Axis("moved", v.at.y - p.y - dy, v.at.y - v.target.y - dy, t, py, win.height, 4)
      BY <1>1, <3>1, AxisMoves DEF dy
    <3>4. /\ p.x - w.at.x = p.x - v.at.x - dx /\ w.target.x - w.at.x = v.target.x - v.at.x - dx
          /\ w.at.y - p.y = v.at.y - p.y - dy /\ w.at.y - w.target.y = v.at.y - v.target.y - dy
      BY <1>1, <2>1, <2>3
    <3> QED BY <3>2, <3>3, <3>4 DEF Sight
  <2> QED BY <1>1, <1>4, <2>3, <2>4 DEF w
<1> QED BY <1>1, <1>2, <1>3, <1>4

\* The player saves up another tick.
LEMMA SightActs ==
  ASSUME NEW win \in WindowType, NEW v \in CameraType, NEW p \in Coord, NEW t \in 0 .. 29,
         NEW px \in {0, 1}, NEW py \in {0, 1}, Sight("moved", win, v, p, t, px, py),
         NEW u \in 0 .. 29, u <= t + 6
  PROVE  Sight("acted", win, v, p, u, px, py)
<1>1. /\ win.width \in Int /\ Enough(win.width, 8) /\ win.height \in Int /\ Enough(win.height, 4)
      /\ p.x - v.at.x \in Int /\ v.target.x - v.at.x \in Int
      /\ v.at.y - p.y \in Int /\ v.at.y - v.target.y \in Int
  BY SightTypes
<1>2. /\ Axis("moved", p.x - v.at.x, v.target.x - v.at.x, t, px, win.width, 8)
      /\ Axis("moved", v.at.y - p.y, v.at.y - v.target.y, t, py, win.height, 4)
  BY DEF Sight
<1>3. Axis("acted", p.x - v.at.x, v.target.x - v.at.x, u, px, win.width, 8)
  BY <1>1, <1>2, AxisActs
<1>4. Axis("acted", v.at.y - p.y, v.at.y - v.target.y, u, py, win.height, 4)
  BY <1>1, <1>2, AxisActs
<1> QED BY <1>3, <1>4 DEF Sight

\* The player has not walked: the target stays.
LEMMA SightUntracked ==
  ASSUME NEW win \in WindowType, NEW v \in CameraType, NEW p \in Coord, NEW t \in 0 .. 29,
         Sight("acted", win, v, p, t, 0, 0)
  PROVE  Sight("tracked", win, v, p, t, 0, 0)
<1>1. /\ win.width \in Int /\ Enough(win.width, 8) /\ win.height \in Int /\ Enough(win.height, 4)
      /\ p.x - v.at.x \in Int /\ v.target.x - v.at.x \in Int
      /\ v.at.y - p.y \in Int /\ v.at.y - v.target.y \in Int
  BY SightTypes
<1>2. /\ Axis("acted", p.x - v.at.x, v.target.x - v.at.x, t, 0, win.width, 8)
      /\ Axis("acted", v.at.y - p.y, v.at.y - v.target.y, t, 0, win.height, 4)
  BY DEF Sight
<1>3. Axis("tracked", p.x - v.at.x, v.target.x - v.at.x, t, 0, win.width, 8)
  BY <1>1, <1>2, AxisUntracked
<1>4. Axis("tracked", v.at.y - p.y, v.at.y - v.target.y, t, 0, win.height, 4)
  BY <1>1, <1>2, AxisUntracked
<1> QED BY <1>3, <1>4 DEF Sight

\* The player has walked along one of the axes: the target moves on if the
\* player is near an edge.
LEMMA SightTracked ==
  ASSUME NEW win \in WindowType, NEW v \in CameraType, ~v.shake, NEW p \in Coord, NEW t \in 0 .. 29,
         NEW px \in {0, 1}, NEW py \in {0, 1}, px + py = 1, Sight("acted", win, v, p, t, px, py)
  PROVE  LET w == Tracked(win, v, p)
         IN  /\ w \in CameraType /\ ~w.shake /\ w.tick = v.tick
             /\ Sight("tracked", win, w, p, t, 0, 0)
<1> DEFINE dx == p.x - v.at.x
           dy == v.at.y - p.y
           lx == v.target.x - v.at.x
           ly == v.at.y - v.target.y
           sx == dx + win.width \div 2
           sy == dy + win.height \div 2
           w == Tracked(win, v, p)
<1>1. /\ win.width \in Int /\ Enough(win.width, 8) /\ win.height \in Int /\ Enough(win.height, 4)
      /\ p.x \in Int /\ p.y \in Int /\ v.at \in Coord /\ v.target \in Coord /\ v.tick \in {0, 1}
      /\ v.at.x \in Int /\ v.at.y \in Int /\ v.target.x \in Int /\ v.target.y \in Int
      /\ dx \in Int /\ lx \in Int /\ dy \in Int /\ ly \in Int
  BY SightTypes
<1>2. Axis("acted", dx, lx, t, px, win.width, 8) /\ Axis("acted", dy, ly, t, py, win.height, 4)
  BY DEF Sight
<1> DEFINE Move == IF win.width - sx < 8 THEN [x |-> 8, y |-> 0]
                   ELSE IF sx < 8 THEN [x |-> -8, y |-> 0]
                   ELSE IF win.height - sy < 4 THEN [x |-> 0, y |-> -4]
                   ELSE IF sy < 4 THEN [x |-> 0, y |-> 4]
                   ELSE [x |-> 0, y |-> 0]
<1>3. w = [v EXCEPT !.target = [x |-> v.target.x + Move.x, y |-> v.target.y + Move.y]]
  <2> DEFINE s == ScreenCoord(win, v, p)
  <2>1. s.x = sx /\ s.y = sy
    BY <1>1 DEF ScreenCoord, CamFinal, Vec
  <2>2. CameraMargin.x = 8 /\ CameraMargin.y = 4
    BY DEF CameraMargin, Vec
  <2>3. w = [v EXCEPT !.target = Plus(v.target,
                 IF win.width - s.x < CameraMargin.x THEN Vec(CameraMargin.x, 0)
                 ELSE IF s.x < CameraMargin.x THEN Vec(-CameraMargin.x, 0)
                 ELSE IF win.height - s.y < CameraMargin.y THEN Vec(0, -CameraMargin.y)
                 ELSE IF s.y < CameraMargin.y THEN Vec(0, CameraMargin.y)
                 ELSE Origin)]
    BY DEF Tracked
  <2> HIDE DEF s, sx, sy, w
  <2> QED BY <2>1, <2>2, <2>3 DEF Plus, Vec, Origin
<1> HIDE DEF dx, dy, lx, ly
<1>4. ASSUME /\ Axis("tracked", dx, lx + Move.x, t, 0, win.width, 8)
             /\ Axis("tracked", dy, ly - Move.y, t, 0, win.height, 4)
             /\ Move.x \in Int /\ Move.y \in Int
      PROVE  w \in CameraType /\ ~w.shake /\ w.tick = v.tick /\ Sight("tracked", win, w, p, t, 0, 0)
  <2> DEFINE q == [x |-> v.target.x + Move.x, y |-> v.target.y + Move.y]
  <2> HIDE DEF Move, w
  <2>1. q \in Coord /\ q.x = v.target.x + Move.x /\ q.y = v.target.y + Move.y
    BY <1>1, <1>4 DEF Coord
  <2> HIDE DEF q
  <2>2. w \in CameraType /\ w.shake = v.shake /\ w.tick = v.tick /\ w.target = q /\ w.at = v.at
    BY <1>3, <2>1 DEF CameraType, q
  <2>3. w.target.x - w.at.x = lx + Move.x /\ w.at.y - w.target.y = ly - Move.y
    BY <1>1, <1>4, <2>1, <2>2 DEF lx, ly
  <2> QED BY <1>4, <2>2, <2>3 DEF Sight, dx, dy
<1>5. CASE px = 1 /\ py = 0
  <2>0. Axis("acted", dx, lx, t, 1, win.width, 8) /\ Axis("acted", dy, ly, t, 0, win.height, 4)
    BY <1>2, <1>5
  <2>1. /\ Axis("tracked", dy, ly, t, 0, win.height, 4)
        /\ ~(win.height - sy < 4) /\ ~(sy < 4)
    BY <1>1, <2>0, AxisUntracked
  <2>2. /\ win.width - sx < 8 => Axis("tracked", dx, lx + 8, t, 0, win.width, 8)
        /\ ~(win.width - sx < 8) /\ sx < 8 => Axis("tracked", dx, lx - 8, t, 0, win.width, 8)
        /\ ~(win.width - sx < 8) /\ ~(sx < 8) => Axis("tracked", dx, lx, t, 0, win.width, 8)
    BY <1>1, <2>0, AxisTracked
  <2> HIDE DEF sx, sy
  <2>3. Move.y = 0 /\ Move.x \in {-8, 0, 8}
    BY <2>1
  <2>4. Axis("tracked", dx, lx + Move.x, t, 0, win.width, 8)
    <3>1. lx + (-8) = lx - 8 /\ lx + 0 = lx
      BY <1>1
    <3> QED BY <2>2, <3>1
  <2>5. Axis("tracked", dy, ly - Move.y, t, 0, win.height, 4)
    <3>1. ly - 0 = ly
      BY <1>1
    <3> QED BY <2>1, <2>3, <3>1
  <2> HIDE DEF Move, w
  <2> QED BY <1>4, <2>3, <2>4, <2>5 DEF w
<1>6. CASE px = 0 /\ py = 1
  <2>0. Axis("acted", dx, lx, t, 0, win.width, 8) /\ Axis("acted", dy, ly, t, 1, win.height, 4)
    BY <1>2, <1>6
  <2>1. /\ Axis("tracked", dx, lx, t, 0, win.width, 8)
        /\ ~(win.width - sx < 8) /\ ~(sx < 8)
    BY <1>1, <2>0, AxisUntracked
  <2>2. /\ win.height - sy < 4 => Axis("tracked", dy, ly + 4, t, 0, win.height, 4)
        /\ ~(win.height - sy < 4) /\ sy < 4 => Axis("tracked", dy, ly - 4, t, 0, win.height, 4)
        /\ ~(win.height - sy < 4) /\ ~(sy < 4) => Axis("tracked", dy, ly, t, 0, win.height, 4)
    BY <1>1, <2>0, AxisTracked
  <2> HIDE DEF sx, sy
  <2>3. Move.x = 0 /\ Move.y \in {-4, 0, 4}
    BY <2>1
  <2>4. Axis("tracked", dx, lx + Move.x, t, 0, win.width, 8)
    <3>1. lx + 0 = lx
      BY <1>1
    <3> QED BY <2>1, <2>3, <3>1
  <2>5. Axis("tracked", dy, ly - Move.y, t, 0, win.height, 4)
    <3>1. ly - (-4) = ly + 4 /\ ly - 0 = ly
      BY <1>1
    <3> QED BY <2>1, <2>2, <3>1
  <2> HIDE DEF Move, w
  <2> QED BY <1>4, <2>3, <2>4, <2>5 DEF w
<1>7. (px = 1 /\ py = 0) \/ (px = 0 /\ py = 1)
  OBVIOUS
<1> QED BY <1>5, <1>6, <1>7

\* The player tries a step, but the cell is taken.
LEMMA SightRests ==
  ASSUME NEW win \in WindowType, NEW v \in CameraType, NEW p \in Coord, NEW t \in 0 .. 29,
         NEW px \in {0, 1}, NEW py \in {0, 1}, Sight("tracked", win, v, p, t, px, py),
         NEW u \in 0 .. 29, u <= t, NEW b \in {0, 1}, NEW c \in {0, 1}
  PROVE  Sight("over", win, v, p, u, b, c)
<1>0. u \in 0 .. t
  OBVIOUS
<1>1. /\ win.width \in Int /\ Enough(win.width, 8) /\ win.height \in Int /\ Enough(win.height, 4)
      /\ p.x - v.at.x \in Int /\ v.target.x - v.at.x \in Int
      /\ v.at.y - p.y \in Int /\ v.at.y - v.target.y \in Int
  BY SightTypes
<1>2. /\ Axis("tracked", p.x - v.at.x, v.target.x - v.at.x, t, px, win.width, 8)
      /\ Axis("tracked", v.at.y - p.y, v.at.y - v.target.y, t, py, win.height, 4)
  BY DEF Sight
<1>3. Axis("over", p.x - v.at.x, v.target.x - v.at.x, u, b, win.width, 8)
  BY <1>0, <1>1, <1>2, AxisRests
<1>4. Axis("over", v.at.y - p.y, v.at.y - v.target.y, u, c, win.height, 4)
  BY <1>0, <1>1, <1>2, AxisRests
<1> QED BY <1>3, <1>4 DEF Sight

\* The player takes a step.
LEMMA SightSteps ==
  ASSUME NEW win \in WindowType, NEW v \in CameraType, NEW p \in Coord, NEW t \in 15 .. 29,
         NEW px \in {0, 1}, NEW py \in {0, 1}, Sight("tracked", win, v, p, t, px, py),
         NEW a \in Arrow, NEW b \in {0, 1}, NEW c \in {0, 1},
         b = 1 <=> a.x # 0, c = 1 <=> a.y # 0
  PROVE  Plus(p, a) \in Coord /\ Sight("over", win, v, Plus(p, a), t - 15, b, c)
<1> DEFINE dx == p.x - v.at.x
           dy == v.at.y - p.y
           lx == v.target.x - v.at.x
           ly == v.at.y - v.target.y
           q == Plus(p, a)
<1>1. /\ win.width \in Int /\ Enough(win.width, 8) /\ win.height \in Int /\ Enough(win.height, 4)
      /\ p.x \in Int /\ p.y \in Int /\ v.at.x \in Int /\ v.at.y \in Int
      /\ dx \in Int /\ lx \in Int /\ dy \in Int /\ ly \in Int
  BY SightTypes
<1>2. Axis("tracked", dx, lx, t, px, win.width, 8) /\ Axis("tracked", dy, ly, t, py, win.height, 4)
  BY DEF Sight
<1>3. a.x \in {-1, 0, 1} /\ a.y \in {-1, 0, 1} /\ (a.x = 0 <=> a.y # 0)
  BY DEF Arrow, Vec
<1>4. q = [x |-> p.x + a.x, y |-> p.y + a.y]
  BY DEF Plus, Vec
<1> HIDE DEF q
<1>5. q \in Coord /\ q.x - v.at.x = dx + a.x /\ v.at.y - q.y = dy - a.y
  BY <1>1, <1>3, <1>4 DEF Coord
<1> HIDE DEF dx, dy, lx, ly
<1>6. t - 15 \in 0 .. t /\ t \in 0 .. 29
  OBVIOUS
<1>7. CASE a.y = 0
  <2>1. b = 1 /\ c = 0 /\ a.x \in {-1, 1}
    BY <1>3, <1>7
  <2>2. dx + a.x \in {dx - 1, dx + 1} /\ dy - a.y = dy
    BY <1>1, <1>7, <2>1
  <2>3. Axis("over", dx + a.x, lx, t - 15, 1, win.width, 8)
    BY <1>1, <1>2, <2>2, AxisSteps
  <2>4. Axis("over", dy, ly, t - 15, c, win.height, 4)
    BY <1>1, <1>2, <1>6, AxisRests
  <2> QED BY <1>5, <2>1, <2>2, <2>3, <2>4 DEF Sight, lx, ly, q
<1>8. CASE a.y # 0
  <2>1. b = 0 /\ c = 1 /\ a.y \in {-1, 1} /\ a.x = 0
    BY <1>3, <1>8
  <2>2. dy - a.y \in {dy - 1, dy + 1} /\ dx + a.x = dx
    BY <1>1, <2>1
  <2>3. Axis("over", dy - a.y, ly, t - 15, 1, win.height, 4)
    BY <1>1, <1>2, <2>2, AxisSteps
  <2>4. Axis("over", dx, lx, t - 15, b, win.width, 8)
    BY <1>1, <1>2, <1>6, AxisRests
  <2> QED BY <1>5, <2>1, <2>2, <2>3, <2>4 DEF Sight, lx, ly, q
<1> QED BY <1>7, <1>8

\* The player is in the window.
LEMMA SightInside ==
  ASSUME NEW win \in WindowType, NEW v \in CameraType, ~v.shake, NEW p \in Coord, NEW t \in 0 .. 29,
         NEW px \in {0, 1}, NEW py \in {0, 1},
         NEW phase \in {"over", "moved", "acted", "tracked"}, Sight(phase, win, v, p, t, px, py)
  PROVE  OnScreen(win, v, p)
<1> DEFINE dx == p.x - v.at.x
           dy == v.at.y - p.y
           w == win.width
           h == win.height
           s == ScreenCoord(win, v, p)
<1>1. /\ w \in Int /\ Enough(w, 8) /\ h \in Int /\ Enough(h, 4)
      /\ v.target.x - v.at.x \in Int /\ v.at.y - v.target.y \in Int
      /\ dx \in Int /\ dy \in Int
  BY SightTypes
<1>2. /\ Axis(phase, dx, v.target.x - v.at.x, t, px, w, 8)
      /\ Axis(phase, dy, v.at.y - v.target.y, t, py, h, 4)
  BY DEF Sight
<1>3. s.x = dx + w \div 2 /\ s.y = dy + h \div 2
  BY DEF ScreenCoord, CamFinal, Vec
<1>4. s.x \in Int /\ s.y \in Int
  BY <1>1, <1>3
<1> HIDE DEF dx, dy, w, h, s
<1> DEFINE Inside == dx + w \div 2 >= 0 /\ dx + w \div 2 < w /\ dy + h \div 2 >= 0 /\ dy + h \div 2 < h
<1>5. ASSUME phase = "over" PROVE Inside
  <2>1. /\ Axis("over", dx, v.target.x - v.at.x, t, px, w, 8)
        /\ Axis("over", dy, v.at.y - v.target.y, t, py, h, 4)
    BY <1>2, <1>5
  <2>2. dx + w \div 2 >= 0 /\ dx + w \div 2 < w
    BY <1>1, <2>1, AxisInside
  <2>3. dy + h \div 2 >= 0 /\ dy + h \div 2 < h
    BY <1>1, <2>1, AxisInside
  <2> QED BY <2>2, <2>3
<1>6. ASSUME phase = "moved" PROVE Inside
  <2>1. /\ Axis("moved", dx, v.target.x - v.at.x, t, px, w, 8)
        /\ Axis("moved", dy, v.at.y - v.target.y, t, py, h, 4)
    BY <1>2, <1>6
  <2>2. dx + w \div 2 >= 0 /\ dx + w \div 2 < w
    BY <1>1, <2>1, AxisInside
  <2>3. dy + h \div 2 >= 0 /\ dy + h \div 2 < h
    BY <1>1, <2>1, AxisInside
  <2> QED BY <2>2, <2>3
<1>7. ASSUME phase = "acted" PROVE Inside
  <2>1. /\ Axis("acted", dx, v.target.x - v.at.x, t, px, w, 8)
        /\ Axis("acted", dy, v.at.y - v.target.y, t, py, h, 4)
    BY <1>2, <1>7
  <2>2. dx + w \div 2 >= 0 /\ dx + w \div 2 < w
    BY <1>1, <2>1, AxisInside
  <2>3. dy + h \div 2 >= 0 /\ dy + h \div 2 < h
    BY <1>1, <2>1, AxisInside
  <2> QED BY <2>2, <2>3
<1>8. ASSUME phase = "tracked" PROVE Inside
  <2>1. /\ Axis("tracked", dx, v.target.x - v.at.x, t, px, w, 8)
        /\ Axis("tracked", dy, v.at.y - v.target.y, t, py, h, 4)
    BY <1>2, <1>8
  <2>2. dx + w \div 2 >= 0 /\ dx + w \div 2 < w
    BY <1>1, <2>1, AxisInside
  <2>3. dy + h \div 2 >= 0 /\ dy + h \div 2 < h
    BY <1>1, <2>1, AxisInside
  <2> QED BY <2>2, <2>3
<1>9. Inside
  BY <1>5, <1>6, <1>7, <1>8
<1>10. s.x >= 0 /\ s.x < 0 + w /\ s.y <= h - 1 /\ s.y > h - 1 - h
  BY <1>1, <1>3, <1>4, <1>9
<1> QED BY <1>10 DEF OnScreen, RectContains, WindowBounds, s, w, h

-----------------------------------------------------------------------------
(* The player's own steps.                                                 *)

\* The events of a kind that are about the mob h.
Own(s, kind, h) == {ev \in ToSet(s) : ev.kind = kind /\ ev.mob = h}

\* When h has taken a step, it has neither taken nor tried one before it.
WalkedFirst(s, h) ==
  \A i, j \in DOMAIN s : i < j /\ s[j].kind = "Walked" /\ s[j].mob = h =>
    ~(s[i].kind \in {"Walked", "TryWalk"} /\ s[i].mob = h)

\* What is left of them when an event is taken.
LEMMA OwnTail ==
  ASSUME NEW q \in Seq(Event), q # <<>>, NEW h, WalkedFirst(q, h)
  PROVE  /\ WalkedFirst(Tail(q), h)
         /\ \A kind : ~(Head(q).kind = kind /\ Head(q).mob = h) => Own(Tail(q), kind, h) = Own(q, kind, h)
         /\ \A kind : Own(Tail(q), kind, h) \subseteq Own(q, kind, h)
         /\ Head(q).kind \in {"Walked", "TryWalk"} /\ Head(q).mob = h => Own(Tail(q), "Walked", h) = {}
<1> DEFINE r == Tail(q)
<1>1. /\ Head(q) = q[1] /\ 1 \in DOMAIN q /\ DOMAIN r = 1 .. Len(q) - 1 /\ Len(q) \in Nat \ {0}
      /\ \A i \in DOMAIN r : i + 1 \in DOMAIN q /\ r[i] = q[i + 1]
      /\ ToSet(q) = {Head(q)} \cup ToSet(r)
  BY TailSet
<1> HIDE DEF r
<1>2. \A i \in DOMAIN r : 1 < i + 1 /\ \A j \in DOMAIN r : i < j => i + 1 < j + 1
  BY <1>1
<1>3. WalkedFirst(r, h)
  BY <1>1, <1>2 DEF WalkedFirst
<1>4. \A kind : ~(Head(q).kind = kind /\ Head(q).mob = h) => Own(r, kind, h) = Own(q, kind, h)
  BY <1>1 DEF Own
<1>5. \A kind : Own(r, kind, h) \subseteq Own(q, kind, h)
  BY <1>1 DEF Own
<1>6. ASSUME Head(q).kind \in {"Walked", "TryWalk"}, Head(q).mob = h, NEW ev \in Own(r, "Walked", h)
      PROVE  FALSE
  <2>1. PICK j \in DOMAIN r : r[j] = ev
    BY DEF Own, ToSet
  <2>2. j + 1 \in DOMAIN q /\ q[j + 1].kind = "Walked" /\ q[j + 1].mob = h /\ 1 < j + 1
    BY <1>1, <1>2, <2>1 DEF Own
  <2> QED BY <1>1, <1>6, <2>2 DEF WalkedFirst
<1> QED BY <1>3, <1>4, <1>5, <1>6 DEF r

\* What is among them when an event is queued.
LEMMA OwnAppend ==
  ASSUME NEW q \in Seq(Event), NEW ev \in Event, NEW h, WalkedFirst(q, h),
         ev.kind = "Walked" /\ ev.mob = h => Own(q, "Walked", h) = {} /\ Own(q, "TryWalk", h) = {}
  PROVE  /\ WalkedFirst(Append(q, ev), h)
         /\ \A kind : ~(ev.kind = kind /\ ev.mob = h) => Own(Append(q, ev), kind, h) = Own(q, kind, h)
         /\ \A kind : ev.kind = kind /\ ev.mob = h => Own(Append(q, ev), kind, h) = Own(q, kind, h) \cup {ev}
<1> DEFINE r == Append(q, ev)
           n == Len(q) + 1
<1>1. /\ Len(q) \in Nat /\ DOMAIN q = 1 .. Len(q) /\ DOMAIN r = 1 .. n
      /\ r[n] = ev /\ \A i \in 1 .. Len(q) : r[i] = q[i]
  BY AppendProperties, LenProperties
<1>2. ToSet(r) = ToSet(q) \cup {ev}
  BY AppendSet
<1> HIDE DEF r
<1>3. \A i \in DOMAIN r : i \in Nat /\ (i = n \/ (i \in DOMAIN q /\ r[i] = q[i] /\ i < n))
  BY <1>1
<1>4. n \in Nat
  BY <1>1
<1> HIDE DEF n
<1>5. WalkedFirst(r, h)
  <2> SUFFICES ASSUME NEW i \in DOMAIN r, NEW j \in DOMAIN r, i < j, r[j].kind = "Walked", r[j].mob = h,
                      r[i].kind \in {"Walked", "TryWalk"}, r[i].mob = h
               PROVE  FALSE
    BY DEF WalkedFirst
  <2>1. i \in DOMAIN q /\ r[i] = q[i]
    BY <1>3, <1>4
  <2>2. CASE j = n
    <3>1. ev.kind = "Walked" /\ ev.mob = h
      BY <1>1, <2>2
    <3>2. q[i] \in ToSet(q)
      BY <2>1 DEF ToSet
    <3>3. q[i] \in Own(q, "Walked", h) \cup Own(q, "TryWalk", h)
      BY <2>1, <3>2 DEF Own
    <3> QED BY <3>1, <3>3
  <2>3. CASE j # n
    <3>1. j \in DOMAIN q /\ r[j] = q[j]
      BY <1>3, <2>3
    <3> QED BY <2>1, <3>1 DEF WalkedFirst
  <2> QED BY <2>2, <2>3
<1>6. \A kind : ~(ev.kind = kind /\ ev.mob = h) => Own(r, kind, h) = Own(q, kind, h)
  BY <1>2 DEF Own
<1>7. \A kind : ev.kind = kind /\ ev.mob = h => Own(r, kind, h) = Own(q, kind, h) \cup {ev}
  BY <1>2 DEF Own
<1> QED BY <1>5, <1>6, <1>7 DEF r

\* Removals are about no mob.
LEMMA OwnConcat ==
  ASSUME NEW q \in Seq(Event), NEW r \in Seq(Event), \A e \in ToSet(r) : e.kind = "Remove",
         NEW h, WalkedFirst(q, h)
  PROVE  /\ WalkedFirst(q \o r, h)
         /\ \A kind \in {"Walked", "TryWalk"} : Own(q \o r, kind, h) = Own(q, kind, h)
<1> DEFINE s == q \o r
<1>1. /\ ToSet(s) = ToSet(q) \cup ToSet(r)
      /\ \A i \in DOMAIN q : i \in DOMAIN s /\ s[i] = q[i]
      /\ \A i \in DOMAIN s : i \notin DOMAIN q => s[i] \in ToSet(r)
  BY ConcatSet
<1> HIDE DEF s
<1>2. \A i \in DOMAIN s : (i \in DOMAIN q /\ s[i] = q[i]) \/ s[i].kind = "Remove"
  BY <1>1
<1>3. WalkedFirst(s, h)
  BY <1>2 DEF WalkedFirst
<1>4. \A kind \in {"Walked", "TryWalk"} : Own(s, kind, h) = Own(q, kind, h)
  BY <1>1 DEF Own
<1> QED BY <1>3, <1>4 DEF s

\* The batch of a tick holds the steps of the queue.
LEMMA OwnExpired ==
  ASSUME NEW q \in Seq(Event), NEW es \in Seq(Entity), NEW h, WalkedFirst(q, h)
  PROVE  LET b == WithExpired(q, es)
         IN  /\ WalkedFirst(b, h)
             /\ \A kind \in {"Walked", "TryWalk"} : Own(b, kind, h) = Own(q, kind, h)
<1>1. Len(es) \in Nat /\ DOMAIN es = 1 .. Len(es) /\ \A i \in DOMAIN es : es[i] \in Entity
  BY LenProperties, ElementOfSeq
<1>2. PICK f : /\ f[0] = q
               /\ \A n \in 1 .. Len(es) :
                    f[n] = IF Expired(es[n]) THEN QueueEvent(f[n - 1], EvRemove(es[n].id))
                           ELSE f[n - 1]
               /\ WithExpired(q, es) = f[Len(es)]
  BY <1>1, ExpiredStepwise
<1> DEFINE Ok(b) == /\ b \in Seq(Event) /\ WalkedFirst(b, h)
                    /\ \A kind \in {"Walked", "TryWalk"} : Own(b, kind, h) = Own(q, kind, h)
           S == {n \in Nat : n <= Len(es) => Ok(f[n])}
<1>3. 0 \in S
  BY <1>2
<1>4. ASSUME NEW n \in Nat, n \in S PROVE n + 1 \in S
  <2> SUFFICES ASSUME n + 1 <= Len(es) PROVE Ok(f[n + 1])
    OBVIOUS
  <2> DEFINE b == f[n]
             e == es[n + 1]
             ev == EvRemove(e.id)
  <2>1. Ok(b)
    BY <1>1, <1>4
  <2>2. n + 1 \in DOMAIN es /\ e \in Entity /\ (n + 1) - 1 = n
    BY <1>1
  <2>3. f[n + 1] = IF Expired(e) THEN QueueEvent(b, ev) ELSE b
    BY <1>1, <1>2, <2>2
  <2>4. ev \in Event /\ ev.kind = "Remove"
    BY <2>2 DEF EvRemove, Event, Entity
  <2>5. CASE ~Expired(e)
    BY <2>1, <2>3, <2>5
  <2>6. CASE Expired(e)
    <3> HIDE DEF ev, e, b
    <3>1. f[n + 1] = Append(b, ev)
      BY <2>3, <2>6 DEF QueueEvent
    <3>2. Append(b, ev) \in Seq(Event)
      BY <2>1, <2>4, AppendSet
    <3>3. /\ WalkedFirst(Append(b, ev), h)
          /\ \A kind : ~(ev.kind = kind /\ ev.mob = h) => Own(Append(b, ev), kind, h) = Own(b, kind, h)
      BY <2>1, <2>4, OwnAppend
    <3>4. \A kind \in {"Walked", "TryWalk"} : Own(Append(b, ev), kind, h) = Own(b, kind, h)
      BY <2>4, <3>3
    <3> QED BY <2>1, <3>1, <3>2, <3>3, <3>4
  <2> QED BY <2>5, <2>6
<1>5. Nat \subseteq S
  <2> HIDE DEF S
  <2> QED BY <1>3, <1>4, SetOfNats
<1>6. Ok(f[Len(es)])
  BY <1>1, <1>5
<1> QED BY <1>2, <1>6

\* Ageing keeps everyone.
LEMMA AgesKept ==
  ASSUME GameInv, AgeEntities
  PROVE  Kept(store, store')
<1> DEFINE aged == [i \in DOMAIN store.entities.values |-> Older(store.entities.values[i])]
<1>1. pc = "age" /\ store' = WithAges(store, aged)
  BY DEF AgeEntities, WithAges
<1>2. \A c \in Container : store[c].added = <<>> /\ store[c].removed = <<>>
  BY <1>1 DEF GameInv, Buffers
<1>3. store.entities.added = <<>> /\ store.entities.removed = <<>> /\ StoreSound(store)
  BY <1>2 DEF Container, GameInv
<1>4. SameFrame(store, store') /\ store'.mobs = store.mobs
  BY <1>1, <1>3, AgesSpec
<1> QED BY <1>3, <1>4, KeptSelf DEF Kept, SameFrame

\* Nothing but its own turn and its own steps changes where the player stands
\* and what it has saved up.
LEMMA HeroStays ==
  ASSUME GameInv, [Next]_vars
  PROVE  /\ world' = world /\ Hero' = Hero
         /\ \/ PlayerWaits \/ PlayerActs \/ HandleTryWalk
            \/ PlayerMob' = PlayerMob
<1>0. GameInv'
  BY StepInv
<1>1. PlayerMob = Get(store.mobs, Hero) /\ PlayerMob' = Get(store'.mobs, Hero')
  BY <1>0, HeroProperties DEF PlayerMob, Hero
<1>2. /\ Hero \in Live(store.mobs) /\ Hero' \in Live(store'.mobs) /\ StoreSound(store)
      /\ world.player \in Live(store.entities) /\ world'.player \in Live(store'.entities)
  BY <1>0 DEF GameInv, PlayerLives
<1>3. world' = world
  BY DEF Next, vars, Frame, PlayerWaits, PlayerActs, MobUpdates, AgeEntities, Events, HandleRemove,
         HandleKillMob, HandleTryWalk, HandleWalked, HandleAttack, Handle, RemoveEntity, EndTick
<1>4. CASE store' = store
  BY <1>1, <1>3, <1>4 DEF Hero
<1>5. ASSUME Kept(store, store') PROVE Hero' = Hero
  BY <1>3, <1>5, KeptStore
<1>6. CASE Frame \/ HandleRemove \/ HandleWalked \/ UNCHANGED vars
  BY <1>4, <1>6 DEF Frame, HandleRemove, HandleWalked, vars
<1>7. CASE PlayerWaits
  <2>1. Rested(PlayerMob) \in 0 .. 2 * TicksPerAction - 1
    BY HeroProperties, TickTypes
  <2>2. Kept(store, store')
    BY <1>7, <2>1, PlayerTicksKept DEF PlayerWaits
  <2> QED BY <1>3, <1>5, <1>7, <2>2
<1>8. CASE PlayerActs
  <2>1. Rested(PlayerMob) >= TicksPerAction
    BY <1>8 DEF PlayerActs
  <2>2. Rested(PlayerMob) - TicksPerAction \in 0 .. 2 * TicksPerAction - 1
    BY <2>1, HeroProperties, TickTypes
  <2>3. PlayerTicks(PlayerMob, Rested(PlayerMob) - TicksPerAction)
    BY <1>8 DEF PlayerActs
  <2>4. Kept(store, store')
    BY <2>2, <2>3, PlayerTicksKept
  <2> QED BY <1>3, <1>5, <1>8, <2>4
<1>9. CASE MobUpdates
  <2>1. Kept(store, store') /\ Get(store'.mobs, Hero) = Get(store.mobs, Hero)
    BY <1>9, TurnSteps
  <2> QED BY <1>1, <1>3, <1>5, <2>1
<1>10. CASE AgeEntities
  <2>1. store'.mobs = store.mobs
    BY <1>10 DEF AgeEntities, GameInv, StoreSound
  <2>2. Kept(store, store')
    BY <1>10, AgesKept
  <2> QED BY <1>1, <1>3, <1>5, <2>1, <2>2
<1>11. CASE HandleKillMob
  <2>1. /\ store'.mobs = store.mobs
        /\ \A k \in Live(store.entities) : Get(store'.entities, k) = Get(store.entities, k)
    BY <1>11, KillMobGrows DEF Grows
  <2>2. Hero' = Hero
    BY <1>2, <1>3, <2>1 DEF Hero
  <2> QED BY <1>1, <1>3, <2>1, <2>2
<1>12. CASE HandleTryWalk
  <2>1. Kept(store, store')
    BY <1>12, TryWalkSteps
  <2> QED BY <1>3, <1>5, <1>12, <2>1
<1>13. CASE HandleAttack
  <2>1. Kept(store, store') /\ Get(store'.mobs, Hero) = Get(store.mobs, Hero)
    BY <1>13, AttackSteps
  <2> QED BY <1>1, <1>3, <1>5, <2>1
<1>14. CASE RemoveEntity
  <2>1. store' = store \/ Parted(store, store', Head(remove))
    BY <1>14, RemoveSteps
  <2>2. ASSUME Parted(store, store', Head(remove)) PROVE Hero' = Hero /\ PlayerMob' = PlayerMob
    <3>1. Hero' = Hero
      BY <1>2, <1>3, <2>2 DEF Parted, Hero
    <3>2. Get(store'.mobs, Hero) = Get(store.mobs, Hero)
      BY <1>2, <2>2, <3>1 DEF Parted
    <3> QED BY <1>1, <3>1, <3>2
  <2> QED BY <1>3, <1>4, <2>1, <2>2
<1>15. CASE EndTick
  <2>1. Settled(store, store')
    BY <1>15, SyncAllSpec DEF EndTick, GameInv
  <2>2. Kept(store, store') /\ Get(store'.mobs, Hero) = Get(store.mobs, Hero)
    BY <1>2, <2>1, SettledKept DEF Settled
  <2> QED BY <1>1, <1>3, <1>5, <2>2
<1> QED BY <1>6, <1>7, <1>8, <1>9, <1>10, <1>11, <1>12, <1>13, <1>14, <1>15 DEF Next, Events

-----------------------------------------------------------------------------
\* A step leads to one of the four cells around.
OneStep(ev) == \E a \in Arrow : ev.to = Plus(ev.from, a)

\* The player's steps of a kind that are still to be handled.
Steps(kind) == Own(queue, kind, Hero) \cup Own(batch, kind, Hero)

\* The player tries a step only after the one before it has been seen, and
\* stands where its last one has led to.
HeroWalks ==
  /\ WalkedFirst(queue, Hero) /\ WalkedFirst(batch, Hero)
  /\ \A ev \in Steps("TryWalk") \cup Steps("Walked") : OneStep(ev)
  /\ \A ev \in Steps("Walked") : ev.to = PlayerMob.position
  /\ pc = "events" /\ Own(queue, "Walked", Hero) # {} =>
       Own(batch, "Walked", Hero) = {} /\ Own(batch, "TryWalk", Hero) = {}

\* A step that waits to be seen leads along the x, or the y axis.
Across(evs) == IF \E ev \in evs : ev.from.x # ev.to.x THEN 1 ELSE 0
Upwards(evs) == IF \E ev \in evs : ev.from.y # ev.to.y THEN 1 ELSE 0

\* What the player has saved up, with what it has paid for a step it tries.
Time == PlayerMob.tick + IF Steps("TryWalk") # {} THEN 15 ELSE 0

\* How far the tick has come: the camera makes its step, the player acts, its
\* last step is seen, its next one is taken.
Phase ==
  IF pc = "frame"
    THEN IF clock.subTick = 2 \/ (clock.subTick = 1 /\ view.tick = 1) THEN "over" ELSE "moved"
  ELSE IF pc = "player" THEN "moved"
  ELSE IF pc # "events" \/ Own(batch, "Walked", Hero) # {} THEN "acted"
  ELSE IF Own(batch, "TryWalk", Hero) # {} THEN "tracked" ELSE "over"

\* The player is in sight of a camera that nothing shakes.
InSight ==
  /\ view \in CameraType /\ ~view.shake /\ world.window \in WindowType
  /\ pc = "frame" => clock.subTick \in {0, 1, 2}
  /\ pc # "frame" => clock.subTick = 2
  /\ pc = "frame" /\ clock.subTick = 0 => view.at = view.target
  /\ Time <= 29
  /\ Sight(Phase, world.window, view, PlayerMob.position, Time,
           Across(Steps("Walked")), Upwards(Steps("Walked")))

\* What the invariants are made of.
LEMMA SightParts ==
  ASSUME GameInv, InSight
  PROVE  /\ PlayerMob.position \in Coord /\ PlayerMob.tick \in 0 .. 29 /\ Time \in 0 .. 29
         /\ Across(Steps("Walked")) \in {0, 1} /\ Upwards(Steps("Walked")) \in {0, 1}
         /\ Phase \in {"over", "moved", "acted", "tracked"}
<1>1. PlayerMob \in Mob
  BY HeroProperties
<1>2. PlayerMob.position \in Coord /\ PlayerMob.tick \in 0 .. 29
  BY <1>1 DEF Mob, TicksPerAction
<1>3. Time \in 0 .. 29
  BY <1>2 DEF InSight, Time
<1> QED BY <1>2, <1>3 DEF Across, Upwards, Phase

\* Where the player's own events and its place are kept, HeroWalks holds.
LEMMA WalksKept ==
  ASSUME HeroWalks, Hero' = Hero, PlayerMob'.position = PlayerMob.position,
         WalkedFirst(queue', Hero), WalkedFirst(batch', Hero),
         \A kind \in {"Walked", "TryWalk"} :
           Own(queue', kind, Hero) = Own(queue, kind, Hero) /\ Own(batch', kind, Hero) = Own(batch, kind, Hero),
         pc' = pc \/ pc' # "events"
  PROVE  /\ HeroWalks'
         /\ Steps("Walked")' = Steps("Walked") /\ Steps("TryWalk")' = Steps("TryWalk")
<1>1. Steps("Walked")' = Steps("Walked") /\ Steps("TryWalk")' = Steps("TryWalk")
  BY DEF Steps
<1> QED BY <1>1 DEF HeroWalks

\* Where the camera and what the player does are kept, so is InSight.
LEMMA SightKept ==
  ASSUME InSight, world' = world, view' = view,
         PlayerMob'.position = PlayerMob.position, PlayerMob'.tick = PlayerMob.tick,
         clock'.subTick = clock.subTick, pc' = "frame" => pc' = pc \/ clock.subTick = 2,
         pc' # "frame" => pc # "frame",
         Steps("Walked")' = Steps("Walked"), Steps("TryWalk")' = Steps("TryWalk"), Phase' = Phase
  PROVE  InSight'
<1>1. Time' = Time
  BY DEF Time
<1> QED BY <1>1 DEF InSight

\* The invariants hold at first.
LEMMA SightInit ==
  ASSUME Init, \A w \in Scenario : w.window \in WindowType
  PROVE  HeroWalks /\ InSight
<1>1. PICK w \in Scenario :
        /\ world = [bounds |-> w.bounds, window |-> w.window, player |-> 1, keys |-> w.keys]
        /\ \E place \in [DOMAIN w.mobs -> Places(w.bounds)] : store = SyncAll(Populated(w, place))
        /\ view = InitView(Origin)
        /\ clock = [subTick |-> 0, freeze |-> 0]
        /\ queue = <<>> /\ batch = <<>> /\ pc = "frame"
  BY DEF Init
<1>2. \A kind : Own(queue, kind, Hero) = {} /\ Own(batch, kind, Hero) = {} /\ Steps(kind) = {}
  BY <1>1, EmptySets DEF Own, Steps
<1>3. HeroWalks
  BY <1>1, <1>2 DEF HeroWalks, WalkedFirst
<1>4. view \in CameraType /\ ~view.shake /\ view.at = view.target /\ view.at = [x |-> 0, y |-> 0] /\ view.tick = 0
  BY <1>1 DEF InitView, CameraType, Coord, Origin, Vec
<1>5. world.window \in WindowType
  BY <1>1
<1>6. PlayerMob.position = [x |-> 0, y |-> 0] /\ PlayerMob.tick = 0
  <2>1. PICK place \in [DOMAIN w.mobs -> Places(w.bounds)] : store = SyncAll(Populated(w, place))
    BY <1>1
  <2> DEFINE s == Populated(w, place)
  <2>2. Inhabited(s, Len(w.mobs))
    BY PopulatedInhabited
  <2> HIDE DEF s
  <2>3. Settled(s, store)
    BY <2>1, <2>2, SyncAllSpec DEF Inhabited, s
  <2>4. /\ Get(store.entities, 1) = Get(s.entities, 1) /\ Get(store.mobs, 1) = Get(s.mobs, 1)
        /\ Get(s.entities, 1).mob = 1 /\ Get(s.mobs, 1).position = Origin /\ Get(s.mobs, 1).tick = 0
    BY <2>2, <2>3 DEF Settled, Inhabited
  <2>5. PlayerMob = Get(store.mobs, 1)
    BY <1>1, <2>4 DEF PlayerMob
  <2> QED BY <2>4, <2>5 DEF Origin, Vec
<1>7. Time = 0 /\ Across(Steps("Walked")) = 0 /\ Upwards(Steps("Walked")) = 0 /\ Phase = "moved"
  BY <1>1, <1>2, <1>4, <1>6 DEF Time, Across, Upwards, Phase
<1>8. Sight("moved", world.window, view, PlayerMob.position, 0, 0, 0)
  <2> DEFINE h == world.window.height
             w1 == world.window.width
  <2>1. h \in Int /\ w1 \in Int /\ Enough(w1, 8) /\ Enough(h, 4)
    BY <1>5 DEF WindowType
  <2>2. LET r == w1 - 8 - w1 \div 2
            q == w1 \div 2 - 8 IN r \in Int /\ q \in Int /\ r >= 9 /\ q >= 9
    BY <2>1, Sides
  <2>3. LET r == h - 4 - h \div 2
            q == h \div 2 - 4 IN r \in Int /\ q \in Int /\ r >= 3 /\ q >= 3
    BY <2>1, Sides
  <2>4. PlayerMob.position.x - view.at.x = 0 /\ view.target.x - view.at.x = 0
        /\ view.at.y - PlayerMob.position.y = 0 /\ view.at.y - view.target.y = 0
    BY <1>4, <1>6
  <2> HIDE DEF h, w1
  <2>5. Axis("moved", 0, 0, 0, 0, w1, 8)
    BY <2>2 DEF Axis, Side
  <2>6. Axis("moved", 0, 0, 0, 0, h, 4)
    BY <2>3 DEF Axis, Side
  <2> QED BY <2>4, <2>5, <2>6 DEF Sight, w1, h
<1> QED BY <1>1, <1>3, <1>4, <1>5, <1>7, <1>8 DEF InSight

-----------------------------------------------------------------------------
\* The camera follows the player in a frame.
LEMMA FrameSight ==
  ASSUME GameInv, HeroWalks, InSight, Frame
  PROVE  HeroWalks' /\ InSight'
<1> DEFINE w == Followed(view)
           p == PlayerMob.position
           px == Across(Steps("Walked"))
           py == Upwards(Steps("Walked"))
<1>1. /\ pc = "frame" /\ batch = <<>> /\ clock.subTick \in {0, 1, 2} /\ clock.freeze \in 0 .. 1
      /\ clock \in [subTick : 0 .. SubTicksPerTick, freeze : 0 .. 1]
      /\ queue \in Seq(Event) /\ batch \in Seq(Event)
  BY DEF Frame, InSight, GameInv, Typed, Buffers
<1>2. Hero' = Hero /\ PlayerMob' = PlayerMob /\ world' = world /\ store' = store
  <2>1. store' = store /\ world' = world
    BY DEF Frame
  <2> QED BY <2>1 DEF Hero, PlayerMob
<1>3. view' = w
  <2>1. Shaken(view) = {view}
    BY DEF InSight, Shaken
  <2>2. view' \in CameraUpdates(view)
    BY DEF Frame
  <2> QED BY <2>1, <2>2 DEF CameraUpdates
<1>4. /\ queue' = queue /\ batch' = batch
      /\ \/ clock.subTick = 2 /\ clock'.subTick = 1 /\ pc' = "frame"
         \/ clock.subTick # 2 /\ clock'.subTick = 2 /\ pc' = "player"
  <2>1. Thawed.freeze = 0 /\ Thawed.subTick = 2
    BY <1>1 DEF Thawed, SubTicksPerTick
  <2>2. CASE clock.subTick = 2
    <3>1. clock.subTick - 1 > 0 /\ clock.subTick - 1 = 1
      BY <2>2
    <3>2. clock' = [clock EXCEPT !.subTick = clock.subTick - 1] /\ UNCHANGED <<pc, batch, queue>>
      BY <3>1 DEF Frame
    <3> QED BY <1>1, <2>2, <3>1, <3>2
  <2>3. CASE clock.subTick # 2
    <3>1. ~(clock.subTick - 1 > 0)
      BY <1>1, <2>3
    <3>2. clock' = Thawed /\ pc' = "player" /\ UNCHANGED <<batch, queue>>
      BY <2>1, <3>1 DEF Frame
    <3> QED BY <2>1, <2>3, <3>2
  <2> QED BY <2>2, <2>3
<1>5. /\ HeroWalks'
      /\ Steps("Walked")' = Steps("Walked") /\ Steps("TryWalk")' = Steps("TryWalk")
  BY <1>1, <1>2, <1>4, WalksKept DEF HeroWalks
<1>6. Time' = Time
  BY <1>2, <1>5 DEF Time
<1>7. /\ view \in CameraType /\ world.window \in WindowType /\ p \in Coord /\ Time \in 0 .. 29
      /\ px \in {0, 1} /\ py \in {0, 1} /\ Sight(Phase, world.window, view, p, Time, px, py)
      /\ clock.subTick = 0 => view.at = view.target
      /\ ~view.shake /\ Time <= 29
  BY <1>1, SightParts DEF InSight
<1>8. Phase = IF clock.subTick = 2 \/ (clock.subTick = 1 /\ view.tick = 1) THEN "over" ELSE "moved"
  BY <1>1 DEF Phase
<1>9. Phase' = IF clock.subTick = 2 THEN (IF w.tick = 1 THEN "over" ELSE "moved") ELSE "moved"
  BY <1>1, <1>3, <1>4 DEF Phase
<1>10. view.tick \in {0, 1}
  BY <1>7 DEF CameraType
<1> HIDE DEF w, p, px, py
<1>11. /\ w \in CameraType /\ w.shake = view.shake /\ w.target = view.target
       /\ view.at = view.target => w = view
       /\ view.at # view.target => w.tick = 1 - view.tick
       /\ \A phase : view.tick = 0 /\ Sight(phase, world.window, view, p, Time, px, py)
                       => Sight(phase, world.window, w, p, Time, px, py)
       /\ view.at = view.target \/ view.tick = 1 =>
            (Sight("over", world.window, view, p, Time, px, py) => Sight("moved", world.window, w, p, Time, px, py))
  BY <1>7, SightFollows DEF w
<1>12. Sight(Phase', world.window, w, p, Time, px, py)
  <2>1. CASE view.at = view.target /\ clock.subTick = 2
    BY <1>7, <1>8, <1>9, <1>11, <2>1
  <2>2. CASE view.at # view.target /\ clock.subTick = 2
    <3>1. CASE view.tick = 0
      BY <1>7, <1>8, <1>9, <1>11, <2>2, <3>1
    <3>2. CASE view.tick = 1
      BY <1>7, <1>8, <1>9, <1>11, <2>2, <3>2
    <3> QED BY <1>10, <3>1, <3>2
  <2>3. CASE clock.subTick = 1
    <3>1. CASE view.tick = 0
      BY <1>7, <1>8, <1>9, <1>11, <2>3, <3>1
    <3>2. CASE view.tick = 1
      BY <1>7, <1>8, <1>9, <1>11, <2>3, <3>2
    <3> QED BY <1>10, <3>1, <3>2
  <2>4. CASE clock.subTick = 0
    BY <1>7, <1>8, <1>9, <1>11, <2>4
  <2> QED BY <1>1, <2>1, <2>2, <2>3, <2>4
<1>13. px = Across(Steps("Walked"))' /\ py = Upwards(Steps("Walked"))' /\ p = PlayerMob.position'
  BY <1>2, <1>5 DEF px, py, p, Across, Upwards
<1>14. Sight(Phase, world.window, view, PlayerMob.position, Time, Across(Steps("Walked")), Upwards(Steps("Walked")))'
  BY <1>2, <1>3, <1>6, <1>12, <1>13
<1>15. view' \in CameraType /\ ~view'.shake /\ world'.window \in WindowType /\ Time' <= 29
  BY <1>2, <1>3, <1>6, <1>7, <1>11
<1>16. /\ pc' = "frame" => clock'.subTick \in {0, 1, 2}
       /\ pc' # "frame" => clock'.subTick = 2
       /\ pc' = "frame" /\ clock'.subTick = 0 => view'.at = view'.target
  BY <1>4
<1> QED BY <1>5, <1>14, <1>15, <1>16 DEF InSight

\* What the player may have saved up in its next tick.
LEMMA HeroRests ==
  ASSUME GameInv
  PROVE  /\ Rested(PlayerMob) \in 0 .. 29 /\ Rested(PlayerMob) <= PlayerMob.tick + 6
         /\ PlayerMob.tick \in 0 .. 29 /\ PlayerMob.position \in Coord
<1>1. PlayerMob \in Mob /\ PlayerMob.type = "Player"
  BY HeroProperties DEF GameInv, PlayerLives
<1>2. MobDatabase[PlayerMob.type].speed = 6
  BY <1>1 DEF MobDatabase
<1>3. PlayerMob.tick \in 0 .. 29 /\ PlayerMob.position \in Coord
  BY <1>1 DEF Mob, TicksPerAction
<1> DEFINE t == PlayerMob.tick + MobDatabase[PlayerMob.type].speed
<1>4. Rested(PlayerMob) = IF t < 2 * TicksPerAction THEN t ELSE 2 * TicksPerAction - 1
  BY DEF Rested
<1>5. t = PlayerMob.tick + 6
  BY <1>2
<1> HIDE DEF t
<1> QED BY <1>3, <1>4, <1>5 DEF TicksPerAction

\* The player has its turn before anyone has tried a step.
LEMMA NothingTried ==
  ASSUME GameInv, InSight, pc = "player"
  PROVE  /\ batch = <<>> /\ Steps("TryWalk") = {} /\ Time = PlayerMob.tick /\ Phase = "moved"
         /\ queue \in Seq(Event) /\ batch \in Seq(Event) /\ clock.subTick = 2
<1>1. batch = <<>> /\ queue \in Seq(Event) /\ batch \in Seq(Event)
  BY DEF GameInv, Typed, Buffers
<1>2. \A ev \in ToSet(queue) : ev.kind # "TryWalk"
  BY DEF GameInv, Decisions
<1>3. Steps("TryWalk") = {}
  BY <1>1, <1>2, EmptySets DEF Steps, Own
<1>4. PlayerMob.tick \in 0 .. 29
  BY HeroRests
<1>5. Time = PlayerMob.tick
  BY <1>3, <1>4 DEF Time
<1> QED BY <1>1, <1>3, <1>5 DEF Phase, InSight

\* What the player does in its turn is at most what it has saved up.
LEMMA ActedSight ==
  ASSUME GameInv, InSight, pc = "player", pc' = "mobs", world' = world, view' = view, clock' = clock,
         PlayerMob'.position = PlayerMob.position, Steps("Walked")' = Steps("Walked"),
         Time' \in 0 .. Rested(PlayerMob)
  PROVE  InSight'
<1> DEFINE px == Across(Steps("Walked"))
           py == Upwards(Steps("Walked"))
           p == PlayerMob.position
           t == Time
           u == Time'
<1>1. /\ t \in 0 .. 29 /\ px \in {0, 1} /\ py \in {0, 1} /\ p \in Coord
      /\ view \in CameraType /\ world.window \in WindowType
      /\ Sight("moved", world.window, view, p, t, px, py)
  BY SightParts, NothingTried DEF InSight
<1>2. u \in 0 .. 29 /\ u <= t + 6
  <2>1. t = PlayerMob.tick
    BY NothingTried
  <2>2. Rested(PlayerMob) \in 0 .. 29 /\ Rested(PlayerMob) <= t + 6
    BY <2>1, HeroRests
  <2> HIDE DEF t
  <2> QED BY <1>1, <2>2
<1>3. px = Across(Steps("Walked"))' /\ py = Upwards(Steps("Walked"))' /\ p = PlayerMob.position'
  BY DEF Across, Upwards
<1> HIDE DEF px, py, p, t, u
<1>4. Sight("acted", world.window, view, p, u, px, py)
  BY <1>1, <1>2, SightActs
<1>5. Phase' = "acted"
  BY DEF Phase
<1>6. Sight(Phase, world.window, view, PlayerMob.position, Time, Across(Steps("Walked")), Upwards(Steps("Walked")))'
  BY <1>3, <1>4, <1>5 DEF u
<1>7. Time' <= 29
  BY <1>2 DEF u
<1> QED BY <1>6, <1>7, NothingTried DEF InSight

\* A player that waits is in sight.
LEMMA PlayerWaitsSight ==
  ASSUME GameInv, HeroWalks, InSight, PlayerWaits
  PROVE  HeroWalks' /\ InSight'
<1>1. /\ pc = "player" /\ pc' = "mobs" /\ queue' = queue /\ batch' = batch /\ clock' = clock
      /\ view' = view /\ PlayerTicks(PlayerMob, Rested(PlayerMob))
  BY DEF PlayerWaits
<1>2. world' = world /\ Hero' = Hero /\ PlayerMob' = Get(store'.mobs, Hero)
  <2>1. GameInv' /\ world' = world /\ Hero' = Hero
    BY PlayerWaitsInv, HeroStays DEF Next
  <2>2. PlayerMob' = Get(store'.mobs, Hero')
    BY DEF PlayerMob, Hero
  <2> QED BY <2>1, <2>2
<1>3. PlayerMob'.position = PlayerMob.position /\ PlayerMob'.tick = Rested(PlayerMob)
  <2>1. Rested(PlayerMob) \in 0 .. 2 * TicksPerAction - 1
    BY HeroProperties, TickTypes
  <2>2. /\ Get(store'.mobs, Hero).tick = Rested(PlayerMob)
        /\ \A m \in Live(store.mobs) : Get(store'.mobs, m).position = Get(store.mobs, m).position
    BY <1>1, <2>1, PlayerTicksKept
  <2>3. Hero \in Live(store.mobs) /\ PlayerMob = Get(store.mobs, Hero)
    BY HeroProperties DEF GameInv, PlayerLives
  <2> QED BY <1>2, <2>2, <2>3
<1>4. /\ HeroWalks'
      /\ Steps("Walked")' = Steps("Walked") /\ Steps("TryWalk")' = Steps("TryWalk")
  BY <1>1, <1>2, <1>3, WalksKept DEF HeroWalks
<1>5. Time' = Rested(PlayerMob) /\ Rested(PlayerMob) \in 0 .. 29
  <2>1. Steps("TryWalk")' = {}
    BY <1>1, <1>4, NothingTried
  <2>2. Rested(PlayerMob) \in 0 .. 29
    BY HeroRests
  <2> QED BY <1>3, <2>1, <2>2 DEF Time
<1>6. Time' \in 0 .. Rested(PlayerMob)
  BY <1>5
<1>7. InSight'
  BY <1>1, <1>2, <1>3, <1>4, <1>6, ActedSight
<1> QED BY <1>4, <1>7

\* A player that walks or attacks is in sight.
LEMMA PlayerActsSight ==
  ASSUME GameInv, HeroWalks, InSight, PlayerActs
  PROVE  HeroWalks' /\ InSight'
<1> DEFINE tick == Rested(PlayerMob) - TicksPerAction
           to == Plus(PlayerMob.position, Head(windowEvents))
           target == FirstMobAt(to, PlayerMob.id)
           ev == IF MobsAt(to, PlayerMob.id) # {} THEN EvAttack(PlayerMob.id, target)
                 ELSE EvTryWalk(PlayerMob.id, PlayerMob.position, to)
<1>1. /\ pc = "player" /\ pc' = "mobs" /\ batch' = batch /\ clock' = clock
      /\ view' = view /\ PlayerTicks(PlayerMob, tick) /\ queue' = Append(queue, ev)
      /\ Rested(PlayerMob) >= TicksPerAction /\ windowEvents # <<>>
  BY DEF PlayerActs, QueueEvent
<1>2. world' = world /\ Hero' = Hero /\ PlayerMob' = Get(store'.mobs, Hero)
  <2>1. GameInv' /\ world' = world /\ Hero' = Hero
    BY PlayerActsInv, HeroStays DEF Next
  <2>2. PlayerMob' = Get(store'.mobs, Hero')
    BY DEF PlayerMob, Hero
  <2> QED BY <2>1, <2>2
<1>3. tick \in 0 .. 2 * TicksPerAction - 1 /\ tick \in 0 .. Rested(PlayerMob) - 15
  <2>1. Rested(PlayerMob) \in 0 .. 29
    BY HeroRests
  <2>2. tick \in 0 .. Rested(PlayerMob) - 15
    <3> DEFINE r == Rested(PlayerMob)
    <3>1. r \in 0 .. 29 /\ r >= 15 /\ tick = r - 15
      BY <1>1, <2>1 DEF TicksPerAction
    <3> HIDE DEF r, tick
    <3>2. tick \in 0 .. r - 15
      BY <3>1
    <3> QED BY <3>2 DEF r
  <2>3. tick \in 0 .. 2 * TicksPerAction - 1
    BY <1>1, HeroProperties, TickTypes
  <2> QED BY <2>2, <2>3
<1> HIDE DEF tick
<1>4. PlayerMob'.position = PlayerMob.position /\ PlayerMob'.tick = tick
  <2>2. /\ Get(store'.mobs, Hero).tick = tick
        /\ \A m \in Live(store.mobs) : Get(store'.mobs, m).position = Get(store.mobs, m).position
    BY <1>1, <1>3, PlayerTicksKept
  <2>3. Hero \in Live(store.mobs) /\ PlayerMob = Get(store.mobs, Hero)
    BY HeroProperties DEF GameInv, PlayerLives
  <2> QED BY <1>2, <2>2, <2>3
<1>5. PlayerMob.position \in Coord /\ PlayerMob.id = Hero /\ Hero \in Nat /\ to \in Coord
      /\ Head(windowEvents) \in Arrow
  <2>1. windowEvents \in Seq(Arrow)
    BY DEF GameInv, Typed
  <2>2. Head(windowEvents) \in Arrow
    BY ONLY <1>1, <2>1, HeadTailProperties
  <2>3. PlayerMob.position \in Coord /\ Head(windowEvents) \in Coord
    BY <2>2, HeroRests DEF Arrow, Vec, Coord
  <2>4. PlayerMob.id = Hero /\ Hero \in Nat
    BY HeroProperties
  <2> QED BY <2>2, <2>3, <2>4 DEF Plus, Vec, Coord
<1>6. ev.kind # "Walked" /\ (ev.kind = "TryWalk" => OneStep(ev)) /\ ev \in Event
  <2>1. OneStep(EvTryWalk(PlayerMob.id, PlayerMob.position, to))
    BY <1>5 DEF OneStep, EvTryWalk
  <2>2. CASE MobsAt(to, PlayerMob.id) = {}
    <3>1. ev = EvTryWalk(PlayerMob.id, PlayerMob.position, to)
      BY <2>2
    <3> HIDE DEF ev, to
    <3>2. EvTryWalk(PlayerMob.id, PlayerMob.position, to) \in Event
      BY <1>5, EventTypes
    <3> QED BY <2>1, <3>1, <3>2 DEF EvTryWalk, to
  <2>3. CASE MobsAt(to, PlayerMob.id) # {}
    <3>1. ev = EvAttack(PlayerMob.id, target)
      BY <2>3
    <3>2. target \in Nat
      <4>1. "mobs" \in Container
        BY DEF Container
      <4>2. StoreSound(store) /\ store.mobs.removed = <<>>
        BY <1>1, <4>1 DEF GameInv, Buffers
      <4>3. target \in Live(store.mobs)
        BY <2>3, <4>2, FirstMobAtSpec
      <4> QED BY <4>2, <4>3, StoreElements
    <3> HIDE DEF ev, target
    <3>3. EvAttack(PlayerMob.id, target) \in Event
      BY <1>5, <3>2, EventTypes
    <3> QED BY <3>1, <3>3 DEF EvAttack
  <2> QED BY <2>2, <2>3
<1> HIDE DEF ev, to, target
<1>7. queue \in Seq(Event) /\ batch = <<>> /\ Steps("TryWalk") = {} /\ clock.subTick = 2
  BY <1>1, NothingTried
<1>8. /\ WalkedFirst(queue', Hero) /\ Own(queue', "Walked", Hero) = Own(queue, "Walked", Hero)
      /\ Own(queue', "TryWalk", Hero) \subseteq Own(queue, "TryWalk", Hero) \cup {ev}
      /\ Own(queue', "TryWalk", Hero) # {} => ev.kind = "TryWalk"
  <2>1. WalkedFirst(queue, Hero) /\ Own(queue, "TryWalk", Hero) = {}
    BY <1>7 DEF HeroWalks, Steps
  <2>2. /\ WalkedFirst(Append(queue, ev), Hero)
        /\ \A kind : ~(ev.kind = kind /\ ev.mob = Hero) => Own(Append(queue, ev), kind, Hero) = Own(queue, kind, Hero)
        /\ \A kind : ev.kind = kind /\ ev.mob = Hero => Own(Append(queue, ev), kind, Hero) = Own(queue, kind, Hero) \cup {ev}
    BY <1>6, <1>7, <2>1, OwnAppend
  <2> QED BY <1>1, <1>6, <2>1, <2>2
<1>9. /\ Steps("Walked")' = Steps("Walked")
      /\ \A e \in Steps("TryWalk")' : e = ev /\ ev.kind = "TryWalk"
  <2>1. Own(batch, "TryWalk", Hero) = {} /\ Own(queue, "TryWalk", Hero) = {}
    BY <1>7 DEF Steps
  <2> QED BY <1>1, <1>2, <1>8, <2>1 DEF Steps
<1>10. HeroWalks'
  <2>1. \A e \in (Steps("TryWalk") \cup Steps("Walked"))' : OneStep(e)
    BY <1>6, <1>9 DEF HeroWalks
  <2>2. \A e \in Steps("Walked")' : e.to = PlayerMob'.position
    BY <1>4, <1>9 DEF HeroWalks
  <2>3. WalkedFirst(batch', Hero')
    BY <1>1, <1>2 DEF HeroWalks
  <2> QED BY <1>1, <1>2, <1>8, <2>1, <2>2, <2>3 DEF HeroWalks
<1>11. Time' \in 0 .. Rested(PlayerMob)
  <2>1. Rested(PlayerMob) \in 0 .. 29
    BY HeroRests
  <2>2. Time' = tick \/ Time' = tick + 15
    BY <1>3, <1>4 DEF Time
  <2>3. tick \in Int
    BY <1>3
  <2> QED BY <1>3, <2>1, <2>2, <2>3
<1>12. InSight'
  BY <1>1, <1>2, <1>4, <1>9, <1>11, ActedSight
<1> QED BY <1>10, <1>12

\* The mobs' turns do not concern the player.
LEMMA MobUpdatesSight ==
  ASSUME GameInv, HeroWalks, InSight, MobUpdates
  PROVE  HeroWalks' /\ InSight'
<1>1. /\ pc = "mobs" /\ pc' \in {"mobs", "age"} /\ batch' = batch /\ clock' = clock /\ view' = view
      /\ queue \in Seq(Event)
  BY DEF MobUpdates, GameInv, Typed
<1>2. world' = world /\ Hero' = Hero /\ PlayerMob' = PlayerMob
  <2>1. ~(PlayerWaits \/ PlayerActs \/ HandleTryWalk)
    BY <1>1 DEF PlayerWaits, PlayerActs, HandleTryWalk, Handle
  <2> QED BY <2>1, HeroStays DEF Next
<1>3. \/ queue' = queue
      \/ \E ev \in Event : queue' = Append(queue, ev) /\ ev.kind = "TryWalk" /\ ev.mob # Hero
  BY TurnSteps
<1>4. /\ WalkedFirst(queue', Hero)
      /\ \A kind \in {"Walked", "TryWalk"} : Own(queue', kind, Hero) = Own(queue, kind, Hero)
  <2>1. CASE queue' = queue
    BY <2>1 DEF HeroWalks
  <2>2. ASSUME NEW ev \in Event, queue' = Append(queue, ev), ev.kind = "TryWalk", ev.mob # Hero
        PROVE  /\ WalkedFirst(queue', Hero)
               /\ \A kind \in {"Walked", "TryWalk"} : Own(queue', kind, Hero) = Own(queue, kind, Hero)
    <3>1. WalkedFirst(queue, Hero)
      BY DEF HeroWalks
    <3>2. /\ WalkedFirst(Append(queue, ev), Hero)
          /\ \A kind : ~(ev.kind = kind /\ ev.mob = Hero) => Own(Append(queue, ev), kind, Hero) = Own(queue, kind, Hero)
      BY <1>1, <2>2, <3>1, OwnAppend
    <3> QED BY <2>2, <3>2
  <2> QED BY <1>3, <2>1, <2>2
<1>5. WalkedFirst(batch', Hero)
  BY <1>1 DEF HeroWalks
<1>6. /\ HeroWalks'
      /\ Steps("Walked")' = Steps("Walked") /\ Steps("TryWalk")' = Steps("TryWalk")
  BY <1>1, <1>2, <1>4, <1>5, WalksKept
<1>7. Phase' = Phase
  BY <1>1 DEF Phase
<1>8. InSight'
  BY <1>1, <1>2, <1>6, <1>7, SightKept
<1> QED BY <1>6, <1>8

\* The ages do not concern the player: its tick has been handled by now.
LEMMA AgeEntitiesSight ==
  ASSUME GameInv, HeroWalks, InSight, AgeEntities
  PROVE  HeroWalks' /\ InSight'
<1> DEFINE aged == [i \in DOMAIN store.entities.values |-> Older(store.entities.values[i])]
           px == Across(Steps("Walked"))
           py == Upwards(Steps("Walked"))
           p == PlayerMob.position
           t == Time
<1>1. /\ pc = "age" /\ pc' = "events" /\ batch = <<>> /\ queue' = <<>> /\ clock' = clock /\ view' = view
      /\ queue \in Seq(Event) /\ store' = WithAges(store, aged) /\ batch' = WithExpired(queue, aged)
  BY DEF AgeEntities, GameInv, Typed, Buffers, WithAges
<1>2. world' = world /\ Hero' = Hero /\ PlayerMob' = PlayerMob
  <2>1. ~(PlayerWaits \/ PlayerActs \/ HandleTryWalk)
    BY <1>1 DEF PlayerWaits, PlayerActs, HandleTryWalk, Handle
  <2> QED BY <2>1, HeroStays DEF Next
<1>3. aged \in Seq(Entity)
  <2>1. \A c \in Container : store[c].added = <<>> /\ store[c].removed = <<>>
    BY <1>1 DEF GameInv, Buffers
  <2>2. store.entities.added = <<>> /\ store.entities.removed = <<>> /\ StoreSound(store)
    BY <2>1 DEF Container, GameInv
  <2> QED BY <1>1, <2>2, AgesSpec
<1> HIDE DEF aged
<1>4. /\ WalkedFirst(batch', Hero)
      /\ \A kind \in {"Walked", "TryWalk"} : Own(batch', kind, Hero) = Own(queue, kind, Hero)
  <2>1. WalkedFirst(queue, Hero)
    BY DEF HeroWalks
  <2>2. /\ WalkedFirst(WithExpired(queue, aged), Hero)
        /\ \A kind \in {"Walked", "TryWalk"} : Own(WithExpired(queue, aged), kind, Hero) = Own(queue, kind, Hero)
    BY <1>1, <1>3, <2>1, OwnExpired
  <2> QED BY <1>1, <2>2
<1>5. /\ WalkedFirst(<<>>, Hero) /\ \A kind : Own(<<>>, kind, Hero) = {}
  BY EmptySets DEF WalkedFirst, Own
<1>6. /\ Steps("Walked")' = Steps("Walked") /\ Steps("TryWalk")' = Steps("TryWalk")
      /\ Steps("Walked") = Own(batch', "Walked", Hero) /\ Steps("TryWalk") = Own(batch', "TryWalk", Hero)
  BY <1>1, <1>2, <1>4, <1>5 DEF Steps
<1>7. HeroWalks'
  BY <1>1, <1>2, <1>4, <1>5, <1>6 DEF HeroWalks
<1>8. /\ view \in CameraType /\ world.window \in WindowType /\ p \in Coord /\ t \in 0 .. 29
      /\ px \in {0, 1} /\ py \in {0, 1} /\ Sight("acted", world.window, view, p, t, px, py)
      /\ clock.subTick = 2 /\ ~view.shake /\ Time <= 29
  BY <1>1, SightParts DEF InSight, Phase
<1>9. Phase' = IF Steps("Walked") # {} THEN "acted" ELSE IF Steps("TryWalk") # {} THEN "tracked" ELSE "over"
  BY <1>1, <1>2, <1>6 DEF Phase
<1>10. Time' = t /\ px = Across(Steps("Walked"))' /\ py = Upwards(Steps("Walked"))' /\ p = PlayerMob.position'
  BY <1>2, <1>6 DEF Time, Across, Upwards
<1>11. Steps("Walked") = {} => px = 0 /\ py = 0
  BY DEF Across, Upwards
<1> HIDE DEF px, py, p, t
<1>12. Sight(Phase', world.window, view, p, t, px, py)
  <2>1. CASE Steps("Walked") # {}
    BY <1>8, <1>9, <2>1
  <2>2. CASE Steps("Walked") = {}
    <3>1. px = 0 /\ py = 0
      BY <1>11, <2>2
    <3>2. Sight("tracked", world.window, view, p, t, 0, 0)
      BY <1>8, <3>1, SightUntracked
    <3>3. t \in 0 .. 29 /\ t <= t
      BY <1>8
    <3>4. Sight("over", world.window, view, p, t, 0, 0)
      BY <1>8, <3>2, <3>3, SightRests
    <3> QED BY <1>9, <2>2, <3>1, <3>2, <3>4
  <2> QED BY <2>1, <2>2
<1>13. Sight(Phase, world.window, view, PlayerMob.position, Time, Across(Steps("Walked")), Upwards(Steps("Walked")))'
  BY <1>1, <1>2, <1>10, <1>12
<1>14. Time' <= 29
  BY <1>8, <1>10 DEF t
<1> QED BY <1>1, <1>2, <1>7, <1>8, <1>13, <1>14 DEF InSight

\* A handler of an event that is not the player's leaves it in sight: it queues
\* no step of the player.
LEMMA HandledSight ==
  ASSUME GameInv, HeroWalks, InSight, NEW kind, Handle(kind),
         ~(kind \in {"Walked", "TryWalk"} /\ Head(batch).mob = Hero),
         view' = view, clock'.subTick = clock.subTick, Hero' = Hero,
         PlayerMob'.position = PlayerMob.position, PlayerMob'.tick = PlayerMob.tick,
         \/ queue' = queue
         \/ \E ev \in Event : /\ queue' = Append(queue, ev) /\ ev.kind # "TryWalk"
                              /\ ~(ev.kind = "Walked" /\ ev.mob = Hero)
  PROVE  HeroWalks' /\ InSight'
<1>1. /\ Head(batch).kind = kind /\ batch # <<>> /\ batch' = Tail(batch)
      /\ pc = "events" /\ pc' = "events" /\ world' = world
      /\ queue \in Seq(Event) /\ batch \in Seq(Event)
  BY BatchTail DEF GameInv, Typed
<1>2. /\ WalkedFirst(batch', Hero)
      /\ \A k \in {"Walked", "TryWalk"} : Own(batch', k, Hero) = Own(batch, k, Hero)
  <2>1. WalkedFirst(batch, Hero)
    BY DEF HeroWalks
  <2>2. /\ WalkedFirst(Tail(batch), Hero)
        /\ \A k : ~(Head(batch).kind = k /\ Head(batch).mob = Hero) => Own(Tail(batch), k, Hero) = Own(batch, k, Hero)
    BY <1>1, <2>1, OwnTail
  <2> QED BY <1>1, <2>2
<1>3. /\ WalkedFirst(queue', Hero)
      /\ \A k \in {"Walked", "TryWalk"} : Own(queue', k, Hero) = Own(queue, k, Hero)
  <2>1. CASE queue' = queue
    BY <2>1 DEF HeroWalks
  <2>2. ASSUME NEW ev \in Event, queue' = Append(queue, ev), ev.kind # "TryWalk",
               ~(ev.kind = "Walked" /\ ev.mob = Hero)
        PROVE  /\ WalkedFirst(queue', Hero)
               /\ \A k \in {"Walked", "TryWalk"} : Own(queue', k, Hero) = Own(queue, k, Hero)
    <3>1. WalkedFirst(queue, Hero)
      BY DEF HeroWalks
    <3>2. /\ WalkedFirst(Append(queue, ev), Hero)
          /\ \A k : ~(ev.kind = k /\ ev.mob = Hero) => Own(Append(queue, ev), k, Hero) = Own(queue, k, Hero)
      BY <1>1, <2>2, <3>1, OwnAppend
    <3> QED BY <2>2, <3>2
  <2> QED BY <2>1, <2>2
<1>4. /\ HeroWalks'
      /\ Steps("Walked")' = Steps("Walked") /\ Steps("TryWalk")' = Steps("TryWalk")
  BY <1>1, <1>2, <1>3, WalksKept
<1>5. Phase' = Phase
  BY <1>1, <1>2 DEF Phase
<1>6. InSight'
  BY <1>1, <1>4, <1>5, SightKept
<1> QED BY <1>4, <1>6

\* A removal does not concern the player.
LEMMA HandleRemoveSight ==
  ASSUME GameInv, HeroWalks, InSight, HandleRemove
  PROVE  HeroWalks' /\ InSight'
<1>1. Handle("Remove") /\ queue' = queue /\ clock' = clock /\ view' = view /\ store' = store
  BY DEF HandleRemove
<1>2. world' = world
  BY <1>1 DEF Handle
<1>3. Hero' = Hero /\ PlayerMob' = PlayerMob
  BY <1>1, <1>2 DEF Hero, PlayerMob
<1> QED BY <1>1, <1>3, HandledSight

\* Neither does a death that does not shake the view.
LEMMA HandleKillMobSight ==
  ASSUME GameInv, HeroWalks, InSight, HandleKillMob, ~view'.shake
  PROVE  HeroWalks' /\ InSight'
<1> DEFINE mob == Get(store.mobs, Head(batch).who)
           seen == IsOnScreen(mob.position)
<1>1. /\ Handle("KillMob") /\ queue' = Append(queue, EvRemove(mob.entity))
      /\ view' = IF seen THEN StartShake(view, 2) ELSE view
      /\ clock' = IF seen THEN [clock EXCEPT !.freeze = 1] ELSE clock
  BY DEF HandleKillMob, QueueEvent
<1>2. ~seen
  <2>1. StartShake(view, 2).shake = TRUE
    BY DEF StartShake, InSight, CameraType
  <2> QED BY <1>1, <2>1
<1>3. view' = view /\ clock' = clock
  BY <1>1, <1>2
<1>4. Hero' = Hero /\ PlayerMob' = PlayerMob
  <2>1. pc = "events" /\ Head(batch).kind = "KillMob"
    BY <1>1 DEF Handle
  <2>2. ~(PlayerWaits \/ PlayerActs \/ HandleTryWalk)
    BY <2>1 DEF PlayerWaits, PlayerActs, HandleTryWalk, Handle
  <2>3. Next
    BY DEF Next, Events
  <2> QED BY <2>2, <2>3, HeroStays
<1>5. EvRemove(mob.entity) \in Event /\ EvRemove(mob.entity).kind = "Remove"
  <2>1. mob.entity \in Nat
    <3>1. mob \in Mob
      BY StoreElements, Nulls DEF GameInv
    <3> QED BY <3>1 DEF Mob
  <2> HIDE DEF mob
  <2> QED BY <2>1, EventTypes DEF EvRemove
<1> HIDE DEF mob, seen
<1>6. \E ev \in Event : /\ queue' = Append(queue, ev) /\ ev.kind # "TryWalk"
                        /\ ~(ev.kind = "Walked" /\ ev.mob = Hero)
  BY <1>1, <1>5
<1> QED BY <1>1, <1>3, <1>4, <1>6, HandledSight

\* Neither does an attack that does not shake the view.
LEMMA HandleAttackSight ==
  ASSUME GameInv, HeroWalks, InSight, HandleAttack, ~view'.shake
  PROVE  HeroWalks' /\ InSight'
<1>1. Handle("Attack") /\ clock' = clock /\ (view' = view \/ view' = StartShake(view, 1))
  BY DEF HandleAttack
<1>2. view' = view
  <2>1. StartShake(view, 1).shake = TRUE
    BY DEF StartShake, InSight, CameraType
  <2> QED BY <1>1, <2>1
<1>3. Hero' = Hero /\ PlayerMob' = PlayerMob
  <2>1. pc = "events" /\ Head(batch).kind = "Attack"
    BY <1>1 DEF Handle
  <2>2. ~(PlayerWaits \/ PlayerActs \/ HandleTryWalk)
    BY <2>1 DEF PlayerWaits, PlayerActs, HandleTryWalk, Handle
  <2>3. Next
    BY DEF Next, Events
  <2> QED BY <2>2, <2>3, HeroStays
<1>4. \/ queue' = queue
      \/ \E ev \in Event : /\ queue' = Append(queue, ev) /\ ev.kind # "TryWalk"
                           /\ ~(ev.kind = "Walked" /\ ev.mob = Hero)
  BY AttackSteps
<1> QED BY <1>1, <1>2, <1>3, <1>4, HandledSight

\* The camera sees the last step of the player, and takes up its target.
LEMMA HandleWalkedSight ==
  ASSUME GameInv, HeroWalks, InSight, HandleWalked
  PROVE  HeroWalks' /\ InSight'
<1> DEFINE ev == Head(batch)
           px == Across(Steps("Walked"))
           py == Upwards(Steps("Walked"))
           p == PlayerMob.position
           t == Time
           w == Tracked(world.window, view, p)
<1>1. /\ Handle("Walked") /\ queue' = queue /\ clock' = clock /\ store' = store
      /\ view' = IF ev.mob = Hero THEN Tracked(world.window, view, ev.to) ELSE view
  BY DEF HandleWalked, Hero
<1>2. /\ ev \in Event /\ ev.kind = "Walked" /\ batch # <<>> /\ batch' = Tail(batch)
      /\ ToSet(batch) = {ev} \cup ToSet(batch')
      /\ pc = "events" /\ pc' = "events" /\ world' = world
      /\ queue \in Seq(Event) /\ batch \in Seq(Event)
  BY <1>1, BatchTail DEF GameInv, Typed
<1>3. Hero' = Hero /\ PlayerMob' = PlayerMob
  BY <1>1, <1>2 DEF Hero, PlayerMob
<1>4. CASE ev.mob # Hero
  BY <1>1, <1>3, <1>4, HandledSight
<1>5. CASE ev.mob = Hero
  <2>1. WalkedFirst(batch, Hero)
    BY DEF HeroWalks
  <2>2. /\ WalkedFirst(batch', Hero) /\ Own(batch', "Walked", Hero) = {}
        /\ Own(batch', "TryWalk", Hero) = Own(batch, "TryWalk", Hero)
    BY <1>2, <1>5, <2>1, OwnTail
  <2>3. ev \in Own(batch, "Walked", Hero)
    BY <1>2, <1>5 DEF Own
  <2>4. Own(queue, "Walked", Hero) = {}
    BY <1>2, <2>3 DEF HeroWalks
  <2>5. Steps("Walked") = {ev}
    <3>1. Own(batch, "Walked", Hero) \subseteq {ev} \cup Own(batch', "Walked", Hero)
      BY <1>2 DEF Own
    <3> QED BY <2>2, <2>3, <2>4, <3>1 DEF Steps
  <2>6. Steps("Walked")' = {} /\ Steps("TryWalk")' = Steps("TryWalk")
    BY <1>1, <1>3, <2>2, <2>4 DEF Steps
  <2>7. HeroWalks'
    <3>1. \A e \in (Steps("TryWalk") \cup Steps("Walked"))' : OneStep(e)
      BY <2>6 DEF HeroWalks
    <3>2. Own(queue', "Walked", Hero') = {}
      BY <1>1, <1>3, <2>4
    <3>3. WalkedFirst(queue', Hero')
      BY <1>1, <1>3 DEF HeroWalks
    <3> QED BY <1>3, <2>2, <2>6, <3>1, <3>2, <3>3 DEF HeroWalks
  <2>8. ev.to = p /\ OneStep(ev)
    BY <2>5 DEF HeroWalks
  <2>9. view' = w
    BY <1>1, <1>5, <2>8
  <2>10. px \in {0, 1} /\ py \in {0, 1} /\ px + py = 1
    <3>1. px = (IF ev.from.x # ev.to.x THEN 1 ELSE 0) /\ py = (IF ev.from.y # ev.to.y THEN 1 ELSE 0)
      BY <2>5 DEF Across, Upwards
    <3>2. ev.from \in Coord
      BY <1>2 DEF Event
    <3>3. PICK a \in Arrow : ev.to = Plus(ev.from, a)
      BY <2>8 DEF OneStep
    <3>4. (a.x = 0 /\ a.y \in {-1, 1}) \/ (a.y = 0 /\ a.x \in {-1, 1})
      BY DEF Arrow, Vec
    <3>5. ev.to.x = ev.from.x + a.x /\ ev.to.y = ev.from.y + a.y
      BY <3>3 DEF Plus, Vec
    <3>6. ev.from.x \in Int /\ ev.from.y \in Int
      BY <3>2 DEF Coord
    <3> HIDE DEF ev, px, py
    <3> QED BY <3>1, <3>4, <3>5, <3>6
  <2>11. /\ view \in CameraType /\ world.window \in WindowType /\ p \in Coord /\ t \in 0 .. 29
         /\ Sight("acted", world.window, view, p, t, px, py) /\ ~view.shake
         /\ clock.subTick = 2 /\ Time <= 29
    BY <1>2, <2>3, SightParts DEF InSight, Phase
  <2>12. Time' = t /\ Across(Steps("Walked"))' = 0 /\ Upwards(Steps("Walked"))' = 0 /\ p = PlayerMob.position'
    BY <1>3, <2>6 DEF Time, Across, Upwards
  <2>13. Phase' = IF Own(batch', "TryWalk", Hero) # {} THEN "tracked" ELSE "over"
    BY <1>2, <1>3, <2>2 DEF Phase
  <2> HIDE DEF px, py, p, t, w
  <2>14. w \in CameraType /\ ~w.shake /\ w.tick = view.tick /\ Sight("tracked", world.window, w, p, t, 0, 0)
    BY <2>10, <2>11, SightTracked DEF w
  <2>15. t \in 0 .. 29 /\ t <= t
    BY <2>11
  <2>16. Sight("over", world.window, w, p, t, 0, 0)
    BY <2>11, <2>14, <2>15, SightRests
  <2>17. Sight(Phase', world.window, w, p, t, 0, 0)
    BY <2>13, <2>14, <2>16
  <2>18. Sight(Phase, world.window, view, PlayerMob.position, Time, Across(Steps("Walked")), Upwards(Steps("Walked")))'
    BY <1>2, <2>9, <2>12, <2>17
  <2>19. Time' <= 29
    BY <2>11, <2>12 DEF t
  <2> QED BY <1>1, <1>2, <2>7, <2>9, <2>11, <2>14, <2>18, <2>19 DEF InSight
<1> QED BY <1>4, <1>5

\* A step that is tried is either not taken, or goes to the cell it leads to.
LEMMA HandleTryWalkSight ==
  ASSUME GameInv, HeroWalks, InSight, HandleTryWalk
  PROVE  HeroWalks' /\ InSight'
<1> DEFINE ev == Head(batch)
           p == PlayerMob.position
           t == Time
<1>1. Handle("TryWalk") /\ clock' = clock /\ view' = view
  BY DEF HandleTryWalk
<1>2. /\ ev \in Event /\ ev.kind = "TryWalk" /\ batch # <<>> /\ batch' = Tail(batch)
      /\ ToSet(batch) = {ev} \cup ToSet(batch')
      /\ pc = "events" /\ pc' = "events" /\ world' = world
      /\ queue \in Seq(Event) /\ batch \in Seq(Event)
      /\ \A e \in ToSet(queue) : e.kind # "TryWalk"
  BY <1>1, BatchTail DEF GameInv, Typed
<1>3. Hero' = Hero /\ Hero \in Live(store.mobs)
      /\ PlayerMob = Get(store.mobs, Hero) /\ PlayerMob' = Get(store'.mobs, Hero)
  <2>1. Hero' = Hero
    BY HeroStays DEF Next, Events
  <2> QED BY <2>1 DEF GameInv, PlayerLives, PlayerMob, Hero
<1>4. /\ \A k \in Live(store.mobs) : k # ev.mob => Get(store'.mobs, k).position = Get(store.mobs, k).position
      /\ \A k \in Live(store.mobs) : Get(store'.mobs, k).tick = Get(store.mobs, k).tick
      /\ \/ store' = store /\ queue' = queue
         \/ /\ Get(store'.mobs, ev.mob).position = ev.to
            /\ \E x \in Event :
                 /\ queue' = Append(queue, x) /\ x.kind = "Walked"
                 /\ x.mob = ev.mob /\ x.from = ev.from /\ x.to = ev.to
  BY TryWalkSteps
<1>5. PlayerMob'.tick = PlayerMob.tick
  BY <1>3, <1>4
<1>6. CASE ev.mob # Hero
  <2>1. PlayerMob'.position = PlayerMob.position
    BY <1>3, <1>4, <1>6
  <2>2. \/ queue' = queue
        \/ \E x \in Event : /\ queue' = Append(queue, x) /\ x.kind # "TryWalk"
                            /\ ~(x.kind = "Walked" /\ x.mob = Hero)
    BY <1>4, <1>6
  <2> QED BY <1>1, <1>3, <1>5, <1>6, <2>1, <2>2, HandledSight
<1>7. CASE ev.mob = Hero
  <2>1. WalkedFirst(batch, Hero)
    BY DEF HeroWalks
  <2>2. /\ WalkedFirst(batch', Hero) /\ Own(batch', "Walked", Hero) = {}
        /\ Own(batch, "Walked", Hero) = {}
    <3>1. /\ WalkedFirst(Tail(batch), Hero) /\ Own(Tail(batch), "Walked", Hero) = {}
          /\ Own(Tail(batch), "Walked", Hero) = Own(batch, "Walked", Hero)
      BY <1>2, <1>7, <2>1, OwnTail
    <3> QED BY <1>2, <3>1
  <2>3. ev \in Own(batch, "TryWalk", Hero)
    BY <1>2, <1>7 DEF Own
  <2>4. Own(batch', "TryWalk", Hero) = {}
    <3>1. Orderly(batch)
      BY DEF GameInv, EventOrder
    <3>2. \A e \in ToSet(batch') : e.kind = "TryWalk" => e.mob # ev.mob
      BY <1>2, <3>1, OrderlyTail
    <3> QED BY <1>7, <3>2 DEF Own
  <2>5. Own(queue, "Walked", Hero) = {} /\ Own(queue, "TryWalk", Hero) = {} /\ WalkedFirst(queue, Hero)
    BY <1>2, <2>3 DEF HeroWalks, Own
  <2>6. Steps("Walked") = {} /\ ev \in Steps("TryWalk")
    BY <2>2, <2>3, <2>5 DEF Steps
  <2>7. /\ view \in CameraType /\ world.window \in WindowType /\ p \in Coord
        /\ t \in 0 .. 29 /\ t = PlayerMob.tick + 15 /\ PlayerMob.tick \in 0 .. 29
        /\ Sight("tracked", world.window, view, p, t, 0, 0) /\ ~view.shake
        /\ clock.subTick = 2 /\ Time <= 29
    <3>1. Phase = "tracked" /\ Across(Steps("Walked")) = 0 /\ Upwards(Steps("Walked")) = 0
      BY <1>2, <2>2, <2>3, <2>6 DEF Phase, Across, Upwards
    <3>2. t = PlayerMob.tick + 15
      BY <2>6 DEF Time
    <3> QED BY <1>2, <3>1, <3>2, SightParts DEF InSight
  <2>8. Phase' = "over"
    BY <1>2, <1>3, <2>2, <2>4 DEF Phase
  <2>9. CASE store' = store /\ queue' = queue
    <3>1. Steps("Walked")' = {} /\ Steps("TryWalk")' = {}
      BY <1>3, <2>2, <2>4, <2>5, <2>9 DEF Steps
    <3>2. HeroWalks'
      BY <1>3, <2>2, <2>5, <2>9, <3>1 DEF HeroWalks
    <3>3. PlayerMob' = PlayerMob
      BY <1>3, <2>9
    <3>4. /\ Time' = PlayerMob.tick /\ Across(Steps("Walked"))' = 0 /\ Upwards(Steps("Walked"))' = 0
          /\ p = PlayerMob.position'
      BY <2>7, <3>1, <3>3 DEF Time, Across, Upwards
    <3> DEFINE u == PlayerMob.tick
    <3> HIDE DEF p, t, u
    <3>5. u \in 0 .. 29 /\ u <= t
      BY <2>7 DEF u
    <3>6. Sight("over", world.window, view, p, u, 0, 0)
      BY <2>7, <3>5, SightRests
    <3>7. Sight(Phase, world.window, view, PlayerMob.position, Time, Across(Steps("Walked")), Upwards(Steps("Walked")))'
      BY <1>1, <1>2, <2>8, <3>4, <3>6 DEF u
    <3>8. Time' <= 29
      BY <3>4, <3>5 DEF u
    <3> QED BY <1>1, <1>2, <2>7, <3>2, <3>7, <3>8 DEF InSight
  <2>10. ASSUME NEW x \in Event, queue' = Append(queue, x), x.kind = "Walked",
                x.mob = ev.mob, x.from = ev.from, x.to = ev.to, Get(store'.mobs, ev.mob).position = ev.to
         PROVE  HeroWalks' /\ InSight'
    <3>1. PlayerMob'.position = ev.to
      BY <1>3, <1>7, <2>10
    <3>2. ev.from = p /\ OneStep(ev)
      <4>1. Decided(ev)
        BY <1>2 DEF GameInv, Decisions, Pending
      <4> QED BY <1>2, <1>3, <1>7, <2>6, <4>1 DEF Decided, HeroWalks
    <3>3. PICK a \in Arrow : ev.to = Plus(p, a)
      BY <3>2 DEF OneStep
    <3>4. /\ WalkedFirst(queue', Hero) /\ Own(queue', "Walked", Hero) = {x}
          /\ Own(queue', "TryWalk", Hero) = {}
      <4>1. /\ WalkedFirst(Append(queue, x), Hero)
            /\ \A k : ~(x.kind = k /\ x.mob = Hero) => Own(Append(queue, x), k, Hero) = Own(queue, k, Hero)
            /\ \A k : x.kind = k /\ x.mob = Hero => Own(Append(queue, x), k, Hero) = Own(queue, k, Hero) \cup {x}
        BY <1>2, <2>5, OwnAppend
      <4> QED BY <1>7, <2>5, <2>10, <4>1
    <3>5. Steps("Walked")' = {x} /\ Steps("TryWalk")' = {}
      BY <1>3, <2>2, <2>4, <3>4 DEF Steps
    <3>6. HeroWalks'
      <4>1. OneStep(x) /\ x.to = PlayerMob'.position
        BY <2>10, <3>1, <3>2 DEF OneStep
      <4> QED BY <1>3, <2>2, <2>4, <3>4, <3>5, <4>1 DEF HeroWalks
    <3> DEFINE b == Across(Steps("Walked"))'
               c == Upwards(Steps("Walked"))'
               u == t - 15
    <3>7. b \in {0, 1} /\ c \in {0, 1} /\ (b = 1 <=> a.x # 0) /\ (c = 1 <=> a.y # 0)
      <4>1. b = (IF x.from.x # x.to.x THEN 1 ELSE 0) /\ c = (IF x.from.y # x.to.y THEN 1 ELSE 0)
        BY <3>5 DEF Across, Upwards
      <4>2. x.to = Plus(p, a) /\ x.from = p
        BY <2>10, <3>2, <3>3
      <4>3. x.to.x = p.x + a.x /\ x.to.y = p.y + a.y /\ p.x \in Int /\ p.y \in Int /\ a.x \in Int /\ a.y \in Int
        BY <2>7, <4>2 DEF Plus, Vec, Coord, Arrow
      <4>4. x.from.x = p.x /\ x.from.y = p.y
        BY <4>2
      <4> HIDE DEF b, c, p
      <4> QED BY <4>1, <4>3, <4>4
    <3>8. t \in 15 .. 29 /\ u = PlayerMob.tick
      <4> DEFINE k == PlayerMob.tick
      <4>1. t = k + 15 /\ k \in 0 .. 29 /\ t \in 0 .. 29
        BY <2>7
      <4> HIDE DEF t, k
      <4>2. t \in 15 .. 29 /\ t - 15 = k
        BY <4>1
      <4> QED BY <4>2 DEF k
    <3>9. Time' = u
      <4> HIDE DEF t
      <4>1. Time' = PlayerMob'.tick + 0
        BY <3>5 DEF Time
      <4> QED BY <1>5, <2>7, <3>8, <4>1
    <3> HIDE DEF p, t, b, c, u
    <3>10. Plus(p, a) \in Coord /\ Sight("over", world.window, view, Plus(p, a), t - 15, b, c)
      BY <2>7, <3>7, <3>8, SightSteps
    <3>11. Sight("over", world.window, view, PlayerMob'.position, Time', b, c)
      BY <3>1, <3>3, <3>9, <3>10 DEF u
    <3>12. Sight(Phase, world.window, view, PlayerMob.position, Time, Across(Steps("Walked")), Upwards(Steps("Walked")))'
      BY <1>1, <1>2, <2>8, <3>11 DEF b, c
    <3>13. Time' <= 29
      BY <2>7, <3>8, <3>9
    <3> QED BY <1>1, <1>2, <2>7, <3>6, <3>12, <3>13 DEF InSight
  <2> QED BY <1>4, <2>9, <2>10
<1> QED BY <1>6, <1>7

\* The entities that go do not concern the player.
LEMMA RemoveEntitySight ==
  ASSUME GameInv, HeroWalks, InSight, RemoveEntity
  PROVE  HeroWalks' /\ InSight'
<1> DEFINE e == Get(store.entities, Head(remove))
           gone == ChildrenRemoved(e)
<1>1. /\ pc = "events" /\ pc' = pc /\ batch = <<>> /\ batch' = batch /\ clock' = clock /\ view' = view
      /\ queue \in Seq(Event) /\ batch \in Seq(Event)
  BY DEF RemoveEntity, GameInv, Typed
<1>2. world' = world /\ Hero' = Hero /\ PlayerMob' = PlayerMob
  <2>1. ~(PlayerWaits \/ PlayerActs \/ HandleTryWalk)
    BY <1>1 DEF PlayerWaits, PlayerActs, HandleTryWalk, Handle
  <2> QED BY <2>1, HeroStays DEF Next
<1>3. queue' = queue \/ (e \in Entity /\ queue' = queue \o gone)
  BY RemoveSteps
<1>4. /\ WalkedFirst(queue', Hero)
      /\ \A kind \in {"Walked", "TryWalk"} : Own(queue', kind, Hero) = Own(queue, kind, Hero)
  <2>1. CASE queue' = queue
    BY <2>1 DEF HeroWalks
  <2>2. CASE e \in Entity /\ queue' = queue \o gone
    <3>1. gone \in Seq(Event) /\ \A x \in ToSet(gone) : x.kind = "Remove"
      <4>1. e.children \in Seq(Nat)
        BY <2>2 DEF Entity
      <4>2. \A i \in DOMAIN e.children : EvRemove(e.children[i]) \in Event /\ EvRemove(e.children[i]).kind = "Remove"
        BY <4>1, EventTypes DEF EvRemove
      <4>3. DOMAIN gone = 1 .. Len(e.children) /\ Len(e.children) \in Nat /\ DOMAIN gone = DOMAIN e.children
            /\ \A i \in DOMAIN gone : gone[i] = EvRemove(e.children[i])
        BY <4>1 DEF ChildrenRemoved
      <4>4. gone \in Seq(Event)
        BY <4>1, <4>2 DEF ChildrenRemoved
      <4> HIDE DEF gone, e
      <4> QED BY <4>2, <4>3, <4>4 DEF ToSet
    <3>2. WalkedFirst(queue, Hero)
      BY DEF HeroWalks
    <3> HIDE DEF gone, e
    <3>3. /\ WalkedFirst(queue \o gone, Hero)
          /\ \A kind \in {"Walked", "TryWalk"} : Own(queue \o gone, kind, Hero) = Own(queue, kind, Hero)
      BY <1>1, <3>1, <3>2, OwnConcat
    <3> QED BY <2>2, <3>3
  <2> QED BY <1>3, <2>1, <2>2
<1>5. WalkedFirst(batch', Hero)
  BY <1>1 DEF HeroWalks
<1>6. /\ HeroWalks'
      /\ Steps("Walked")' = Steps("Walked") /\ Steps("TryWalk")' = Steps("TryWalk")
  BY <1>1, <1>2, <1>4, <1>5, WalksKept
<1>7. Phase' = Phase
  BY <1>1, <1>2 DEF Phase
<1>8. InSight'
  BY <1>1, <1>2, <1>6, <1>7, SightKept
<1> QED BY <1>6, <1>8

\* The end of a tick leaves the player where it is.
LEMMA EndTickSight ==
  ASSUME GameInv, HeroWalks, InSight, EndTick
  PROVE  HeroWalks' /\ InSight'
<1>1. /\ pc = "events" /\ pc' = "frame" /\ batch = <<>> /\ batch' = batch /\ queue' = queue
      /\ clock' = clock /\ view' = view
  BY DEF EndTick
<1>2. world' = world /\ Hero' = Hero /\ PlayerMob' = PlayerMob
  <2>1. ~(PlayerWaits \/ PlayerActs \/ HandleTryWalk)
    BY <1>1 DEF PlayerWaits, PlayerActs, HandleTryWalk, Handle
  <2> QED BY <2>1, HeroStays DEF Next
<1>3. /\ HeroWalks'
      /\ Steps("Walked")' = Steps("Walked") /\ Steps("TryWalk")' = Steps("TryWalk")
  BY <1>1, <1>2, WalksKept DEF HeroWalks
<1>4. clock.subTick = 2
  BY <1>1 DEF InSight
<1>5. Phase = "over"
  BY <1>1, EmptySets DEF Phase, Own
<1>6. Phase' = "over"
  BY <1>1, <1>4 DEF Phase
<1>7. InSight'
  BY <1>1, <1>2, <1>3, <1>4, <1>5, <1>6, SightKept
<1> QED BY <1>3, <1>7

\* A step that changes nothing leaves the player in sight.
LEMMA StutterSight ==
  ASSUME HeroWalks, InSight, UNCHANGED vars
  PROVE  HeroWalks' /\ InSight'
<1>1. /\ pc' = pc /\ batch' = batch /\ queue' = queue /\ clock' = clock /\ view' = view
      /\ store' = store /\ world' = world
  BY DEF vars
<1>2. Hero' = Hero /\ PlayerMob' = PlayerMob
  BY <1>1 DEF Hero, PlayerMob
<1>3. /\ HeroWalks'
      /\ Steps("Walked")' = Steps("Walked") /\ Steps("TryWalk")' = Steps("TryWalk")
  BY <1>1, <1>2, WalksKept DEF HeroWalks
<1>4. Phase' = Phase
  BY <1>1, <1>2 DEF Phase
<1>5. InSight'
  BY <1>1, <1>2, <1>3, <1>4, SightKept
<1> QED BY <1>3, <1>5

\* As long as nothing shakes the view, every step leaves the player in sight.
LEMMA SightStep ==
  ASSUME GameInv, HeroWalks, InSight, [Next]_vars, ~view'.shake
  PROVE  HeroWalks' /\ InSight'
BY FrameSight, PlayerWaitsSight, PlayerActsSight, MobUpdatesSight, AgeEntitiesSight,
   HandleRemoveSight, HandleKillMobSight, HandleTryWalkSight, HandleWalkedSight, HandleAttackSight,
   RemoveEntitySight, EndTickSight, StutterSight DEF Next, Events

\* Who is in sight is on the screen.
LEMMA SightOnScreen ==
  ASSUME GameInv, InSight
  PROVE  IsOnScreen(PlayerMob.position)
<1> DEFINE px == Across(Steps("Walked"))
           py == Upwards(Steps("Walked"))
           p == PlayerMob.position
           t == Time
           phase == Phase
<1>1. /\ view \in CameraType /\ ~view.shake /\ world.window \in WindowType /\ p \in Coord
      /\ t \in 0 .. 29 /\ px \in {0, 1} /\ py \in {0, 1}
      /\ phase \in {"over", "moved", "acted", "tracked"}
      /\ Sight(phase, world.window, view, p, t, px, py)
  BY SightParts DEF InSight
<1> HIDE DEF p, t, px, py, phase
<1>2. OnScreen(world.window, view, p)
  BY <1>1, SightInside
<1> QED BY <1>2 DEF IsOnScreen, p

\* The camera never loses a player that does not fight, in any window of at
\* least 36 x 17 cells: its margins leave it the time to catch up, whatever
\* steps the player takes (updateCamera, updatePlayer, Game::update).
THEOREM Seeing ==
  ASSUME \A w \in Scenario : w.window \in WindowType
  PROVE  Spec => PlayerOnScreen
<1> DEFINE Quiet == ~view.shake
           Shown == IsOnScreen(PlayerMob.position)
           SightInv == HeroWalks /\ InSight
<1>1. Init => SightInv
  BY SightInit
<1>2. GameInv /\ SightInv /\ [Next]_vars /\ Quiet' => SightInv'
  BY SightStep
<1>3. GameInv /\ SightInv => Shown
  BY SightOnScreen
<1>4. PlayerOnScreen <=> ([]Quiet => []Shown)
  BY DEF PlayerOnScreen
<1> HIDE DEF Quiet, Shown, SightInv
<1> QED BY <1>1, <1>2, <1>3, <1>4, GameInvariant, PTL DEF Spec
=============================================================================
