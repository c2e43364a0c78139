-------------------------------- MODULE Game --------------------------------
(***************************************************************************)
(* The game of the mutate plugin's tutorial: one world, its mobs and the   *)
(* player, the loop that updates them, and the events that carry what      *)
(* happens from one part of an update to the next.                         *)
(*                                                                         *)
(* Game::update handles a tick of the world in phases, which pc names:     *)
(*   "frame"   between two calls of update                                 *)
(*   "player"  updatePlayer         "mobs"    MobSystem::update, mob turn  *)
(*   "age"     the other systems, the ages of the entities                 *)
(*   "events"  the events of this tick, in batch; queueEvent puts new ones *)
(*             in queue, the other of the two buffers of events_; then the *)
(*             entities in remove are taken away and sync() ends the tick  *)
(*                                                                         *)
(* Left out: colours, the tiles of the ground, the animation of sprites    *)
(* (Sprite.tla), where blood lands and flies, and the event EvSpawnMob,    *)
(* which nothing queues.                                                   *)
(***************************************************************************)
EXTENDS BufferedContainer, View

CONSTANTS
  Scenario,       \* the worlds: [bounds, window, mobs, keys], mobs a sequence of
                  \* types, keys the arrows the player uses
  EdgeMargin,     \* the distance from the edge mobs prefer; 6 in the code
  Stains, Drops,  \* how many of each one splatter has; 0 .. 29 and 10 .. 40
  TileLife, ParticleLife, BonesLife,   \* lives in ticks; 200-300, 6-12, 100-110
  MaxMobs,        \* mobs of a world, beside the player
  MaxSize         \* capacity of the buffer of added elements; 1024

ASSUME MobsAssumption == MaxMobs \in Nat /\ \A w \in Scenario : Len(w.mobs) <= MaxMobs
ASSUME LifeAssumption == {TileLife, ParticleLife, BonesLife} \subseteq Nat \ {0}

\* What one splatter adds, with the bones, fits into the buffer: at most
\* 29 + 40 + 1 of 1024 in the code.
ASSUME SplatterAssumption ==
  /\ Stains \subseteq Nat /\ Drops \subseteq Nat /\ MaxSize \in Nat
  /\ \A s \in Stains, d \in Drops : s + d + 1 <= MaxSize

VARIABLES
  store,          \* the containers entities, mobs, sprites and physics
  queue,          \* events_[eventsIndex_]
  batch,          \* what is left of the events this tick handles
  remove,         \* the local remove of update: entities to take away
  turn,           \* the mob whose turn it is in MobSystem::update
  pc,
  windowEvents,   \* windowEvents_
  clock,          \* subTick_ and freezeTimer
  view,           \* the camera, see View
  world           \* bounds, window, keys and the entity player: never changed

vars == <<store, queue, batch, remove, turn, pc, windowEvents, clock, view, world>>
-----------------------------------------------------------------------------
TicksPerAction == 15
SubTicksPerTick == 2

\* Unknown is the description of the null mob, sMobInfo.
MobDatabase ==
  [Rabbit     |-> [category |-> "Rabbit", health |-> 1, speed |-> 7, strength |-> 0],
   RabbitWere |-> [category |-> "Rabbit", health |-> 1, speed |-> 6, strength |-> 1],
   Snake      |-> [category |-> "Snake",  health |-> 1, speed |-> 5, strength |-> 0],
   OrcWeak    |-> [category |-> "Orc",    health |-> 5, speed |-> 3, strength |-> 3],
   OrcStrong  |-> [category |-> "Orc",    health |-> 6, speed |-> 2, strength |-> 5],
   Player     |-> [category |-> "Player", health |-> 5, speed |-> 6, strength |-> 3],
   Unknown    |-> [category |-> "Unknown", health |-> 0, speed |-> 4, strength |-> 0]]

Category(mob) == MobDatabase[mob.type].category

NullEntity ==
  [id |-> Invalid, parent |-> Invalid, children |-> <<>>, age |-> 0, life |-> -1,
   sprite |-> Invalid, mob |-> Invalid, physics |-> Invalid]
\* extras: extraSprite and extraSprite2, where the mob has them.
NullMob ==
  [id |-> Invalid, entity |-> Invalid, type |-> "Unknown", position |-> Origin,
   health |-> 0, tick |-> 0, dir |-> Vec(0, 1), extras |-> <<>>]
NullSprite == [id |-> Invalid, entity |-> Invalid, position |-> Origin]
NullPhysics == [id |-> Invalid, entity |-> Invalid]

EmptyStore ==
  [entities |-> EmptyContainer(NullEntity), mobs |-> EmptyContainer(NullMob),
   sprites |-> EmptyContainer(NullSprite), physics |-> EmptyContainer(NullPhysics)]

EvRemove(e)        == [kind |-> "Remove", entity |-> e]
EvKillMob(m)       == [kind |-> "KillMob", who |-> m]
EvTryWalk(m, p, q) == [kind |-> "TryWalk", mob |-> m, from |-> p, to |-> q]
EvWalked(m, p, q)  == [kind |-> "Walked", mob |-> m, from |-> p, to |-> q]
EvAttack(m, t)     == [kind |-> "Attack", mob |-> m, target |-> t]

\* Mutant of QueueEvent: the newest event first.
QueueFront(q, ev) == <<ev>> \o q

QueueEvent(q, ev) == Append(q, ev)

PlayerMob == Get(store.mobs, Get(store.entities, world.player).mob)
-----------------------------------------------------------------------------
(* Factories.                                                              *)

\* createSprite: an entity that is nothing but a sprite.
CreateSprite(s, p, life, parent) ==
  [s EXCEPT
     !.entities = Add(@, [NullEntity EXCEPT !.sprite = s.sprites.nextKey,
                                            !.life = life, !.parent = parent]),
     !.sprites = Add(@, [NullSprite EXCEPT !.entity = s.entities.nextKey, !.position = p])]

\* Where the additional pieces of a mob are, relative to it.
Pieces(mob) ==
  CASE Category(mob) = "Snake" -> <<mob.dir>>
    [] Category(mob) = "Orc"   -> <<Vec(-1, 1), Vec(1, 1)>>
    [] OTHER                   -> <<>>

CreateMob(s, type, p) ==
  LET e == s.entities.nextKey
      k == s.sprites.nextKey
      mob == [NullMob EXCEPT !.entity = e, !.type = type, !.position = p,
                             !.health = MobDatabase[type].health]
      pieces == Pieces(mob)
      body ==
        [s EXCEPT
           !.entities = Add(@, [NullEntity EXCEPT !.mob = s.mobs.nextKey, !.sprite = k,
                                  !.children = [i \in DOMAIN pieces |-> e + i]]),
           !.mobs = Add(@, [mob EXCEPT !.extras = [i \in DOMAIN pieces |-> k + i]]),
           !.sprites = Add(@, [NullSprite EXCEPT !.entity = e, !.position = p])]
      WithPiece(t, i) ==
        IF i \in DOMAIN pieces THEN CreateSprite(t, Plus(p, pieces[i]), -1, e) ELSE t
  IN  WithPiece(WithPiece(body, 1), 2)

\* A drop of blood flies: its entity has a physics component as well.
CreateDrop(s, p) ==
  LET t == CreateSprite(s, p, ParticleLife, Invalid)
      e == s.entities.nextKey
  IN  [t EXCEPT
         !.entities = Put(@, e, [Get(@, e) EXCEPT !.physics = s.physics.nextKey]),
         !.physics = Add(@, [NullPhysics EXCEPT !.entity = e])]

CreateBloodSplatter(s, p, tiles, drops) ==
  LET after[n \in 0 .. tiles + drops] ==
        IF n = 0 THEN s
        ELSE IF n <= tiles THEN CreateSprite(after[n - 1], p, TileLife, Invalid)
        ELSE CreateDrop(after[n - 1], p)
  IN  IF Len(s.sprites.added) >= MaxSize \div 2 THEN s ELSE after[tiles + drops]

CreateBones(s, p) == CreateSprite(s, p, BonesLife, Invalid)

SyncAll(s) ==
  [entities |-> Synced(s.entities), mobs |-> Synced(s.mobs),
   sprites |-> Synced(s.sprites), physics |-> Synced(s.physics)]
-----------------------------------------------------------------------------
(* Game::setup: the player in the middle, the mobs anywhere, even on top   *)
(* of each other.                                                          *)

Places(bounds) ==
  {p \in [x : bounds.left .. bounds.left + bounds.width - 1,
          y : bounds.top - bounds.height + 1 .. bounds.top] : RectContains(bounds, p)}

Populated(w, place) ==
  LET after[n \in 0 .. Len(w.mobs)] ==
        IF n = 0 THEN CreateMob(EmptyStore, "Player", Origin)
        ELSE CreateMob(after[n - 1], w.mobs[n], place[n])
  IN  after[Len(w.mobs)]

Arrow == {Vec(0, 1), Vec(0, -1), Vec(-1, 0), Vec(1, 0)}

\* The mobs that setup() may create are those of the database, the player's
\* arrows are those of updatePlayer.
ASSUME ScenarioAssumption ==
  \A w \in Scenario :
    /\ w.bounds \in [left : Int, top : Int, width : Nat, height : Nat]
    /\ w.mobs \in Seq(DOMAIN MobDatabase \ {"Player", "Unknown"})
    /\ w.keys \subseteq Arrow

Init ==
  \E w \in Scenario : \E place \in [DOMAIN w.mobs -> Places(w.bounds)] :
    /\ world = [bounds |-> w.bounds, window |-> w.window, player |-> 1,
                keys |-> w.keys]
    /\ store = SyncAll(Populated(w, place))
    /\ view = InitView(Origin)
    /\ clock = [subTick |-> 0, freeze |-> 0]
    /\ queue = <<>> /\ batch = <<>> /\ remove = <<>> /\ windowEvents = <<>>
    /\ turn = 1 /\ pc = "frame"
-----------------------------------------------------------------------------
(* A frame: the input, the camera and, every other time, a tick.           *)

\* handleInput: one move of the player is kept, later ones are dropped.
HandleInput(input) == windowEvents' = IF windowEvents = <<>> THEN input ELSE windowEvents

\* A freeze of one tick ends before it is looked at, see the README.
Thawed == [subTick |-> SubTicksPerTick,
           freeze |-> IF clock.freeze > 0 THEN clock.freeze - 1 ELSE 0]

Frame ==
  /\ pc = "frame"
  /\ \E input \in {<<>>} \cup {<<a>> : a \in world.keys} : HandleInput(input)
  /\ view' \in CameraUpdates(view)
  /\ IF clock.subTick - 1 > 0
       THEN clock' = [clock EXCEPT !.subTick = @ - 1] /\ UNCHANGED <<pc, batch, queue>>
       ELSE /\ clock' = Thawed
            /\ IF Thawed.freeze = 0
                 THEN pc' = "player" /\ UNCHANGED <<batch, queue>>
                 ELSE pc' = "events" /\ batch' = queue /\ queue' = <<>>
  /\ UNCHANGED <<store, remove, turn, world>>
-----------------------------------------------------------------------------
(* The world: the player, the mobs, the other systems and the ages.        *)

\* Mutants of Rested: no limit, and one below what an action takes.
RestedUnlimited(mob) == mob.tick + MobDatabase[mob.type].speed
RestedTooLittle(mob) ==
  LET tick == mob.tick + MobDatabase[mob.type].speed
  IN  IF tick < TicksPerAction THEN tick ELSE TicksPerAction - 1

Rested(mob) ==
  LET tick == mob.tick + MobDatabase[mob.type].speed
  IN  IF tick < 2 * TicksPerAction THEN tick ELSE 2 * TicksPerAction - 1

\* The first other mob at p, in the order of mobs.values().
MobsAt(p, self) == {i \in DOMAIN store.mobs.values :
                      store.mobs.values[i].id # self /\ store.mobs.values[i].position = p}
FirstMobAt(p, self) ==
  store.mobs.values[CHOOSE i \in MobsAt(p, self) : \A j \in MobsAt(p, self) : i <= j].id

PlayerTicks(mob, tick) == store' = [store EXCEPT !.mobs = Put(@, mob.id, [mob EXCEPT !.tick = tick])]

PlayerWaits ==
  /\ pc = "player"
  /\ windowEvents = <<>> \/ Rested(PlayerMob) < TicksPerAction
  /\ PlayerTicks(PlayerMob, Rested(PlayerMob))
  /\ pc' = "mobs" /\ turn' = 1
  /\ UNCHANGED <<queue, batch, remove, windowEvents, clock, view, world>>

PlayerActs ==
  /\ pc = "player"
  /\ windowEvents # <<>> /\ Rested(PlayerMob) >= TicksPerAction
  /\ LET mob == PlayerMob
         to  == Plus(mob.position, Head(windowEvents))
     IN  /\ PlayerTicks(mob, Rested(mob) - TicksPerAction)
         /\ queue' = QueueEvent(queue, 
                      IF MobsAt(to, mob.id) # {} THEN EvAttack(mob.id, FirstMobAt(to, mob.id))
                                                 ELSE EvTryWalk(mob.id, mob.position, to))
  /\ windowEvents' = Tail(windowEvents)
  /\ pc' = "mobs" /\ turn' = 1
  /\ UNCHANGED <<batch, remove, clock, view, world>>

\* dirToNearestEdge: away from an edge that is too near.
Inwards(p) ==
  LET b == world.bounds
  IN  IF p.y > b.top - EdgeMargin THEN Vec(0, -1)
      ELSE IF p.y < b.top - b.height + EdgeMargin THEN Vec(0, 1)
      ELSE IF p.x < b.left + EdgeMargin THEN Vec(1, 0)
      ELSE IF p.x > b.left + b.width - EdgeMargin THEN Vec(-1, 0)
      ELSE Origin

\* What a mob decides: where it looks, and at most one step to try.
Stay(mob) == [dir |-> mob.dir, walk |-> <<>>]
Walk(mob, d) == [dir |-> mob.dir, walk |-> <<d>>]

RabbitMoves(mob) ==
  {Stay(mob)} \cup
  {Walk(mob, d) : d \in IF Inwards(mob.position) # Origin THEN {Inwards(mob.position)}
                        ELSE {Vec(i, j) : i, j \in -1 .. 1}}

\* A snake either turns or slides on.
SnakeMoves(mob) ==
  {Walk(mob, mob.dir)} \cup
  {[dir |-> IF Inwards(mob.position) # Origin THEN Inwards(mob.position) ELSE d,
    walk |-> <<>>] : d \in {a \in Arrow : (a.x = 0) = (mob.dir.x # 0)}}

OrcMoves(mob) ==
  IF Inwards(mob.position) # Origin THEN {Walk(mob, Inwards(mob.position))}
  ELSE {Stay(mob)} \cup {Walk(mob, d) : d \in Arrow}

Moves(mob) ==
  CASE Category(mob) = "Rabbit" -> RabbitMoves(mob)
    [] Category(mob) = "Snake"  -> SnakeMoves(mob)
    [] Category(mob) = "Orc"    -> OrcMoves(mob)
    [] OTHER                    -> {Stay(mob)}

\* One iteration of MobSystem::update.
MobUpdates ==
  /\ pc = "mobs"
  /\ LET mob == store.mobs.values[turn]
         Becomes(new) == store' = [store EXCEPT !.mobs.values[turn] = new]
     IN  IF Category(mob) = "Player" THEN UNCHANGED <<store, queue>>
         ELSE IF Rested(mob) < TicksPerAction
                THEN Becomes([mob EXCEPT !.tick = Rested(mob)]) /\ UNCHANGED queue
         ELSE \E move \in Moves(mob) :
                /\ Becomes([mob EXCEPT !.tick = Rested(mob) - TicksPerAction, !.dir = move.dir])
                /\ queue' = IF move.walk = <<>> THEN queue
                            ELSE QueueEvent(queue, EvTryWalk(mob.id, mob.position,
                                              Plus(mob.position, Head(move.walk))))
  /\ IF turn = Len(store.mobs.values) THEN turn' = 1 /\ pc' = "age"
     ELSE turn' = turn + 1 /\ UNCHANGED pc
  /\ UNCHANGED <<batch, remove, windowEvents, clock, view, world>>

\* An age is only kept where a life ends.
Older(e) == IF e.life > 0 THEN [e EXCEPT !.age = @ + 1] ELSE e

\* Mutant of Expired: a life of -1 ends at once.
ExpiredAnyLife(e) == e.age >= e.life

Expired(e) == e.life > 0 /\ e.age >= e.life

\* The events of q, then the removal of those whose life is over.
WithExpired(q, entities) ==
  LET after[n \in 0 .. Len(entities)] ==
        IF n = 0 THEN q
        ELSE IF Expired(entities[n]) THEN QueueEvent(after[n - 1], EvRemove(entities[n].id))
        ELSE after[n - 1]
  IN  after[Len(entities)]

\* The ages, and the exchange of the two buffers of events.
AgeEntities ==
  /\ pc = "age"
  /\ LET aged == [i \in DOMAIN store.entities.values |-> Older(store.entities.values[i])]
     IN  /\ store' = [store EXCEPT !.entities.values = aged]
         /\ batch' = WithExpired(queue, aged)
  /\ queue' = <<>>
  /\ pc' = "events"
  /\ UNCHANGED <<remove, turn, windowEvents, clock, view, world>>
-----------------------------------------------------------------------------
(* Events: what update() does with each kind, then MobSystem::handleEvent. *)

Handle(kind) ==
  /\ pc = "events"
  /\ batch # <<>> /\ Head(batch).kind = kind
  /\ batch' = Tail(batch)
  /\ UNCHANGED <<turn, pc, windowEvents, world>>

\* An entity goes with its components, its children follow in the next tick.
RemoveComponent(c, k) == IF k = Invalid THEN c ELSE RemoveLater(c, k)

Without(s, e) ==
  [entities |-> RemoveLater(Put(s.entities, e.id, [e EXCEPT !.children = <<>>]), e.id),
   mobs     |-> RemoveComponent(s.mobs, e.mob),
   sprites  |-> RemoveComponent(s.sprites, e.sprite),
   physics  |-> RemoveComponent(s.physics, e.physics)]

\* Mutant of HandleRemove: while other events of the tick still wait.
HandleRemoveAtOnce ==
  /\ Handle("Remove")
  /\ LET e == Get(store.entities, Head(batch).entity)
     IN  store' = IF e.id = Invalid THEN store ELSE Without(store, e)
  /\ UNCHANGED <<remove, queue, clock, view>>

HandleRemove ==
  /\ Handle("Remove")
  /\ remove' = Append(remove, Head(batch).entity)
  /\ UNCHANGED <<store, queue, clock, view>>

IsOnScreen(p) == OnScreen(world.window, view, p)

HandleKillMob ==
  /\ Handle("KillMob")
  /\ LET mob == Get(store.mobs, Head(batch).who)
         seen == IsOnScreen(mob.position)
     IN  /\ queue' = QueueEvent(queue, EvRemove(mob.entity))
         /\ view' = IF seen THEN StartShake(view, 2) ELSE view
         /\ clock' = IF seen THEN [clock EXCEPT !.freeze = 1] ELSE clock
         /\ \E tiles \in Stains, drops \in Drops :
              store' = CreateBones(CreateBloodSplatter(store, mob.position, tiles, drops),
                                   mob.position)
  /\ UNCHANGED remove

\* Mutant of Blocked: only the edge of the world counts.
BlockedByEdge(mob, p) == ~RectContains(world.bounds, p)

Blocked(mob, p) == MobsAt(p, mob.id) # {} \/ ~RectContains(world.bounds, p)

MoveSprite(sprites, k, p) == Put(sprites, k, [Get(sprites, k) EXCEPT !.position = p])

\* Mutant of Placed: the additional pieces stay behind.
PlacedBodyOnly(sprites, mob) ==
  MoveSprite(sprites, Get(store.entities, mob.entity).sprite, mob.position)

\* The sprites of a mob move with it.
Placed(sprites, mob) ==
  LET pieces == Pieces(mob)
      body == MoveSprite(sprites, Get(store.entities, mob.entity).sprite, mob.position)
      WithPiece(s, i) ==
        IF i \in DOMAIN pieces
          THEN MoveSprite(s, mob.extras[i], Plus(mob.position, pieces[i])) ELSE s
  IN  WithPiece(WithPiece(body, 1), 2)

HandleTryWalk ==
  /\ Handle("TryWalk")
  /\ LET ev == Head(batch)
         mob == Get(store.mobs, ev.mob)
         moved == [mob EXCEPT !.position = ev.to]
     IN  IF Blocked(mob, ev.to) THEN UNCHANGED <<store, queue>>
         ELSE /\ store' = [store EXCEPT !.mobs = Put(@, ev.mob, moved),
                                        !.sprites = Placed(@, moved)]
              /\ queue' = QueueEvent(queue, EvWalked(mob.id, ev.from, ev.to))
  /\ UNCHANGED <<remove, clock, view>>

HandleWalked ==
  /\ Handle("Walked")
  /\ view' = IF Head(batch).mob = Get(store.entities, world.player).mob
               THEN Tracked(world.window, view, Head(batch).to) ELSE view
  /\ UNCHANGED <<store, queue, remove, clock>>

HandleAttack ==
  /\ Handle("Attack")
  /\ LET mob == Get(store.mobs, Head(batch).mob)
         target == Get(store.mobs, Head(batch).target)
         hurt == [target EXCEPT !.health = @ - MobDatabase[mob.type].strength]
     IN  /\ view' = IF IsOnScreen(target.position) THEN StartShake(view, 1) ELSE view
         /\ IF mob.id # Invalid /\ target.id # Invalid
              THEN /\ store' = [store EXCEPT !.mobs = Put(@, target.id, hurt)]
                   /\ queue' = IF hurt.health <= 0 THEN QueueEvent(queue, EvKillMob(target.id))
                                                   ELSE queue
              ELSE UNCHANGED <<store, queue>>
  /\ UNCHANGED <<remove, clock>>

-----------------------------------------------------------------------------
(* The entities to remove, and the end of the tick.                        *)

\* Mutant of AlreadyRemoved: nobody looks.
NeverRemoved(e) == FALSE

AlreadyRemoved(e) == e.id = Invalid

\* Mutant of ChildrenRemoved: the children stay.
ChildrenStay(e) == <<>>

ChildrenRemoved(e) == [i \in DOMAIN e.children |-> EvRemove(e.children[i])]

RemoveEntity ==
  /\ pc = "events" /\ batch = <<>> /\ remove # <<>>
  /\ LET e == Get(store.entities, Head(remove))
     IN  IF AlreadyRemoved(e) THEN UNCHANGED <<store, queue>>
         ELSE /\ store' = Without(store, e)
              /\ queue' = queue \o ChildrenRemoved(e)
  /\ remove' = Tail(remove)
  /\ UNCHANGED <<batch, turn, pc, windowEvents, clock, view, world>>

EndTick ==
  /\ pc = "events" /\ batch = <<>> /\ remove = <<>>
  /\ store' = SyncAll(store)
  /\ pc' = "frame"
  /\ UNCHANGED <<queue, batch, remove, turn, windowEvents, clock, view, world>>

Events == HandleRemove \/ HandleKillMob \/ HandleTryWalk \/ HandleWalked \/ HandleAttack

Next == Frame \/ PlayerWaits \/ PlayerActs \/ MobUpdates \/ AgeEntities \/ Events
        \/ RemoveEntity \/ EndTick

\* The loop of runGame calls update() again and again as long as the player
\* stays.  Next is enabled in every state: this is WF_vars(Next).
Spec == Init /\ [][Next]_vars /\ []<><<Next>>_vars
-----------------------------------------------------------------------------
(* Correctness.                                                            *)

Coord == [x : Int, y : Int]
Event ==
  [kind : {"Remove"}, entity : Nat] \cup [kind : {"KillMob"}, who : Nat]
  \cup [kind : {"TryWalk", "Walked"}, mob : Nat, from : Coord, to : Coord]
  \cup [kind : {"Attack"}, mob : Nat, target : Nat]
Entity == [id : Nat, parent : Nat, children : Seq(Nat), age : Nat, life : Int,
           sprite : Nat, mob : Nat, physics : Nat]
Mob == [id : Nat, entity : Nat, type : DOMAIN MobDatabase, position : Coord, health : Int,
        tick : 0 .. 2 * TicksPerAction - 1, dir : Coord, extras : Seq(Nat)]

HoldsOnly(c, T) ==
  c.values \in Seq(T) /\ c.added \in Seq(T) /\ c.removed \in Seq(Nat) /\ c.nextKey \in Nat

TypeOK ==
  /\ HoldsOnly(store.entities, Entity) /\ HoldsOnly(store.mobs, Mob)
  /\ HoldsOnly(store.sprites, [id : Nat, entity : Nat, position : Coord])
  /\ HoldsOnly(store.physics, [id : Nat, entity : Nat])
  /\ queue \in Seq(Event) /\ batch \in Seq(Event) /\ remove \in Seq(Nat)
  /\ turn \in Nat \ {0}
  /\ pc \in {"frame", "player", "mobs", "age", "events"}
  /\ windowEvents \in Seq(Arrow) /\ Len(windowEvents) <= 1
  /\ clock \in [subTick : 0 .. SubTicksPerTick, freeze : 0 .. 1]

Container == {"entities", "mobs", "sprites", "physics"}

\* What is asked to be removed can be removed: container::remove finds every
\* key of remove_ at the next sync(), which its assertion demands, although
\* several events may ask for the same entity (util.h:73-75, game.cpp:161-205).
RemovalIsSafe == \A c \in Container : Removable(store[c])

\* The packed array and its index agree after every sync(): the element that
\* fills the hole of a removed one is still found (util.h:73-82, 164-178).
IndexMatches == \A c \in Container : Packed(store[c])

\* No update adds more than the reserved buffers hold, which would throw and,
\* before that, move the elements others hold references to (util.h:126-128).
CapacityHolds == \A c \in Container : Len(store[c].added) <= MaxSize

\* Between two frames every reference leads to something that leads back: the
\* components of an entity, the entity of a component, the children of a
\* parent; a child outlives its parent only with its EvRemove under way.
Leads(e, c, k) == k = Invalid \/ Get(c, k).entity = e.id
NoOrphans ==
  pc = "frame" =>
    /\ \A n \in DOMAIN store.entities.values :
         LET e == store.entities.values[n] IN
         /\ Leads(e, store.mobs, e.mob) /\ Leads(e, store.sprites, e.sprite)
         /\ Leads(e, store.physics, e.physics)
         /\ \A i \in DOMAIN e.children : Get(store.entities, e.children[i]).parent = e.id
         /\ \/ e.parent = Invalid \/ Has(store.entities, e.parent)
            \/ \E i \in DOMAIN queue : queue[i] = EvRemove(e.id)
    /\ \A c \in Container \ {"entities"} : \A i \in DOMAIN store[c].values :
         Has(store.entities, store[c].values[i].entity)

\* The elements that stand for "none" stay what they were made: no handler
\* ever writes through a reference to something that is gone (util.h:65-71).
NullUntouched ==
  /\ store.entities.null = NullEntity /\ store.mobs.null = NullMob
  /\ store.sprites.null = NullSprite /\ store.physics.null = NullPhysics

\* An event is still true when its turn comes: who walks stands where it stood,
\* who is attacked is next to the attacker (queueEvent to handleEvent).
Adjacent(p, q) == \E d \in Arrow : Plus(p, d) = q
EventsAreFresh ==
  pc = "events" /\ batch # <<>> =>
    LET ev == Head(batch) IN
    /\ ev.kind = "TryWalk" => Get(store.mobs, ev.mob).position = ev.from
    /\ ev.kind = "Attack" =>
         Adjacent(Get(store.mobs, ev.mob).position, Get(store.mobs, ev.target).position)

\* As long as nobody fights, which shakes the view that the camera is steered
\* by, it never loses the player, however it lags behind or runs ahead.
PlayerOnScreen == [](~view.shake) => []IsOnScreen(PlayerMob.position)

\* A mob only ever steps onto a free cell, whatever the others did since it
\* made up its mind.  (Mobs may have been created on one cell.)
NoNewCollision ==
  [][\A i \in DOMAIN store.mobs.values :
       LET mob == store.mobs.values[i] IN
       Has(store'.mobs, mob.id) /\ Get(store'.mobs, mob.id).position # mob.position =>
         \A j \in DOMAIN store.mobs.values \ {i} :
           store.mobs.values[j].position # Get(store'.mobs, mob.id).position]_vars

\* A key the player pressed is used in the end, and makes room for the next.
MoveIsServed == windowEvents # <<>> ~> windowEvents = <<>>

\* A mob dies of its wounds only, and then leaves the world for good.
Life == INSTANCE MobLife WITH
  Mobs <- 1 .. 1 + MaxMobs,
  life <- [m \in 1 .. 1 + MaxMobs |->
             IF ~Has(store.mobs, m) THEN "gone"
             ELSE IF Get(store.mobs, m).health <= 0 THEN "dying" ELSE "alive"]
MobsLiveAndDie == Life!Spec
=============================================================================
