# A formal model of the AresRPG bot

This directory holds TLA+ models of the bot in `packages/bot` and of the fight
rules in `packages/fight`, the TLC configurations that check them and the proofs
that TLAPS checks.  The bot is one Bun process that drives a party of up to five
characters of one wallet: it keeps one websocket to the realtime server, folds
its packets into a projection of the game, and runs one loop per character that
reads the projection and submits transactions to the Sui chain.  There is one
JavaScript thread, so an *action* of the models is always a stretch of code
between two `await`s, and every interleaving of the characters' loops at their
awaits is explored.

`PROJECT.json` maps every definition to the lines it translates, and lists the
runs, the hazards of the code, and the theorems.

## 1. Inventory

| Component | State it keeps | Operations | Hard because |
|---|---|---|---|
| **Transaction execution** (`sdk/src/transaction_execution.ts`, `client.ts`, `transaction_error.ts`, `bot/src/auth/sdk_client.ts`, `bot/src/chain/storage.ts`) | the queue's tail, the pending record (memory and journal), the kiosk lane | `enqueue`, `before_next`, `submit`, `recover`, version-race retry, journal writes | responses are lost or late, the process dies, the disk fails; doing an action twice costs money |
| **Party rendezvous** (`actions/party.ts`) | `PartyState`: phase, target, staged, stragglers, detached, failures, four clocks | leader step, follower step, join, reset | five loops read and write one record across awaits |
| **Session pass scheduler** (`net/session.ts`) | `active_chores`, `planning_fight`, per-character pending chore, stop flag | one pass: gates, settle, close, drive, chore beat, routes, group step, chore, roam | what a pass decided before an await no longer holds after it |
| **Fight driving and registry** (`actions/combat.ts`, `fight_registry.ts`) | runtimes, lock tails, placement and turn guards, settled set | `drive_fight`, `settle_pending`, `close_pending`, `with_lock`, `drop` | the checkpoint stream and the rows lag the chain, each on its own |
| **Dungeon runs** (`actions/dungeon.ts`, `dungeon_run.ts`) | committed run, `started` memo, room-1 wait, `entered_group` | commit, enter, start a room, abandon | shared commitment, memos that outlive what they describe |
| **Routes**: cross-world trips, excursions, regrouping, rallies (`actions/cross_world.ts`, `excursion.ts`, `roam.ts`) | a persisted phase, the excursion | detach, outbound, farm, inbound; relocate, dwell | legs take minutes; restarts in mid-trip; poses are known a leg late |
| **Travel** (`actions/travel.ts`, `checkpoint_read.ts`) | the on-chain anchor and its time | legs, proofs, refresh | arithmetic against the chain's clock, and two late sources of one checkpoint |
| **Server link** (`net/server_link.ts`) | socket, acceptance, back-off, timers | open, challenge, retry, terminal close | timers, signatures and closes that race |
| **Projection** (`state/store.ts`, `selectors.ts`) | `GameState` | one reducer; the freshness gate | staleness |
| **Equipment and gathering** (`actions/equip.ts`, `equip_guard.ts`, `gather.ts`) | recent swaps, gear seen, the shared queue | auto-equip rounds, tool swaps, harvests, ambush verdicts | a walk lies between making a tool ready and using it |
| **Crafting, bags, pets** (`actions/craft.ts`, `loot_box.ts`, `pet.ts`) | stacks burned, pets fed, food taken | craft, open, claim, feed | the inventory trails what was spent |
| **Fight contract mirror** (`packages/fight`) | the contract's state | join, ready, moves, casts, turns, boundary | chains of effects, deaths in their middle, divisions |
| Group claims (`actions/context.ts`) | claims with a time to live | claim, release | claims expire while they are still used |
| Progression, mastery | what was just raised | one transaction each | the projection trails the transaction |
| Turn planning, preview, strategy (and their workers) | caches | a search over simulated fights | size of the search |
| Content, configuration, CLI, authentication, logging, ledger, analytics, objective modules, vendored SDK doors, protocol parser, seed data, scripts | tables, files | reads | not concurrent |

Interaction: every loop calls *door* functions of the SDK, all of which go
through transaction execution; the loops share `PartyState`, the fight registry,
the claims, the equipment queue and the projection; packets reach the projection
through one callback between any two awaits; the server learns of transactions
from the chain's indexer, so everything the bot sees is late by an unknown amount.

What makes each modelled part correct:

* *transaction execution*: a door call takes effect at most once, its caller is
  told the truth, and nothing is sent on top of an unresolved transaction;
* *rendezvous*: fights and chores of a party exclude each other, one fight at a
  time, and a rendezvous that cannot succeed ends;
* *fight driving*: one seat submits at a time, a plan is applied to the turn it
  was made for, a fight is settled once, and every fight is played to its end;
* *dungeon runs*: the party is held exactly as long as there is a run to play,
  the room started is the one the run stands in, and no member is left rooted;
* *routes*: the party has one destination, and every staging, relocation and trip
  comes to its end;
* *travel*: what the mover takes for provable the chain proves, and a walk arrives;
* *server link*: characters play only over an authenticated socket and fresh rows,
  and the link comes back unless it was disposed of;
* *equipment*: a harvest that is sent has its tool; gear and ambushes are not
  forgotten;
* *crafting*: nothing is spent twice, and a goal is reached;
* *fight rules*: bodies, deaths, turns and divisions stay sound whatever sets off
  what, and the turn can always be handed on.

## 2. Modules

| Module | What it is |
|---|---|
| `TxOutcome` | the abstract promise of the transaction layer: at most one effect, true answers |
| `TxExecution` | the layer itself; `KeepsPromise` says it implements `TxOutcome` |
| `PartyDuty` | the abstract promise of the party: chores and fights exclude each other, one fight at a time |
| `Rendezvous` | `PartyState`, the group steps, and the part of the pass around them; `KeepsDuty` says it implements `PartyDuty` |
| `FightDrive` | the fight driver, its lock and guards, over a small fight contract |
| `DungeonRun` | the committed group run of a dungeon, shared by leader and followers |
| `PartyRoute` | where the characters walk: the legs of a pass, relocations, trips abroad |
| `Mover` | the mover of one character against a chain that keeps checkpoints |
| `ServerLink` | the websocket, what the session makes of it, and the freshness gate |
| `Outfit` | what the party wears: rounds of auto-equip and harvests with tools |
| `Workshop` | the kiosk the party spends from: crafts, bags, meals, gathered stacks |
| `CombatGrid`, `FightMath` | the board's geometry and the integer rules of fights, as operators |
| `FightCalc` | puts every rule of those two to a question |
| `FightState`, `FightEffects`, `FightTurns` | the contract, what a spell does to it, and the turn boundary |
| `FightRules` | the fight as its commands |
| `MC...` | the instances TLC checks |
| `..._proofs` | the theorems: of `Rendezvous`, `DungeonRun`, `PartyRoute`, `Mover`, `Outfit` and `Workshop`; `Network_proofs` is about the two layers below the party, `TxExecution` and `ServerLink`, and `Fight_proofs` about the driver of a fight, `FightDrive`, and the rules it plans with, `FightCalc` |

`FightRules` and `FightCalc` extend the modules of operators.  The machines of the
bot are composed by what they share: `Rendezvous` takes the answers of `can_reach`
and `travel_to` as free, `PartyRoute` gives them positions, and `Mover` what the
chain makes of them; `FightDrive` and `DungeonRun` play the fights that
`Rendezvous` opens, and `FightRules` says what the contract does with the turns
`FightDrive` commits.

### Transaction execution

`pc[c]` is where a door call stands: `new`, waiting in the kiosk lane, composing,
waiting in the queue, in `before_next`, in `recover`, awaiting preparation or the
response, `done`.  `status[t]` is what the chain knows of attempt `t`; `journal`
and `file` are the record in the storage's memory and on disk, `own` the
transactions this process sent.  The network (`Execute`, `Lose`) may run or lose
a sent transaction at any time after the send, whatever the caller has been told
meanwhile.  `Restart` is a new process, which discards the journal as `play_loop`
does.  A disk write may succeed, fail before or fail after the file was touched.

### Rendezvous

`pc[m]` is what the pass of member `m` is awaiting; `Free(m)` sums up the gates
above the group step.  Positions become the answer of `can_reach`, which is free
at every call; timers become flags raised by clock actions; `fight` is the chain's
fight and `view` what the packets have shown.  The barrier between chores and
rendezvous is `active_chores` (a member with `pc = "chore"`) and `planning_fight`
(a leader whose `pc` is in `Planning`).

`PartyDuty` says what the members count on, with four variables: who is out on a
chore, whether the party is busy, the fight, and whether the answer that would have
told of it was lost.  Under `KeepsDuty` the members out are those with
`pc = "chore"`, busy is `RendezvousActive`, and lost is `unanswered`.

### Fight driving

`history` is the succession of the contract's states, and two views of it advance
independently: `shown` (checkpoints, `packet/fight_state`) and `known` (roster,
resolutions, closable).  They are independent because a reconnect brings the rows
of a fight that ended meanwhile and no checkpoint of it.  `ahead` and `tail` are
the promise chain of `with_lock`: an entry waits for the entry that was last when
it was made.  The contract is what `packages/fight` implements: `ready` by the
last seat starts the fight (`ready_and_start`), mobs play inside the transaction
that ends a turn, and a turn is known by its round, pointer and start time, here
its number.  `place` never applies: joining seats a fighter on a free start cell.
A lost answer makes the SDK refuse every later call of the process until it is
restarted (`refusing`), which is what the `recovered` outcome of `before_next`
amounts to; `adrift` holds what may still land when nobody waits for it.

### Dungeon runs

`run[m]` is the room `m`'s run stands in on chain (0: none) and `keys` what the
kiosk holds; `row`, `busy` and `shown` are what the roster and inventory packets
have brought of them, each when it likes.  `commit` is `party_state.dungeon`, by
its `member_ids`; `entered_group` and `started` are the closure variables of
`create_dungeon_runner`, and `entering` and `starting` the two graces
(`ENTER_GRACE_MS`, `START_GRACE_MS`), which expire only when the roster has caught
up.  A member with `pc[m] = "walking"` is inside `enter_run`: what it read before
the walk may be stale after it.  `tojoin` is the loop of `join_dungeon_followers`.
The leader's release of a finished run goes on to plan the next one in the same
pass, so `LeaderCommits` includes it.  A failed answer (`Fault`) may hide an enter,
a start, a join or an abandon that landed, or report one that did not.  Whether
`plan_group_dungeon` finds a run, and whether a preview finds a room unwinnable,
are choices.

### Routes

`PartyRoute` has a line of positions for each of two worlds.  A pass is a step up
to the leg it walks (`leg[m]`: what for, and where to) and another at the end of
the leg, which arrives or pauses anywhere on the way; in between anybody may do
anything.  A pose is published at the start of a pass and is what the others know.
`target` is the staged group, `excursion` the relocation, `trip` the persisted
phase of the gatherer, `detached` its mark in `PartyState`.

### Travel

In `Mover` the chain's checkpoint `chk`, the roster's `row`, the full node's `node`
and the mover's own `anchor` each have a position, an age in ticks and a rank that
says which is newer.  `Provable` is `world_map::travel_ok`.  `pc` follows
`travel_to` and `prove_ready`: a leg step by step, a proof, the wait for its
margin, the search submitted on it, the reading back.  `unseen` (a door the mover
has not been told of) and `blind` (no sample of the chain clock) are ghosts that
say when the mover cannot know better; `troubles` bounds those events.

### Server link

Every action is one event of the JavaScript loop: a frame, a close, a timer, the
end of a signature.  `retry_timer` is the timer `schedule()` remembers, `orphans`
those it no longer does.  `clock`, `lag`, `packets_seen` and `connected` are what
the store keeps; `Fresh` is the freshness gate and `MayAct` the gate of a pass.

### Fight rules

`FightState`'s contract is a record, and an arena the part of a checkpoint that no
command changes.  Every operator of `FightEffects` and `FightTurns` takes a
contract and returns the next one, with the order of the code's loops; a command
of `FightRules` that the rules refuse is no step.  `CombatGrid` numbers cells row
by row and keeps walls as a set (the code's mask words); `FightMath` keeps the
truncating divisions and makes draws of the generator arguments.

### Equipment and gathering

In `Outfit`, `own` is what the chain says a member wears, `held` what lies in the
kiosk, `row` and `bag` what the packets have shown of them.  `pc[m]` follows a
harvest: make the tool ready, walk, assert the tool in the lock of the harvest,
gather.  `round` is the party-wide auto-equip with its retry, `recent` the memory
of the last swap with its `settle` window, `queue` the serial queue both go
through.

### Workshop

`stacks` are the objects of the kiosk, `shown` what the inventory packets have
brought of them and `coming` the later versions of each that are on their way: every
change of a stack is reported (`Reports`), and `StackArrives` shows the next version
of one stack, `PetArrives` a later row of one pet, however far the kiosk has gone on.
`burned` (`party_craft_burned`), `fed` and `spent` are the three memories of different
lifetimes; `spent` counts food against the version that is shown, so each version
that arrives starts at nothing, as `food_spent` does with its keys `id:version`.  `lane` is the craft queue, `cursor` the rotation
over the families of goals.  `SelectTarget` is `select_craft_target` with the
prerequisite and the training it falls back to, and `PlanRecipe` the `plan_recipe`
they all end in.  `unsure` is no state of the program.  It names what nobody can be
sure of until the inventory has shown it as it is: stacks and pets whose last call
had its answer lost, pets that were fed and not shown so before the day turned, and
food of which a packet has shown an older version (`Outrun`), when meals planned on the
one before it had taken what it shows.

## 3. What the runs show

| Run | Instance | Shows |
|---|---|---|
| `TxCalls` | 3 calls, 2 of them in the kiosk lane; 2 version-race retries (the code's bound); 1 restart; failing disk | `AtMostOneAttemptSent`, `RecordsHold`, `KioskSerialized`, `NoSendOverUnresolved`, refinement `KeepsPromise`, liveness `EveryCallAnswered` |
| `RvRun` | leader and traveller; one group; 2 failures; 1 restart | `BarrierHolds`, `PlansOnlyWhenFree`, liveness `RendezvousEnds`, `EveryBeatServed` |
| `FdPlay` | two seats, fights of up to two turns, the second of which has an empty plan; 1 restart or lost answer | `OneSubmitter`, `PlanFitsTurn`, `SettledOnce`, liveness `FightCloses` |
| `DgRun` | leader and follower; 2 rooms; 3 keys; 1 failure; 1 restart | `ReleaseAfterRun`, `RightRoom`, liveness `NoOrphanedRun`, `CommitServed` |
| `DgRooted` | the same with 4 keys and no failures | refutes `NeverRooted`, see below |
| `LkRun` | a back-off that doubles once; 2 pending retries | `AcceptedIsAuthenticated`, `DisposeIsFinal`, `TimersBounded`, liveness `SilentLinkStopsPlay`, `LinkServed` |
| `MvRun` | a line of two positions; `Lead` = `Margin` = 1, `Root` = 2, `Cap` = 2; 1 trouble | `ProvedLegIsAccepted`, liveness `WalkArrives` |
| `RtRun` | leader and gatherer; two lines of three positions | `OneDestination`, liveness `StagingEnds`, `RoutesEnd` |
| `FcRun` | a 4 x 3 board with up to one wall, 3 points, areas up to size 3, levels to 8, sides of up to two, up to three lockers | `WalksAgree`, `ShapesAgree`, `DivisionsFit` |
| `FrRun` | seven arenas on a 3 x 2 board | `TypeOK`, `BoardIsSound`, `TurnIsSound`, `TurnsCanBeHandedOn`, action property `TurnGoesRound` |
| `OfRun` | two members, one of which harvests for two jobs and is ambushed; two tools | `GathersWithTool`, liveness `NothingForgotten` |
| `WsRun` | a leader and a gatherer, both crafters; wheat, flour, cake, a sack; two pets that eat the cake; three starts | action property `SpendsWhatIsThere`, liveness `GoalIsReached` |

Why the bounds are enough.

* *Transactions*: two calls are what a race needs, the third lets one queue behind
  a recovery; the second retry is the code's own limit, and a second restart meets
  no state the first does not, since a restart forgets everything but the chain.
* *Rendezvous* (65 054 states): the traveller is the one member that detaches; two
  failures tell counting from cooling down.  Three members are too many for TLC
  under fairness; the two safety properties are proved for any number.
* *Fights* (347 386 states): two seats are enough for a race at the lock, and a
  turn beyond the second repeats the guard's cycle; the safety properties are
  proved for any number of both.
* *Dungeons* (119 161 states): the follower step never reads another follower
  except through counts, so one follower shows the races with the leader; the
  second room is the last one and differs from the first; three keys make a run of
  two seats and one key that should be left; `DgRooted` has four, for a second run.
* *Link* (304 686 states): two pending timers are one remembered and one orphan.
* *Mover* (35 364 states): on two positions every door but the last moves the
  character away; the safety property is proved for any line, and was also checked
  with three positions and two troubles (1 086 192 states).
* *Routes* (134 340 states): three positions are one more than `Radius`; a member
  can be within reach, beyond it, or lost.  `OneDestination` was also checked with
  a second follower, which gives the party an odd median (4 409 440 states), and is
  proved for any number.
* *Calculators* (43 237 questions): the shapes and floods are local, and one wall
  on four columns is what separates a detour from a straight walk; all three
  properties are proved for every board and every value.
* *Fight rules* (91 141 states): each arena is built around one chain of effects
  that a rule must survive: traps under a swap, reflected deaths, glyphs at the
  start of a turn, contested points, tackles, mobs out of points, forfeits.
* *Equipment* (147 504 states): two tools of two jobs of one member are what makes
  a remembered swap wrong, and a member that only wears what it is given makes the
  round pass somebody; an instance whose second member is a miner and fights was
  checked for safety by hand (522 326 states).
* *Workshop* (290 083 states): two levels of recipes are the least in which an
  ingredient is itself crafted, and one lost answer is what makes the memories
  differ.  A stack of two units and two hungry pets are the least in which two
  versions of the food are on their way and the first of them is shown alone; the
  three starts put a bag, a pet and the food, and two pets and the food beside the
  crafts, the last with the one answer lost already.  `MaxDirty` bounds what is still
  to be shown when a harvest begins, and nothing else: crafts, bags and meals go on
  over any number of versions.  `SpendsWhatIsThere` was also checked by hand with
  three pets that may each be fed (470 702 states).  Without `Outrun` in `unsure` the
  run refutes it.

`CHECK_DEADLOCK FALSE` is set where the system really may stop: all calls may be
answered, a fight may be closed, a bounded number of restarts may be used up, a
link may be disposed of.  `OfRun` and `WsRun` check for deadlock.

### A comment the code does not keep

`DgRooted`: "Give up the run rather than keep a character rooted at the portal
forever", but `started` survives the run: when one ended in room 1, the next run of
that dungeon answers "room already started" there until a restart.

### Other observations

Found while modelling, told here because no run is kept for them:

* `pet.ts:94` says the pets are fed without "reusing a stale food object".  Food is
  counted by `id:version` (`pet.ts:119-127`, `154-155`), and packets are folded one by
  one (`store.ts:158`): of a stack of two, two pets are fed while its first version is
  shown; the packet with the second version, of one unit, comes; nothing counts as
  taken from it, and a third meal is planned on a stack that is gone, and refused.
  The next packet mends it.  `SpendsWhatIsThere` has the exception `Outrun` for it,
  which `WsRun` reaches.
* `chain/storage.ts` says the journal "leaves evidence that lets the next process
  recover the outcome by digest"; `play_loop` deletes the journal first.  (Its own
  comment explains why; the promise of `TxOutcome` survives, since a new process
  plans from the chain.)
* `staged` holds members "that have proven they can reach the current target"
  (`party.ts:199`), but a hop that outlives its rendezvous proves the old one
  (`party.ts:757`).
* The committed-turn identity is "the double-commit guard" (`fight_registry.ts:9`),
  released by the next turn, but `drop` releases it with the settlement.
* "don't burn a surplus key on a run nobody planned for" (`dungeon_run.ts:627`),
  but the guard counts who stands in room 1 now, which is nobody once the run has
  ended and the leader has not released the party yet.
* `travel.ts:164` adopts a sentinel row at another position, against the comment at
  `:139`; and since the mover dates its own search by its proof, the own checkpoint
  read later counts as newer and snaps the pose back (`:217`, `:332`).
* An equip refused by a failed transaction other than 1004 is only logged
  (`equip.ts:390`) and not tried again until new gear appears; when the ownership
  check cannot read the chain it vetoes nothing, and the harvest may be refused.
* `party_craft_burned` keeps a stack that was used in part excluded for the life of
  the process, although it still counts as stock, against the comment at
  `session.ts:354`: `GoalIsReached` has the exception `LockedIn` for it.  When the
  claim after an opening fails, or its answer is lost, its rolls are never claimed
  (`loot_box.ts:81`, against `:32`).
* `turns.ts:115` judges a mob's modifiable spell by its authored reach while the
  rules use the reduced range: `TurnsCanBeHandedOn` has the exception `Shortened`.
* A trip abroad that is aborted leaves the gatherer undetached until its next pass,
  the outbound phase has no timeout, `needs_rejoin` does not look at the world, and
  outbound drops the specialty (`cross_world.ts:247`, against `:233`).

## 4. Fairness

Weak fairness stands for what the runtime does by itself: timers fire, awaits end,
loops go on, packets arrive.  Strong fairness stands where something else may come
first any number of times.

* `TxExecution`: weak fairness of each call's steps: every await of the layer is
  bounded (`bounded_request`, `waitForTransaction` timeouts) and the queues are
  first in, first out.
* `Rendezvous`: weak for timers, awaits, projection, fights and loops.  Strong: a
  hurt side heals, a settlement that is retried is accepted, and a pass at home
  comes between two trips (`cross_world_interval_ms`).
* `FightDrive`: loops go on, answers come, both streams catch up, a process that
  can send no more is restarted (weak); the turn floor is reached and a
  transaction is not refused for ever (strong, `CommitTurn` and `Land`).
* `DungeonRun`: loops pass, walks end, packets arrive, timers run out, fights end
  and are settled (weak).  The leader need never commit.
* `PartyRoute`: passes, the roster, the ends of fights and the clocks (weak).
  Strong: a regroup leg arrives (without it `StagingEnds` fails, since the gate at
  `session.ts:1117-1138` returns before the group step), an engagement is not held
  for ever (health regenerates), and a join abroad or at home is accepted.
* `Mover`: time, the roster, the chain clock and the loop (weak).  Strong: a proof
  that is awaited is decided, a search at the destination lands,
  and a full node that is read again and again has caught up in the end.
* `ServerLink`: timers and time (weak); a challenge, a signature and an acceptance
  come in the end (strong).  Nothing makes TCP close a silent peer.
* `Outfit`: steps, packets, clocks and ends of fights (weak); the resolution of a
  verdict, which may fail, succeeds in the end (strong).
* `Workshop`: steps and packets (weak; no packet in particular); the lane is first in,
  first out (`context.ts:53-69`), so a turn of a crafter in it comes (weak), and so does
  the leader's with a bag, for which the lane is free only now and then (strong); a
  recipe that is made again and again yields something in the end (strong).

## 5. What is proved

TLAPS checks the theorems below for every value of the constants, under the
assumptions named in the modules (`ASSUME`), which TLC evaluates on each run.  None
of the properties is inductive by itself; each proof rests on an invariant (`Inv`
or `IInv`) made of named parts, with a lemma per action or per part and a step per
action in it.  TLC held every such invariant on an instance before it was proved.

`Network_proofs`, transaction execution.  That at most one attempt is sent needs to know *where* a
call may be while its attempt is unsent, in flight or executed.  `Inv` adds, to the
types, how a call's `pc` determines the status of its attempts, that at most one
call is at the head of the queue, that the record names the one transaction whose
outcome is open, and that the lane's members are accounted for.  From it follow
`TypeCorrect`, `OneAttempt`, `TruthfulAnswers`, `RecordsAreSound`,
`LaneIsExclusive`, the action property `NothingSentInDoubt`, and `Refinement`:
every step of `TxExecution` is a step of `TxOutcome` or leaves its variables alone.

`Rendezvous_proofs`.  `BarrierHolds` needs to know that no chore began during the
leader's screen, and `PlansOnlyWhenFree` that an open fight is one whose engage was
answered, is still fresh, or is in view.  `TypeCorrect`, `ChoresKeepOut` and
`OneFightAtATime` follow, and so does the refinement `DutyKeeps`: every step of
`Rendezvous` is a step of `PartyDuty` or leaves its variables alone.  Its weight is
in the steps that give a rendezvous up (`WalkEnd`, `EngageFails`, `ClearFinished`):
`PartyDuty` lets the party disband only without a fight, or with one whose answer
was lost, and the code asks the projection, a clock and a phase instead.  TLC held
`KeepsDuty` on the instance of `RvRun`, and refuted it there once the wait for the
chores, or the grace of an active fight, was taken away.

`Fight_proofs`, driving a fight.  The lock is a chain of promises, and `OneSubmitter` needs its
shape.  `Queue` (in `LockHolds`) says: whoever waits, waits for an entry; no two
entries wait for the same one, nor two for nobody; nobody waits for the tail.  So
at most one entry waits for nobody, and only its body runs.  It holds until the
settlement, which forgets the tail.  `Forward` orders the history of the contract,
which two views lag: what a view shows, the contract has left behind or is in.
`PlansFit` is the heart of `PlanFitsTurn`: in a fight in play, what is committed,
under way or adrift is for the contract's current turn, or that turn has been
committed and its answer not yet read; a lost answer (`AloneAdrift`) leaves one
transaction adrift and makes the SDK refuse all others, so the guard that is lost
with it is not needed.  It is about one process (`restarts = 0`), as the property
is.  `SettlementSound` relates what a seat closes to what the contract has settled,
across `drop`.  `TypeCorrect`, `LockIsExclusive`, `PlansAreApplied`, `SettlesOnce`
and the action property `ContractNeverGoesBack` follow, for any number of seats and
turns.  `FightDrive.TypeOK` is proved and checked by no run.

`Fight_proofs`, the rules of a fight.  The only invariant is that a question is well
asked; the theorems `WalksAreOneIdea`, `ShapesMeanTheSame` and `DivisionsNeverOverpay`
are about what the operators of `CombatGrid` and `FightMath` compute, for every board,
level, pool, party and authored value.  Those operators are recursive functions over
`0 .. n`.  Two lemmas carry them: `Induction`, which is over a *set* of numbers, so
that no operator has to be instantiated (a least counterexample exists because `<` is
well-founded), and `Recursion`, which says that a function unfolded from its value one
step before exists, so that the `CHOOSE` in its definition may be replaced by its
equation.

* *Shapes.*  `Coordinates` and `Encoded` turn cells into columns and rows.  `Lists`
  relates a list to an interval of ranks, `ListsJoin` and `GatheredLists` put lists
  together, and `OnRay` says where a walk leads (`WalkIs`) and what rank it gives
  (`WalkRankIs`): each of the nine shapes is then a few lists joined.  The cone needs
  most, for its two enumerations count differently: `cone_cells` asks for the sides of
  each cell of the spine, `cone_rank` takes the width of the first and steps back from
  a side, which is the same because a side is there all along a ray or not at all
  (`SidesAllAlong`).  Sight is mutual since the two slopes of `blocks` exchange their
  roles under a half turn (`SlopesTurnRound`).
* *Walks.*  `Flooded` says what a flood makes of the board, and `FloodFills` that it
  does.  `FloodLeads` and `FloodIsLeast` identify its numbers with the lengths of
  walks, and walks can be walked back (`LinkedBack`): that is why a descent on a field
  flooded from the target agrees with the flood from the start, and why an approach,
  flooded from all flanks and stopped early, is as long as the flood from the start
  says.  `DescentIs` turns a slope into a legal path.
* *Divisions.*  `SharesFit` bounds a sum of truncated shares, `ProductsCompare` the
  contest of a tackle, and `LevelReturns` the way of a level through the percentage it
  is stored as.

The proofs made two statements more exact than the instance had shown.  A level comes
back exactly only in a range of at most a hundred levels (the share is stored in
hundredths); in a longer one it may come back up to a hundredth of the range too high.
And the greatest roll reaches the upper end of a range only if the range has no more
values than a roll (`CRIT_SCALE`, ten thousand).  The assumption `MaxBudget < NumCells`
is needed: `fight_path_to` and `reachable_fight_cells` compare a distance with the
points and would take the mark of an unreached cell (380 on the board of the code) for
a distance if there were as many points.

`DungeonRun_proofs`.  `ReleaseAfterRun` and `RightRoom` compare the chain with what
the leader read, so `IInv` says when the two may differ.  `UnseenIsRecent`: a run
the leader knows it entered and the roster does not show is within its grace.
`WalksToEnter`: a leader that walks to the portal is committed and has not entered.
`SeatsHaveRuns`: a room fight seats the leader and members with runs, and once it
has ended the roster shows them in it.  `RowHolds`: while the roster shows the
leader in a run and in no fight, the chain has not advanced that run.
`TypeCorrect`, `CommitmentOutlivesRun` and `StartsTheRightRoom` follow.

`PartyRoute_proofs`.  `OneDestination` is about the end of a leg, so it needs to
know what may happen during one.  `FightOwnsLeader`: a fight of the party has the
leader in it, which then walks nowhere.  `StageLegHasTarget`: the target of a leg
is not reset by anybody else.  `AwayIsDetached`: only a detached member walks for
another world, and none such is seated.  `DestinationIsOne` and
`TravellerIsDetached` follow, for any followers, lines and distances.

`Mover_proofs`.  The mover has three copies of one checkpoint, each with an age the
holder computed.  `NeverFavours` is the point: an anchor that knows of the
checkpoint never makes it older than the chain does, so it buys no distance the
chain does not grant.  That a read or a push keeps it so needs `InDate` (a copy
with the checkpoint's rank is a copy of it) and `OneFuture` (only the checkpoint
itself may root the character in the future, up to the error of the clock), since
the mover prefers the copy with the later date.  `RanksStayApart` is the lemma about
the renumbering of the model: ranks are compacted at each step and no two holders
become equal or swap.  `GoalIsPose` says what a proof is about.
`ProvedLegsAreAccepted` and the action property `PoseNeverRunsAhead` follow.  The
assumption `Margin < Root` is needed: were a harvest to root a character for less
than the margin, an anchor from before it could outlive the new checkpoint and
favour the mover; in the code the margin is one second and the shortest harvest
roots for two.

`Network_proofs`, server link.  `LinkInv` ties the socket's state to the link flag
and counts the timers; `LinkTypeCorrect`, `PlayNeedsTheSocket`, `DisposedForGood` and
`RetriesAreBounded` follow, the last for any bound.  (The definitions of `ServerLink`
that every machine has, such as `LinkInit`, carry its name, since this module
extends two machines.)

`Outfit_proofs`.  `GathersWithTool` says that an ownership check which cannot be
read is the only reason for a refusal, so the proof must follow the tool through
every memory.  `SwapsHold`: a swap that is remembered as recent is of a tool still
worn, unless the next one is under way.  `QueueRuns`: whoever awaits an equip or a
gather runs in the queue, and so does the round; with the queue's order it gives
`OneEquipAtATime`.  `GearFits`: what is worn, and what the roster shows, fits its
slot.  `HarvestHasTool` follows, and the action property `RoundsUpgrade`: whatever
a round plans on, it empties no slot, puts nothing weaker on, and replaces a tool
only by one that is wanted and only when it was not.  `OneEquipAtATime`'s and
`RoundsUpgrade`'s formulas are stated in the proof module and were held by TLC on
the instance of `OfRun`.

`Workshop_proofs`.  `SpendsWhatIsThere` says when a craft fails for want of an
ingredient and when a pet is refused its food. Everybody plans on an inventory that
trails the chain by any number of versions, so the proof must say, of each stack and
pet that is shown as it no longer is, who remembers it, and it must say so of what
the packets on their way will show as well.  `UsedIsBurned` ranges over all these
versions (`Versions`): a stack is there as the version has it, or it is shown and
burned, or in the hands of a craft whose answer is on its way, or the answer was
lost.  `RemovedIsLast` (a stack that is gone comes back as another object) keeps a
stack that was used up shown, and so burned, until its last version has come.
`FoodIsCounted` is about food, whose memory is a count against the version shown: it
holds except for what is in doubt, and a version that arrives with less there than
it shows is put in doubt by `Outrun`.  `MealsAreKnown` is about the pets.  `QueueHeld`
makes the exceptions few: whoever has a craft, a claim or a meal under way holds the
queue, so nobody plans meanwhile.  `SendsWhatIsThere` then holds of a plan from the
moment it is made to the moment it lands, whatever packets arrive in between, for
gatherers only add and a claim only adds; `SendsWhatIsKnown` says that what it will
burn is shown, or that nothing of it is on its way.  `PlansFollowRecipes`,
`DeliversItems` and `CleanIsShown` support these. That a plan asks for no more than
is shown is about `affordable_attempts` and the largest stack (`LargestExists`, by
well-foundedness of the finite subsets), whichever recipe it is for: `Prerequisite`
recurses over recipes, but all it hands on is the name of one, and `PlanRecipe` is
asked for that one anew.  `WhatIsGoneIsRemembered` is the invariant,
`SpendsWhatIsShown` the property. Three things came out. Food is the one memory that
is kept by version, so it alone is forgotten when an older version is shown late;
what a craft burned is kept by object and is safe from it. A pet that is fed and not
shown before the day turns may be refused a meal without an answer being lost: `fed`
is cleared with the day while the row is still yesterday's. And a recipe that took a
bag or pet food would break the property, since neither `burned` nor `spent` knows
of the other; the recipes of the repository take none, which is part of
`WorkshopAssumption`.

What is proved for every instance and of which no run speaks is listed in
`PROJECT.json` without a property.

Only model-checked:

* all liveness (`EveryCallAnswered`, `RendezvousEnds`, `EveryBeatServed`,
  `FightCloses`, `NoOrphanedRun`, `CommitServed`, `SilentLinkStopsPlay`,
  `LinkServed`, `WalkArrives`, `StagingEnds`, `RoutesEnd`,
  `NothingForgotten`, `GoalIsReached`): TLAPS does not reason about fairness and
  `ENABLED`;
* everything about `FightRules` (`TypeOK`, `BoardIsSound`, `TurnIsSound`,
  `TurnsCanBeHandedOn`, `TurnGoesRound`): the effects of a fight are mutually recursive
  operators, as in the code, and TLAPS proves nothing in a module that reaches one;

## 6. Assumptions

* The chain executes a transaction at most once, and refuses it for ever once it
  was prepared on versions that are gone.
* Between two awaits nothing else runs.
* `Rendezvous`: `ACTIVE_GRACE_MS` outlasts the lag of the projection: a pass runs
  only while the freshness gate finds the lag small.
* `FightDrive`: nobody ends the turn of a seat that is slow (the chain allows it
  after `turn_max_ms`, 45 s), and the resolutions of all seats arrive together.
* `DungeonRun`: the roster catches up with an enter or a start within its grace,
  and a room fight lasts longer than the roster takes to show it; all seats of a
  room fight are settled by one transaction; nobody leaves the world of the run;
  an enter has landed or failed by the time its answer is given up on.
* `PartyRoute`: positions are a line whose centre is 0, poses are published only at
  the start of a pass, travel potions are left out; the world tests hold for a row
  that is at home.  The median of an even party is met in the instance of three.
* `Mover`: `Lead <= Margin < Root`, and a bank (`Cap`) that covers the line with the
  margin; pets and changes of world are left out.
* `FightCalc`: movement points stay below the mark of an unreached cell
  (`MaxBudget < NumCells`).
* `FightRules`: sheets are neutral (`full_damage` is its base), there is one
  element, magnitudes are fixed, a turn draws one critical, one chance, one contest
  and one escape, contested points are lost all or none, one stat is modified by
  stances; identities for rendering, events and the failures of a missing seed
  witness, which only the mirror has, are omitted.
* `Outfit`: every slot takes a category of its own; the branch of an unreadable
  owner and the version gate are left out.
* `Workshop`: job levels are up to date; packets of one object come in their order,
  those of different objects in any, and none is lost; the whole inventory
  (`packet/inventory`) is as good as a packet for each of its objects; a bag and a pet are looked for in one go, everything stacks, the key of a
  dungeon is a family like any other; the bulk command, batch limits and merging
  are left out, and a gatherer without demand stops at the reserve; no recipe takes a
  bag or pet food.

Bounds, by name: `MaxRetries`, `MaxRestarts`, `MaxFailures`, `MaxFaults`,
`MaxTurns`, `MaxTimers`, `MaxTroubles`, `MaxRound` (of an arena), `MaxStack`,
`MaxLevel`, `MaxLost`, `MaxDirty`, `Ids`, `Cap`, and of the questions of `FightCalc`
`MaxWalls`, `MaxBudget`, `MaxSize`, `MaxPool`, `MaxParty`, `MaxLockers`.

## 7. Plan

Done: the modules of section 2, the runs of section 3, the theorems of section 5.

Next:

1. Action properties from the invariants that are there: of `DungeonRun` (when a
   commitment may change), `PartyRoute` (who may detach and reattach), `ServerLink`
   (what may raise the link flag).
2. An abstract life of a fight, implemented by `FightDrive`.
3. `FightEffects` and `FightTurns` written with recursive functions instead of
   RECURSIVE operators, so that `BoardIsSound` and `TurnIsSound` come within reach of
   the lemmas about the board.
4. To model: the detours of the turn planner around walls, the connectivity of
   generated boards, the raises of `progression.ts` on a stale row, claims.

## 8. Not modelled

Turn planning, preview and strategy are searches over simulated fights whose every
clause is a weight: a model would repeat the code, and their results are arbitrary
choices here.  Progression and mastery submit single transactions under the
guarantees of the transaction layer.  Configuration, CLI, authentication, logging,
ledger and analytics keep no state the play depends on.  The game's rule tables,
generated corpora (some twelve thousand lines), packet parser, transaction builders
and seed data are vendored or generated: they are the greater part of the lines of
the repository, which is why the map covers a small share of them.
