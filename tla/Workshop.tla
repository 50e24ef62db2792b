------------------------------ MODULE Workshop ------------------------------
(***************************************************************************)
(* The kiosk a party shares and those who spend from it (craft.ts,         *)
(* dungeon.ts, loot_box.ts, pet.ts; session.ts, run_chore).  The leader    *)
(* opens bags and feeds pets, the crafters craft, one after the other in a *)
(* queue of their own, craft_queue; gatherers add to the stacks beside     *)
(* them.  Everybody plans on the inventory the packets have shown, which   *)
(* trails what they have spent: what a craft burned is remembered until it *)
(* is gone from the inventory, a pet that was fed for the rest of its day, *)
(* and food by the version of the stack it was taken from.                 *)
(*                                                                         *)
(* A packet brings the next version of one object, however many are on     *)
(* their way; those of one object come in their order, those of different  *)
(* objects in any.  What a character knows of its jobs is taken to be up   *)
(* to date, and a stack is spent in place: what is left of it keeps its id.*)
(***************************************************************************)
EXTENDS Integers, Sequences, FiniteSets, FiniteSetsExt

CONSTANTS
  Members, Leader, Crafters, Gatherers,  \* the party and its chores
  Kinds, Leaves,     \* item types; those a world grows
  Made, Needs, Job,  \* recipes: their ingredients <<kind, quantity>>, their job
  Required,          \* craft_required_level, by the number of ingredients
  Pays,              \* craft_xp_at_level, by their number and the level
  Wishes,            \* the families of goals: <<kind, how many to hold>>
  Exact,             \* the module makes one item and nothing else
  AttemptCap,        \* OBJECTIVE_BATCH_ATTEMPT_CAP, of the other modules
  Reserve,           \* GATHER_DEMAND_STOCK
  Bag, BagGives,     \* a resource bag and the leaf in it
  Pets, Food,        \* the pets and what they eat
  MaxFeeds,          \* pet_max_feeds
  Ids,               \* the objects there may be at once (bound)
  Starts,            \* to begin with: stacks, meals of the pets, job levels, answers lost
  MaxStack, MaxLevel,  \* where stacks and levels stop growing (bounds)
  MaxDirty,          \* objects that may be shown wrongly when a harvest begins (bound)
  MaxLost,           \* answers that may be lost (bound)
  None

Jobs == {Job[k] : k \in Made}
NoStack == [kind |-> None, n |-> 0]
Stacks == [kind : Kinds \cup {None}, n : 0 .. MaxStack]

ASSUME WorkshopAssumption ==
  /\ Leader \in Members /\ Crafters \subseteq Members /\ Gatherers \subseteq Members
  /\ Made \subseteq Kinds /\ Leaves \subseteq Kinds \ Made /\ {Bag, BagGives, Food} \subseteq Kinds
  /\ None \notin Kinds \cup Ids \cup Members /\ Pets \cap Ids = {} /\ IsFiniteSet(Ids)
  /\ Exact => Cardinality(Crafters) = 1 /\ Len(Wishes) = 1 /\ Len(Wishes[1]) = 1
  /\ \A k \in Made : Needs[k] \in Seq((Kinds \ {Bag, Food}) \X (Nat \ {0}))
  /\ Bag # Food  \* (recipes.json, items.json: no recipe takes a bag or pet food)
  /\ \A start \in Starts : start.kiosk \in [Ids -> Stacks] /\ start.power \in [Pets -> Nat]
  /\ {AttemptCap, Reserve, MaxFeeds, MaxStack, MaxLevel, MaxLost} \subseteq Nat

VARIABLES
  (* the chain *)
  stacks,    \* the objects of the kiosk
  levels,    \* the job levels of the crafters
  pets,      \* what each pet was fed, in all and today
  claims,    \* rewards of opened bags nobody has claimed yet
  (* the projection *)
  shown,     \* the inventory as the packets have it
  coming,    \* of each stack, the later versions that are on their way
  petRows,
  (* memories of the process *)
  burned,    \* party_craft_burned
  fed,       \* fed_pets_today
  spent,     \* pet_food_spent, for the version that is shown
  cursor,    \* craft_focus_cursor
  (* control *)
  lane,      \* who holds craft_queue
  pc, plan,
  lost,      \* answers lost so far
  unsure     \* history: what a call spent whose answer was lost, pets whose meal
             \* the day turned over, and outrun food, until shown

chain == <<stacks, levels, pets, claims>>
rows == <<shown, coming, petRows>>
memos == <<burned, fed, spent, cursor>>
vars == <<chain, rows, memos, lane, pc, plan, lost, unsure>>

\* The stacks that are not shown as they are.
dirty == {i \in Ids : coming[i] # <<>>}
\* What changed is reported.
Reports ==
  coming' = [i \in Ids |-> IF stacks'[i] = stacks[i] THEN coming[i] ELSE Append(coming[i], stacks'[i])]

\* A plan: so much of a kind, made of some stacks, goes onto a stack.
Plan(ins, onto, out, n) ==
  [in |-> ins, onto |-> onto, out |-> out, n |-> n, from |-> 0, goals |-> <<>>]
Idle == Plan(<<>>, None, None, 0)
Spends(p) == {p.in[n] : n \in DOMAIN p.in}

Init ==
  /\ \E start \in Starts :
       /\ stacks = start.kiosk /\ lost = start.lost
       /\ pets = [p \in Pets |-> [power |-> start.power[p], today |-> FALSE]]
       /\ levels = [m \in Crafters |-> [j \in Jobs |-> start.level]]
  /\ shown = stacks /\ petRows = pets /\ coming = [i \in Ids |-> <<>>]
  /\ claims = 0 /\ burned = {} /\ fed = {} /\ spent = [i \in Ids |-> 0] /\ cursor = 0
  /\ lane = None /\ unsure = {}
  /\ pc = [m \in Members |-> "pass"] /\ plan = [m \in Members |-> Idle]

---------------------------------------------------------------------------
(* Planning on what is shown (craft.ts).                                   *)

Live == {i \in Ids : shown[i].n > 0}
Pile(k, gone) == {i \in Live \ gone : shown[i].kind = k}

\* held: the largest stack of a kind that is not gone.
Held(k, gone) ==
  IF Pile(k, gone) = {} THEN None
  ELSE CHOOSE i \in Pile(k, gone) : \A o \in Pile(k, gone) : shown[o].n <= shown[i].n
Amount(k, gone) ==
  IF Held(k, gone) = None THEN 0 ELSE shown[Held(k, gone)].n
InAll(k) == MapThenSumSet(LAMBDA i : shown[i].n, Pile(k, {}))

Slots(k) == Len(Needs[k])
Qualified(m, k) == levels[m][Job[k]] >= Required[Slots(k)]
WorthXp(m, k) == Pays[Slots(k)][levels[m][Job[k]]] > 0
CraftableByLevel(m, k, zero_xp) == Qualified(m, k) /\ (zero_xp \/ WorthXp(m, k))

\* affordable_attempts: the numbers of attempts for which the largest stack of
\* each ingredient is enough, up to a cap.
Affordable(k, gone, cap) ==
  {a \in 1 .. MaxStack :
     a <= cap /\ \A n \in DOMAIN Needs[k] : Amount(Needs[k][n][1], gone) >= a * Needs[k][n][2]}

\* plan_recipe: no plan is Idle.
PlanRecipe(m, k, gone, zero_xp, cap) ==
  IF k \notin Made THEN Idle
  ELSE IF ~CraftableByLevel(m, k, zero_xp) \/ Affordable(k, gone, cap) = {} THEN Idle
  ELSE Plan([n \in DOMAIN Needs[k] |-> Held(Needs[k][n][1], gone)], Held(k, gone), k,
            Max(Affordable(k, gone, cap)))

\* Bug: only what the goal itself is short of may be made.
NoPrerequisite(m, goal, gone, zero_xp) == None

\* craft_prerequisite: the first missing ingredient, or what it lacks itself,
\* that can be made now.
Prerequisite(m, goal, gone, zero_xp) ==
  LET step[k \in Made, seen \in SUBSET Made] ==
        LET sub(n) == Needs[k][n][1]
            next(n) == IF PlanRecipe(m, sub(n), gone, zero_xp, MaxStack) # Idle
                       THEN sub(n) ELSE step[sub(n), seen \cup {sub(n)}]
            able == {n \in DOMAIN Needs[k] :
                       /\ Amount(sub(n), gone) < Needs[k][n][2]
                       /\ sub(n) \in Made \ seen
                       /\ CraftableByLevel(m, sub(n), zero_xp)
                       /\ next(n) # None}
        IN  IF able = {} THEN None ELSE next(Min(able))
  IN  step[goal, {goal}]

\* The recipe itself, or else its prerequisite.
PlanOrStep(m, k, gone, zero_xp, cap) ==
  LET direct == PlanRecipe(m, k, gone, zero_xp, cap)
      first == Prerequisite(m, k, gone, zero_xp)
  IN  IF direct # Idle THEN direct
      ELSE IF CraftableByLevel(m, k, zero_xp) /\ first # None
      THEN PlanRecipe(m, first, gone, zero_xp, MaxStack) ELSE Idle

\* The best paying craft of a trade: more ingredients pay more.
BestOf(m, job, gone) ==
  LET able == {k \in Made : Job[k] = job /\ PlanOrStep(m, k, gone, FALSE, MaxStack) # Idle}
  IN  IF able = {} THEN Idle
      ELSE PlanOrStep(m, CHOOSE k \in able : \A o \in able : Slots(o) <= Slots(k),
                      gone, FALSE, MaxStack)

\* select_craft_target for the first goal of a family: make it or what it
\* needs; of the crafters the best at its trade trains for it while nobody may
\* make it; a goal that is blocked spends nothing.
Cap ==
  IF Exact THEN Max({1, Wishes[1][1][2] - InAll(Wishes[1][1][1])}) ELSE AttemptCap
Trainer(job) ==
  LET best == {m \in Crafters : \A o \in Crafters : levels[o][job] <= levels[m][job]}
  IN  CHOOSE m \in best : m = Leader \/ Leader \notin best
SelectTarget(m, goal, gone) ==
  IF Qualified(m, goal) THEN PlanOrStep(m, goal, gone, TRUE, Cap)
  ELSE IF (\A o \in Crafters : ~Qualified(o, goal)) /\ m = Trainer(Job[goal])
  THEN BestOf(m, Job[goal], gone)
  ELSE Idle

\* The goals that are still short, by family; the first one creates demand.
GoalsOf(f) == SelectSeq(Wishes[f], LAMBDA w : InAll(w[1]) < w[2])
Families == {f \in DOMAIN Wishes : GoalsOf(f) # <<>>}
Focus == Head(GoalsOf(Min(Families)))[1]

\* gatherable_demand: the leaves a recipe comes down to.
LeavesOf[k \in Kinds] ==
  IF k \notin Made THEN {}
  ELSE UNION {IF Needs[k][n][1] \in Leaves THEN {Needs[k][n][1]}
              ELSE LeavesOf[Needs[k][n][1]] : n \in DOMAIN Needs[k]}

\* select_craft_focus, craft_gather_demand: for the goal, or for the best
\* training while its trade is too low.
Crafter == CHOOSE m \in Crafters : m = Leader \/ Leader \notin Crafters
Training(k) ==
  LET able == {t \in Made : Job[t] = Job[k] /\ CraftableByLevel(Crafter, t, FALSE)}
  IN  IF able = {} THEN {}
      ELSE LeavesOf[CHOOSE t \in able : \A o \in able : Slots(o) <= Slots(t)]
Demand ==
  IF Families = {} THEN {}
  ELSE {l \in Leaves :
          /\ l \in IF Qualified(Crafter, Focus) THEN LeavesOf[Focus] ELSE Training(Focus)
          /\ InAll(l) < Reserve}

---------------------------------------------------------------------------
(* The chain.                                                              *)

Least(a, b) == IF a < b THEN a ELSE b
There(i, k, n) == stacks[i].kind = k /\ stacks[i].n >= n
Fresh == Ids \ ({i \in Ids : stacks[i].n > 0} \cup Live \cup dirty \cup burned
                \cup unsure \cup UNION {Spends(plan[m]) \cup {plan[m].onto} : m \in Members})

NewId == CHOOSE i \in Fresh : TRUE

\* Units are added to a stack, or to a new one.
Adds(book, k, n, onto) ==
  IF n = 0 THEN book
  ELSE IF onto = None
  THEN [book EXCEPT ![NewId] = [kind |-> k, n |-> Least(n, MaxStack)]]
  ELSE [book EXCEPT ![onto].n = Least(@ + n, MaxStack)]
\* (Room: the bound on objects; what finds none is refused.)
Room(n, onto) == onto = None /\ n > 0 => Fresh # {}
Lands(k, n, onto) ==
  Room(n, onto) /\ (onto # None => There(onto, k, 1))

Takes(book, i, n) ==
  [book EXCEPT ![i] = IF book[i].n = n THEN NoStack
                      ELSE [kind |-> book[i].kind, n |-> book[i].n - n]]

---------------------------------------------------------------------------
(* The leader, between its fights: a bag, or else a pet, or else its chore. *)

Goes(m, p) == pc' = [pc EXCEPT ![m] = p]
Rests(m, p) == Goes(m, p) /\ plan' = [plan EXCEPT ![m] = Idle]
Free == lane = None
Frees == lane' = None

\* open_resource_bag_once: everything in one stack, as it is shown.
OpenBag(m) ==
  /\ m = Leader /\ pc[m] = "pass" /\ Free /\ Pile(Bag, {}) # {}
  /\ LET bag == Held(Bag, {})
         n == shown[bag].n
     IN  \/ /\ There(bag, Bag, n)
            /\ stacks' = Takes(stacks, bag, n) /\ Reports
            /\ claims' = claims + n
            /\ \/ /\ Goes(m, "claiming") /\ lane' = m /\ UNCHANGED lost
                  /\ plan' = [plan EXCEPT ![m] = Plan(<<>>, Held(BagGives, {}), BagGives, n)]
               \/ /\ lost < MaxLost /\ lost' = lost + 1
                  /\ Goes(m, "feeding") /\ UNCHANGED <<plan, lane>>
         \/ /\ ~There(bag, Bag, n) /\ Goes(m, "feeding")
            /\ UNCHANGED <<stacks, coming, claims, plan, lane, lost>>
  /\ UNCHANGED <<levels, pets, shown, petRows, memos, unsure>>

\* claim_loot_batch, onto the stack there was before the bag was opened.  What
\* is refused is not asked for again.
ClaimBag(m) ==
  /\ pc[m] = "claiming"
  /\ LET p == plan[m]
     IN  IF ~Lands(p.out, p.n, p.onto)
         THEN Rests(m, "feeding") /\ UNCHANGED <<stacks, claims, coming>>
         ELSE /\ stacks' = Adds(stacks, p.out, p.n, p.onto) /\ claims' = claims - p.n
              /\ Reports /\ Rests(m, "pass")
  /\ Frees /\ UNCHANGED <<levels, pets, shown, petRows, memos, lost, unsure>>

\* feed_pet_once: a pet that is not known to be fed today, and food of which
\* more is shown than was taken from the version shown.
Hungry == {p \in Pets : petRows[p].power < MaxFeeds /\ ~petRows[p].today /\ p \notin fed}
FoodLeft == {f \in Pile(Food, {}) : shown[f].n > spent[f]}

\* (Bag and pet are looked for in one go.)
LooksForPets(m) ==
  Free /\ (pc[m] = "feeding" \/ (pc[m] = "pass" /\ Pile(Bag, {}) = {}))

FeedPet(m) ==
  /\ m = Leader /\ LooksForPets(m)
  /\ \E p \in Hungry, f \in FoodLeft :
       \/ /\ There(f, Food, 1) /\ ~pets[p].today /\ pets[p].power < MaxFeeds
          /\ stacks' = Takes(stacks, f, 1) /\ Reports
          /\ pets' = [pets EXCEPT ![p] = [power |-> @.power + 1, today |-> TRUE]]
          /\ plan' = [plan EXCEPT ![m] = Plan(<<f>>, None, p, 1)]
          /\ Goes(m, "fed") /\ lane' = m
       \/ /\ ~(There(f, Food, 1) /\ ~pets[p].today /\ pets[p].power < MaxFeeds)
          /\ plan' = [plan EXCEPT ![m] = Plan(<<f>>, None, p, 0)]
          /\ Goes(m, "unfed") /\ lane' = m /\ UNCHANGED <<stacks, coming, pets>>
  /\ UNCHANGED <<levels, claims, shown, petRows, memos, lost, unsure>>

Unfed(m) ==
  /\ pc[m] = "unfed" /\ Frees /\ Rests(m, "chore")
  /\ UNCHANGED <<chain, rows, memos, lost, unsure>>

\* The food is counted against the version it was planned on (n: still shown).
Fed(m) ==
  /\ pc[m] = "fed" /\ Frees
  /\ \/ /\ fed' = fed \cup {plan[m].out}
        /\ spent' = [i \in Ids |-> IF i \in Spends(plan[m]) THEN spent[i] + plan[m].n ELSE spent[i]]
        /\ Rests(m, "pass") /\ UNCHANGED <<lost, unsure>>
     \/ /\ lost < MaxLost /\ lost' = lost + 1
        /\ unsure' = unsure \cup (Spends(plan[m]) \cap dirty)
                       \cup {p \in {plan[m].out} : petRows[p] # pets[p]}
        /\ Rests(m, "chore") /\ UNCHANGED <<fed, spent>>
  /\ UNCHANGED <<chain, rows, burned, cursor>>

---------------------------------------------------------------------------
(* A chore: run_chore.                                                     *)

Chore(m) ==
  \/ pc[m] = "chore"
  \/ pc[m] = "pass" /\ m # Leader
  \/ m = Leader /\ LooksForPets(m) /\ (Hungry = {} \/ FoodLeft = {})
\* Without a demand a gatherer takes what it likes (up to the reserve: a bound).
Wanted == IF Demand # {} THEN Demand ELSE {l \in Leaves : InAll(l) < Reserve}

\* gather_once, onto a stack that is shown, burned or not.
Gather(m) ==
  /\ Chore(m) /\ m \in Gatherers
  /\ Cardinality(dirty \cup {p \in Pets : petRows[p] # pets[p]}) <= MaxDirty
  /\ \E l \in Wanted :
       plan' = [plan EXCEPT ![m] =
         Plan(<<>>, IF Pile(l, {}) = {} THEN None ELSE CHOOSE i \in Pile(l, {}) : TRUE, l, 0)]
  /\ Goes(m, "gathering")
  /\ UNCHANGED <<chain, rows, memos, lane, lost, unsure>>

\* The goals of the crafts to come are read once.
ToCraft(m) ==
  IF m \in Crafters
  THEN /\ Goes(m, "crafting")
       /\ plan' = [plan EXCEPT ![m] =
            [Idle EXCEPT !.goals = [n \in 1 .. Cardinality(Families) |->
               Head(GoalsOf(CHOOSE f \in Families :
                              Cardinality({g \in Families : g < f}) = n - 1))[1]]]]
  ELSE Rests(m, "pass")

Gathered(m) ==
  /\ pc[m] = "gathering"
  /\ LET p == plan[m]
     IN  IF ~Lands(p.out, 1, p.onto)
         THEN Rests(m, "pass") /\ UNCHANGED <<stacks, coming>>
         ELSE /\ stacks' = Adds(stacks, p.out, 1, p.onto)
              /\ Reports /\ ToCraft(m)
  /\ UNCHANGED <<levels, pets, claims, shown, petRows, memos, lane, lost, unsure>>

NothingToGather(m) ==
  /\ Chore(m) /\ (m \in Gatherers => Wanted = {})
  /\ m \in Gatherers \cup Crafters
  /\ ToCraft(m)
  /\ UNCHANGED <<chain, rows, memos, lane, lost, unsure>>

\* Bug: what was burned is forgotten as soon as its craft is over.
PruneAll == {}

\* prune_party_craft_burned: what the inventory does not show any more.
Prune == burned \cap Live

\* The crafts that are tried: the families in turn from the cursor, or, when
\* there is no goal at all, any trade.
Offsets(m) == plan[m].from .. Len(plan[m].goals) - 1
GoalAt(m, o) == plan[m].goals[((cursor + o) % Len(plan[m].goals)) + 1]
Tries(m) ==
  LET able == {o \in Offsets(m) : SelectTarget(m, GoalAt(m, o), Prune) # Idle}
  IN  IF plan[m].goals # <<>>
      THEN {[SelectTarget(m, GoalAt(m, o), Prune) EXCEPT !.from = o + 1, !.goals = plan[m].goals] :
              o \in {first \in able : \A other \in able : first <= other}}
      ELSE IF Exact THEN {} ELSE {BestOf(m, j, Prune) : j \in Jobs} \ {Idle}

HasTurn(m) == (pc[m] = "crafting" /\ Free) \/ pc[m] = "blocked"

Wants(p, n) == p.n * Needs[p.out][n][2]
Supplied(p) == \A n \in DOMAIN p.in : There(p.in[n], Needs[p.out][n][1], Wants(p, n))
Used(p) ==
  [i \in Ids |-> IF i \in Spends(p)
                 THEN Takes(stacks, i, Wants(p, CHOOSE n \in DOMAIN p.in : p.in[n] = i))[i]
                 ELSE stacks[i]]

\* craft_once, in the queue: planned on what is shown then, and sent.
PlanCraft(m) ==
  /\ HasTurn(m) /\ burned' = Prune
  /\ \/ \E p \in Tries(m) :
          Goes(m, "sending") /\ plan' = [plan EXCEPT ![m] = p] /\ lane' = m
     \/ Tries(m) = {} /\ Rests(m, "pass") /\ Frees
  /\ UNCHANGED <<chain, rows, fed, spent, cursor, lost, unsure>>

Craft(m) ==
  /\ pc[m] = "sending"
  /\ LET p == plan[m]
     IN  \/ /\ Supplied(p) /\ (p.onto # None => There(p.onto, p.out, 1))
            /\ \E wins \in 0 .. p.n :
                 /\ Room(wins, p.onto)
                 /\ stacks' = Adds(Used(p), p.out, wins, p.onto)
            /\ Reports
            /\ levels' = [levels EXCEPT ![m][Job[p.out]] =
                            Least(@ + Pays[Slots(p.out)][@], MaxLevel)]
            /\ Goes(m, "made")
         \/ /\ ~Supplied(p) /\ Goes(m, "short") /\ UNCHANGED <<stacks, coming, levels>>
         \/ /\ Supplied(p) /\ p.onto # None /\ ~There(p.onto, p.out, 1)
            /\ Goes(m, "refused") /\ UNCHANGED <<stacks, coming, levels>>
  /\ UNCHANGED <<pets, claims, shown, petRows, memos, lane, plan, lost, unsure>>

\* What was spent is burned, and the next family has its turn; a chore makes a
\* few crafts (CRAFT_BATCHES_PER_CHORE).
Crafted(m) ==
  /\ pc[m] = "made" /\ Frees
  /\ burned' = burned \cup Spends(plan[m])
  /\ LET all == Len(plan[m].goals)
     IN  cursor' = IF all = 0 THEN cursor ELSE (cursor + plan[m].from) % all
  /\ \/ Goes(m, "crafting") /\ plan' = [plan EXCEPT ![m] = [Idle EXCEPT !.goals = plan[m].goals]]
     \/ Rests(m, "pass")
  /\ UNCHANGED <<chain, rows, fed, spent, lost, unsure>>

\* Refused, or the answer is lost: the next family is tried.
Fails(m) ==
  /\ \/ /\ pc[m] \in {"short", "refused"}
        /\ unsure' = unsure \ (Spends(plan[m]) \ dirty) /\ UNCHANGED lost
     \/ /\ pc[m] = "made" /\ lost < MaxLost
        /\ lost' = lost + 1 /\ unsure' = unsure \cup (Spends(plan[m]) \cap dirty)
  /\ IF plan[m].goals = <<>> THEN Rests(m, "pass") /\ Frees
     ELSE Goes(m, "blocked") /\ UNCHANGED <<plan, lane>>
  /\ UNCHANGED <<chain, rows, memos>>

---------------------------------------------------------------------------
(* The packets, and the day.                                               *)

\* A packet brings the next version of a stack.  Food is counted for each
\* version anew: when a version comes that is not the last and that meals have
\* outrun, planned on one before it, those meals are forgotten.
Sending(i) == \E m \in Members : pc[m] = "sending" /\ i \in Spends(plan[m])
Outrun(i) ==
  /\ Tail(coming[i]) # <<>>
  /\ Head(coming[i]).kind = Food /\ ~There(i, Food, Head(coming[i]).n)
StackArrives(i) ==
  /\ coming[i] # <<>>
  /\ shown' = [shown EXCEPT ![i] = Head(coming[i])]
  /\ coming' = [coming EXCEPT ![i] = Tail(coming[i])]
  /\ spent' = [spent EXCEPT ![i] = 0]
  /\ plan' = [m \in Members |-> IF pc[m] = "fed" /\ i \in Spends(plan[m])
                               THEN [plan[m] EXCEPT !.n = 0] ELSE plan[m]]
  /\ unsure' = IF Outrun(i) THEN unsure \cup {i}
               ELSE IF Tail(coming[i]) = <<>> /\ ~Sending(i) THEN unsure \ {i} ELSE unsure
  /\ UNCHANGED <<chain, petRows, burned, fed, cursor, lane, pc, lost>>

\* The row of a pet shows one of its meals; that of today is the last.
PetArrives(p) ==
  /\ \E power \in petRows[p].power + 1 .. pets[p].power :
       petRows' = [petRows EXCEPT ![p] =
                     [power |-> power, today |-> power = pets[p].power /\ pets[p].today]]
  /\ unsure' = IF petRows'[p] = pets[p] THEN unsure \ {p} ELSE unsure
  /\ UNCHANGED <<chain, shown, coming, memos, lane, pc, plan, lost>>

BagArrives == (\E i \in Ids : StackArrives(i)) \/ (\E p \in Pets : PetArrives(p))

\* A meal that is not shown yet is yesterday's: it is not remembered any more.
DayTurns ==
  /\ \E p \in Pets : pets[p].today
  /\ \A m \in Members : pc[m] # "fed"
  /\ pets' = [p \in Pets |-> [pets[p] EXCEPT !.today = FALSE]]
  /\ petRows' = [p \in Pets |-> [petRows[p] EXCEPT !.today = FALSE]] /\ fed' = {}
  /\ unsure' = unsure \cup {p \in Pets : petRows[p].power # pets[p].power}
  /\ UNCHANGED <<stacks, levels, claims, shown, coming, burned, spent, cursor, lane, pc, plan, lost>>

Step(m) ==
  \/ OpenBag(m) \/ ClaimBag(m) \/ FeedPet(m) \/ Unfed(m) \/ Fed(m)
  \/ Gather(m) \/ Gathered(m) \/ NothingToGather(m)
  \/ Craft(m) \/ Crafted(m) \/ Fails(m)

Next == (\E m \in Members : Step(m) \/ PlanCraft(m)) \/ BagArrives \/ DayTurns

Spec == Init /\ [][Next]_vars

\* Whoever has its turn plans and goes on; the queue is first in, first out, so
\* the bags have theirs, too.
TakesTurn(m) == HasTurn(m) /\ \E p \in {"sending", "pass"} : pc' = [pc EXCEPT ![m] = p]
\* A recipe that is made over and over again yields something at last.
Wins(m, k) ==
  Craft(m) /\ plan[m].out = k /\ \E i \in Ids : stacks'[i] # stacks[i] /\ i \notin Spends(plan[m])

FairSpec ==
  /\ Spec /\ WF_vars(BagArrives)
  /\ \A m \in Members : WF_vars(Step(m)) /\ WF_pc(TakesTurn(m))
  /\ SF_vars(OpenBag(Leader))
  /\ \A m \in Crafters, k \in Made : SF_vars(Wins(m, k))

---------------------------------------------------------------------------
(* Properties.                                                             *)

\* A craft fails for want of an ingredient only after an answer was lost, and a
\* pet is refused its food only then, or after the day turned before its meal was
\* shown, or a packet showed an older version of the food, of which more was left
\* (two changes of one stack were on their way, and its meals are counted for the
\* version they were planned on): otherwise
\* nobody plans on a stack that somebody used up, nor feeds a pet that has eaten,
\* although the inventory still shows the stack and the hungry pet
\* (craft.ts:38-47, session.ts:346-359, pet.ts:107-127).
SpendsWhatIsThere ==
  [][\A m \in Members : pc[m] # pc'[m] /\ pc'[m] \in {"short", "unfed"} =>
       (Spends(plan'[m]) \cup {plan'[m].out}) \cap unsure # {}]_vars

\* A party that wants an item gets it again and again, however low its trade,
\* though a pet may eat it (craft.ts:290-400): its gatherers bring what is
\* missing, and its crafters train on what they may make.  Except that a stack
\* which a craft used in part counts as stock but as used up as well, and nothing
\* is gathered in its stead nor made of it.
LockedIn == \E i \in burned \ dirty : stacks[i].n > 0
GoalIsReached == []<>(Families = {} \/ LockedIn)
=============================================================================
