-------------------------- MODULE Workshop_proofs --------------------------
(***************************************************************************)
(* Proofs about the shared kiosk, for any party, recipes, goals and pets,  *)
(* and whatever the packets show late: any number of versions of a stack    *)
(* may be on their way, and each is shown in its turn.                      *)
(***************************************************************************)
EXTENDS Workshop, FiniteSetTheorems, WellFoundedInduction, TLAPS

(* Who holds craft_queue. *)
Holding == {"claiming", "fed", "unfed", "sending", "made", "short", "refused", "blocked"}
(* Who has a plan of a craft in hand. *)
Crafting == {"sending", "made", "short", "refused"}

Fields == {"in", "onto", "out", "n", "from", "goals"}
PlanTyped(p) ==
  /\ p = [f \in Fields |-> p[f]]
  /\ p.onto \in Ids \cup {None} /\ p.n \in Nat

TypeOK ==
  /\ stacks \in [Ids -> Stacks] /\ shown \in [Ids -> Stacks]
  /\ pets \in [Pets -> [power : Nat, today : BOOLEAN]]
  /\ petRows \in [Pets -> [power : Nat, today : BOOLEAN]]
  /\ coming \in [Ids -> Seq(Stacks)] /\ burned \subseteq Ids /\ spent \in [Ids -> Nat]
  /\ pc \in [Members -> {"pass", "feeding", "chore", "gathering", "crafting"} \cup Holding]
  /\ plan = [m \in Members |-> plan[m]] /\ \A m \in Members : PlanTyped(plan[m])

(* The queue serves one at a time, and only the leader feeds. *)
QueueHeld ==
  /\ \A m \in Members : pc[m] \in Holding => lane = m
  /\ \A m \in Members : pc[m] \in {"fed", "unfed", "claiming"} => m = Leader

(* What is on its way to a stack is an item, and a meal is of one stack. *)
Delivery(p) == p.out \in Kinds
Meal(p) == p.in = <<p.in[1]>>
DeliversItems ==
  /\ \A m \in Members : pc[m] \in {"gathering", "claiming"} => Delivery(plan[m])
  /\ \A m \in Members : pc[m] = "fed" => Meal(plan[m])

(* What is not dirty is shown as it is, and otherwise the last version that is on
   its way is what there is. *)
CleanIsShown ==
  \A i \in Ids : IF coming[i] = <<>> THEN shown[i] = stacks[i]
                ELSE coming[i][Len(coming[i])] = stacks[i]

(* A stack that is gone comes back as another object. *)
RemovedIsLast == \A i \in Ids : \A n \in 1 .. Len(coming[i]) - 1 : coming[i][n].n > 0

(* As a version of a stack has it, or will have it, so it is there, unless a craft
   used it up: then it is still shown, and burned, or its craft is not over, or
   the answer was lost. *)
Versions(i) == {shown[i]} \cup {coming[i][n] : n \in DOMAIN coming[i]}
Kept(i, v) == stacks[i].kind = v.kind /\ stacks[i].n >= v.n
JustUsed(i) == \E m \in Members : pc[m] = "made" /\ i \in Spends(plan[m])
Remembered(i) == i \in Live /\ (i \in burned \cup unsure \/ JustUsed(i))
UsedIsBurned ==
  \A i \in Ids : \A v \in Versions(i) :
    v.n > 0 /\ v.kind \notin {Bag, Food} => Kept(i, v) \/ Remembered(i)

(* What the pets ate of a stack of food is counted against what is shown. *)
Eating(i) == IF pc[Leader] = "fed" /\ i \in Spends(plan[Leader]) THEN plan[Leader].n ELSE 0
Counted(i) ==
  \/ i \in unsure
  \/ shown[i].n <= spent[i] + Eating(i)
  \/ stacks[i].kind = Food /\ stacks[i].n + spent[i] + Eating(i) >= shown[i].n
FoodIsCounted == \A i \in Live : shown[i].kind = Food => Counted(i)

(* A pet that is shown as it was before its meal is known to have eaten. *)
MealIsKnown(p) ==
  p \in unsure \cup fed \/ petRows[p] = pets[p] \/ (pc[Leader] = "fed" /\ plan[Leader].out = p)
MealsAreKnown == \A p \in Pets : MealIsKnown(p)

(* The plan of a craft is one of its recipe, and what it will use is there when
   it is sent. *)
PlanOfRecipe(p) ==
  /\ p.out \in Made /\ p.n \in 1 .. MaxStack
  /\ p.in = [n \in DOMAIN Needs[p.out] |-> p.in[n]]
  /\ \A n \in DOMAIN Needs[p.out] : p.in[n] \in Ids
PlansFollowRecipes == \A m \in Members : pc[m] \in Crafting => PlanOfRecipe(plan[m])
SureOf(p) ==
  \A n \in DOMAIN p.in : There(p.in[n], Needs[p.out][n][1], Wants(p, n)) \/ p.in[n] \in unsure
SendsWhatIsThere == \A m \in Members : pc[m] = "sending" => SureOf(plan[m])

(* Nobody knows of an object that is on its way for the first time. *)
SendsWhatIsKnown ==
  \A m \in Members : pc[m] = "sending" => \A i \in Spends(plan[m]) : i \in Live \/ coming[i] = <<>>

(* All that is known of the kiosk. *)
Known ==
  /\ CleanIsShown /\ RemovedIsLast /\ UsedIsBurned /\ FoodIsCounted /\ MealsAreKnown
  /\ SendsWhatIsThere /\ SendsWhatIsKnown

IInv ==
  /\ TypeOK /\ QueueHeld /\ DeliversItems /\ PlansFollowRecipes
  /\ CleanIsShown /\ RemovedIsLast /\ UsedIsBurned /\ FoodIsCounted /\ MealsAreKnown
  /\ SendsWhatIsThere /\ SendsWhatIsKnown

-----------------------------------------------------------------------------
(* Choosing the largest. *)

(* Of finitely many things with a size one is as large as any. *)
LEMMA LargestExists ==
  ASSUME NEW S, IsFiniteSet(S), S # {}, NEW size \in [S -> Nat]
  PROVE  \E i \in S : \A other \in S : size[other] <= size[i]
<1> DEFINE Above(i) == {other \in S : size[other] > size[i]}
           aboves == {Above(i) : i \in S}
<1>1. aboves \subseteq FiniteSubsetsOf(S) /\ aboves # {}
  <2>1. \A i \in S : Above(i) \in SUBSET S
    OBVIOUS
  <2> HIDE DEF Above
  <2>2. aboves \subseteq SUBSET S /\ aboves # {}
    BY <2>1
  <2> QED
    BY <2>2, FS_FiniteSubsetsOfFinite
<1>2. PICK least \in aboves : \A set \in aboves : <<set, least>> \notin StrictSubsetOrdering(S)
  <2> HIDE DEF aboves
  <2> QED
    BY <1>1, FS_StrictSubsetOrderingWellFounded, WFMin, Zenon
<1>3. PICK i \in S : least = Above(i)
  BY <1>2
<1>4. ASSUME NEW other \in S, ~ (size[other] <= size[i]) PROVE FALSE
  <2>1. size[other] > size[i] /\ size[other] \in Nat /\ size[i] \in Nat
    BY <1>4
  <2>2. Above(other) \subseteq Above(i) /\ other \in Above(i) /\ other \notin Above(other)
    BY <2>1
  <2>3. Above(other) \in aboves /\ Above(i) \in SUBSET S /\ Above(other) \in SUBSET S
    OBVIOUS
  <2> HIDE DEF Above, aboves
  <2> QED
    BY <1>2, <1>3, <2>2, <2>3 DEF StrictSubsetOrdering
<1>5. \A other \in S : size[other] <= size[i]
  BY <1>4
<1> HIDE DEF Above, aboves
<1> QED
  BY <1>5

(* affordable_attempts: the greatest of some numbers of attempts is one of
   them. *)
LEMMA MaxIsOne ==
  ASSUME NEW N \in Nat, NEW S \in SUBSET (1 .. N), S # {}
  PROVE  Max(S) \in S
<1> DEFINE size == [a \in S |-> a]
<1>1. IsFiniteSet(S)
  <2>1. IsFiniteSet(1 .. N)
    BY FS_Interval
  <2> QED
    BY <2>1, FS_Subset
<1>2. size \in [S -> Nat]
  OBVIOUS
<1>3. PICK a \in S : \A o \in S : size[o] <= size[a]
  BY <1>1, <1>2, LargestExists
<1>4. \A o \in S : a >= o
  BY <1>3
<1> QED
  BY <1>4 DEF Max

(* held: where a kind is shown and not gone, the largest stack of it is. *)
LEMMA HeldInPile ==
  ASSUME TypeOK, NEW k, NEW gone, Pile(k, gone) # {}
  PROVE  Held(k, gone) \in Pile(k, gone)
<1> DEFINE S == Pile(k, gone)
           size == [i \in S |-> shown[i].n]
<1>1. S # {} /\ S \subseteq Ids
  BY DEF Pile, Live
<1>2. IsFiniteSet(S)
  BY <1>1, FS_Subset, WorkshopAssumption
<1>3. size \in [S -> Nat]
  <2>1. \A i \in Ids : shown[i].n \in Nat
    BY WorkshopAssumption DEF TypeOK, Stacks
  <2> QED
    BY <1>1, <2>1
<1>4. \E i \in S : \A o \in S : size[o] <= size[i]
  <2> HIDE DEF S, size
  <2> QED
    BY <1>1, <1>2, <1>3, LargestExists
<1>5. \E i \in S : \A o \in S : shown[o].n <= shown[i].n
  BY <1>4
<1> HIDE DEF S
<1>6. Held(k, gone) = CHOOSE i \in S : \A o \in S : shown[o].n <= shown[i].n
  BY <1>1 DEF Held, S
<1> QED
  BY <1>5, <1>6 DEF S

LEMMA HeldIsShown ==
  ASSUME TypeOK, NEW k, NEW gone, Held(k, gone) # None
  PROVE  Held(k, gone) \in Pile(k, gone)
<1>1. Pile(k, gone) # {}
  BY DEF Held
<1> QED
  BY <1>1, HeldInPile

(* An amount that is positive is that of the stack that is held. *)
LEMMA AmountIsHeld ==
  ASSUME TypeOK, NEW k, NEW gone, NEW a \in Nat \ {0}, Amount(k, gone) >= a
  PROVE  /\ Held(k, gone) \in Ids /\ Held(k, gone) \in Live \ gone
         /\ shown[Held(k, gone)].kind = k /\ shown[Held(k, gone)].n >= a
<1>1. Held(k, gone) # None
  BY DEF Amount
<1>2. Held(k, gone) \in Pile(k, gone)
  BY <1>1, HeldIsShown
<1> QED
  BY <1>1, <1>2 DEF Amount, Pile, Live

-----------------------------------------------------------------------------
(* Planning on what is shown. *)

(* A plan of a recipe takes stacks that are shown and not gone, and of which
   enough is shown. *)
ShownFor(p, gone) ==
  \A n \in DOMAIN p.in :
    /\ p.in[n] \in Live \ gone /\ shown[p.in[n]].kind = Needs[p.out][n][1]
    /\ shown[p.in[n]].n >= Wants(p, n)
GoodPlan(p, gone) == PlanTyped(p) /\ PlanOfRecipe(p) /\ ShownFor(p, gone)

(* The ingredients of a recipe. *)
LEMMA Ingredients ==
  ASSUME NEW k \in Made, NEW n \in DOMAIN Needs[k]
  PROVE  Needs[k][n][1] \in Kinds \ {Bag, Food} /\ Needs[k][n][2] \in Nat \ {0}
BY WorkshopAssumption

(* Some attempts at some units each are some units. *)
LEMMA Product ==
  ASSUME NEW a \in Nat \ {0}, NEW b \in Nat \ {0}
  PROVE  a * b \in Nat \ {0}
OBVIOUS

LEMMA RecipePlan ==
  ASSUME TypeOK, NEW m, NEW k, NEW gone, NEW zero_xp, NEW cap,
         PlanRecipe(m, k, gone, zero_xp, cap) # Idle
  PROVE  GoodPlan(PlanRecipe(m, k, gone, zero_xp, cap), gone)
<1> DEFINE p == PlanRecipe(m, k, gone, zero_xp, cap)
           most == Max(Affordable(k, gone, cap))
<1>1. k \in Made /\ Affordable(k, gone, cap) # {}
  BY DEF PlanRecipe
<1>2. p = [in |-> [n \in DOMAIN Needs[k] |-> Held(Needs[k][n][1], gone)], onto |-> Held(k, gone),
           out |-> k, n |-> most, from |-> 0, goals |-> <<>>]
  BY DEF PlanRecipe, Plan
<1>3. most \in 1 .. MaxStack /\ \A n \in DOMAIN Needs[k] : Amount(Needs[k][n][1], gone) >= most * Needs[k][n][2]
  <2>1. most \in Affordable(k, gone, cap)
    BY <1>1, MaxIsOne, WorkshopAssumption DEF Affordable
  <2> HIDE DEF most
  <2> QED
    BY <2>1 DEF Affordable
<1> HIDE DEF p, most
<1>4. ASSUME NEW n \in DOMAIN Needs[k]
      PROVE  /\ Held(Needs[k][n][1], gone) \in Ids
             /\ Held(Needs[k][n][1], gone) \in Live \ gone
             /\ shown[Held(Needs[k][n][1], gone)].kind = Needs[k][n][1]
             /\ shown[Held(Needs[k][n][1], gone)].n >= most * Needs[k][n][2]
  <2>1. most \in Nat \ {0} /\ Needs[k][n][2] \in Nat \ {0}
    BY <1>1, <1>3, Ingredients
  <2>2. most * Needs[k][n][2] \in Nat \ {0}
    BY <2>1, Product
  <2>3. Amount(Needs[k][n][1], gone) >= most * Needs[k][n][2]
    BY <1>3
  <2> QED
    BY <2>2, <2>3, AmountIsHeld
<1>5. Held(k, gone) \in Ids \cup {None}
  BY HeldIsShown DEF Pile, Live
<1>6. PlanTyped(p)
  BY <1>2, <1>3, <1>5 DEF PlanTyped, Fields
<1>7. PlanOfRecipe(p)
  BY <1>1, <1>2, <1>3, <1>4 DEF PlanOfRecipe
<1>8. ShownFor(p, gone)
  BY <1>2, <1>4 DEF ShownFor, Wants
<1> QED
  BY <1>6, <1>7, <1>8 DEF GoodPlan, p

(* Whatever is made instead of a blocked recipe is a plan of a recipe too. *)
LEMMA StepPlan ==
  ASSUME TypeOK, NEW m, NEW k, NEW gone, NEW zero_xp, NEW cap,
         PlanOrStep(m, k, gone, zero_xp, cap) # Idle
  PROVE  GoodPlan(PlanOrStep(m, k, gone, zero_xp, cap), gone)
<1>1. \/ PlanOrStep(m, k, gone, zero_xp, cap) = PlanRecipe(m, k, gone, zero_xp, cap)
      \/ PlanOrStep(m, k, gone, zero_xp, cap)
           = PlanRecipe(m, Prerequisite(m, k, gone, zero_xp), gone, zero_xp, MaxStack)
  BY DEF PlanOrStep
<1> QED
  BY <1>1, RecipePlan

(* And so is the best craft of a trade. *)
LEMMA TradePlan ==
  ASSUME TypeOK, NEW m, NEW job, NEW gone, BestOf(m, job, gone) # Idle
  PROVE  GoodPlan(BestOf(m, job, gone), gone)
<1>1. \E k : BestOf(m, job, gone) = PlanOrStep(m, k, gone, FALSE, MaxStack)
  BY DEF BestOf
<1> QED
  BY <1>1, StepPlan

(* select_craft_target, for a goal of any family. *)
LEMMA TargetPlan ==
  ASSUME TypeOK, NEW m, NEW goal, NEW gone, SelectTarget(m, goal, gone) # Idle
  PROVE  GoodPlan(SelectTarget(m, goal, gone), gone)
<1>1. CASE SelectTarget(m, goal, gone) = PlanOrStep(m, goal, gone, TRUE, Cap)
  <2>1. PlanOrStep(m, goal, gone, TRUE, Cap) # Idle
    BY <1>1
  <2>2. GoodPlan(PlanOrStep(m, goal, gone, TRUE, Cap), gone)
    BY <2>1, StepPlan
  <2> QED
    BY <1>1, <2>2
<1>2. CASE SelectTarget(m, goal, gone) = BestOf(m, Job[goal], gone)
  <2>1. BestOf(m, Job[goal], gone) # Idle
    BY <1>2
  <2> QED
    BY <1>2, <2>1, TradePlan
<1> QED
  BY <1>1, <1>2 DEF SelectTarget

(* Where a craft stands among the families changes nothing of its recipe. *)
LEMMA SameRecipe ==
  ASSUME NEW p, NEW gone, NEW from, NEW goals, GoodPlan(p, gone)
  PROVE  GoodPlan([p EXCEPT !.from = from, !.goals = goals], gone)
<1> DEFINE q == [p EXCEPT !.from = from, !.goals = goals]
<1>1. p = [f \in Fields |-> p[f]]
  BY DEF GoodPlan, PlanTyped
<1>2. q = [f \in Fields |-> IF f = "goals" THEN goals ELSE IF f = "from" THEN from ELSE p[f]]
  BY <1>1 DEF Fields
<1> HIDE DEF q
<1>3. q.in = p.in /\ q.onto = p.onto /\ q.out = p.out /\ q.n = p.n /\ q = [f \in Fields |-> q[f]]
  BY <1>2 DEF Fields
<1>4. PlanTyped(q) /\ PlanOfRecipe(q) /\ ShownFor(q, gone)
  BY <1>3 DEF GoodPlan, PlanTyped, PlanOfRecipe, ShownFor, Wants
<1> QED
  BY <1>4 DEF GoodPlan, q

(* What a crafter may try in its turn. *)
LEMMA TriedPlan ==
  ASSUME TypeOK, NEW m, NEW p \in Tries(m)
  PROVE  GoodPlan(p, Prune)
<1>1. CASE plan[m].goals # <<>>
  <2> DEFINE target(o) == SelectTarget(m, GoalAt(m, o), Prune)
             able == {o \in Offsets(m) : target(o) # Idle}
  <2>1. PICK o \in able : p = [target(o) EXCEPT !.from = o + 1, !.goals = plan[m].goals]
    BY <1>1 DEF Tries
  <2>2. target(o) # Idle
    BY <2>1
  <2> QED
    BY <2>1, <2>2, TargetPlan, SameRecipe
<1>2. CASE plan[m].goals = <<>>
  <2>1. \E j \in Jobs : p = BestOf(m, j, Prune) /\ p # Idle
    BY <1>2 DEF Tries
  <2> QED
    BY <2>1, TradePlan
<1> QED
  BY <1>1, <1>2

-----------------------------------------------------------------------------
(* What the chain does to the stacks. *)

LEMMA NewIdIsFresh ==
  ASSUME Fresh # {}
  PROVE  NewId \in Fresh /\ NewId \in Ids
BY DEF NewId, Fresh

(* Units that land make a stack larger, or a new one of an object nobody knows. *)
LEMMA AddsGrow ==
  ASSUME NEW book \in [Ids -> Stacks], NEW k \in Kinds, NEW n \in Nat,
         NEW onto \in Ids \cup {None}, Room(n, onto)
  PROVE  /\ Adds(book, k, n, onto) \in [Ids -> Stacks]
         /\ \A i \in Ids : \/ /\ Adds(book, k, n, onto)[i].kind = book[i].kind
                              /\ Adds(book, k, n, onto)[i].n >= book[i].n
                           \/ i \in Fresh
         /\ \A i \in Ids : Adds(book, k, n, onto)[i] = book[i] \/ i = onto \/ i \in Fresh
<1> USE WorkshopAssumption
<1>0. \A i \in Ids : /\ book[i] = [kind |-> book[i].kind, n |-> book[i].n]
                     /\ book[i].kind \in Kinds \cup {None} /\ book[i].n \in 0 .. MaxStack
  BY DEF Stacks
<1>1. CASE n = 0
  BY <1>0, <1>1 DEF Adds
<1>2. CASE n # 0 /\ onto = None
  <2>1. NewId \in Fresh /\ NewId \in Ids
    BY <1>2, NewIdIsFresh DEF Room
  <2>2. Least(n, MaxStack) \in 0 .. MaxStack
    BY DEF Least
  <2>3. Adds(book, k, n, onto) = [book EXCEPT ![NewId] = [kind |-> k, n |-> Least(n, MaxStack)]]
    BY <1>2 DEF Adds
  <2>4. [kind |-> k, n |-> Least(n, MaxStack)] \in Stacks
    BY <2>2 DEF Stacks
  <2>5. Adds(book, k, n, onto) \in [Ids -> Stacks]
        /\ \A i \in Ids \ {NewId} : Adds(book, k, n, onto)[i] = book[i]
    BY <2>1, <2>3, <2>4
  <2>6. \A i \in Ids \ {NewId} : book[i].n >= book[i].n
    BY <1>0
  <2> QED
    BY <2>1, <2>5, <2>6
<1>3. CASE n # 0 /\ onto # None
  <2> DEFINE more == Least(book[onto].n + n, MaxStack)
  <2>1. onto \in Ids
    BY <1>3
  <2>2. more \in 0 .. MaxStack /\ more >= book[onto].n
    BY <1>0, <2>1 DEF Least
  <2> HIDE DEF more
  <2>3. Adds(book, k, n, onto) = [book EXCEPT ![onto] = [kind |-> book[onto].kind, n |-> more]]
    <3>1. Adds(book, k, n, onto) = [book EXCEPT ![onto].n = Least(@ + n, MaxStack)]
      BY <1>3 DEF Adds
    <3>2. book[onto] = [kind |-> book[onto].kind, n |-> book[onto].n]
      BY <1>0, <2>1
    <3>3. [book[onto] EXCEPT !.n = Least(@ + n, MaxStack)] = [kind |-> book[onto].kind, n |-> more]
      BY <3>2 DEF more
    <3> QED
      BY <3>1, <3>3
  <2>4. [kind |-> book[onto].kind, n |-> more] \in Stacks
    BY <1>0, <2>1, <2>2 DEF Stacks
  <2> QED
    BY <1>0, <2>1, <2>2, <2>3, <2>4
<1> QED
  BY <1>1, <1>2, <1>3

(* What is taken from a stack is missing there and nowhere else. *)
LEMMA TakesLessen ==
  ASSUME NEW book \in [Ids -> Stacks], NEW i \in Ids, NEW n \in Nat, book[i].n >= n
  PROVE  /\ Takes(book, i, n) \in [Ids -> Stacks]
         /\ \A o \in Ids \ {i} : Takes(book, i, n)[o] = book[o]
         /\ Takes(book, i, n)[i].n = book[i].n - n
         /\ n < book[i].n => Takes(book, i, n)[i].kind = book[i].kind
<1> USE WorkshopAssumption
<1>1. book[i] = [kind |-> book[i].kind, n |-> book[i].n] /\ book[i].kind \in Kinds \cup {None}
      /\ book[i].n \in 0 .. MaxStack
  BY DEF Stacks
<1>2. Takes(book, i, n)
        = [book EXCEPT ![i] = IF book[i].n = n THEN NoStack ELSE [kind |-> book[i].kind, n |-> book[i].n - n]]
  BY DEF Takes
<1>3. NoStack \in Stacks /\ (book[i].n # n => [kind |-> book[i].kind, n |-> book[i].n - n] \in Stacks)
  BY <1>1 DEF NoStack, Stacks
<1> QED
  BY <1>1, <1>2, <1>3 DEF NoStack

(* A plan of any kind has the fields of a plan. *)
LEMMA SomePlan ==
  ASSUME NEW ins, NEW onto \in Ids \cup {None}, NEW out, NEW n \in Nat, NEW from, NEW goals
  PROVE  PlanTyped([in |-> ins, onto |-> onto, out |-> out, n |-> n, from |-> from, goals |-> goals])
BY DEF PlanTyped, Fields

LEMMA PlanIsPlan ==
  ASSUME NEW ins, NEW onto \in Ids \cup {None}, NEW out, NEW n \in Nat
  PROVE  /\ PlanTyped(Plan(ins, onto, out, n))
         /\ Plan(ins, onto, out, n).in = ins /\ Plan(ins, onto, out, n).out = out
         /\ Plan(ins, onto, out, n).n = n
BY SomePlan DEF Plan

LEMMA IdleIsPlan == PlanTyped(Idle)
BY PlanIsPlan DEF Idle

(* Who takes up another plan leaves those of the others alone. *)
LEMMA OnePlan ==
  ASSUME TypeOK, NEW m \in Members, NEW p, PlanTyped(p), plan' = [plan EXCEPT ![m] = p]
  PROVE  /\ plan' = [o \in Members |-> plan'[o]] /\ \A o \in Members : PlanTyped(plan'[o])
         /\ plan'[m] = p /\ \A o \in Members \ {m} : plan'[o] = plan[o]
<1>1. plan = [o \in Members |-> plan[o]] /\ \A o \in Members : PlanTyped(plan[o])
  BY DEF TypeOK
<1>2. plan' = [o \in Members |-> IF o = m THEN p ELSE plan[o]]
  BY <1>1
<1> QED
  BY <1>1, <1>2

-----------------------------------------------------------------------------
(* What an action owes the invariant. *)

Places == {"pass", "feeding", "chore", "gathering", "crafting"} \cup Holding

(* One member goes on to another place with another plan: the queue and the
   plans stay in order when it may hold the queue and its plan fits the place. *)
LEMMA GoesOn ==
  ASSUME IInv, NEW m \in Members, NEW q \in Places, NEW p, PlanTyped(p),
         pc' = [pc EXCEPT ![m] = q], plan' = [plan EXCEPT ![m] = p],
         lane' = lane \/ lane = None \/ lane = m,
         q \in Holding => lane' = m,
         q \in {"fed", "unfed", "claiming"} => m = Leader,
         q \in {"gathering", "claiming"} => Delivery(p), q = "fed" => Meal(p),
         q \in Crafting => PlanOfRecipe(p)
  PROVE  /\ pc' \in [Members -> Places]
         /\ plan' = [o \in Members |-> plan'[o]] /\ \A o \in Members : PlanTyped(plan'[o])
         /\ QueueHeld' /\ DeliversItems' /\ PlansFollowRecipes'
         /\ pc'[m] = q /\ plan'[m] = p
         /\ \A o \in Members \ {m} : pc'[o] = pc[o] /\ plan'[o] = plan[o]
<1>1. pc \in [Members -> Places] /\ TypeOK
  BY DEF IInv, TypeOK, Places
<1>2. /\ plan' = [o \in Members |-> plan'[o]] /\ \A o \in Members : PlanTyped(plan'[o])
      /\ plan'[m] = p /\ \A o \in Members \ {m} : plan'[o] = plan[o]
  BY <1>1, OnePlan
<1>3. /\ pc' \in [Members -> Places] /\ pc'[m] = q
      /\ \A o \in Members \ {m} : pc'[o] = pc[o]
  BY <1>1
<1>4. QueueHeld'
  <2>1. \A o \in Members : pc'[o] \in Holding => lane' = o
    <3>1. ASSUME NEW o \in Members \ {m}, pc'[o] \in Holding PROVE lane' = o
      <4>1. lane = o /\ o # None
        BY <1>3, <3>1, WorkshopAssumption DEF IInv, QueueHeld
      <4> QED
        BY <4>1
    <3> QED
      BY <1>3, <3>1
  <2>2. \A o \in Members : pc'[o] \in {"fed", "unfed", "claiming"} => o = Leader
    BY <1>3 DEF IInv, QueueHeld
  <2> QED
    BY <2>1, <2>2 DEF QueueHeld
<1>5. DeliversItems'
  <2>1. ASSUME NEW o \in Members, pc'[o] \in {"gathering", "claiming"} PROVE Delivery(plan'[o])
    BY <1>2, <1>3, <2>1 DEF IInv, DeliversItems
  <2>2. ASSUME NEW o \in Members, pc'[o] = "fed" PROVE Meal(plan'[o])
    BY <1>2, <1>3, <2>2 DEF IInv, DeliversItems
  <2> QED
    BY <2>1, <2>2 DEF DeliversItems, Delivery, Meal
<1>6. PlansFollowRecipes'
  <2>1. ASSUME NEW o \in Members, pc'[o] \in Crafting PROVE PlanOfRecipe(plan'[o])
    BY <1>2, <1>3, <2>1 DEF IInv, PlansFollowRecipes
  <2> QED
    BY <2>1 DEF PlansFollowRecipes, PlanOfRecipe
<1> QED
  BY <1>2, <1>3, <1>4, <1>5, <1>6

(* It may as well keep its plan. *)
LEMMA SamePlan ==
  ASSUME TypeOK, NEW m \in Members, UNCHANGED plan
  PROVE  PlanTyped(plan[m]) /\ plan' = [plan EXCEPT ![m] = plan[m]]
BY DEF TypeOK

(* A change of a stack is one of a stack that is there, or of a new object. *)
Changed(i) == stacks'[i] # stacks[i]
Grows(i) == stacks'[i].kind = stacks[i].kind /\ stacks'[i].n >= stacks[i].n
Lawful ==
  /\ stacks' \in [Ids -> Stacks] /\ Reports
  /\ \A i \in Ids : Changed(i) => stacks[i].n > 0 \/ i \in Fresh

LEMMA NatFields ==
  ASSUME IInv
  PROVE  \A i \in Ids : /\ stacks[i].n \in Nat /\ shown[i].n \in Nat /\ spent[i] \in Nat
                        /\ \A v \in Versions(i) : v.n \in Nat
<1>1. \A s \in Stacks : s.n \in Nat
  BY WorkshopAssumption DEF Stacks
<1>2. ASSUME NEW i \in Ids, NEW v \in Versions(i) PROVE v \in Stacks
  <2>1. coming[i] \in Seq(Stacks) /\ shown[i] \in Stacks
    BY DEF IInv, TypeOK
  <2> QED
    BY <2>1 DEF Versions
<1> QED
  BY <1>1, <1>2 DEF IInv, TypeOK

(* What is shown of a stack that is not dirty is what there is. *)
LEMMA CleanVersions ==
  ASSUME IInv, NEW i \in Ids, coming[i] = <<>>
  PROVE  shown[i] = stacks[i] /\ Versions(i) = {stacks[i]}
BY DEF IInv, CleanIsShown, Versions

(* Nothing is known, nor on its way, of an object that is to be minted. *)
LEMMA FreshIsUnknown ==
  ASSUME IInv, NEW i \in Ids, i \in Fresh
  PROVE  /\ coming[i] = <<>> /\ i \notin Live /\ ~ (stacks[i].n > 0)
         /\ \A v \in Versions(i) : ~ (v.n > 0)
         /\ \A m \in Members : i \notin Spends(plan[m])
<1>1. coming[i] = <<>> /\ i \notin Live /\ ~ (stacks[i].n > 0) /\ \A m \in Members : i \notin Spends(plan[m])
  BY DEF Fresh, dirty
<1> QED
  BY <1>1, CleanVersions

(* What changed is reported at the end of what is on its way. *)
LEMMA ReportsLast ==
  ASSUME IInv, Lawful, UNCHANGED shown
  PROVE  /\ coming' \in [Ids -> Seq(Stacks)] /\ CleanIsShown' /\ RemovedIsLast'
         /\ \A i \in Ids : \A v \in Versions(i)' : v \in Versions(i) \/ v = stacks'[i]
         /\ \A i \in Ids : coming'[i] = <<>> => coming[i] = <<>> /\ ~ Changed(i)
         /\ \A i \in Ids : ~ Changed(i) => coming'[i] = coming[i]
<1> DEFINE more(i) == Append(coming[i], stacks'[i])
<1>1. ASSUME NEW i \in Ids
      PROVE  /\ coming'[i] = IF Changed(i) THEN more(i) ELSE coming[i]
             /\ coming[i] \in Seq(Stacks) /\ stacks'[i] \in Stacks
             /\ more(i) \in Seq(Stacks) /\ Len(more(i)) = Len(coming[i]) + 1
             /\ more(i)[Len(coming[i]) + 1] = stacks'[i] /\ more(i) # <<>>
             /\ \A n \in 1 .. Len(coming[i]) : more(i)[n] = coming[i][n]
  <2>1. coming[i] \in Seq(Stacks) /\ stacks'[i] \in Stacks
    BY DEF IInv, TypeOK, Lawful
  <2>2. coming'[i] = IF Changed(i) THEN more(i) ELSE coming[i]
    BY DEF Lawful, Reports, Changed
  <2> QED
    BY <2>1, <2>2
<1>2. coming' = [i \in Ids |-> coming'[i]]
  BY DEF Lawful, Reports
<1> HIDE DEF more
<1>3. coming' \in [Ids -> Seq(Stacks)]
  BY <1>1, <1>2
<1>4. CleanIsShown'
  <2>1. ASSUME NEW i \in Ids
        PROVE  IF coming'[i] = <<>> THEN shown[i] = stacks'[i] ELSE coming'[i][Len(coming'[i])] = stacks'[i]
    <3>1. CASE Changed(i)
      BY <1>1, <3>1
    <3>2. CASE ~ Changed(i)
      BY <1>1, <3>2 DEF IInv, CleanIsShown, Changed
    <3> QED
      BY <3>1, <3>2
  <2> QED
    BY <2>1 DEF CleanIsShown
<1>5. RemovedIsLast'
  <2>1. ASSUME NEW i \in Ids, NEW n \in 1 .. Len(coming'[i]) - 1 PROVE coming'[i][n].n > 0
    <3>1. CASE ~ Changed(i)
      BY <1>1, <2>1, <3>1 DEF IInv, RemovedIsLast
    <3>2. CASE Changed(i) /\ n \in 1 .. Len(coming[i]) - 1
      <4>1. coming'[i][n] = coming[i][n]
        BY <1>1, <3>2
      <4> QED
        BY <3>2, <4>1 DEF IInv, RemovedIsLast
    <3>3. CASE Changed(i) /\ n = Len(coming[i])
      <4>1. coming[i] # <<>> /\ n \in 1 .. Len(coming[i])
        BY <1>1, <2>1, <3>3
      <4>2. coming'[i][n] = stacks[i]
        BY <1>1, <3>3, <4>1 DEF IInv, CleanIsShown
      <4>3. i \notin Fresh
        BY <4>1, FreshIsUnknown
      <4> QED
        BY <3>3, <4>2, <4>3 DEF Lawful
    <3> QED
      BY <1>1, <2>1, <3>1, <3>2, <3>3
  <2> QED
    BY <2>1 DEF RemovedIsLast
<1>6. ASSUME NEW i \in Ids, NEW v \in Versions(i)' PROVE v \in Versions(i) \/ v = stacks'[i]
  <2>1. CASE v = shown[i]
    BY <2>1 DEF Versions
  <2>2. CASE \E n \in DOMAIN coming'[i] : v = coming'[i][n]
    <3>1. PICK n \in DOMAIN coming'[i] : v = coming'[i][n]
      BY <2>2
    <3>2. CASE ~ Changed(i)
      BY <1>1, <3>1, <3>2 DEF Versions
    <3>3. CASE Changed(i)
      <4>1. n \in 1 .. Len(coming[i]) \/ n = Len(coming[i]) + 1
        BY <1>1, <3>1, <3>3
      <4>2. n \in 1 .. Len(coming[i]) => v = coming[i][n] /\ n \in DOMAIN coming[i]
        BY <1>1, <3>1, <3>3
      <4> QED
        BY <1>1, <3>1, <3>3, <4>1, <4>2 DEF Versions
    <3> QED
      BY <3>2, <3>3
  <2> QED
    BY <1>6, <2>1, <2>2 DEF Versions
<1>7. \A i \in Ids : coming'[i] = <<>> => coming[i] = <<>> /\ ~ Changed(i)
  BY <1>1
<1>8. \A i \in Ids : ~ Changed(i) => coming'[i] = coming[i]
  BY <1>1
<1> QED
  BY <1>3, <1>4, <1>5, <1>6, <1>7, <1>8

(* Where nothing but bags and food is taken, all that crafts used is remembered
   as before. *)
LEMMA UsedStays ==
  ASSUME IInv, Lawful, UNCHANGED <<shown, unsure>>, burned \cap Live \subseteq burned',
         \A i \in Ids : Grows(i) \/ i \in Fresh \/ stacks[i].kind \in {Bag, Food},
         \A m \in Members : pc[m] = "made" => pc'[m] = pc[m] /\ plan'[m] = plan[m]
  PROVE  UsedIsBurned'
<1>1. ASSUME NEW i \in Ids, NEW v \in Versions(i)', v.n > 0, v.kind \notin {Bag, Food}
      PROVE  Kept(i, v)' \/ Remembered(i)'
  <2>0. stacks'[i].n \in Nat
    <3>1. \A s \in Stacks : s.n \in Nat
      BY WorkshopAssumption DEF Stacks
    <3> QED
      BY <3>1 DEF Lawful
  <2>1. CASE v = stacks'[i]
    BY <2>0, <2>1 DEF Kept
  <2>2. CASE v \in Versions(i)
    <3>1. Kept(i, v) \/ Remembered(i)
      BY <1>1, <2>2 DEF IInv, UsedIsBurned
    <3>2. CASE Remembered(i)
      <4>1. i \in Live' /\ (JustUsed(i) => JustUsed(i)')
        BY <3>2 DEF Remembered, JustUsed, Live, Spends
      <4> QED
        BY <3>2, <4>1 DEF Remembered
    <3>3. CASE Kept(i, v)
      <4>1. i \notin Fresh /\ v.n \in Nat /\ stacks[i].n \in Nat
        BY <1>1, <2>2, FreshIsUnknown, NatFields
      <4>2. Grows(i)
        BY <1>1, <3>3, <4>1 DEF Kept
      <4> QED
        BY <2>0, <3>3, <4>1, <4>2 DEF Kept, Grows
    <3> QED
      BY <3>1, <3>2, <3>3
  <2> QED
    BY <2>1, <2>2, ReportsLast
<1> QED
  BY <1>1 DEF UsedIsBurned

(* Stacks that grow, or are new, or are bags, disturb nothing that is known of
   the stacks. *)
LEMMA Undisturbed ==
  ASSUME IInv, Lawful, \A i \in Ids : Grows(i) \/ i \in Fresh \/ stacks[i].kind = Bag,
         UNCHANGED <<shown, petRows, pets, fed, spent, unsure>>, burned \cap Live \subseteq burned',
         \A m \in Members : pc[m] \in {"made", "fed"} => pc'[m] = pc[m] /\ plan'[m] = plan[m],
         \A m \in Members : pc'[m] = "fed" => pc[m] = "fed"
  PROVE  /\ coming' \in [Ids -> Seq(Stacks)] /\ CleanIsShown' /\ RemovedIsLast'
         /\ UsedIsBurned' /\ FoodIsCounted' /\ MealsAreKnown'
<1>1. coming' \in [Ids -> Seq(Stacks)] /\ CleanIsShown' /\ RemovedIsLast'
  BY ReportsLast
<1>2. Live' = Live /\ Live \subseteq Ids
  BY DEF Live
<1>3. UsedIsBurned'
  BY UsedStays
<1>4. FoodIsCounted'
  <2>1. \A i \in Ids : Eating(i)' = Eating(i) /\ Eating(i) \in Nat
    <3>1. \A m \in Members : plan[m].n \in Nat
      BY DEF IInv, TypeOK, PlanTyped
    <3> QED
      BY <3>1, WorkshopAssumption DEF Eating, Spends
  <2>2. ASSUME NEW i \in Live, shown[i].kind = Food PROVE Counted(i)'
    <3>1. Counted(i) /\ i \in Ids
      BY <1>2, <2>2 DEF IInv, FoodIsCounted
    <3>2. i \in Ids /\ Eating(i)' = Eating(i) /\ Eating(i) \in Nat
      BY <3>1, <2>1
    <3>3. Grows(i) \/ stacks[i].kind = Bag
      BY <2>2, <3>1, FreshIsUnknown
    <3>4. stacks[i].n \in Nat /\ shown[i].n \in Nat /\ spent[i] \in Nat /\ stacks'[i].n \in Nat
      <4>1. \A s \in Stacks : s.n \in Nat
        BY WorkshopAssumption DEF Stacks
      <4> QED
        BY <3>1, <4>1, NatFields DEF Lawful
    <3>5. Food # Bag /\ shown'[i] = shown[i] /\ spent'[i] = spent[i] /\ unsure' = unsure
      BY WorkshopAssumption
    <3> HIDE DEF Eating
    <3>6. CASE Grows(i)
      BY <3>1, <3>2, <3>4, <3>5, <3>6 DEF Counted, Grows
    <3>7. CASE stacks[i].kind = Bag
      BY <3>1, <3>2, <3>5, <3>7 DEF Counted
    <3> QED
      BY <3>3, <3>6, <3>7
  <2> QED
    BY <1>2, <2>2 DEF FoodIsCounted
<1>5. MealsAreKnown'
  BY WorkshopAssumption DEF IInv, MealsAreKnown, MealIsKnown
<1> QED
  BY <1>1, <1>3, <1>4, <1>5

(* What a craft was planned on stays there while stacks only grow. *)
LEMMA StillThere ==
  ASSUME IInv, \A i \in Ids : Grows(i) \/ ~ (stacks[i].n > 0), stacks' \in [Ids -> Stacks],
         NEW m \in Members, pc[m] = "sending"
  PROVE  \A n \in DOMAIN plan[m].in :
           \/ /\ stacks'[plan[m].in[n]].kind = Needs[plan[m].out][n][1]
              /\ stacks'[plan[m].in[n]].n >= Wants(plan[m], n)
           \/ plan[m].in[n] \in unsure
<1> DEFINE p == plan[m]
<1>1. PlanOfRecipe(p) /\ SureOf(p)
  BY DEF IInv, PlansFollowRecipes, SendsWhatIsThere, Crafting
<1> HIDE DEF p
<1>2. ASSUME NEW n \in DOMAIN p.in, There(p.in[n], Needs[p.out][n][1], Wants(p, n))
      PROVE  stacks'[p.in[n]].kind = Needs[p.out][n][1] /\ stacks'[p.in[n]].n >= Wants(p, n)
  <2>1. p.out \in Made /\ n \in DOMAIN Needs[p.out] /\ p.in[n] \in Ids /\ p.n \in Nat \ {0}
    <3>1. DOMAIN p.in = DOMAIN Needs[p.out]
      BY <1>1 DEF PlanOfRecipe
    <3>2. p.out \in Made /\ p.n \in 1 .. MaxStack /\ \A o \in DOMAIN Needs[p.out] : p.in[o] \in Ids
      BY <1>1 DEF PlanOfRecipe
    <3>3. p.n \in Nat \ {0}
      BY <3>2, WorkshopAssumption
    <3> QED
      BY <1>2, <3>1, <3>2, <3>3
  <2>2. Wants(p, n) \in Nat \ {0}
    BY <2>1, Ingredients, Product DEF Wants
  <2>3. stacks[p.in[n]].n \in Nat /\ stacks'[p.in[n]].n \in Nat
    <3>1. \A s \in Stacks : s.n \in Nat
      BY WorkshopAssumption DEF Stacks
    <3> QED
      BY <2>1, <3>1 DEF IInv, TypeOK
  <2>4. stacks[p.in[n]].kind = Needs[p.out][n][1] /\ stacks[p.in[n]].n >= Wants(p, n)
    BY <1>2 DEF There
  <2> QED
    BY <2>1, <2>2, <2>3, <2>4 DEF Grows
<1> QED
  BY <1>1, <1>2 DEF SureOf, p

LEMMA StillSure ==
  ASSUME IInv, Lawful, UNCHANGED <<unsure, shown>>, \A i \in Ids : Grows(i) \/ i \in Fresh,
         \A m \in Members : pc'[m] = "sending" => pc[m] = "sending" /\ plan'[m] = plan[m]
  PROVE  SendsWhatIsThere' /\ SendsWhatIsKnown'
<1>0. \A i \in Ids : Grows(i) \/ ~ (stacks[i].n > 0)
  BY FreshIsUnknown
<1>1. ASSUME NEW m \in Members, pc'[m] = "sending" PROVE SureOf(plan[m])'
  <2>1. pc[m] = "sending" /\ plan'[m] = plan[m]
    BY <1>1
  <2>2. \A n \in DOMAIN plan[m].in :
           \/ /\ stacks'[plan[m].in[n]].kind = Needs[plan[m].out][n][1]
              /\ stacks'[plan[m].in[n]].n >= Wants(plan[m], n)
           \/ plan[m].in[n] \in unsure
    BY <1>0, <2>1, StillThere DEF Lawful
  <2> QED
    BY <2>1, <2>2 DEF SureOf, There, Wants
<1>2. ASSUME NEW m \in Members, pc'[m] = "sending", NEW i \in Spends(plan'[m])
      PROVE  i \in Live' \/ coming'[i] = <<>>
  <2>1. pc[m] = "sending" /\ plan'[m] = plan[m] /\ i \in Spends(plan[m]) /\ i \in Ids
    <3>1. pc[m] = "sending" /\ plan'[m] = plan[m] /\ i \in Spends(plan[m])
      BY <1>2
    <3>2. PlanOfRecipe(plan[m])
      BY <3>1 DEF IInv, PlansFollowRecipes, Crafting
    <3> QED
      BY <3>1, <3>2 DEF PlanOfRecipe, Spends
  <2>2. CASE i \in Live
    BY <2>2 DEF Live
  <2>3. CASE i \notin Live
    <3>1. coming[i] = <<>>
      BY <2>1, <2>3 DEF IInv, SendsWhatIsKnown
    <3>2. ~ (stacks[i].n > 0)
      BY <2>1, <2>3, <3>1, CleanVersions DEF Live
    <3>3. ~ Changed(i)
      BY <2>1, <3>2, FreshIsUnknown DEF Lawful
    <3> QED
      BY <2>1, <3>1, <3>3, ReportsLast
  <2> QED
    BY <2>2, <2>3
<1> QED
  BY <1>1, <1>2 DEF SendsWhatIsThere, SendsWhatIsKnown, Spends

-----------------------------------------------------------------------------
(* The chores that take nothing. *)

LEMMA ChorePlace == \A m \in Members : Chore(m) => pc[m] \in {"chore", "pass", "feeding"}
BY DEF Chore, LooksForPets

(* Where an action leaves the members with a craft or a meal on its way alone
   and the stacks only grow, all that is known stays true. *)
LEMMA Quiet ==
  ASSUME IInv, NEW m \in Members, pc[m] \notin {"made", "fed"},
         pc'[m] \notin {"sending", "fed"},
         \A o \in Members \ {m} : pc'[o] = pc[o] /\ plan'[o] = plan[o],
         Lawful, \A i \in Ids : Grows(i) \/ i \in Fresh,
         UNCHANGED <<shown, petRows, pets, fed, spent, unsure, burned>>
  PROVE  coming' \in [Ids -> Seq(Stacks)] /\ Known'
<1>1. /\ coming' \in [Ids -> Seq(Stacks)] /\ CleanIsShown' /\ RemovedIsLast'
      /\ UsedIsBurned' /\ FoodIsCounted' /\ MealsAreKnown'
  BY Undisturbed
<1>2. SendsWhatIsThere' /\ SendsWhatIsKnown'
  BY StillSure
<1> QED
  BY <1>1, <1>2 DEF Known

(* Stacks that are left alone grow, too. *)
LEMMA LeftAlone ==
  ASSUME IInv, UNCHANGED <<stacks, coming>>
  PROVE  Lawful /\ \A i \in Ids : Grows(i)
<1>1. \A i \in Ids : stacks[i].n \in Nat
  BY NatFields
<1>2. coming = [i \in Ids |-> coming[i]]
  BY DEF IInv, TypeOK
<1>3. coming' = [i \in Ids |-> IF stacks'[i] = stacks[i] THEN coming[i] ELSE Append(coming[i], stacks'[i])]
  BY <1>2
<1> QED
  BY <1>1, <1>3 DEF IInv, TypeOK, Lawful, Reports, Grows, Changed

LEMMA GatherInv == ASSUME IInv, NEW m \in Members, Gather(m) PROVE IInv'
<1>1. PICK l \in Wanted, onto \in Ids \cup {None} : plan' = [plan EXCEPT ![m] = Plan(<<>>, onto, l, 0)]
  <2>1. \A l : (IF Pile(l, {}) = {} THEN None ELSE CHOOSE i \in Pile(l, {}) : TRUE) \in Ids \cup {None}
    BY DEF Pile, Live
  <2> QED
    BY <2>1 DEF Gather
<1> DEFINE p == Plan(<<>>, onto, l, 0)
<1>2. l \in Kinds
  <2>1. l \in Leaves
    BY DEF Wanted, Demand
  <2> QED
    BY <2>1, WorkshopAssumption
<1>3. PlanTyped(p) /\ Delivery(p)
  BY <1>2, PlanIsPlan DEF Delivery
<1>4. plan' = [plan EXCEPT ![m] = p]
  BY <1>1
<1> HIDE DEF p
<1>7. pc' = [pc EXCEPT ![m] = "gathering"] /\ lane' = lane /\ pc[m] \in {"chore", "pass", "feeding"}
  BY ChorePlace DEF Gather, Goes
<1>8. /\ pc' \in [Members -> Places]
      /\ plan' = [o \in Members |-> plan'[o]] /\ \A o \in Members : PlanTyped(plan'[o])
      /\ QueueHeld' /\ DeliversItems' /\ PlansFollowRecipes' /\ pc'[m] = "gathering"
      /\ \A o \in Members \ {m} : pc'[o] = pc[o] /\ plan'[o] = plan[o]
  BY <1>3, <1>4, <1>7, GoesOn DEF Places, Holding, Crafting
<1>9. UNCHANGED <<stacks, coming, shown, petRows, pets, fed, spent, unsure, burned>>
  BY DEF Gather, chain, rows, memos
<1>10. coming' \in [Ids -> Seq(Stacks)] /\ Known'
  BY <1>7, <1>8, <1>9, LeftAlone, Quiet
<1>11. TypeOK'
  BY <1>8, <1>9, <1>10 DEF IInv, TypeOK, Places, PlanTyped
<1> QED
  BY <1>8, <1>10, <1>11 DEF IInv, Known

(* The goals are read, or there is nothing left to do. *)

LEMMA ToCraftGoes ==
  ASSUME NEW m \in Members, ToCraft(m)
  PROVE  \E p : /\ PlanTyped(p) /\ plan' = [plan EXCEPT ![m] = p]
                /\ \E q \in {"crafting", "pass"} : pc' = [pc EXCEPT ![m] = q]
<1> DEFINE goals == [n \in 1 .. Cardinality(Families) |->
              Head(GoalsOf(CHOOSE f \in Families : Cardinality({g \in Families : g < f}) = n - 1))[1]]
           reads == [in |-> <<>>, onto |-> None, out |-> None, n |-> 0, from |-> 0, goals |-> goals]
<1> HIDE DEF goals
<1>1. [Idle EXCEPT !.goals = goals] = reads
  BY DEF Idle, Plan
<1>2. PlanTyped(reads)
  BY SomePlan
<1>3. CASE m \in Crafters
  <2>1. plan' = [plan EXCEPT ![m] = [Idle EXCEPT !.goals = goals]] /\ pc' = [pc EXCEPT ![m] = "crafting"]
    BY <1>3 DEF ToCraft, Goes, goals
  <2> QED
    BY <1>1, <1>2, <2>1
<1>4. CASE m \notin Crafters
  <2>1. plan' = [plan EXCEPT ![m] = Idle] /\ pc' = [pc EXCEPT ![m] = "pass"]
    BY <1>4 DEF ToCraft, Rests, Goes
  <2> QED
    BY <2>1, IdleIsPlan
<1> QED
  BY <1>3, <1>4

LEMMA NothingToGatherInv == ASSUME IInv, NEW m \in Members, NothingToGather(m) PROVE IInv'
<1>1. PICK p : /\ PlanTyped(p) /\ plan' = [plan EXCEPT ![m] = p]
               /\ \E q \in {"crafting", "pass"} : pc' = [pc EXCEPT ![m] = q]
  BY ToCraftGoes DEF NothingToGather
<1>2. PICK q \in {"crafting", "pass"} : pc' = [pc EXCEPT ![m] = q]
  BY <1>1
<1>3. lane' = lane /\ pc[m] \in {"chore", "pass", "feeding"}
  BY ChorePlace DEF NothingToGather
<1>4. /\ pc' \in [Members -> Places]
      /\ plan' = [o \in Members |-> plan'[o]] /\ \A o \in Members : PlanTyped(plan'[o])
      /\ QueueHeld' /\ DeliversItems' /\ PlansFollowRecipes' /\ pc'[m] = q
      /\ \A o \in Members \ {m} : pc'[o] = pc[o] /\ plan'[o] = plan[o]
  BY <1>1, <1>2, <1>3, GoesOn DEF Places, Holding, Crafting
<1>5. UNCHANGED <<stacks, coming, shown, petRows, pets, fed, spent, unsure, burned>>
  BY DEF NothingToGather, chain, rows, memos
<1>6. coming' \in [Ids -> Seq(Stacks)] /\ Known'
  BY <1>3, <1>4, <1>5, LeftAlone, Quiet
<1>7. TypeOK'
  BY <1>4, <1>5, <1>6 DEF IInv, TypeOK, Places, PlanTyped
<1> QED
  BY <1>4, <1>6, <1>7 DEF IInv, Known

LEMMA UnfedInv == ASSUME IInv, NEW m \in Members, Unfed(m) PROVE IInv'
<1>1. pc' = [pc EXCEPT ![m] = "chore"] /\ plan' = [plan EXCEPT ![m] = Idle] /\ pc[m] = "unfed" /\ lane = m
  BY DEF Unfed, Rests, Goes, IInv, QueueHeld, Holding
<1>2. /\ pc' \in [Members -> Places]
      /\ plan' = [o \in Members |-> plan'[o]] /\ \A o \in Members : PlanTyped(plan'[o])
      /\ QueueHeld' /\ DeliversItems' /\ PlansFollowRecipes' /\ pc'[m] = "chore"
      /\ \A o \in Members \ {m} : pc'[o] = pc[o] /\ plan'[o] = plan[o]
  BY <1>1, IdleIsPlan, GoesOn DEF Places, Holding, Crafting
<1>3. UNCHANGED <<stacks, coming, shown, petRows, pets, fed, spent, unsure, burned>>
  BY DEF Unfed, chain, rows, memos
<1>4. coming' \in [Ids -> Seq(Stacks)] /\ Known'
  BY <1>1, <1>2, <1>3, LeftAlone, Quiet
<1>5. TypeOK'
  BY <1>2, <1>3, <1>4 DEF IInv, TypeOK, Places, PlanTyped
<1> QED
  BY <1>2, <1>4, <1>5 DEF IInv, Known

(* What was gathered or claimed lands, or is refused. *)

LEMMA Landed ==
  ASSUME IInv, NEW p, PlanTyped(p), Delivery(p), NEW n \in Nat, Lands(p.out, n, p.onto),
         stacks' = Adds(stacks, p.out, n, p.onto), Reports
  PROVE  Lawful /\ \A i \in Ids : Grows(i) \/ i \in Fresh
<1>1. stacks \in [Ids -> Stacks]
  BY DEF IInv, TypeOK
<1>2. p.out \in Kinds /\ p.onto \in Ids \cup {None} /\ Room(n, p.onto)
  BY DEF PlanTyped, Delivery, Lands
<1>3. /\ stacks' \in [Ids -> Stacks] /\ \A i \in Ids : Grows(i) \/ i \in Fresh
      /\ \A i \in Ids : stacks'[i] = stacks[i] \/ i = p.onto \/ i \in Fresh
  BY <1>1, <1>2, AddsGrow DEF Grows
<1>4. ASSUME NEW i \in Ids, i = p.onto PROVE stacks[i].n > 0
  <2>1. stacks[i].n >= 1 /\ stacks[i].n \in Nat
    BY <1>4, NatFields, WorkshopAssumption DEF Lands, There
  <2> QED
    BY <2>1
<1> QED
  BY <1>3, <1>4 DEF Lawful, Changed

LEMMA GatheredInv == ASSUME IInv, NEW m \in Members, Gathered(m) PROVE IInv'
<1>1. pc[m] = "gathering" /\ lane' = lane /\ UNCHANGED <<shown, petRows, pets, fed, spent, unsure, burned>>
  BY DEF Gathered, memos
<1>2. PlanTyped(plan[m]) /\ Delivery(plan[m])
  BY <1>1 DEF IInv, TypeOK, DeliversItems
<1>3. Lawful /\ \A i \in Ids : Grows(i) \/ i \in Fresh
  <2>1. CASE Lands(plan[m].out, 1, plan[m].onto)
    BY <1>2, <2>1, Landed DEF Gathered
  <2>2. CASE ~ Lands(plan[m].out, 1, plan[m].onto)
    <3>1. UNCHANGED <<stacks, coming>>
      BY <2>2 DEF Gathered
    <3> QED
      BY <3>1, LeftAlone
  <2> QED
    BY <2>1, <2>2
<1>4. PICK p : /\ PlanTyped(p) /\ plan' = [plan EXCEPT ![m] = p]
               /\ \E q \in {"crafting", "pass"} : pc' = [pc EXCEPT ![m] = q]
  <2>1. CASE ToCraft(m)
    BY <2>1, ToCraftGoes
  <2>2. CASE Rests(m, "pass")
    BY <2>2, IdleIsPlan DEF Rests, Goes
  <2> QED
    BY <2>1, <2>2 DEF Gathered
<1>5. PICK q \in {"crafting", "pass"} : pc' = [pc EXCEPT ![m] = q]
  BY <1>4
<1>6. /\ pc' \in [Members -> Places]
      /\ plan' = [o \in Members |-> plan'[o]] /\ \A o \in Members : PlanTyped(plan'[o])
      /\ QueueHeld' /\ DeliversItems' /\ PlansFollowRecipes' /\ pc'[m] = q
      /\ \A o \in Members \ {m} : pc'[o] = pc[o] /\ plan'[o] = plan[o]
  BY <1>1, <1>4, <1>5, GoesOn DEF Places, Holding, Crafting
<1>7. coming' \in [Ids -> Seq(Stacks)] /\ Known'
  BY <1>1, <1>3, <1>5, <1>6, Quiet
<1>8. TypeOK'
  BY <1>1, <1>3, <1>6, <1>7 DEF IInv, TypeOK, Lawful, Places, PlanTyped
<1> QED
  BY <1>6, <1>7, <1>8 DEF IInv, Known

LEMMA ClaimBagInv == ASSUME IInv, NEW m \in Members, ClaimBag(m) PROVE IInv'
<1>1. pc[m] = "claiming" /\ UNCHANGED <<shown, petRows, pets, fed, spent, unsure, burned>>
  BY DEF ClaimBag, memos
<1>2. PlanTyped(plan[m]) /\ Delivery(plan[m]) /\ plan[m].n \in Nat /\ lane = m
  BY <1>1 DEF IInv, TypeOK, DeliversItems, QueueHeld, Holding, PlanTyped
<1>3. Lawful /\ \A i \in Ids : Grows(i) \/ i \in Fresh
  <2>1. CASE Lands(plan[m].out, plan[m].n, plan[m].onto)
    BY <1>2, <2>1, Landed DEF ClaimBag
  <2>2. CASE ~ Lands(plan[m].out, plan[m].n, plan[m].onto)
    <3>1. UNCHANGED <<stacks, coming>>
      BY <2>2 DEF ClaimBag
    <3> QED
      BY <3>1, LeftAlone
  <2> QED
    BY <2>1, <2>2
<1>4. PICK q \in {"feeding", "pass"} : plan' = [plan EXCEPT ![m] = Idle] /\ pc' = [pc EXCEPT ![m] = q]
  BY DEF ClaimBag, Rests, Goes
<1>5. /\ pc' \in [Members -> Places]
      /\ plan' = [o \in Members |-> plan'[o]] /\ \A o \in Members : PlanTyped(plan'[o])
      /\ QueueHeld' /\ DeliversItems' /\ PlansFollowRecipes' /\ pc'[m] = q
      /\ \A o \in Members \ {m} : pc'[o] = pc[o] /\ plan'[o] = plan[o]
  BY <1>2, <1>4, IdleIsPlan, GoesOn DEF Places, Holding, Crafting
<1>6. coming' \in [Ids -> Seq(Stacks)] /\ Known'
  BY <1>1, <1>3, <1>5, Quiet
<1>7. TypeOK'
  BY <1>1, <1>3, <1>5, <1>6 DEF IInv, TypeOK, Lawful, Places, PlanTyped
<1> QED
  BY <1>5, <1>6, <1>7 DEF IInv, Known

(* open_resource_bag_once: what is taken is a bag, which nobody else wants. *)

LEMMA OpenBagInv == ASSUME IInv, NEW m \in Members, OpenBag(m) PROVE IInv'
<1> DEFINE bag == Held(Bag, {})
           n == shown[bag].n
<1>1. /\ m = Leader /\ pc[m] = "pass" /\ lane = None
      /\ UNCHANGED <<shown, petRows, pets, fed, spent, unsure, burned>>
  BY DEF OpenBag, Free, memos
<1>2. bag \in Ids /\ shown[bag].kind = Bag /\ n \in Nat /\ n > 0
  <2>1. Pile(Bag, {}) # {}
    BY DEF OpenBag
  <2>2. bag \in Pile(Bag, {})
    BY <2>1, HeldInPile DEF IInv
  <2>3. \A s \in Stacks : s.n \in Nat
    BY WorkshopAssumption DEF Stacks
  <2> QED
    BY <2>2, <2>3 DEF Pile, Live, IInv, TypeOK
<1> HIDE DEF bag
<1>3. Lawful /\ \A i \in Ids : Grows(i) \/ i \in Fresh \/ stacks[i].kind = Bag
  <2>1. CASE stacks' = Takes(stacks, bag, n) /\ Reports /\ There(bag, Bag, n)
    <3>1. stacks[bag].n >= n /\ stacks[bag].kind = Bag
      BY <2>1 DEF There
    <3>2. stacks' \in [Ids -> Stacks] /\ \A o \in Ids \ {bag} : stacks'[o] = stacks[o]
      <4>1. stacks \in [Ids -> Stacks]
        BY DEF IInv, TypeOK
      <4> HIDE DEF n
      <4> QED
        BY <1>2, <2>1, <3>1, <4>1, TakesLessen
    <3>3. \A i \in Ids : stacks[i].n \in Nat
      BY NatFields
    <3> QED
      BY <1>2, <2>1, <3>1, <3>2, <3>3 DEF Lawful, Changed, Grows
  <2>2. CASE UNCHANGED <<stacks, coming>>
    BY <2>2, LeftAlone
  <2> QED
    BY <2>1, <2>2 DEF OpenBag, bag
<1>4. PICK p, q : /\ PlanTyped(p) /\ plan' = [plan EXCEPT ![m] = p] /\ pc' = [pc EXCEPT ![m] = q]
                  /\ q \in {"claiming", "feeding"} /\ (q = "claiming" => Delivery(p) /\ lane' = m)
                  /\ (lane' = lane \/ lane' = m)
  <2> DEFINE p == Plan(<<>>, Held(BagGives, {}), BagGives, n)
  <2>1. PlanTyped(p) /\ Delivery(p)
    <3>1. Held(BagGives, {}) \in Ids \cup {None}
      BY HeldIsShown DEF IInv, Pile, Live
    <3>2. PlanTyped(p) /\ p.out = BagGives
      BY <1>2, <3>1, PlanIsPlan
    <3> QED
      BY <3>2, WorkshopAssumption DEF Delivery
  <2>2. PlanTyped(plan[m])
    BY DEF IInv, TypeOK
  <2>3. CASE plan' = [plan EXCEPT ![m] = p] /\ pc' = [pc EXCEPT ![m] = "claiming"] /\ lane' = m
    BY <2>1, <2>3
  <2>4. CASE plan' = plan /\ pc' = [pc EXCEPT ![m] = "feeding"] /\ lane' = lane
    BY <2>2, <2>4, SamePlan DEF IInv
  <2> QED
    BY <2>3, <2>4 DEF OpenBag, Goes, bag
<1>5. /\ pc' \in [Members -> Places]
      /\ plan' = [o \in Members |-> plan'[o]] /\ \A o \in Members : PlanTyped(plan'[o])
      /\ QueueHeld' /\ DeliversItems' /\ PlansFollowRecipes' /\ pc'[m] = q
      /\ \A o \in Members \ {m} : pc'[o] = pc[o] /\ plan'[o] = plan[o]
  BY <1>1, <1>4, GoesOn DEF Places, Holding, Crafting
<1>6. /\ coming' \in [Ids -> Seq(Stacks)] /\ CleanIsShown' /\ RemovedIsLast'
      /\ UsedIsBurned' /\ FoodIsCounted' /\ MealsAreKnown'
  BY <1>1, <1>3, <1>4, <1>5, Undisturbed
<1>7. SendsWhatIsThere' /\ SendsWhatIsKnown'
  <2>1. \A o \in Members : pc'[o] # "sending"
    BY <1>1, <1>4, <1>5, WorkshopAssumption DEF IInv, QueueHeld, Holding
  <2> QED
    BY <2>1 DEF SendsWhatIsThere, SendsWhatIsKnown
<1>8. TypeOK'
  BY <1>1, <1>3, <1>5, <1>6 DEF IInv, TypeOK, Places, PlanTyped, Lawful
<1> QED
  BY <1>5, <1>6, <1>7, <1>8 DEF IInv

-----------------------------------------------------------------------------
(* A craft. *)

(* craft_once: planned on what is shown when its turn has come and nobody
   else has anything under way. *)
LEMMA PlanCraftInv == ASSUME IInv, NEW m \in Members, PlanCraft(m) PROVE IInv'
<1>1. /\ burned' = Prune /\ (lane = None \/ lane = m) /\ pc[m] \in {"crafting", "blocked"}
      /\ UNCHANGED <<stacks, coming, shown, petRows, pets, fed, spent, unsure>>
  BY DEF PlanCraft, HasTurn, Free, IInv, QueueHeld, Holding, chain, rows
<1>2. burned \cap Live \subseteq burned' /\ burned' \subseteq Ids
  BY <1>1 DEF Prune, IInv, TypeOK
<1>3. PICK p, q : /\ PlanTyped(p) /\ plan' = [plan EXCEPT ![m] = p] /\ pc' = [pc EXCEPT ![m] = q]
                  /\ \/ q = "sending" /\ lane' = m /\ GoodPlan(p, Prune)
                     \/ q = "pass"
  <2>1. CASE \E t \in Tries(m) : Goes(m, "sending") /\ plan' = [plan EXCEPT ![m] = t] /\ lane' = m
    <3>1. PICK t \in Tries(m) : Goes(m, "sending") /\ plan' = [plan EXCEPT ![m] = t] /\ lane' = m
      BY <2>1
    <3>2. GoodPlan(t, Prune)
      BY TriedPlan DEF IInv
    <3> QED
      BY <3>1, <3>2 DEF Goes, GoodPlan
  <2>2. CASE Tries(m) = {} /\ Rests(m, "pass") /\ Frees
    BY <2>2, IdleIsPlan DEF Rests, Goes
  <2> QED
    BY <2>1, <2>2 DEF PlanCraft
<1>4. /\ pc' \in [Members -> Places]
      /\ plan' = [o \in Members |-> plan'[o]] /\ \A o \in Members : PlanTyped(plan'[o])
      /\ QueueHeld' /\ DeliversItems' /\ PlansFollowRecipes' /\ pc'[m] = q /\ plan'[m] = p
      /\ \A o \in Members \ {m} : pc'[o] = pc[o] /\ plan'[o] = plan[o]
  <2>1. q \in Crafting => PlanOfRecipe(p)
    BY <1>3 DEF GoodPlan, Crafting
  <2> QED
    BY <1>1, <1>3, <2>1, GoesOn DEF Places, Holding, Crafting
<1>5. /\ coming' \in [Ids -> Seq(Stacks)] /\ CleanIsShown' /\ RemovedIsLast'
      /\ UsedIsBurned' /\ FoodIsCounted' /\ MealsAreKnown'
  BY <1>1, <1>2, <1>3, <1>4, LeftAlone, Undisturbed
<1>6. SendsWhatIsThere' /\ SendsWhatIsKnown'
  <2>1. ASSUME NEW o \in Members \ {m} PROVE pc'[o] # "sending"
    BY <1>1, <1>4, <2>1, WorkshopAssumption DEF IInv, QueueHeld, Holding
  <2>2. ASSUME q = "sending" PROVE SureOf(p)
    <3>1. ASSUME NEW n \in DOMAIN p.in
          PROVE  There(p.in[n], Needs[p.out][n][1], Wants(p, n)) \/ p.in[n] \in unsure
      <4> DEFINE i == p.in[n]
      <4>1. /\ i \in Live /\ i \notin Prune /\ shown[i].kind = Needs[p.out][n][1] /\ shown[i].n >= Wants(p, n)
            /\ PlanOfRecipe(p)
        BY <1>3, <2>2, <3>1 DEF GoodPlan, ShownFor
      <4>2. p.out \in Made /\ n \in DOMAIN Needs[p.out] /\ p.n \in Nat \ {0}
        <5>1. DOMAIN p.in = DOMAIN Needs[p.out] /\ p.out \in Made /\ p.n \in 1 .. MaxStack
          BY <4>1 DEF PlanOfRecipe
        <5> QED
          BY <3>1, <5>1, WorkshopAssumption
      <4>3. shown[i].kind \notin {Bag, Food} /\ Wants(p, n) \in Nat \ {0}
        BY <4>1, <4>2, Ingredients, Product DEF Wants
      <4>4. i \notin burned /\ ~ JustUsed(i)
        <5>1. i \notin burned
          BY <4>1 DEF Prune
        <5>2. \A o \in Members : pc[o] # "made"
          BY <1>1, WorkshopAssumption DEF IInv, QueueHeld, Holding
        <5> QED
          BY <5>1, <5>2 DEF JustUsed
      <4>5. Kept(i, shown[i]) \/ i \in unsure
        <5>1. i \in Ids /\ shown[i] \in Versions(i) /\ shown[i].n > 0
          BY <4>1 DEF Live, Versions
        <5> QED
          BY <4>3, <4>4, <5>1 DEF IInv, UsedIsBurned, Remembered
      <4>6. stacks[i].n \in Nat /\ shown[i].n \in Nat
        <5>1. \A s \in Stacks : s.n \in Nat
          BY WorkshopAssumption DEF Stacks
        <5> QED
          BY <4>1, <5>1 DEF IInv, TypeOK, Live
      <4> QED
        BY <4>1, <4>3, <4>5, <4>6 DEF Kept, There
    <3> QED
      BY <3>1 DEF SureOf
  <2>3. ASSUME NEW o \in Members, pc'[o] = "sending" PROVE SureOf(plan[o])'
    <3>1. o = m /\ q = "sending" /\ plan'[o] = p
      BY <1>4, <2>1, <2>3
    <3>2. SureOf(p)
      BY <2>2, <3>1
    <3> QED
      BY <1>1, <3>1, <3>2 DEF SureOf, There, Wants
  <2>4. ASSUME NEW o \in Members, pc'[o] = "sending", NEW i \in Spends(plan'[o]) PROVE i \in Live'
    <3>1. q = "sending" /\ i \in Spends(p)
      BY <1>4, <2>1, <2>4
    <3>2. i \in Live
      BY <1>3, <3>1 DEF GoodPlan, ShownFor, Spends
    <3> QED
      BY <1>1, <3>2 DEF Live
  <2> QED
    BY <2>3, <2>4 DEF SendsWhatIsThere, SendsWhatIsKnown, Spends
<1>7. TypeOK'
  BY <1>1, <1>2, <1>4, <1>5 DEF IInv, TypeOK, Places, PlanTyped
<1> QED
  BY <1>4, <1>5, <1>6, <1>7 DEF IInv

(* Nobody else has a craft or a meal on its way while one holds the queue. *)
LEMMA Alone ==
  ASSUME IInv, NEW m \in Members, lane = m
  PROVE  \A o \in Members \ {m} : pc[o] \notin Holding
BY DEF IInv, QueueHeld

(* The ingredients that are there are used up as the plan says, and nothing
   else is. *)
LEMMA UsesItsPlan ==
  ASSUME IInv, NEW p, PlanOfRecipe(p), Supplied(p)
  PROVE  /\ Used(p) \in [Ids -> Stacks]
         /\ \A i \in Ids \ Spends(p) : Used(p)[i] = stacks[i]
         /\ Spends(p) \subseteq Ids
         /\ \A i \in Spends(p) : stacks[i].kind \notin {Bag, Food} /\ stacks[i].n > 0
<1>1. stacks \in [Ids -> Stacks]
  BY DEF IInv, TypeOK
<1>2. ASSUME NEW n \in DOMAIN p.in
      PROVE  /\ p.in[n] \in Ids /\ stacks[p.in[n]].kind \notin {Bag, Food}
             /\ Wants(p, n) \in Nat \ {0} /\ stacks[p.in[n]].n >= Wants(p, n)
  <2>1. DOMAIN p.in = DOMAIN Needs[p.out] /\ p.out \in Made /\ p.n \in Nat \ {0}
    BY WorkshopAssumption DEF PlanOfRecipe
  <2>2. Needs[p.out][n][1] \notin {Bag, Food} /\ Wants(p, n) \in Nat \ {0}
    BY <1>2, <2>1, Ingredients, Product DEF Wants
  <2>3. p.in[n] \in Ids
    BY <2>1, <1>2 DEF PlanOfRecipe
  <2> QED
    BY <2>2, <2>3 DEF Supplied, There
<1>3. ASSUME NEW i \in Spends(p)
      PROVE  /\ i \in Ids /\ stacks[i].kind \notin {Bag, Food} /\ stacks[i].n > 0
             /\ Takes(stacks, i, Wants(p, CHOOSE n \in DOMAIN p.in : p.in[n] = i))[i] \in Stacks
  <2> DEFINE n == CHOOSE n \in DOMAIN p.in : p.in[n] = i
  <2>1. n \in DOMAIN p.in /\ p.in[n] = i
    BY DEF Spends
  <2> HIDE DEF n
  <2>2. /\ i \in Ids /\ stacks[i].kind \notin {Bag, Food}
        /\ Wants(p, n) \in Nat \ {0} /\ stacks[i].n >= Wants(p, n)
    BY <1>2, <2>1
  <2>3. Takes(stacks, i, Wants(p, n)) \in [Ids -> Stacks]
    BY <1>1, <2>2, TakesLessen
  <2>4. stacks[i].n > 0
    BY <2>2, NatFields
  <2> QED
    BY <2>2, <2>3, <2>4 DEF n
<1> QED
  BY <1>1, <1>3 DEF Used

LEMMA CraftInv == ASSUME IInv, NEW m \in Members, Craft(m) PROVE IInv'
<1> DEFINE p == plan[m]
<1>1. /\ pc[m] = "sending" /\ lane = m /\ lane' = lane /\ plan' = plan
      /\ UNCHANGED <<shown, petRows, pets, fed, spent, unsure, burned>>
  BY DEF Craft, IInv, QueueHeld, Holding, memos
<1>2. PlanOfRecipe(p) /\ PlanTyped(p) /\ plan' = [plan EXCEPT ![m] = p]
  BY <1>1, SamePlan DEF IInv, TypeOK, PlansFollowRecipes, Crafting
<1> HIDE DEF p
<1>3. PICK q \in {"made", "short", "refused"} :
        /\ pc' = [pc EXCEPT ![m] = q]
        /\ \/ /\ q = "made" /\ Supplied(p) /\ Reports /\ (p.onto # None => There(p.onto, p.out, 1))
              /\ \E wins \in 0 .. p.n : Room(wins, p.onto) /\ stacks' = Adds(Used(p), p.out, wins, p.onto)
           \/ q # "made" /\ UNCHANGED <<stacks, coming>>
  BY DEF Craft, Goes, p
<1>4. /\ pc' \in [Members -> Places]
      /\ plan' = [o \in Members |-> plan'[o]] /\ \A o \in Members : PlanTyped(plan'[o])
      /\ QueueHeld' /\ DeliversItems' /\ PlansFollowRecipes' /\ pc'[m] = q /\ plan'[m] = p
      /\ \A o \in Members \ {m} : pc'[o] = pc[o] /\ plan'[o] = plan[o]
  BY <1>1, <1>2, <1>3, GoesOn DEF Places, Holding, Crafting
<1>5. CASE UNCHANGED <<stacks, coming>> /\ q # "made"
  <2>1. Known' /\ coming' = coming
    BY <1>1, <1>3, <1>4, <1>5, LeftAlone, Quiet
  <2>2. TypeOK'
    BY <1>1, <1>4, <1>5 DEF IInv, TypeOK, Places, PlanTyped
  <2> QED
    BY <1>4, <2>1, <2>2 DEF IInv, Known
<1>6. CASE q = "made"
  <2>1. PICK wins \in 0 .. p.n : Room(wins, p.onto) /\ stacks' = Adds(Used(p), p.out, wins, p.onto)
    BY <1>3, <1>6
  <2>2. Reports /\ Supplied(p) /\ (p.onto # None => There(p.onto, p.out, 1))
    BY <1>3, <1>6
  <2>3. /\ Used(p) \in [Ids -> Stacks] /\ \A i \in Ids \ Spends(p) : Used(p)[i] = stacks[i]
        /\ Spends(p) \subseteq Ids
        /\ \A i \in Spends(p) : stacks[i].kind \notin {Bag, Food} /\ stacks[i].n > 0
    BY <1>2, <2>2, UsesItsPlan
  <2>4. p.out \in Kinds /\ p.onto \in Ids \cup {None} /\ wins \in Nat
    BY <1>2, <2>1, WorkshopAssumption DEF PlanOfRecipe, PlanTyped
  <2>5. /\ stacks' \in [Ids -> Stacks] /\ \A i \in Ids \ Spends(p) : Grows(i) \/ i \in Fresh
        /\ \A i \in Ids \ Spends(p) : Changed(i) => i = p.onto \/ i \in Fresh
    BY <2>1, <2>3, <2>4, AddsGrow DEF Grows, Changed
  <2>6. Live' = Live /\ Live \subseteq Ids
    BY <1>1 DEF Live
  <2>7. /\ \A i \in Ids : stacks[i].n \in Nat /\ shown[i].n \in Nat /\ spent[i] \in Nat
        /\ \A i \in Ids : stacks'[i].n \in Nat /\ \A v \in Versions(i) : v.n \in Nat
    <3>1. \A s \in Stacks : s.n \in Nat
      BY WorkshopAssumption DEF Stacks
    <3> QED
      BY <2>5, <3>1, NatFields
  <2>8. \A o \in Members : pc[o] \notin {"made", "fed"} /\ pc'[o] \notin {"fed", "sending"}
    BY <1>1, <1>4, <1>6, Alone DEF Holding
  <2>9. Lawful
    <3>1. ASSUME NEW i \in Ids, i = p.onto PROVE stacks[i].n > 0
      <4>1. stacks[i].n >= 1
        BY <2>2, <3>1, WorkshopAssumption DEF There
      <4> QED
        BY <2>7, <4>1
    <3> QED
      BY <2>2, <2>3, <2>5, <3>1 DEF Lawful
  <2>10. /\ coming' \in [Ids -> Seq(Stacks)] /\ CleanIsShown' /\ RemovedIsLast'
         /\ \A i \in Ids : \A v \in Versions(i)' : v \in Versions(i) \/ v = stacks'[i]
    BY <1>1, <2>9, ReportsLast
  <2>11. UsedIsBurned'
    <3>1. ASSUME NEW i \in Ids, NEW v \in Versions(i), v.n > 0, v.kind \notin {Bag, Food}
          PROVE  Kept(i, v)' \/ Remembered(i)'
      <4>1. CASE i \in Spends(p)
        <5>1. JustUsed(i)'
          BY <1>4, <1>6, <4>1 DEF JustUsed, Spends
        <5>2. i \in Live
          <6>1. i \in Live \/ coming[i] = <<>>
            BY <1>1, <4>1 DEF p, IInv, SendsWhatIsKnown
          <6>2. coming[i] = <<>> => shown[i] = stacks[i]
            BY CleanVersions
          <6> QED
            BY <2>3, <4>1, <6>1, <6>2 DEF Live
        <5> QED
          BY <2>6, <5>1, <5>2 DEF Remembered
      <4>2. CASE i \notin Spends(p) /\ Kept(i, v)
        <5>1. Grows(i)
          BY <2>5, <3>1, <4>2, FreshIsUnknown
        <5> QED
          BY <2>7, <3>1, <4>2, <5>1 DEF Kept, Grows
      <4>3. CASE Remembered(i)
        <5>1. ~ JustUsed(i)
          BY <2>8 DEF JustUsed
        <5> QED
          BY <1>1, <2>6, <4>3, <5>1 DEF Remembered
      <4> QED
        BY <3>1, <4>1, <4>2, <4>3 DEF IInv, UsedIsBurned
    <3>2. ASSUME NEW i \in Ids, NEW v, v = stacks'[i] PROVE Kept(i, v)'
      BY <2>7, <3>2 DEF Kept
    <3> QED
      BY <2>10, <3>1, <3>2 DEF UsedIsBurned, Kept
  <2>12. FoodIsCounted'
    <3>1. \A i : Eating(i) = 0 /\ Eating(i)' = 0
      BY <2>8, WorkshopAssumption DEF Eating
    <3>2. ASSUME NEW i \in Live, shown[i].kind = Food PROVE Counted(i)'
      <4>1. Counted(i) /\ i \in Ids
        BY <2>6, <3>2 DEF IInv, FoodIsCounted
      <4>2. i \in Spends(p) => stacks[i].kind # Food
        BY <2>3
      <4>3. i \notin Spends(p) => Grows(i)
        BY <2>5, <3>2, <4>1, FreshIsUnknown
      <4> HIDE DEF Eating
      <4> QED
        BY <1>1, <2>7, <3>1, <4>1, <4>2, <4>3 DEF Counted, Grows
    <3> QED
      BY <1>1, <2>6, <3>2 DEF FoodIsCounted
  <2>13. MealsAreKnown'
    BY <1>1, <2>8, WorkshopAssumption DEF IInv, MealsAreKnown, MealIsKnown
  <2>14. SendsWhatIsThere' /\ SendsWhatIsKnown'
    BY <2>8 DEF SendsWhatIsThere, SendsWhatIsKnown
  <2>15. TypeOK'
    BY <1>1, <1>4, <2>5, <2>10 DEF IInv, TypeOK, Places, PlanTyped
  <2> QED
    BY <1>4, <2>10, <2>11, <2>12, <2>13, <2>14, <2>15 DEF IInv
<1> QED
  BY <1>3, <1>5, <1>6

(* A craft is over: what it used is burned, or in doubt, or shown. *)
LEMMA CraftOver ==
  ASSUME IInv, NEW m \in Members, pc[m] \in {"made", "short", "refused"},
         pc'[m] \notin {"sending", "fed", "made"},
         \A o \in Members \ {m} : pc'[o] = pc[o],
         UNCHANGED <<stacks, shown, coming, petRows, pets, fed, spent>>,
         burned \subseteq burned', unsure \ unsure' \subseteq Ids \ dirty,
         pc[m] = "made" => Spends(plan[m]) \subseteq burned' \cup unsure' \cup (Ids \ dirty)
  PROVE  coming' \in [Ids -> Seq(Stacks)] /\ Known'
<1>1. lane = m /\ \A o \in Members \ {m} : pc[o] \notin Holding
  BY Alone DEF IInv, QueueHeld, Holding
<1>2. Live' = Live /\ Live \subseteq Ids
  BY DEF Live
<1>3. \A i : Eating(i) = 0 /\ Eating(i)' = 0
  BY <1>1, WorkshopAssumption DEF Eating, Holding
<1>4. coming' \in [Ids -> Seq(Stacks)] /\ CleanIsShown' /\ RemovedIsLast'
  BY DEF IInv, TypeOK, CleanIsShown, RemovedIsLast
<1>5. UsedIsBurned'
  <2>1. ASSUME NEW i \in Ids, NEW v \in Versions(i), v.n > 0, v.kind \notin {Bag, Food}
        PROVE  Kept(i, v)' \/ Remembered(i)'
    <3>1. CASE Kept(i, v)
      BY <3>1 DEF Kept
    <3>2. CASE i \notin dirty
      <4>1. coming[i] = <<>>
        BY <3>2 DEF dirty
      <4>2. v = stacks[i] /\ stacks[i].n \in Nat
        BY <2>1, <4>1, CleanVersions, NatFields
      <4> QED
        BY <4>2 DEF Kept
    <3>3. CASE Remembered(i) /\ i \in dirty
      <4>1. i \in burned \cup unsure => i \in burned' \cup unsure'
        BY <3>3
      <4>2. JustUsed(i) => i \in burned' \cup unsure'
        <5>1. JustUsed(i) => pc[m] = "made" /\ i \in Spends(plan[m])
          BY <1>1 DEF JustUsed, Holding
        <5> QED
          BY <3>3, <5>1
      <4> QED
        BY <1>2, <3>3, <4>1, <4>2 DEF Remembered
    <3> QED
      BY <2>1, <3>1, <3>2, <3>3 DEF IInv, UsedIsBurned
  <2>2. \A i \in Ids : Versions(i)' = Versions(i)
    BY DEF Versions
  <2> QED
    BY <2>1, <2>2 DEF UsedIsBurned
<1>6. FoodIsCounted'
  <2>1. ASSUME NEW i \in Live, shown[i].kind = Food PROVE Counted(i)'
    <3>1. i \in Ids /\ Counted(i)
      BY <1>2, <2>1 DEF IInv, FoodIsCounted
    <3> HIDE DEF Eating
    <3>2. CASE i \in dirty
      BY <1>3, <3>1, <3>2 DEF Counted
    <3>3. CASE i \notin dirty
      <4>1. shown[i] = stacks[i] /\ stacks[i].n \in Nat /\ spent[i] \in Nat
        BY <3>1, <3>3, CleanVersions, NatFields DEF dirty
      <4> QED
        BY <1>3, <2>1, <4>1 DEF Counted
    <3> QED
      BY <3>2, <3>3
  <2> QED
    BY <1>2, <2>1 DEF FoodIsCounted
<1>7. MealsAreKnown'
  <2>1. pc[Leader] # "fed"
    BY <1>1, WorkshopAssumption DEF Holding
  <2> QED
    BY <2>1, WorkshopAssumption DEF IInv, MealsAreKnown, MealIsKnown
<1>8. SendsWhatIsThere' /\ SendsWhatIsKnown'
  BY <1>1 DEF SendsWhatIsThere, SendsWhatIsKnown, Holding
<1> QED
  BY <1>4, <1>5, <1>6, <1>7, <1>8 DEF Known

(* What was spent is burned. *)
LEMMA CraftedInv == ASSUME IInv, NEW m \in Members, Crafted(m) PROVE IInv'
<1>1. /\ pc[m] = "made" /\ lane' = None /\ burned' = burned \cup Spends(plan[m])
      /\ UNCHANGED <<stacks, coming, shown, petRows, pets, fed, spent, unsure>>
  BY DEF Crafted, Frees, chain, rows
<1>2. PICK p : /\ PlanTyped(p) /\ plan' = [plan EXCEPT ![m] = p]
               /\ \E q \in {"crafting", "pass"} : pc' = [pc EXCEPT ![m] = q]
  <2>1. CASE Rests(m, "pass")
    BY <2>1, IdleIsPlan DEF Rests, Goes
  <2>2. CASE Goes(m, "crafting") /\ plan' = [plan EXCEPT ![m] = [Idle EXCEPT !.goals = plan[m].goals]]
    <3> DEFINE goals == plan[m].goals
               reads == [in |-> <<>>, onto |-> None, out |-> None, n |-> 0, from |-> 0, goals |-> goals]
    <3> HIDE DEF goals
    <3>1. [Idle EXCEPT !.goals = goals] = reads
      BY DEF Idle, Plan
    <3>2. PlanTyped(reads)
      BY SomePlan
    <3>3. plan' = [plan EXCEPT ![m] = reads]
      BY <2>2, <3>1 DEF goals
    <3> QED
      BY <2>2, <3>2, <3>3 DEF Goes
  <2> QED
    BY <2>1, <2>2 DEF Crafted
<1>3. PICK q \in {"crafting", "pass"} : pc' = [pc EXCEPT ![m] = q]
  BY <1>2
<1>4. /\ pc' \in [Members -> Places]
      /\ plan' = [o \in Members |-> plan'[o]] /\ \A o \in Members : PlanTyped(plan'[o])
      /\ QueueHeld' /\ DeliversItems' /\ PlansFollowRecipes' /\ pc'[m] = q
      /\ \A o \in Members \ {m} : pc'[o] = pc[o] /\ plan'[o] = plan[o]
  <2>1. lane = m
    BY <1>1 DEF IInv, QueueHeld, Holding
  <2>2. lane' = lane \/ lane = None \/ lane = m
    BY <2>1
  <2> QED
    BY <1>2, <1>3, <2>2, GoesOn DEF Places, Holding, Crafting
<1>5. burned' \subseteq Ids
  <2>1. PlanOfRecipe(plan[m])
    BY <1>1 DEF IInv, PlansFollowRecipes, Crafting
  <2>2. Spends(plan[m]) \subseteq Ids
    BY <2>1 DEF PlanOfRecipe, Spends
  <2> QED
    BY <1>1, <2>2 DEF IInv, TypeOK
<1>6. coming' \in [Ids -> Seq(Stacks)] /\ Known'
  BY <1>1, <1>3, <1>4, CraftOver
<1>7. TypeOK'
  BY <1>1, <1>4, <1>5, <1>6 DEF IInv, TypeOK, Places, PlanTyped
<1> QED
  BY <1>4, <1>6, <1>7 DEF IInv, Known

(* Refused, or the answer is lost: what may have been used and is not shown yet
   is in doubt. *)

LEMMA FailsInv == ASSUME IInv, NEW m \in Members, Fails(m) PROVE IInv'
<1>1. /\ pc[m] \in {"made", "short", "refused"} /\ lane = m
      /\ UNCHANGED <<stacks, coming, shown, petRows, pets, fed, spent, burned>>
  BY DEF Fails, IInv, QueueHeld, Holding, chain, rows, memos
<1>2. PICK p : /\ PlanTyped(p) /\ plan' = [plan EXCEPT ![m] = p]
               /\ \/ pc' = [pc EXCEPT ![m] = "pass"]
                  \/ pc' = [pc EXCEPT ![m] = "blocked"] /\ lane' = lane
  <2>1. CASE Rests(m, "pass")
    BY <2>1, IdleIsPlan DEF Rests, Goes
  <2>2. CASE Goes(m, "blocked") /\ UNCHANGED <<plan, lane>>
    BY <2>2, SamePlan DEF Goes, IInv
  <2> QED
    BY <2>1, <2>2 DEF Fails
<1>3. PICK q \in {"pass", "blocked"} : pc' = [pc EXCEPT ![m] = q] /\ (q = "blocked" => lane' = lane)
  BY <1>2
<1>4. /\ pc' \in [Members -> Places]
      /\ plan' = [o \in Members |-> plan'[o]] /\ \A o \in Members : PlanTyped(plan'[o])
      /\ QueueHeld' /\ DeliversItems' /\ PlansFollowRecipes' /\ pc'[m] = q
      /\ \A o \in Members \ {m} : pc'[o] = pc[o] /\ plan'[o] = plan[o]
  BY <1>1, <1>2, <1>3, GoesOn DEF Places, Holding, Crafting
<1>5. PlanOfRecipe(plan[m]) /\ Spends(plan[m]) \subseteq Ids
  <2>1. PlanOfRecipe(plan[m])
    BY <1>1 DEF IInv, PlansFollowRecipes, Crafting
  <2> QED
    BY <2>1 DEF PlanOfRecipe, Spends
<1>6. coming' \in [Ids -> Seq(Stacks)] /\ Known'
  <2>1. /\ unsure \ unsure' \subseteq Ids \ dirty
        /\ pc[m] = "made" => Spends(plan[m]) \subseteq burned' \cup unsure' \cup (Ids \ dirty)
    BY <1>5 DEF Fails
  <2> QED
    BY <1>1, <1>3, <1>4, <2>1, CraftOver
<1>7. TypeOK'
  BY <1>1, <1>4, <1>6 DEF IInv, TypeOK, Places, PlanTyped
<1> QED
  BY <1>4, <1>6, <1>7 DEF IInv, Known

-----------------------------------------------------------------------------
(* A meal. *)

(* feed_pet_once: the food that is taken is counted from then on. *)

LEMMA FeedPetInv == ASSUME IInv, NEW m \in Members, FeedPet(m) PROVE IInv'
<1>1. /\ m = Leader /\ lane = None /\ lane' = m /\ pc[m] \in {"feeding", "pass"}
      /\ UNCHANGED <<shown, petRows, fed, spent, unsure, burned>>
      /\ \A o \in Members : pc[o] \notin Holding
  BY WorkshopAssumption DEF FeedPet, LooksForPets, Free, memos, IInv, QueueHeld
<1>2. PICK p \in Hungry, f \in FoodLeft :
        \/ /\ There(f, Food, 1) /\ stacks' = Takes(stacks, f, 1) /\ Reports
           /\ pets' = [pets EXCEPT ![p] = [power |-> pets[p].power + 1, today |-> TRUE]]
           /\ plan' = [plan EXCEPT ![m] = Plan(<<f>>, None, p, 1)]
           /\ pc' = [pc EXCEPT ![m] = "fed"]
        \/ /\ plan' = [plan EXCEPT ![m] = Plan(<<f>>, None, p, 0)]
           /\ pc' = [pc EXCEPT ![m] = "unfed"] /\ UNCHANGED <<stacks, coming, pets>>
  BY DEF FeedPet, Goes
<1>3. p \in Pets /\ f \in Ids /\ shown[f].kind = Food
  BY DEF Hungry, FoodLeft, Pile, Live
<1>4. CASE /\ plan' = [plan EXCEPT ![m] = Plan(<<f>>, None, p, 0)]
           /\ pc' = [pc EXCEPT ![m] = "unfed"] /\ UNCHANGED <<stacks, coming, pets>>
  <2>1. PlanTyped(Plan(<<f>>, None, p, 0))
    BY PlanIsPlan
  <2>2. /\ pc' \in [Members -> Places]
        /\ plan' = [o \in Members |-> plan'[o]] /\ \A o \in Members : PlanTyped(plan'[o])
        /\ QueueHeld' /\ DeliversItems' /\ PlansFollowRecipes' /\ pc'[m] = "unfed"
        /\ \A o \in Members \ {m} : pc'[o] = pc[o] /\ plan'[o] = plan[o]
    BY <1>1, <1>4, <2>1, GoesOn DEF Places, Holding, Crafting
  <2>3. Known'
    BY <1>1, <1>4, <2>2, LeftAlone, Quiet
  <2>4. TypeOK'
    BY <1>1, <1>4, <2>2 DEF IInv, TypeOK, Places, PlanTyped
  <2> QED
    BY <2>2, <2>3, <2>4 DEF IInv, Known
<1>5. CASE /\ There(f, Food, 1) /\ stacks' = Takes(stacks, f, 1) /\ Reports
           /\ pets' = [pets EXCEPT ![p] = [power |-> pets[p].power + 1, today |-> TRUE]]
           /\ plan' = [plan EXCEPT ![m] = Plan(<<f>>, None, p, 1)]
           /\ pc' = [pc EXCEPT ![m] = "fed"]
  <2> DEFINE meal == Plan(<<f>>, None, p, 1)
  <2>1. PlanTyped(meal) /\ meal.in = <<f>> /\ meal.out = p /\ meal.n = 1
    BY PlanIsPlan
  <2>2. /\ plan' = [plan EXCEPT ![m] = meal] /\ pc' = [pc EXCEPT ![m] = "fed"]
        /\ m = Leader /\ lane = None /\ lane' = m
    BY <1>1, <1>5
  <2> HIDE DEF meal
  <2>3. /\ pc' \in [Members -> Places]
        /\ plan' = [o \in Members |-> plan'[o]] /\ \A o \in Members : PlanTyped(plan'[o])
        /\ QueueHeld' /\ DeliversItems' /\ PlansFollowRecipes' /\ pc'[m] = "fed" /\ plan'[m] = meal
        /\ \A o \in Members \ {m} : pc'[o] = pc[o] /\ plan'[o] = plan[o]
    <3>1. Meal(meal)
      BY <2>1 DEF Meal
    <3> QED
      BY <2>1, <2>2, <3>1, GoesOn DEF Places, Holding, Crafting
  <2>4. \A i \in Ids : stacks[i].n \in Nat /\ shown[i].n \in Nat /\ spent[i] \in Nat
    BY NatFields
  <2>5. /\ stacks' \in [Ids -> Stacks] /\ \A i \in Ids \ {f} : stacks'[i] = stacks[i]
        /\ stacks'[f].n = stacks[f].n - 1 /\ (1 < stacks[f].n => stacks'[f].kind = Food)
        /\ stacks[f].kind = Food /\ stacks[f].n >= 1
    <3>1. stacks[f].kind = Food /\ stacks[f].n >= 1 /\ stacks \in [Ids -> Stacks]
      BY <1>5 DEF There, IInv, TypeOK
    <3> QED
      BY <1>3, <1>5, <3>1, TakesLessen
  <2>6. Live' = Live /\ Live \subseteq Ids
    BY <1>1 DEF Live
  <2>7. /\ coming' \in [Ids -> Seq(Stacks)] /\ CleanIsShown' /\ RemovedIsLast' /\ UsedIsBurned'
    <3>1. Lawful
      BY <1>3, <1>5, <2>4, <2>5 DEF Lawful, Changed
    <3>2. \A i \in Ids : Grows(i) \/ stacks[i].kind = Food
      BY <2>4, <2>5 DEF Grows
    <3>3. \A o \in Members : pc[o] # "made"
      BY <1>1 DEF Holding
    <3> QED
      BY <1>1, <3>1, <3>2, <3>3, ReportsLast, UsedStays
  <2>9. FoodIsCounted'
    <3>1. ASSUME NEW i \in Live, shown[i].kind = Food PROVE Counted(i)'
      <4>1. i \in Ids /\ Counted(i)
        BY <2>6, <3>1 DEF IInv, FoodIsCounted
      <4>2. Eating(i) = 0
        BY <1>1, WorkshopAssumption DEF Eating, Holding
      <4>3. CASE i = f
        <5>1. Eating(i)' = 1
          BY <1>1, <2>1, <2>3, <4>3 DEF Eating, Spends
        <5> HIDE DEF Eating
        <5> QED
          BY <1>1, <2>4, <2>5, <4>1, <4>2, <4>3, <5>1 DEF Counted
      <4>4. CASE i # f
        <5>1. Eating(i)' = 0 /\ stacks'[i] = stacks[i]
          BY <1>1, <2>1, <2>3, <2>5, <4>1, <4>4 DEF Eating, Spends
        <5> HIDE DEF Eating
        <5> QED
          BY <1>1, <4>1, <4>2, <5>1 DEF Counted
      <4> QED
        BY <4>3, <4>4
    <3> QED
      BY <1>1, <2>6, <3>1 DEF FoodIsCounted
  <2>10. MealsAreKnown'
    <3>1. ASSUME NEW o \in Pets PROVE MealIsKnown(o)'
      <4>1. CASE o = p
        BY <1>1, <2>1, <2>3, <4>1 DEF MealIsKnown
      <4>2. CASE o # p
        <5>1. pets'[o] = pets[o]
          BY <1>5, <4>2 DEF IInv, TypeOK
        <5>2. pc[Leader] # "fed"
          BY <1>1
        <5> QED
          BY <1>1, <5>1, <5>2 DEF IInv, MealsAreKnown, MealIsKnown
      <4> QED
        BY <4>1, <4>2
    <3> QED
      BY <3>1 DEF MealsAreKnown
  <2>11. SendsWhatIsThere' /\ SendsWhatIsKnown'
    BY <1>1, <2>3 DEF SendsWhatIsThere, SendsWhatIsKnown, Holding
  <2>12. TypeOK'
    <3>1. pets' \in [Pets -> [power : Nat, today : BOOLEAN]]
      BY <1>3, <1>5 DEF IInv, TypeOK
    <3> QED
      BY <1>1, <2>3, <2>5, <2>7, <3>1 DEF IInv, TypeOK, Places, PlanTyped
  <2> QED
    BY <2>3, <2>7, <2>9, <2>10, <2>11, <2>12 DEF IInv
<1> QED
  BY <1>2, <1>4, <1>5

(* The meal is remembered, or in doubt. *)
LEMMA FedInv == ASSUME IInv, NEW m \in Members, Fed(m) PROVE IInv'
<1> DEFINE meal == plan[m]
<1>1. /\ pc[m] = "fed" /\ m = Leader /\ lane = m /\ lane' = None
      /\ UNCHANGED <<stacks, pets, shown, petRows, coming, burned>>
      /\ \A o \in Members \ {m} : pc[o] \notin Holding
  BY Alone DEF Fed, Frees, chain, rows, IInv, QueueHeld, Holding
<1>2. PICK q \in {"pass", "chore"} :
        /\ pc' = [pc EXCEPT ![m] = q] /\ plan' = [plan EXCEPT ![m] = Idle]
        /\ \/ /\ fed' = fed \cup {meal.out} /\ unsure' = unsure
              /\ spent' = [i \in Ids |-> IF i \in Spends(meal) THEN spent[i] + meal.n ELSE spent[i]]
           \/ /\ fed' = fed /\ spent' = spent
              /\ unsure' = unsure \cup (Spends(meal) \cap dirty)
                                  \cup {p \in {meal.out} : petRows[p] # pets[p]}
  BY DEF Fed, Rests, Goes
<1>3. meal.n \in Nat
  BY DEF IInv, TypeOK, PlanTyped
<1>4. \A i : Eating(i) = IF i \in Spends(meal) THEN meal.n ELSE 0
  BY <1>1 DEF Eating
<1>5. \A p : MealIsKnown(p) <=> p \in unsure \cup fed \/ petRows[p] = pets[p] \/ meal.out = p
  BY <1>1 DEF MealIsKnown
<1>6. /\ pc' \in [Members -> Places]
      /\ plan' = [o \in Members |-> plan'[o]] /\ \A o \in Members : PlanTyped(plan'[o])
      /\ QueueHeld' /\ DeliversItems' /\ PlansFollowRecipes' /\ pc'[m] = q
      /\ \A o \in Members \ {m} : pc'[o] = pc[o] /\ plan'[o] = plan[o]
  <2>1. lane' = lane \/ lane = None \/ lane = m
    BY <1>1
  <2> QED
    BY <1>2, <2>1, IdleIsPlan, GoesOn DEF Places, Holding, Crafting
<1> HIDE DEF meal
<1>7. \A i : Eating(i)' = 0
  BY <1>1, <1>2, <1>6 DEF Eating
<1>8. Live' = Live /\ Live \subseteq Ids
  BY <1>1 DEF Live
<1>9. CleanIsShown' /\ RemovedIsLast'
  BY <1>1 DEF IInv, CleanIsShown, RemovedIsLast
<1>10. UsedIsBurned'
  <2>1. unsure \subseteq unsure'
    BY <1>2
  <2>2. ASSUME NEW i \in Ids, NEW v \in Versions(i), v.n > 0, v.kind \notin {Bag, Food}
        PROVE  Kept(i, v)' \/ Remembered(i)'
    <3>1. Kept(i, v) \/ (i \in Live /\ i \in burned \cup unsure)
      BY <1>1, <2>2 DEF IInv, UsedIsBurned, Remembered, JustUsed, Holding
    <3> QED
      BY <1>1, <1>8, <2>1, <3>1 DEF Kept, Remembered
  <2>3. \A i \in Ids : Versions(i)' = Versions(i)
    BY <1>1 DEF Versions
  <2> QED
    BY <2>2, <2>3 DEF UsedIsBurned
<1>11. FoodIsCounted'
  <2>1. ASSUME NEW i \in Live, shown[i].kind = Food PROVE Counted(i)'
    <3>1. /\ i \in Ids /\ Counted(i) /\ stacks[i].n \in Nat /\ shown[i].n \in Nat /\ spent[i] \in Nat
          /\ Eating(i) = IF i \in Spends(meal) THEN meal.n ELSE 0
          /\ Eating(i)' = 0
      BY <1>4, <1>7, <1>8, <2>1, NatFields DEF IInv, FoodIsCounted
    <3> HIDE DEF Eating
    <3>2. CASE spent'[i] = spent[i] + Eating(i) /\ unsure' = unsure
      BY <1>1, <1>3, <3>1, <3>2 DEF Counted
    <3>3. CASE i \in unsure'
      BY <3>3 DEF Counted
    <3>4. CASE i \notin dirty /\ spent' = spent
      <4>1. shown[i] = stacks[i]
        BY <3>1, <3>4, CleanVersions DEF dirty
      <4> QED
        BY <1>1, <2>1, <3>1, <3>4, <4>1 DEF Counted
    <3>5. CASE i \notin Spends(meal) /\ spent' = spent /\ unsure \subseteq unsure'
      BY <1>1, <3>1, <3>5 DEF Counted
    <3>6. \/ spent'[i] = spent[i] + Eating(i) /\ unsure' = unsure
          \/ spent' = spent /\ unsure \subseteq unsure' /\ Spends(meal) \cap dirty \subseteq unsure'
      BY <1>2, <3>1
    <3> QED
      BY <3>1, <3>2, <3>3, <3>4, <3>5, <3>6
  <2> QED
    BY <1>1, <1>8, <2>1 DEF FoodIsCounted
<1>12. MealsAreKnown'
  <2>1. ASSUME NEW p \in Pets PROVE MealIsKnown(p)'
    <3>1. p \in unsure \cup fed \/ petRows[p] = pets[p] \/ meal.out = p
      BY <1>5 DEF IInv, MealsAreKnown
    <3> QED
      BY <1>1, <1>2, <3>1 DEF MealIsKnown
  <2> QED
    BY <2>1 DEF MealsAreKnown
<1>13. SendsWhatIsThere' /\ SendsWhatIsKnown'
  BY <1>1, <1>6 DEF SendsWhatIsThere, SendsWhatIsKnown, Holding
<1>14. TypeOK'
  <2>1. spent' \in [Ids -> Nat]
    <3>1. spent \in [Ids -> Nat] /\ \A i \in Ids : spent[i] + meal.n \in Nat
      BY <1>3, NatFields DEF IInv, TypeOK
    <3> QED
      BY <1>2, <3>1
  <2> QED
    BY <1>1, <1>6, <2>1 DEF IInv, TypeOK, Places, PlanTyped
<1> QED
  BY <1>6, <1>9, <1>10, <1>11, <1>12, <1>13, <1>14 DEF IInv

-----------------------------------------------------------------------------
(* The packets, and the day. *)

(* The next version of a stack is shown, and the others stay on their way. *)
LEMMA NextVersion ==
  ASSUME IInv, NEW i \in Ids, coming[i] # <<>>
  PROVE  /\ Head(coming[i]) \in Stacks /\ Tail(coming[i]) \in Seq(Stacks)
         /\ Head(coming[i]) \in Versions(i)
         /\ \A n \in DOMAIN Tail(coming[i]) : Tail(coming[i])[n] \in Versions(i)
         /\ IF Tail(coming[i]) = <<>> THEN Head(coming[i]) = stacks[i]
            ELSE Tail(coming[i])[Len(Tail(coming[i]))] = stacks[i] /\ Head(coming[i]).n > 0
         /\ \A n \in 1 .. Len(Tail(coming[i])) - 1 : Tail(coming[i])[n].n > 0
<1> DEFINE s == coming[i]
<1>1. s \in Seq(Stacks) /\ s # <<>>
  BY DEF IInv, TypeOK
<1>2. s[Len(s)] = stacks[i] /\ \A n \in 1 .. Len(s) - 1 : s[n].n > 0
  BY <1>1 DEF IInv, CleanIsShown, RemovedIsLast
<1>3. \A n \in 1 .. Len(s) : s[n] \in Versions(i)
  BY <1>1 DEF Versions
<1> HIDE DEF s
<1>4. /\ Head(s) = s[1] /\ Head(s) \in Stacks /\ Tail(s) \in Seq(Stacks) /\ Len(s) \in Nat \ {0}
      /\ Len(Tail(s)) = Len(s) - 1 /\ \A n \in 1 .. Len(s) - 1 : Tail(s)[n] = s[n + 1]
  BY <1>1
<1>5. Tail(s) = <<>> <=> Len(s) = 1
  BY <1>4
<1>6. \A n \in DOMAIN Tail(s) : Tail(s)[n] \in Versions(i)
  <2>1. ASSUME NEW n \in 1 .. Len(s) - 1 PROVE n + 1 \in 1 .. Len(s) /\ Tail(s)[n] = s[n + 1]
    BY <1>4
  <2>2. DOMAIN Tail(s) = 1 .. Len(s) - 1
    BY <1>4
  <2> QED
    BY <1>3, <2>1, <2>2
<1>7. Tail(s) = <<>> => Head(s) = stacks[i]
  BY <1>2, <1>4, <1>5
<1>8. Tail(s) # <<>> => Tail(s)[Len(Tail(s))] = stacks[i] /\ Head(s).n > 0
  <2>1. Tail(s) # <<>> => Len(s) - 1 \in 1 .. Len(s) - 1 /\ 1 \in 1 .. Len(s) - 1
    BY <1>4, <1>5
  <2> QED
    BY <1>2, <1>4, <2>1
<1>9. ASSUME NEW n \in 1 .. Len(Tail(s)) - 1 PROVE Tail(s)[n].n > 0
  <2>1. n \in 1 .. Len(s) - 1 /\ n + 1 \in 1 .. Len(s) - 1
    BY <1>4, <1>9
  <2> QED
    BY <1>2, <1>4, <2>1
<1> QED
  BY <1>3, <1>4, <1>6, <1>7, <1>8, <1>9 DEF s

(* What is shown next is there, or used up and remembered; and as much of the
   food, unless it is a version that meals have outrun. *)
LEMMA StackArrivesInv == ASSUME IInv, NEW i \in Ids, StackArrives(i) PROVE IInv'
<1> DEFINE next == Head(coming[i])
           later == Tail(coming[i])
<1>1. /\ coming[i] # <<>> /\ shown' = [shown EXCEPT ![i] = next]
      /\ coming' = [coming EXCEPT ![i] = later] /\ spent' = [spent EXCEPT ![i] = 0]
      /\ plan' = [m \in Members |-> IF pc[m] = "fed" /\ i \in Spends(plan[m])
                                   THEN [plan[m] EXCEPT !.n = 0] ELSE plan[m]]
      /\ unsure' = IF Outrun(i) THEN unsure \cup {i}
                   ELSE IF later = <<>> /\ ~ Sending(i) THEN unsure \ {i} ELSE unsure
      /\ UNCHANGED <<stacks, pets, petRows, burned, fed, lane, pc>>
  BY DEF StackArrives, chain
<1>2. /\ next \in Stacks /\ later \in Seq(Stacks) /\ next \in Versions(i)
      /\ \A n \in DOMAIN later : later[n] \in Versions(i)
      /\ IF later = <<>> THEN next = stacks[i] ELSE later[Len(later)] = stacks[i] /\ next.n > 0
      /\ \A n \in 1 .. Len(later) - 1 : later[n].n > 0
  BY <1>1, NextVersion
<1>3. Outrun(i) <=> later # <<>> /\ next.kind = Food /\ ~ There(i, Food, next.n)
  BY DEF Outrun
<1> HIDE DEF next, later
<1>4. /\ shown'[i] = next /\ coming'[i] = later /\ spent'[i] = 0
      /\ \A j \in Ids \ {i} : shown'[j] = shown[j] /\ coming'[j] = coming[j] /\ spent'[j] = spent[j]
      /\ shown' \in [Ids -> Stacks] /\ coming' \in [Ids -> Seq(Stacks)] /\ spent' \in [Ids -> Nat]
  BY <1>1, <1>2 DEF IInv, TypeOK
<1>5. ASSUME NEW m \in Members
      PROVE  /\ PlanTyped(plan'[m]) /\ plan'[m].in = plan[m].in /\ plan'[m].out = plan[m].out
             /\ pc[m] = "fed" /\ i \in Spends(plan[m]) => plan'[m].n = 0
             /\ ~ (pc[m] = "fed" /\ i \in Spends(plan[m])) => plan'[m] = plan[m]
  <2> DEFINE p == plan[m]
             q == [p EXCEPT !.n = 0]
  <2>1. p = [f \in Fields |-> p[f]] /\ p.onto \in Ids \cup {None} /\ PlanTyped(p)
    BY DEF IInv, TypeOK, PlanTyped
  <2>2. plan'[m] = IF pc[m] = "fed" /\ i \in Spends(p) THEN q ELSE p
    BY <1>1
  <2> HIDE DEF p
  <2>3. q = [f \in Fields |-> IF f = "n" THEN 0 ELSE p[f]]
    BY <2>1 DEF Fields
  <2> HIDE DEF q
  <2>4. PlanTyped(q) /\ q.in = p.in /\ q.out = p.out /\ q.n = 0
    BY <2>1, <2>3 DEF PlanTyped, Fields
  <2> QED
    BY <2>1, <2>2, <2>4 DEF p
<1>6. plan' = [m \in Members |-> plan'[m]] /\ \A m \in Members : Spends(plan'[m]) = Spends(plan[m])
  BY <1>1, <1>5 DEF Spends
<1>7. TypeOK'
  BY <1>1, <1>4, <1>5, <1>6 DEF IInv, TypeOK, PlanTyped
<1>8. QueueHeld' /\ DeliversItems' /\ PlansFollowRecipes'
  <2>1. QueueHeld'
    BY <1>1 DEF IInv, QueueHeld
  <2>2. DeliversItems'
    BY <1>1, <1>5 DEF IInv, DeliversItems, Delivery, Meal
  <2>3. PlansFollowRecipes'
    BY <1>1, <1>5 DEF IInv, PlansFollowRecipes, PlanOfRecipe, Crafting
  <2> QED
    BY <2>1, <2>2, <2>3
<1>9. CleanIsShown' /\ RemovedIsLast'
  <2>1. CleanIsShown'
    BY <1>1, <1>2, <1>4 DEF IInv, CleanIsShown
  <2>2. RemovedIsLast'
    BY <1>2, <1>4 DEF IInv, RemovedIsLast
  <2> QED
    BY <2>1, <2>2
<1>10. \A j \in Ids : \A v \in Versions(j)' : v \in Versions(j)
  <2>1. ASSUME NEW j \in Ids \ {i} PROVE Versions(j)' = Versions(j)
    BY <1>4 DEF Versions
  <2>2. ASSUME NEW v \in Versions(i)' PROVE v \in Versions(i)
    <3>1. v = next \/ \E n \in DOMAIN later : v = later[n]
      BY <1>4, <2>2 DEF Versions
    <3> QED
      BY <1>2, <3>1
  <2> QED
    BY <2>1, <2>2
<1>11. /\ \A j \in unsure : j # i => j \in unsure'
       /\ i \in unsure /\ (later # <<>> \/ Sending(i)) => i \in unsure'
  BY <1>1
<1>12. UsedIsBurned'
  <2>1. ASSUME NEW j \in Ids, NEW v \in Versions(j), v.n > 0, v.kind \notin {Bag, Food},
               v \in Versions(j)'
        PROVE  Kept(j, v)' \/ Remembered(j)'
    <3>1. CASE Kept(j, v)
      BY <1>1, <3>1 DEF Kept
    <3>2. CASE Remembered(j) /\ (j # i \/ later # <<>>)
      <4>1. j \in Live'
        BY <1>2, <1>4, <3>2 DEF Remembered, Live
      <4>2. JustUsed(j) => JustUsed(j)'
        BY <1>1, <1>6 DEF JustUsed
      <4> QED
        BY <1>1, <1>11, <3>2, <4>1, <4>2 DEF Remembered
    <3>3. CASE j = i /\ later = <<>>
      <4>1. v = stacks[i] /\ stacks[i].n \in Nat
        BY <1>2, <1>4, <2>1, <3>3, NatFields DEF Versions
      <4> QED
        BY <1>1, <3>3, <4>1 DEF Kept
    <3> QED
      BY <2>1, <3>1, <3>2, <3>3 DEF IInv, UsedIsBurned
  <2> QED
    BY <1>10, <2>1 DEF UsedIsBurned
<1>13. FoodIsCounted'
  <2>1. ASSUME NEW j \in Ids \ {i}, j \in Live', shown'[j].kind = Food PROVE Counted(j)'
    <3>1. Counted(j)
      BY <1>4, <2>1 DEF IInv, FoodIsCounted, Live
    <3>2. Eating(j)' = Eating(j)
      <4>1. pc[Leader] = "fed" /\ j \in Spends(plan[Leader]) => i \notin Spends(plan[Leader])
        <5>1. pc[Leader] = "fed" => Meal(plan[Leader])
          BY WorkshopAssumption DEF IInv, DeliversItems
        <5> QED
          BY <5>1 DEF Meal, Spends
      <4> QED
        BY <1>1, <1>5, <1>6, <4>1, WorkshopAssumption DEF Eating
    <3> HIDE DEF Eating
    <3> QED
      BY <1>1, <1>4, <1>11, <3>1, <3>2 DEF Counted
  <2>2. ASSUME i \in Live', shown'[i].kind = Food PROVE Counted(i)'
    <3>1. Eating(i)' = 0
      BY <1>1, <1>5, <1>6, WorkshopAssumption DEF Eating
    <3>2. next.n \in Nat /\ stacks[i].n \in Nat
      BY <1>2, NatFields
    <3> HIDE DEF Eating
    <3>3. CASE Outrun(i)
      BY <1>1, <3>3 DEF Counted
    <3>4. CASE ~ Outrun(i)
      <4>1. stacks[i].kind = Food /\ stacks[i].n >= next.n
        BY <1>2, <1>3, <1>4, <2>2, <3>2, <3>4 DEF There
      <4> QED
        BY <1>1, <1>4, <3>1, <3>2, <4>1 DEF Counted
    <3> QED
      BY <3>3, <3>4
  <2>3. \A j \in Live' : j \in Ids
    BY DEF Live
  <2> QED
    BY <2>1, <2>2, <2>3 DEF FoodIsCounted
<1>14. MealsAreKnown'
  <2>1. \A p \in Pets : p # i
    BY WorkshopAssumption
  <2> QED
    BY <1>1, <1>5, <1>11, <2>1, WorkshopAssumption DEF IInv, MealsAreKnown, MealIsKnown
<1>15. SendsWhatIsThere'
  <2>1. ASSUME NEW m \in Members, pc[m] = "sending" PROVE SureOf(plan[m])'
    <3>1. SureOf(plan[m]) /\ plan'[m] = plan[m]
      BY <1>5, <2>1 DEF IInv, SendsWhatIsThere
    <3>2. \A n \in DOMAIN plan[m].in : plan[m].in[n] \in unsure => plan[m].in[n] \in unsure'
      BY <1>11, <2>1 DEF Sending, Spends
    <3> QED
      BY <1>1, <3>1, <3>2 DEF SureOf, There, Wants
  <2> QED
    BY <1>1, <2>1 DEF SendsWhatIsThere
<1>16. SendsWhatIsKnown'
  <2>1. ASSUME NEW m \in Members, pc[m] = "sending", NEW j \in Spends(plan[m])
        PROVE  j \in Live' \/ coming'[j] = <<>>
    <3>1. j \in Ids /\ (j \in Live \/ coming[j] = <<>>)
      <4>1. PlanOfRecipe(plan[m])
        BY <2>1 DEF IInv, PlansFollowRecipes, Crafting
      <4> QED
        BY <2>1, <4>1 DEF IInv, SendsWhatIsKnown, PlanOfRecipe, Spends
    <3>2. CASE j = i
      BY <1>2, <1>4, <3>1, <3>2 DEF Live
    <3>3. CASE j # i
      BY <1>4, <3>1, <3>3 DEF Live
    <3> QED
      BY <3>2, <3>3
  <2> QED
    BY <1>1, <1>6, <2>1 DEF SendsWhatIsKnown
<1> QED
  BY <1>7, <1>8, <1>9, <1>12, <1>13, <1>14, <1>15, <1>16 DEF IInv

LEMMA PetArrivesInv == ASSUME IInv, NEW p \in Pets, PetArrives(p) PROVE IInv'
<1>1. PICK power \in petRows[p].power + 1 .. pets[p].power :
        petRows' = [petRows EXCEPT ![p] =
                      [power |-> power, today |-> power = pets[p].power /\ pets[p].today]]
  BY DEF PetArrives
<1>2. /\ unsure' = IF petRows'[p] = pets[p] THEN unsure \ {p} ELSE unsure
      /\ UNCHANGED <<stacks, shown, coming, pets, burned, fed, spent, lane, pc, plan>>
  BY DEF PetArrives, chain, memos
<1>3. /\ pets[p].power \in Nat /\ petRows[p].power \in Nat /\ power \in Nat /\ petRows[p] # pets[p]
      /\ petRows' \in [Pets -> [power : Nat, today : BOOLEAN]]
      /\ \A o \in Pets \ {p} : petRows'[o] = petRows[o]
  <2>1. /\ petRows \in [Pets -> [power : Nat, today : BOOLEAN]]
        /\ pets \in [Pets -> [power : Nat, today : BOOLEAN]]
    BY DEF IInv, TypeOK
  <2>2. pets[p].power \in Nat /\ petRows[p].power \in Nat /\ pets[p].today \in BOOLEAN
    BY <2>1
  <2>3. power \in Nat /\ petRows[p].power # pets[p].power
    BY <1>1, <2>2
  <2> QED
    BY <1>1, <2>1, <2>2, <2>3
<1>4. (\A j \in unsure : j # p => j \in unsure') /\ \A j \in Ids : j \in unsure => j \in unsure'
  BY <1>2, WorkshopAssumption
<1>5. TypeOK' /\ QueueHeld' /\ DeliversItems' /\ PlansFollowRecipes'
  BY <1>2, <1>3 DEF IInv, TypeOK, PlanTyped, QueueHeld, DeliversItems, Delivery, Meal,
     PlansFollowRecipes, PlanOfRecipe
<1>6. CleanIsShown' /\ RemovedIsLast' /\ SendsWhatIsKnown'
  BY <1>2 DEF IInv, CleanIsShown, RemovedIsLast, SendsWhatIsKnown, Spends, Live
<1>7. UsedIsBurned'
  <2>1. \A i \in Ids : Versions(i)' = Versions(i) /\ (JustUsed(i) => JustUsed(i)')
    BY <1>2 DEF Versions, JustUsed, Spends
  <2>2. \A i \in Ids : Remembered(i) => Remembered(i)'
    BY <1>2, <1>4, <2>1 DEF Remembered, Live
  <2> QED
    BY <1>2, <2>1, <2>2 DEF IInv, UsedIsBurned, Kept
<1>8. FoodIsCounted'
  <2>1. \A i \in Ids : Eating(i)' = Eating(i)
    BY <1>2 DEF Eating, Spends
  <2>2. Live' = Live /\ Live \subseteq Ids
    BY <1>2 DEF Live
  <2> HIDE DEF Eating
  <2> QED
    BY <1>2, <1>4, <2>1, <2>2 DEF IInv, FoodIsCounted, Counted
<1>9. MealsAreKnown'
  <2>1. MealIsKnown(p)'
    <3>1. p \in unsure \cup fed \/ (pc[Leader] = "fed" /\ plan[Leader].out = p)
      BY <1>3 DEF IInv, MealsAreKnown, MealIsKnown
    <3> QED
      BY <1>2, <3>1 DEF MealIsKnown
  <2>2. ASSUME NEW o \in Pets \ {p} PROVE MealIsKnown(o)'
    BY <1>2, <1>3, <1>4, <2>2 DEF IInv, MealsAreKnown, MealIsKnown
  <2> QED
    BY <2>1, <2>2 DEF MealsAreKnown
<1>10. SendsWhatIsThere'
  <2>1. ASSUME NEW m \in Members, pc[m] = "sending" PROVE SureOf(plan[m])'
    <3>1. SureOf(plan[m]) /\ PlanOfRecipe(plan[m])
      BY <2>1 DEF IInv, SendsWhatIsThere, PlansFollowRecipes, Crafting
    <3>2. \A n \in DOMAIN plan[m].in : plan[m].in[n] \in Ids
      BY <3>1 DEF PlanOfRecipe
    <3> QED
      BY <1>2, <1>4, <3>1, <3>2 DEF SureOf, There, Wants
  <2> QED
    BY <1>2, <2>1 DEF SendsWhatIsThere
<1> QED
  BY <1>5, <1>6, <1>7, <1>8, <1>9, <1>10 DEF IInv

(* A meal that is shown stays shown; one that is not is in doubt. *)
LEMMA DayTurnsInv == ASSUME IInv, DayTurns PROVE IInv'
<1>1. /\ pets' = [p \in Pets |-> [pets[p] EXCEPT !.today = FALSE]]
      /\ petRows' = [p \in Pets |-> [petRows[p] EXCEPT !.today = FALSE]] /\ fed' = {}
      /\ unsure' = unsure \cup {p \in Pets : petRows[p].power # pets[p].power}
      /\ UNCHANGED <<stacks, shown, coming, burned, spent, lane, pc, plan>>
  BY DEF DayTurns
<1>2. TypeOK'
  BY <1>1 DEF IInv, TypeOK, PlanTyped
<1>3. QueueHeld' /\ DeliversItems' /\ PlansFollowRecipes'
  BY <1>1 DEF IInv, QueueHeld, DeliversItems, PlansFollowRecipes, Delivery, Meal, PlanOfRecipe, Crafting
<1>4. CleanIsShown' /\ RemovedIsLast' /\ UsedIsBurned' /\ FoodIsCounted'
  <2>1. CleanIsShown' /\ RemovedIsLast'
    BY <1>1 DEF IInv, CleanIsShown, RemovedIsLast
  <2>2. UsedIsBurned'
    BY <1>1 DEF IInv, UsedIsBurned, Versions, Kept, Remembered, JustUsed, Spends, Live
  <2>3. FoodIsCounted'
    BY <1>1 DEF IInv, FoodIsCounted, Spends, Counted, Eating, Live
  <2> QED
    BY <2>1, <2>2, <2>3
<1>5. MealsAreKnown'
  <2>1. ASSUME NEW p \in Pets, petRows[p].power = pets[p].power PROVE petRows'[p] = pets'[p]
    <3>1. pets[p] \in [power : Nat, today : BOOLEAN] /\ petRows[p] \in [power : Nat, today : BOOLEAN]
      BY DEF IInv, TypeOK
    <3> QED
      BY <1>1, <2>1, <3>1
  <2> QED
    BY <1>1, <2>1 DEF MealsAreKnown, MealIsKnown
<1>6. SendsWhatIsThere' /\ SendsWhatIsKnown'
  BY <1>1 DEF IInv, SendsWhatIsThere, SendsWhatIsKnown, SureOf, There, Wants, Spends, Live
<1> QED
  BY <1>2, <1>3, <1>4, <1>5, <1>6 DEF IInv

-----------------------------------------------------------------------------
(* The invariant. *)

LEMMA InitInv == Init => IInv
<1> SUFFICES ASSUME Init PROVE IInv
  OBVIOUS
<1>1. PICK start \in Starts : /\ stacks = start.kiosk
                              /\ pets = [p \in Pets |-> [power |-> start.power[p], today |-> FALSE]]
  BY DEF Init
<1>2. stacks \in [Ids -> Stacks] /\ pets \in [Pets -> [power : Nat, today : BOOLEAN]]
  BY <1>1, WorkshopAssumption
<1>3. /\ shown = stacks /\ petRows = pets /\ burned = {} /\ spent = [i \in Ids |-> 0]
      /\ coming = [i \in Ids |-> <<>>]
      /\ pc = [m \in Members |-> "pass"] /\ plan = [m \in Members |-> Idle] /\ unsure = {}
  BY DEF Init
<1>4. TypeOK
  BY <1>2, <1>3, IdleIsPlan DEF TypeOK
<1>5. \A i \in Ids : stacks[i].n \in Nat
  <2>1. \A s \in Stacks : s.n \in Nat
    BY WorkshopAssumption DEF Stacks
  <2> QED
    BY <1>2, <2>1
<1>6. QueueHeld /\ DeliversItems /\ PlansFollowRecipes /\ SendsWhatIsThere /\ SendsWhatIsKnown
  BY <1>3 DEF QueueHeld, DeliversItems, PlansFollowRecipes, SendsWhatIsThere, SendsWhatIsKnown,
     Holding, Crafting
<1>7. CleanIsShown /\ RemovedIsLast /\ UsedIsBurned /\ MealsAreKnown
  <2>1. CleanIsShown /\ RemovedIsLast /\ MealsAreKnown
    BY <1>3 DEF CleanIsShown, RemovedIsLast, MealsAreKnown, MealIsKnown
  <2>2. \A i \in Ids : \A v \in Versions(i) : v = stacks[i]
    BY <1>3 DEF Versions
  <2>3. UsedIsBurned
    BY <1>5, <2>2 DEF UsedIsBurned, Kept
  <2> QED
    BY <2>1, <2>3
<1>8. FoodIsCounted
  <2>1. \A i : Eating(i) = 0
    BY <1>3, WorkshopAssumption DEF Eating
  <2> HIDE DEF Eating
  <2> QED
    BY <1>3, <1>5, <2>1 DEF FoodIsCounted, Counted, Live
<1> QED
  BY <1>4, <1>6, <1>7, <1>8 DEF IInv

LEMMA NextInv == ASSUME IInv, [Next]_vars PROVE IInv'
<1>1. ASSUME NEW m \in Members, Step(m) PROVE IInv'
  BY <1>1, OpenBagInv, ClaimBagInv, FeedPetInv, UnfedInv, FedInv, GatherInv, GatheredInv,
     NothingToGatherInv, CraftInv, CraftedInv, FailsInv DEF Step
<1>2. ASSUME NEW m \in Members, PlanCraft(m) PROVE IInv'
  BY <1>2, PlanCraftInv
<1>3. CASE UNCHANGED vars
  <2>1. /\ UNCHANGED <<stacks, shown, coming, pets, petRows, burned, spent, fed>>
        /\ UNCHANGED <<lane, pc, plan, unsure>>
    BY <1>3 DEF vars, chain, rows, memos
  <2>2. TypeOK' /\ QueueHeld' /\ DeliversItems' /\ PlansFollowRecipes'
    BY <2>1 DEF IInv, TypeOK, PlanTyped, QueueHeld, DeliversItems, Delivery, Meal, PlansFollowRecipes,
       PlanOfRecipe
  <2>3. SendsWhatIsThere' /\ SendsWhatIsKnown'
    BY <2>1 DEF IInv, SendsWhatIsThere, SendsWhatIsKnown, SureOf, There, Wants, Spends, Live
  <2>4. CleanIsShown' /\ RemovedIsLast' /\ UsedIsBurned'
    BY <2>1 DEF IInv, CleanIsShown, RemovedIsLast, UsedIsBurned, Versions, Kept, Remembered, JustUsed,
       Spends, Live
  <2>5. FoodIsCounted' /\ MealsAreKnown'
    BY <2>1 DEF IInv, FoodIsCounted, Counted, Eating, Spends, MealsAreKnown, MealIsKnown, Live
  <2> QED
    BY <2>2, <2>3, <2>4, <2>5 DEF IInv
<1> QED
  BY <1>1, <1>2, <1>3, StackArrivesInv, PetArrivesInv, DayTurnsInv DEF Next, BagArrives

(* The invariant holds throughout.  What is shown, or will be shown by a packet
   that is on its way, and is not there, is remembered as burned, counted or fed;
   or an answer was lost, or the day turned before a meal was shown, or the packet
   that came last shows an older version of a food stack, planned meals on the
   version before it having taken what it shows (craft.ts:38-47, pet.ts:107-127,
   store.ts:154-165). *)
THEOREM WhatIsGoneIsRemembered == Spec => []IInv
<1>1. Init => IInv
  BY InitInv
<1>2. IInv /\ [Next]_vars => IInv'
  BY NextInv
<1> QED
  BY <1>1, <1>2, PTL DEF Spec

-----------------------------------------------------------------------------
(* Who fails, and why. *)

(* Only a craft is short of something, and only a pet refuses its food. *)
LEMMA WhoFails ==
  ASSUME IInv, Next, NEW m \in Members, pc[m] # pc'[m], pc'[m] \in {"short", "unfed"}
  PROVE  (Craft(m) /\ pc'[m] = "short") \/ (FeedPet(m) /\ pc'[m] = "unfed")
<1>1. pc \in [Members -> Places]
  BY DEF IInv, TypeOK, Places
<1>2. ASSUME NEW o \in Members, Craft(o) PROVE Craft(m) /\ pc'[m] = "short"
  BY <1>1, <1>2 DEF Craft, Goes
<1>3. ASSUME NEW o \in Members, FeedPet(o) PROVE FeedPet(m) /\ pc'[m] = "unfed"
  BY <1>1, <1>3 DEF FeedPet, Goes
<1>4. ASSUME NEW o \in Members, NEW q \in Places \ {"short", "unfed"}, pc' = [pc EXCEPT ![o] = q]
      PROVE  FALSE
  BY <1>1, <1>4
<1>5. ASSUME NEW o \in Members, OpenBag(o) \/ ClaimBag(o) \/ Unfed(o) \/ Fed(o) PROVE FALSE
  BY <1>4, <1>5 DEF OpenBag, ClaimBag, Unfed, Fed, Rests, Goes, Places, Holding
<1>6. ASSUME NEW o \in Members, Gather(o) \/ Gathered(o) \/ NothingToGather(o) PROVE FALSE
  BY <1>4, <1>6 DEF Gather, Gathered, NothingToGather, ToCraft, Rests, Goes, Places, Holding
<1>7. ASSUME NEW o \in Members, PlanCraft(o) \/ Crafted(o) \/ Fails(o) PROVE FALSE
  BY <1>4, <1>7 DEF PlanCraft, Crafted, Fails, Rests, Goes, Places, Holding
<1>8. CASE BagArrives \/ DayTurns
  BY <1>8 DEF BagArrives, StackArrives, PetArrives, DayTurns
<1> QED
  BY <1>2, <1>3, <1>5, <1>6, <1>7, <1>8 DEF Next, Step

LEMMA ShortForDoubt ==
  ASSUME IInv, NEW m \in Members, Craft(m), pc'[m] = "short"
  PROVE  Spends(plan'[m]) \cap unsure # {}
<1>1. pc[m] = "sending" /\ plan' = plan /\ ~ Supplied(plan[m])
  BY DEF Craft, Goes, IInv, TypeOK
<1>2. PICK n \in DOMAIN plan[m].in : ~ There(plan[m].in[n], Needs[plan[m].out][n][1], Wants(plan[m], n))
  BY <1>1 DEF Supplied
<1>3. plan[m].in[n] \in unsure
  BY <1>1, <1>2 DEF IInv, SendsWhatIsThere, SureOf
<1> QED
  BY <1>1, <1>2, <1>3 DEF Spends

LEMMA UnfedForDoubt ==
  ASSUME IInv, NEW m \in Members, FeedPet(m), pc'[m] = "unfed"
  PROVE  (Spends(plan'[m]) \cup {plan'[m].out}) \cap unsure # {}
<1>1. /\ m = Leader /\ lane = None /\ \A o \in Members : pc[o] \notin Holding
  BY WorkshopAssumption DEF FeedPet, LooksForPets, Free, IInv, QueueHeld
<1>2. PICK p \in Hungry, f \in FoodLeft :
        /\ ~ (There(f, Food, 1) /\ ~ pets[p].today /\ pets[p].power < MaxFeeds)
        /\ plan' = [plan EXCEPT ![m] = Plan(<<f>>, None, p, 0)]
  BY DEF FeedPet, Goes, IInv, TypeOK
<1>3. Spends(plan'[m]) = {f} /\ plan'[m].out = p
  <2> DEFINE meal == Plan(<<f>>, None, p, 0)
  <2>1. meal.in = <<f>> /\ meal.out = p /\ PlanTyped(meal)
    BY PlanIsPlan
  <2> HIDE DEF meal
  <2>2. plan'[m] = meal
    <3>1. plan' = [plan EXCEPT ![m] = meal]
      BY <1>2 DEF meal
    <3> QED
      BY <2>1, <3>1, OnePlan DEF IInv
  <2> QED
    BY <2>1, <2>2 DEF Spends
<1>4. ASSUME f \notin unsure PROVE There(f, Food, 1)
  <2>1. f \in Ids /\ f \in Live /\ shown[f].kind = Food /\ shown[f].n > spent[f]
    BY DEF FoodLeft, Pile, Live
  <2>2. Eating(f) = 0
    BY <1>1, WorkshopAssumption DEF Eating, Holding
  <2>3. Counted(f) /\ stacks[f].n \in Nat /\ shown[f].n \in Nat /\ spent[f] \in Nat
    BY <2>1, NatFields DEF IInv, FoodIsCounted
  <2> HIDE DEF Eating
  <2> QED
    BY <1>4, <2>1, <2>2, <2>3 DEF Counted, There
<1>5. ASSUME p \notin unsure PROVE ~ pets[p].today /\ pets[p].power < MaxFeeds
  <2>1. p \in Pets /\ p \notin fed /\ ~ petRows[p].today /\ petRows[p].power < MaxFeeds
    BY DEF Hungry
  <2>2. pc[Leader] # "fed"
    BY <1>1 DEF Holding
  <2>3. petRows[p] = pets[p]
    BY <1>5, <2>1, <2>2 DEF IInv, MealsAreKnown, MealIsKnown
  <2> QED
    BY <2>1, <2>3
<1> QED
  BY <1>2, <1>3, <1>4, <1>5

(* A craft is short of an ingredient only where an answer was lost; a pet refuses
   its food only there, or where the day turned before a meal was shown, or where
   a packet showed an older version of the food that its meals had outrun
   (craft.ts:38-47, session.ts:346-359, pet.ts:107-127). *)
THEOREM SpendsWhatIsShown == Spec => SpendsWhatIsThere
<1>1. IInv /\ [Next]_vars =>
        [\A m \in Members : pc[m] # pc'[m] /\ pc'[m] \in {"short", "unfed"} =>
           (Spends(plan'[m]) \cup {plan'[m].out}) \cap unsure # {}]_vars
  BY WhoFails, ShortForDoubt, UnfedForDoubt
<1> QED
  BY <1>1, WhatIsGoneIsRemembered, PTL DEF Spec, SpendsWhatIsThere

=============================================================================
