------------------------------ MODULE FightCalc ------------------------------
(***************************************************************************)
(* Every pure rule of CombatGrid and FightMath, put to a question: a step  *)
(* asks about one path, one area, one line of sight or one calculation     *)
(* from the bounded inputs, and the invariants compare the answer with     *)
(* what the rule is for. There is no behaviour beyond the question.        *)
(***************************************************************************)
EXTENDS CombatGrid, FightMath

CONSTANTS MaxWalls,     \* walls on the board
          MaxBudget,    \* movement points
          MaxSize,      \* size of an area
          MaxLevel,     \* levels of players and mobs
          MaxPool,      \* action or movement points
          MaxParty,     \* members of a side
          MaxLockers,   \* opponents next to a runner
          Agilities,    \* agility of the runner and the lockers
          Bases,        \* authored values before they are scaled or shared
          Draws,        \* rolls of a point removal (of 0 .. 99)
          Rolls,        \* draws of the generator (of 0 .. CRIT_SCALE - 1)
          Wisdoms       \* wisdom of the two sides of a point removal

\* A budget stays below the mark of the cells a flood has not reached (the board has
\* 380 cells), so that no comparison with it takes the mark for a distance.
ASSUME CalcAssumption ==
    /\ MaxBudget < NumCells
    /\ {MaxWalls, MaxBudget, MaxSize, MaxLevel, MaxPool, MaxParty, MaxLockers} \subseteq Nat
    /\ Rolls \subseteq 0 .. CRIT_SCALE - 1 /\ Draws \subseteq 0 .. 99
    /\ Agilities \subseteq Nat /\ Bases \subseteq Nat /\ Wisdoms \subseteq Nat

VARIABLE asked

WallSets == UNION {kSubset(n, Cells) : n \in 0 .. MaxWalls}
Launches == [rmin : {0, 1}, rmax : {1, 2}, sight : BOOLEAN, straight : BOOLEAN]
Parties == UNION {[1 .. n -> 1 .. MaxLevel] : n \in 1 .. MaxParty}
Lockers == UNION {[1 .. n -> Agilities] : n \in 1 .. MaxLockers}

CalcInit == asked = [kind |-> "nothing"]

AskPath ==
    \E from, to \in Cells, walls \in WallSets, budget \in 1 .. MaxBudget :
      /\ from # to /\ from \notin walls
      /\ asked' = [kind |-> "path", from |-> from, to |-> to,
                   walls |-> walls, budget |-> budget]

AskArea ==
    \E anchor, caster \in Cells, shape \in Shapes, size \in 0 .. MaxSize :
      asked' = [kind |-> "area", anchor |-> anchor, caster |-> caster,
                shape |-> shape, size |-> size]

AskSight ==
    \E from, to, body \in Cells :
      asked' = [kind |-> "sight", from |-> from, to |-> to, body |-> body]

AskRoll ==
    \E low, high \in 0 .. MaxLevel, roll \in Rolls :
      low <= high /\ asked' = [kind |-> "roll", low |-> low, high |-> high, roll |-> roll]

AskRemoval ==
    \E value \in 1 .. MaxPool, current \in 0 .. MaxPool, caster, target \in Wisdoms :
      \E rolls \in [1 .. value -> Draws] :
        asked' = [kind |-> "removal", value |-> value, current |-> current,
                  caster |-> caster, target |-> target, rolls |-> rolls]

AskTackle ==
    \E pool \in 0 .. MaxPool, runner \in Agilities, lockers \in Lockers :
      asked' = [kind |-> "tackle", pool |-> pool, runner |-> runner, lockers |-> lockers]

AskAward ==
    \E players, mobs \in Parties, base \in Bases :
      asked' = [kind |-> "award", players |-> players, mobs |-> mobs, base |-> base]

AskLevel ==
    \E low, high \in 1 .. MaxLevel, wanted \in 0 .. MaxLevel + 1, base \in Bases :
      /\ low <= high
      /\ asked' = [kind |-> "level", low |-> low, high |-> high,
                   wanted |-> wanted, base |-> base]

CalcNext ==
    /\ asked.kind = "nothing"
    /\ \/ AskPath \/ AskArea \/ AskSight \/ AskRoll
       \/ AskRemoval \/ AskTackle \/ AskAward \/ AskLevel

CalcSpec == CalcInit /\ [][CalcNext]_asked

(***************************************************************************)
(* Properties                                                              *)
(***************************************************************************)
\* A route the planner asks for is one the rules accept as a move: walkable
\* cell by cell, within the points, ending on the cell asked for, as short as
\* any, and found exactly when the cell is among the reachable ones. Three
\* pieces of code (the flood, the descent and the validation) have to agree.
PathsAreMoves ==
    asked.kind = "path" =>
      LET path == fight_path_to(asked.from, asked.budget, asked.to, asked.walls)
          reach == reachable_fight_cells(asked.from, asked.budget, asked.walls)
          steps == bfs_distance_field(asked.from, asked.walls, asked.budget)
      IN /\ path_is_walkable(asked.from, path, asked.walls, asked.budget)
         /\ path # <<>> <=> asked.to \in reach
         /\ path # <<>> => Last(path) = asked.to /\ Len(path) = steps[asked.to]

\* An approach spends its points on the way to the nearest open flank of the
\* target: it is a legal move, it goes as far as the points allow and no
\* farther than the flank, and it is empty only when no flank can be reached.
ApproachReachesFlank ==
    asked.kind = "path" /\ asked.from \notin neighbours(asked.to) =>
      LET path == fight_approach_path(asked.from, asked.budget, asked.to, asked.walls)
          steps == bfs_distance_field(asked.from, asked.walls, NumCells)
          flanks == {c \in neighbours(asked.to) : steps[c] < NumCells}
      IN /\ path_is_walkable(asked.from, path, asked.walls, asked.budget)
         /\ Len(path) = IF flanks = {} THEN 0
                        ELSE Min({asked.budget} \cup {steps[c] : c \in flanks})

\* The cell a mob walks to before it casts can be walked to with its points,
\* the spell does reach the target from there, and no nearer cell would do;
\* no cell is given only when none of the reachable ones would do.
CastCellServes ==
    asked.kind = "path" =>
      \A launch \in Launches :
        LET bodies == asked.walls \ {asked.to}
            cell == bfs_cast_cell(asked.from, asked.to, asked.walls, asked.budget,
                                  launch, bodies)
            reach == {asked.from} \cup
                     reachable_fight_cells(asked.from, asked.budget, asked.walls)
            serves(c) == cell_can_cast(c, asked.to, launch, bodies)
            steps == bfs_distance_field(asked.from, asked.walls, NumCells)
        IN IF cell = NoCell THEN \A c \in reach : ~serves(c)
           ELSE /\ cell \in reach /\ serves(cell)
                /\ \A c \in reach : serves(c) => steps[cell] <= steps[c]

\* The order in which an area's targets are taken (the rank) and the order in
\* which its cells are listed (the preview) are two hand-written enumerations
\* of nine shapes; they name the same cells in the same order.
AreaRanksAgree ==
    asked.kind = "area" =>
      LET list == zone_cells(asked.shape, asked.size, asked.anchor, asked.caster)
          rank(c) == zone_rank(asked.shape, asked.size, asked.anchor, asked.caster, c)
      IN /\ ToSet(list) = {c \in Cells : rank(c) # NoCell}
         /\ \A i, j \in DOMAIN list : i < j => rank(list[i]) < rank(list[j])

\* Sight is mutual: who can be seen can see, whatever body stands between.
\* The integer slopes are rounded from one end, and must agree from the other.
SightIsMutual ==
    asked.kind = "sight" =>
      (blocks(asked.from, asked.body, asked.to) <=> blocks(asked.to, asked.body, asked.from))

\* A push moves its target one step farther from the pivot and a pull one step
\* nearer, on every pair of cells, diagonals included.
PushLeavesPullNears ==
    asked.kind = "sight" /\ asked.from # asked.to =>
      LET far == step_cell(asked.to, away_dir(asked.from, asked.to))
          near == step_cell(asked.to, toward_dir(asked.from, asked.to))
          span == manhattan(asked.from, asked.to)
      IN /\ far # NoCell => manhattan(asked.from, far) = span + 1
         /\ near # NoCell /\ manhattan(asked.from, near) = span - 1

\* A roll of damage stays in the authored range and its extremes are reached, the
\* upper one as long as the range has no more values than a roll.
RollsFitRange ==
    asked.kind = "roll" =>
      LET hit == roll_in_range(asked.low, asked.high, asked.roll)
      IN /\ asked.low <= hit /\ hit <= asked.high
         /\ asked.roll = 0 => hit = asked.low
         /\ asked.roll = CRIT_SCALE - 1 /\ asked.high - asked.low < CRIT_SCALE =>
              hit = asked.high

\* Points are removed one draw at a time against a pool that shrinks: whatever
\* the draws, no more is taken than the row says or the target has.
RemovalFitsPool ==
    asked.kind = "removal" =>
      remove_points(asked.rolls, asked.value, asked.caster, asked.target,
                    asked.current, MaxPool)
        <= Min({asked.value, asked.current})

\* A failed departure never costs more points than the runner has, and costs
\* one whenever a locker stood a chance: the loss is rounded up.
TackleCostsWithinPool ==
    asked.kind = "tackle" =>
      LET contest == tackle_contest(asked.runner, asked.lockers)
          loss == tackle_loss(asked.pool, contest)
      IN /\ loss <= asked.pool
         /\ loss = 0 <=> asked.pool = 0 \/ contest.numerator = contest.denominator

\* The winners share what the group earned: the awards of the members, each
\* computed on its own client from the same checkpoint, never add up to more.
AwardsFitGroup ==
    asked.kind = "award" =>
      LET share(i) == xp_award_of(asked.base, 0, asked.players[i], asked.players, asked.mobs)
          group == GroupXp(asked.base, SumOf(asked.players), SumOf(asked.mobs),
                           HighestOf(asked.mobs),
                           Cardinality({i \in DOMAIN asked.players :
                             asked.players[i] * 3 >= HighestOf(asked.players)}))
      IN SumOf([i \in DOMAIN asked.players |-> share(i)]) <= group

\* A mob asked for at a level gets that level back, or the nearest its range has,
\* through the percentage it is stored as: exactly, in a range of at most a hundred
\* levels, and never below it or a hundredth of the range above it; what is scaled
\* with the level never falls when the level rises.
LevelsRoundTrip ==
    asked.kind = "level" =>
      LET level == mob_level(asked.low, asked.high,
                             mob_scalar_for_level(asked.low, asked.high, asked.wanted))
          meant == Clamped(asked.wanted, asked.low, asked.high)
      IN /\ asked.high - asked.low <= 100 => level = meant
         /\ meant <= level
         /\ level # meant => 100 * (level - meant) < asked.high - asked.low
         /\ level < asked.high =>
              /\ mob_effect_value_scaled(asked.base, asked.low, asked.high, level)
                   <= mob_effect_value_scaled(asked.base, asked.low, asked.high, level + 1)
              /\ mob_pool_scaled(asked.base, asked.low, asked.high, level)
                   <= mob_pool_scaled(asked.base, asked.low, asked.high, level + 1)

\* The planner's route, the flood of reachable cells, the mobs' approach and the
\* cell they cast from are four implementations of one idea of a walk: they agree
\* with one another and with the validation of a move (movement.ts, combat_grid.ts).
WalksAgree == PathsAreMoves /\ ApproachReachesFlank /\ CastCellServes

\* What is drawn on the board means the same from both ends: areas and their
\* ranks, sight there and back, the directions of pushes and pulls.
ShapesAgree == AreaRanksAgree /\ SightIsMutual /\ PushLeavesPullNears

\* What is rolled, drained or lost in a tackle stays within what there is, however
\* the integer divisions of fight_math.ts round.
LossesFitPools == RollsFitRange /\ RemovalFitsPool /\ TackleCostsWithinPool

\* What a fight hands out stays within what it earned, and the level a mob was
\* asked for is the level it gets.
RewardsFit == AwardsFitGroup /\ LevelsRoundTrip

\* However its divisions round, no rule of arithmetic takes or gives too much.
DivisionsFit == LossesFitPools /\ RewardsFit
=============================================================================
