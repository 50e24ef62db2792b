----------------------------- MODULE CombatGrid -----------------------------
(***************************************************************************)
(* The board geometry of packages/fight/src/combat_grid.ts and the path    *)
(* helpers of movement.ts that are built on it: cells are numbered row by  *)
(* row, walls are a set of cells (the code's 64-bit mask words are that    *)
(* set), and a distance field gives every cell a number of steps, or the   *)
(* sentinel NumCells when the flood did not reach it.                      *)
(***************************************************************************)
EXTENDS Naturals, Integers, Sequences, FiniteSets, FiniteSetsExt, SequencesExt

CONSTANTS GridW,     \* columns of the board
          GridH      \* rows of the board

ASSUME GridAssumption == GridW \in Nat \ {0} /\ GridH \in Nat \ {0}

NumCells == GridW * GridH
Cells == 0 .. NumCells - 1
NoCell == -1          \* the code's null cell

Shapes == {"point", "line", "tbar", "podium", "cone",
           "circle", "cross", "ring", "allmap"}
Dirs == {"px", "nx", "py", "ny"}

CellX(c) == c % GridW
CellY(c) == c \div GridW
encode_cell(x, y) == y * GridW + x
AbsDiff(a, b) == IF a > b THEN a - b ELSE b - a

manhattan(a, b) == AbsDiff(CellX(a), CellX(b)) + AbsDiff(CellY(a), CellY(b))
same_line(a, b) == CellX(a) = CellX(b) \/ CellY(a) = CellY(b)
neighbours(c) == {d \in Cells : manhattan(c, d) = 1}

(***************************************************************************)
(* Paths and floods                                                        *)
(***************************************************************************)
path_is_walkable(start, path, walls, max_steps) ==
    /\ start \in Cells
    /\ Len(path) <= max_steps
    /\ \A i \in DOMAIN path :
         /\ path[i] \in Cells \ walls
         /\ manhattan(IF i = 1 THEN start ELSE path[i - 1], path[i]) = 1

\* The frontiers of a flood from `seeds`: the cells numbered 0, 1, 2, ...
Frontiers(seeds, walls, rounds) ==
    LET flood[n \in 0 .. rounds] ==
          IF n = 0 THEN <<seeds>>
          ELSE LET prev == flood[n - 1]
               IN IF Last(prev) = {} THEN prev
                  ELSE Append(prev, (UNION {neighbours(c) : c \in Last(prev)})
                                      \ (walls \cup UNION ToSet(prev)))
    IN flood[rounds]

Numbered(frontier) ==
    [c \in Cells |->
       IF \E i \in DOMAIN frontier : c \in frontier[i]
       THEN (CHOOSE i \in DOMAIN frontier : c \in frontier[i]) - 1
       ELSE NumCells]

FloodField(seeds, walls, rounds) == Numbered(Frontiers(seeds, walls, rounds))

bfs_distance_field(target, walls, max_steps) ==
    FloodField(IF target \in Cells \ walls THEN {target} ELSE {}, walls,
               Min({max_steps, NumCells}))

\* A mutant of approach_field: the flood starts from the target itself.
approach_field_Target(target, walls, until) ==
    bfs_distance_field(target, walls, NumCells)

UpTo(field, until) ==
    [c \in Cells |-> IF field[c] <= field[until] THEN field[c] ELSE NumCells]

\* Distances to the nearest open flank of `target`; the flood stops with the
\* round that numbers the cell `until`.
approach_field(target, walls, until) ==
    UpTo(FloodField(neighbours(target) \ walls, walls, NumCells), until)

\* The neighbour with the smallest value below the cell's own, the lowest
\* cell among equals; NoCell at a bottom of the field.
best_step(current, field) ==
    LET lower == {c \in neighbours(current) : field[c] < field[current]}
        least == {c \in lower : \A d \in lower : field[c] <= field[d]}
    IN IF lower = {} THEN NoCell ELSE Min(least)

\* Walk down a field from `start` for at most `budget` steps.
Descent(start, field, budget) ==
    LET walk[n \in 0 .. budget] ==
          IF n = 0 THEN <<>>
          ELSE LET sofar == walk[n - 1]
                   here == IF sofar = <<>> THEN start ELSE Last(sofar)
                   next == best_step(here, field)
               IN IF field[here] = 0 \/ next = NoCell
                  THEN sofar ELSE Append(sofar, next)
    IN walk[budget]

\* The exact route to a cell within the movement points; <<>> stands for null.
fight_path_to(cell, mp, target, walls) ==
    LET field == bfs_distance_field(target, walls, mp)
    IN IF mp = 0 \/ cell = target \/ field[cell] > mp THEN <<>>
       ELSE Descent(cell, field, mp)

\* As far as the points allow along the route to an open flank of the target.
fight_approach_path(cell, mp, target, walls) ==
    LET field == approach_field(target, walls, cell)
    IN IF mp = 0 \/ cell = target \/ field[cell] >= NumCells THEN <<>>
       ELSE Descent(cell, field, mp)

reachable_fight_cells(cell, mp, walls) ==
    LET field == bfs_distance_field(cell, walls, mp)
    IN {c \in Cells : field[c] > 0 /\ field[c] <= mp}

(***************************************************************************)
(* Sight and range                                                         *)
(***************************************************************************)
SameSide(o, b, t) == b = o \/ (b >= o) = (t >= o)

\* A mutant of blocks: the far slope is compared with the near bound.
blocks_OneSlope(origin, blocker, target) ==
    LET ax == AbsDiff(CellX(blocker), CellX(origin))
        ay == AbsDiff(CellY(blocker), CellY(origin))
        tx == AbsDiff(CellX(target), CellX(origin))
        ty == AbsDiff(CellY(target), CellY(origin))
    IN /\ blocker \notin {origin, target}
       /\ SameSide(CellX(origin), CellX(blocker), CellX(target))
       /\ SameSide(CellY(origin), CellY(blocker), CellY(target))
       /\ tx >= ax /\ ty >= ay /\ tx * (2 * ay + 1) > (2 * ax - 1) * ty

\* One body between two cells, by the two slopes of the code's integer test.
blocks(origin, blocker, target) ==
    LET ax == AbsDiff(CellX(blocker), CellX(origin))
        ay == AbsDiff(CellY(blocker), CellY(origin))
        tx == AbsDiff(CellX(target), CellX(origin))
        ty == AbsDiff(CellY(target), CellY(origin))
    IN /\ blocker # origin /\ blocker # target
       /\ SameSide(CellX(origin), CellX(blocker), CellX(target))
       /\ SameSide(CellY(origin), CellY(blocker), CellY(target))
       /\ tx >= ax /\ ty >= ay /\ ~(tx = ax /\ ty = ay)
       /\ \/ ax = 0 \/ ty = 0
          \/ tx * (2 * ay + 1) > (2 * ax - 1) * ty
       /\ IF ay = 0 THEN CellX(blocker) < CellX(origin) \/ tx > ax
          ELSE ty # 0 /\ tx * (2 * ay - 1) < (2 * ax + 1) * ty

line_of_sight(from, to, obstacles) ==
    \A b \in obstacles : ~blocks(from, b, to)

\* `level` carries rmin, rmax, sight and straight (line launch).
cell_can_cast(from, to, level, obstacles) ==
    /\ manhattan(from, to) >= level.rmin
    /\ manhattan(from, to) <= level.rmax
    /\ level.straight => same_line(from, to)
    /\ level.sight => line_of_sight(from, to, obstacles)

\* The cheapest of some cells.
Least(cells, cost) == {c \in cells : \A d \in cells : cost[c] <= cost[d]}

CastCells(field, target, level, obstacles) ==
    Least({c \in Cells : field[c] < NumCells /\ cell_can_cast(c, target, level, obstacles)},
          field)

LeastNear(cells, target) ==
    IF cells = {} THEN NoCell
    ELSE Min(Least(cells, [c \in cells |-> manhattan(c, target)]))

\* The nearest cell (in steps) from which the spell reaches the target; among
\* those the closest to the target, then the lowest; NoCell for none.
bfs_cast_cell(start, target, walls, budget, level, obstacles) ==
    LeastNear(CastCells(FloodField({start}, walls, Min({budget, NumCells})),
                        target, level, obstacles), target)

\* The direction from a pivot to a subject; "none" when they coincide.
away_dir(pivot, subject) ==
    LET dx == AbsDiff(CellX(subject), CellX(pivot))
        dy == AbsDiff(CellY(subject), CellY(pivot))
    IN CASE dx = 0 /\ dy = 0 -> "none"
         [] dx >= dy /\ dx > 0 ->
              IF CellX(subject) >= CellX(pivot) THEN "px" ELSE "nx"
         [] OTHER -> IF CellY(subject) >= CellY(pivot) THEN "py" ELSE "ny"

opposite_dir(d) ==
    CASE d = "px" -> "nx" [] d = "nx" -> "px"
      [] d = "py" -> "ny" [] d = "ny" -> "py" [] OTHER -> "none"

toward_dir(pivot, subject) == opposite_dir(away_dir(pivot, subject))

step_cell(c, d) ==
    CASE d = "px" /\ CellX(c) + 1 < GridW -> c + 1
      [] d = "nx" /\ CellX(c) >= 1 -> c - 1
      [] d = "py" /\ CellY(c) + 1 < GridH -> c + GridW
      [] d = "ny" /\ CellY(c) >= 1 -> c - GridW
      [] OTHER -> NoCell

in_zone(shape, size, anchor, c) ==
    CASE shape = "point" -> c = anchor
      [] shape = "allmap" -> TRUE
      [] shape = "ring" -> manhattan(anchor, c) = size
      [] shape = "cross" -> manhattan(anchor, c) <= size /\ same_line(c, anchor)
      [] OTHER -> manhattan(anchor, c) <= size

\* The cells met walking from a cell, one per step, until the board ends.
walk_direction(c, d, count) ==
    LET walk[n \in 0 .. count] ==
          IF n = 0 THEN <<>>
          ELSE LET sofar == walk[n - 1]
                   next == step_cell(IF sofar = <<>> THEN c ELSE Last(sofar), d)
               IN IF next = NoCell THEN sofar ELSE Append(sofar, next)
    IN walk[count]

\* A cell's distance along a direction (at least one step, at most size).
walk_rank(origin, d, size, c) ==
    LET dx == CellX(c) - CellX(origin)
        dy == CellY(c) - CellY(origin)
        along == CASE d = "px" -> dx [] d = "nx" -> -dx
                   [] d = "py" -> dy [] d = "ny" -> -dy [] OTHER -> 0
        off == IF d \in {"px", "nx"} THEN dy ELSE dx
    IN IF d \in Dirs /\ off = 0 /\ along >= 1 /\ along <= size
       THEN along ELSE NoCell

walk_capacity(origin, d, size) ==
    Min({size, CASE d = "px" -> GridW - 1 - CellX(origin)
                 [] d = "nx" -> CellX(origin)
                 [] d = "py" -> GridH - 1 - CellY(origin)
                 [] d = "ny" -> CellY(origin) [] OTHER -> 0})

perpendicular_directions(d) ==
    IF d \in {"px", "nx", "none"} THEN <<"py", "ny">> ELSE <<"px", "nx">>

First(rank, other) == IF rank # NoCell THEN rank ELSE other

line_rank(anchor, caster, size, c) ==
    IF c = anchor THEN 0 ELSE walk_rank(anchor, away_dir(caster, anchor), size, c)

ArmRank(first, second, before) ==
    IF first # NoCell THEN first ELSE IF second = NoCell THEN NoCell ELSE before + second

AcrossRank(anchor, perp, size, c) ==
    ArmRank(walk_rank(anchor, perp[1], size, c), walk_rank(anchor, perp[2], size, c),
            walk_capacity(anchor, perp[1], size))

tbar_rank(anchor, caster, size, c) ==
    IF c = anchor THEN 0
    ELSE AcrossRank(anchor, perpendicular_directions(away_dir(caster, anchor)), size, c)

tbar_length(anchor, d, size) ==
    LET perp == perpendicular_directions(d)
    IN 1 + walk_capacity(anchor, perp[1], size) + walk_capacity(anchor, perp[2], size)

CapRank(anchor, d, size, c) ==
    IF step_cell(anchor, d) = c THEN tbar_length(anchor, d, size) ELSE NoCell

podium_rank(anchor, caster, size, c) ==
    First(tbar_rank(anchor, caster, size, c),
          CapRank(anchor, away_dir(caster, anchor), size, c))

cone_depth_start(depth, width) == IF depth = 1 THEN 0 ELSE 1 + (depth - 2) * width

SideDepth(caster, d, size, centre) ==
    IF centre = NoCell THEN NoCell ELSE walk_rank(caster, d, size, centre)

SideRank(depth, width, offset) ==
    IF depth >= 2 THEN cone_depth_start(depth, width) + offset ELSE NoCell

cone_side_rank(caster, d, perp, size, c, width, offset) ==
    SideRank(SideDepth(caster, d, size, step_cell(c, opposite_dir(perp))), width, offset)

OneIf(cell) == IF cell # NoCell THEN 1 ELSE 0

\* The rank of a cell in a cone: on its spine, or on one of its two sides.
ConeRank(caster, d, perp, size, c, centre, one, two) ==
    CASE centre # NoCell -> cone_depth_start(centre, 1 + one + two)
      [] centre = NoCell /\ size < 2 -> NoCell
      [] OTHER -> First(cone_side_rank(caster, d, perp[1], size, c, 1 + one + two, 1),
                        cone_side_rank(caster, d, perp[2], size, c, 1 + one + two, 1 + one))

ConeFrom(caster, d, perp, size, c, first) ==
    IF first = NoCell THEN NoCell
    ELSE ConeRank(caster, d, perp, size, c, walk_rank(caster, d, size, c),
                  OneIf(step_cell(first, perp[1])), OneIf(step_cell(first, perp[2])))

ConeToward(caster, d, size, c) ==
    ConeFrom(caster, d, perpendicular_directions(d), size, c, step_cell(caster, d))

cone_rank(anchor, caster, size, c) == ConeToward(caster, away_dir(caster, anchor), size, c)

\* The position of a cell inside a cast area, NoCell outside it.
zone_rank(shape, size, anchor, caster, c) ==
    CASE shape = "point" -> IF c = anchor THEN 0 ELSE NoCell
      [] shape = "line" -> line_rank(anchor, caster, size, c)
      [] shape = "tbar" -> tbar_rank(anchor, caster, size, c)
      [] shape = "podium" -> podium_rank(anchor, caster, size, c)
      [] shape = "cone" -> cone_rank(anchor, caster, size, c)
      [] OTHER -> IF in_zone(shape, size, anchor, c) THEN c ELSE NoCell

tbar_cells(anchor, caster, size) ==
    LET perp == perpendicular_directions(away_dir(caster, anchor))
    IN <<anchor>> \o walk_direction(anchor, perp[1], size)
                  \o walk_direction(anchor, perp[2], size)

OnBoard(c) == IF c = NoCell THEN <<>> ELSE <<c>>

cone_cells(anchor, caster, size) ==
    LET d == away_dir(caster, anchor)
        perp == perpendicular_directions(d)
        spine == walk_direction(caster, d, size)
        row(c) == <<c>> \o OnBoard(step_cell(c, perp[1])) \o OnBoard(step_cell(c, perp[2]))
        cells[n \in 0 .. Len(spine)] ==
          IF n = 0 THEN <<>>
          ELSE cells[n - 1] \o IF n = 1 THEN <<spine[n]>> ELSE row(spine[n])
    IN cells[Len(spine)]

\* Some cells in the order of their numbers.
InOrder(area) ==
    LET list[n \in 0 .. NumCells] ==
          IF n = 0 THEN <<>>
          ELSE list[n - 1] \o OnBoard(IF n - 1 \in area THEN n - 1 ELSE NoCell)
    IN list[NumCells]

\* The same area as a list, in the order its cells are visited.
zone_cells(shape, size, anchor, caster) ==
    LET d == away_dir(caster, anchor)
        forward == step_cell(anchor, d)
    IN CASE shape = "point" -> <<anchor>>
         [] shape = "line" -> <<anchor>> \o walk_direction(anchor, d, size)
         [] shape = "tbar" -> tbar_cells(anchor, caster, size)
         [] shape = "podium" -> tbar_cells(anchor, caster, size) \o
                                OnBoard(forward)
         [] shape = "cone" -> cone_cells(anchor, caster, size)
         [] OTHER -> InOrder({c \in Cells : in_zone(shape, size, anchor, c)})
=============================================================================
