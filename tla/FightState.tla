------------------------------ MODULE FightState -----------------------------
(***************************************************************************)
(* The fight contract of packages/fight and its single-branch accessors    *)
(* (fighters.ts, zone_lifecycle.ts, effect_targets.ts, and the cell        *)
(* queries of movement.ts and effects.ts). A contract is a record; every   *)
(* operator takes one and returns a value or the next contract.            *)
(*                                                                         *)
(* Seats count from 1. An arena is the part of a checkpoint that a command *)
(* never changes: the board's walls and start cells, the mobs' snapshots,  *)
(* the spell sources, and which spells each character has.                 *)
(*                                                                         *)
(* Every sheet is neutral: no characteristic, no elemental resistance, so  *)
(* full_damage is its base (FightMath has the arithmetic), elements are    *)
(* one, and the stats that rows may change are hp, ap, mp, range and power. *)
(***************************************************************************)
EXTENDS CombatGrid, FightMath

CONSTANTS Arenas,       \* the checkpoints' fixed parts, a set of records
          Seeds         \* how the draws of a turn fall, a set of records

NoOne == 0              \* the code's null seat, and NO_TARGET of a cast

\* What the generator decides in a turn: a critical, a chance row, a contest of
\* points, and the departure from a tackle.
SeedAssumption == Seeds \subseteq [crit : BOOLEAN, chance : BOOLEAN,
                                   contest : BOOLEAN, escape : BOOLEAN]
ASSUME SeedAssumption

BaseAp == 6
BaseMp == 3
PlayerMaxHp == 12
PlayerLevel == 1

Arena(c) == c.arena
Seats(c) == DOMAIN c.fighters
SpellOf(c, name) == Arena(c).spells[name]
StartCells(c, team) == IF team = 0 THEN Arena(c).starts_a ELSE Arena(c).starts_b

is_mob(f) == f.mob # NoOne
is_player(f) == f.mob = NoOne
Snapshot(c, seat) == Arena(c).mobs[c.fighters[seat].mob]

max_hp_of(c, seat) ==
    IF is_mob(c.fighters[seat]) THEN Snapshot(c, seat).max_hp ELSE PlayerMaxHp
base_ap_of(c, seat) ==
    IF is_mob(c.fighters[seat]) THEN Snapshot(c, seat).ap ELSE BaseAp
base_mp_of(c, seat) ==
    IF is_mob(c.fighters[seat]) THEN Snapshot(c, seat).mp ELSE BaseMp

living_count(fighters, team) ==
    Cardinality({s \in DOMAIN fighters : fighters[s].team = team /\ ~fighters[s].dead})

\* Would every living player be ready? Mobs never hold placement open.
players_ready_after(fighters) ==
    \A s \in DOMAIN fighters :
      is_mob(fighters[s]) \/ fighters[s].dead \/ fighters[s].ready

(***************************************************************************)
(* Cells                                                                   *)
(***************************************************************************)
living_cells(c, exclude) ==
    {c.fighters[s].cell : s \in {t \in Seats(c) : t # exclude /\ ~c.fighters[t].dead}}

fighter_at(c, cell) ==
    LET here == {s \in Seats(c) : ~c.fighters[s].dead /\ c.fighters[s].cell = cell}
    IN IF here = {} THEN NoOne ELSE Min(here)

wall_mask(c, seat) == Arena(c).closed \cup living_cells(c, seat)

legal_cell(c, cell) == cell \in Cells \ Arena(c).closed

(***************************************************************************)
(* Effect rows of a fighter: kind, stat, value, turns left and their source *)
(***************************************************************************)
Rows(c, seat) == c.fighters[seat].effects

has_row(c, seat, kind) == \E i \in DOMAIN Rows(c, seat) : Rows(c, seat)[i].kind = kind

\* A row that has run out still counts, except for the two pools.
sum_rows(c, seat, kind, stat) ==
    SumOf([i \in DOMAIN Rows(c, seat) |->
             LET row == Rows(c, seat)[i]
             IN IF /\ row.kind = kind
                   /\ stat = "any" \/ row.stat = stat
                   /\ row.turns > 0 \/ stat \notin {"ap", "mp"}
                THEN row.value ELSE 0])

row_adjusted(c, seat, base, stat) ==
    saturating_subtract(base + sum_rows(c, seat, "add", stat),
                        sum_rows(c, seat, "remove", stat)
                          + sum_rows(c, seat, "steal", stat)
                          + sum_rows(c, seat, "fixed_remove", stat))

action_points_of(c, seat) == row_adjusted(c, seat, base_ap_of(c, seat), "ap")
movement_points_of(c, seat) == row_adjusted(c, seat, base_mp_of(c, seat), "mp")

\* The reach of a modifiable spell: what removes range eats the authored reach.
modifiable_range_max(c, seat, authored) ==
    saturating_subtract(authored + sum_rows(c, seat, "add", "range"),
                        sum_rows(c, seat, "remove", "range")
                          + sum_rows(c, seat, "steal", "range"))

sight_blockers(c, looker, target_cell) ==
    Arena(c).obstacles \cup
    {c.fighters[s].cell : s \in {t \in Seats(c) :
       /\ t # looker /\ ~c.fighters[t].dead
       /\ ~has_row(c, t, "invis") /\ c.fighters[t].cell # target_cell}}

\* The fighter a caster can single out on a cell: an invisible enemy is nobody.
visible_occupant(c, caster, cell) ==
    LET s == fighter_at(c, cell)
    IN IF s # NoOne /\ has_row(c, s, "invis")
          /\ c.fighters[s].team # c.fighters[caster].team
       THEN NoOne ELSE s

target_allowed(c, caster, row, target) ==
    LET mine == c.fighters[target].team = c.fighters[caster].team
    IN CASE row.filter = "not_team" -> ~mine
         [] row.filter = "not_self" -> target # caster
         [] row.filter = "not_enemy" -> mine
         [] row.filter = "only_caster" -> target = caster
         [] OTHER -> TRUE

ranked_targets(c, caster, row, rank) ==
    SetToSortSeq({s \in Seats(c) : /\ ~c.fighters[s].dead /\ rank[s] # NoCell
                                   /\ target_allowed(c, caster, row, s)},
                 LAMBDA a, b : rank[a] < rank[b] \/ (rank[a] = rank[b] /\ a < b))

\* The living fighters an area reaches, in the order of the area and of seats;
\* a dead caster reaches nobody.
zone_targets(c, caster, row, anchor, origin) ==
    CASE c.fighters[caster].dead -> <<>>
      [] ~c.fighters[caster].dead /\ row.filter = "only_caster" -> <<caster>>
      [] OTHER -> ranked_targets(c, caster, row, [s \in Seats(c) |->
                    zone_rank(row.shape, row.size, anchor, origin, c.fighters[s].cell)])

(***************************************************************************)
(* Pools                                                                   *)
(***************************************************************************)
set_pools(c, seat, ap, mp) ==
    [c EXCEPT !.fighters[seat].ap = ap, !.fighters[seat].mp = mp]

spend(c, seat, stat, amount) ==
    IF stat = "ap"
    THEN [c EXCEPT !.fighters[seat].ap = saturating_subtract(@, amount)]
    ELSE [c EXCEPT !.fighters[seat].mp = saturating_subtract(@, amount)]

grant(c, seat, stat, amount) ==
    IF stat = "ap" THEN [c EXCEPT !.fighters[seat].ap = @ + amount]
                   ELSE [c EXCEPT !.fighters[seat].mp = @ + amount]

drop_owned_zones(c, owner) ==
    [c EXCEPT !.zones = SelectSeq(@, LAMBDA z : z.owner # owner)]

WinnerOf(fighters) ==
    IF living_count(fighters, 0) > 0 THEN 0
    ELSE IF living_count(fighters, 1) > 0 THEN 1 ELSE NoCell

Decided(d, team) ==
    IF d.ended \/ living_count(d.fighters, team) > 0 THEN d
    ELSE [d EXCEPT !.ended = TRUE, !.winner = WinnerOf(d.fighters)]

Buried(d, seat) ==
    [d EXCEPT !.fighters[seat].dead = TRUE, !.fighters[seat].hp = 0]

\* The one way to die. The side that loses its last living fighter ends the
\* fight; the winner is the side that still has one, or nobody.
kill_fighter(c, seat) ==
    Decided(Buried(IF c.fighters[seat].dead THEN c ELSE drop_owned_zones(c, seat), seat),
            c.fighters[seat].team)

ChatimentTurns == 5

Halved(c, source, n) == IF is_player(c.fighters[source]) THEN n \div 2 ELSE n

StandingRows(rows, owner, stat) ==
    {i \in DOMAIN rows : rows[i].kind = "add" /\ rows[i].stat = stat
                           /\ rows[i].source = owner /\ rows[i].turns = ChatimentTurns}

Accrued(rows, standing) == IF standing = {} THEN 0 ELSE rows[Min(standing)].value

Gained(c, target, owner, stat, standing, gained) ==
    CASE gained = 0 -> c
      [] gained > 0 /\ standing # {} ->
           [c EXCEPT !.fighters[target].effects[Min(standing)].value = @ + gained]
      [] OTHER ->
           [c EXCEPT !.fighters[target].effects =
              Append(@, [kind |-> "add", stat |-> stat, value |-> gained,
                         turns |-> ChatimentTurns, source |-> owner])]

GainUnder(c, target, landed, cap, owner, stat, standing) ==
    Gained(c, target, owner, stat, standing,
           Min({landed, saturating_subtract(cap, Accrued(Rows(c, target), standing))}))

\* The stances of a struck fighter turn what landed into standing rows of the
\* turn: half of it from a player, capped by what the stances of a stat add up
\* to, once per owner of the turn.
chatiment_gain(c, target, landed, source, stat) ==
    GainUnder(c, target, Halved(c, source, landed),
              Halved(c, source, sum_rows(c, target, "chatiment", stat)),
              c.queue[c.turn_ptr], stat,
              StandingRows(Rows(c, target), c.queue[c.turn_ptr], stat))

Wound(c, target, landed, source) ==
    IF landed = c.fighters[target].hp THEN kill_fighter(c, target)
    ELSE chatiment_gain([c EXCEPT !.fighters[target].hp = @ - landed],
                        target, landed, source, "power")

hit(c, target, amount, source) ==
    IF c.fighters[target].dead \/ c.ended \/ amount = 0 THEN c
    ELSE Wound(c, target, Min({amount, c.fighters[target].hp}), source)

\* A mutant of heal_seat: life is not capped.
heal_seat_Overfull(c, target, amount) ==
    IF c.fighters[target].dead THEN c ELSE [c EXCEPT !.fighters[target].hp = @ + amount]

heal_seat(c, target, amount) ==
    IF c.fighters[target].dead THEN c
    ELSE [c EXCEPT !.fighters[target].hp = Min({@ + amount, max_hp_of(c, target)})]
=============================================================================
