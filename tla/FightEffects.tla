----------------------------- MODULE FightEffects ----------------------------
(***************************************************************************)
(* What a spell does to a contract: effects.ts, damage.ts, the moving half *)
(* of movement.ts, and the zones of zones.ts. A step into a trap resolves  *)
(* rows, rows displace bodies, and a displaced body may step into a trap:  *)
(* the operators are recursive as the code is. The recursion ends because  *)
(* a trap leaves the board before its payload is resolved.                 *)
(***************************************************************************)
EXTENDS FightState

RECURSIVE resolve_rows(_, _, _, _, _, _), on_enter(_, _), displaced(_, _, _, _, _, _)

(***************************************************************************)
(* Damage                                                                  *)
(***************************************************************************)
\* Shields are not spent: every row subtracts from every blow.
reduce_damage(c, target, damage) ==
    IF c.ended \/ c.fighters[target].dead THEN 0
    ELSE saturating_subtract(damage, sum_rows(c, target, "reduce", "any"))

returns_at(c, target, cast_level) ==
    /\ cast_level \in 1 .. 5
    /\ \E i \in DOMAIN Rows(c, target) :
         Rows(c, target)[i].kind = "return" /\ Rows(c, target)[i].value >= cast_level

redirect_source(c, target) ==
    LET rows == Rows(c, target)
        live == {i \in DOMAIN rows : rows[i].kind = "redirect"
                                       /\ ~c.fighters[rows[i].source].dead}
    IN IF live = {} THEN NoOne ELSE rows[Min(live)].source

\* Who a blow at the target lands on.
struck_seat(c, caster, target, cast_level) ==
    IF redirect_source(c, target) # NoOne THEN redirect_source(c, target)
    ELSE IF caster # target /\ returns_at(c, target, cast_level) THEN caster ELSE target

\* What is reflected is the target's own: not of a blow that was turned away.
Reflected(d, caster, target, final) ==
    IF final = target /\ caster # target /\ ~d.ended
    THEN hit(d, caster, sum_rows(d, target, "reflect", "any"), target) ELSE d

Struck(c, caster, target, damage, final) ==
    IF damage = 0 THEN c ELSE Reflected(hit(c, final, damage, caster), caster, target, final)

deal(c, caster, target, base, cast_level) ==
    Struck(c, caster, target, reduce_damage(c, target, base),
           struck_seat(c, caster, target, cast_level))

\* The drink is half of what the target itself lost.
Drunk(d, caster, target, before) ==
    heal_seat(d, caster, (before - d.fighters[target].hp) \div 2)

life_steal(c, caster, target, base, cast_level) ==
    Drunk(deal(c, caster, target, base, cast_level), caster, target, c.fighters[target].hp)

(***************************************************************************)
(* Rows that last                                                          *)
(***************************************************************************)
push_row(c, target, row, source, value) ==
    [c EXCEPT !.fighters[target].effects =
       Append(@, [kind |-> row.kind, stat |-> row.stat, value |-> value,
                  turns |-> Max({1, row.turns}), source |-> source])]

drop_invisibility(c, seat) ==
    [c EXCEPT !.fighters[seat].effects = SelectSeq(@, LAMBDA r : r.kind # "invis")]

\* The points a contested row takes: the turn's draw decides all or none.
contest_points(c, target, row) ==
    LET held == IF c.queue[c.turn_ptr] = target
                THEN IF row.stat = "ap" THEN c.fighters[target].ap ELSE c.fighters[target].mp
                ELSE IF row.stat = "ap" THEN action_points_of(c, target)
                     ELSE movement_points_of(c, target)
    IN IF c.turn_seed.contest THEN Min({row.value, held}) ELSE 0

\* A fighter whose turn it is loses or gains at once; any other keeps a row for
\* its next turn. Stolen points go to the caster at once.
PointsNow(s, row, target, active, amount) ==
    CASE ~active -> s
      [] active /\ row.kind = "add" -> grant(s, target, row.stat, amount)
      [] OTHER -> spend(s, target, row.stat, amount)

PointsKept(s, caster, row, target, active, amount) ==
    IF row.turns > 0 \/ (~active /\ row.kind # "add")
    THEN push_row(s, target, row, caster, amount) ELSE s

PointsTaken(s, caster, row, amount) ==
    IF row.kind = "steal" THEN grant(s, caster, row.stat, amount) ELSE s

PointsMoved(c, caster, row, target, active, amount) ==
    IF amount = 0 /\ row.kind \in {"remove", "steal"} THEN c
    ELSE PointsTaken(PointsKept(PointsNow(c, row, target, active, amount),
                                caster, row, target, active, amount),
                     caster, row, amount)

apply_point_row(c, caster, row, target) ==
    PointsMoved(c, caster, row, target, c.queue[c.turn_ptr] = target,
                IF row.kind \in {"add", "fixed_remove"} THEN row.value
                ELSE contest_points(c, target, row))

apply_number_row(c, caster, row, target, cast_level) ==
    LET kept == push_row(c, target, row, caster, row.value)
        now == row.turns = 0
    IN CASE row.stat = "hp" /\ row.kind = "add" /\ now -> heal_seat(c, target, row.value)
         [] row.stat = "hp" /\ row.kind = "steal" /\ now ->
              life_steal(c, caster, target, row.value, cast_level)
         [] row.stat \in {"ap", "mp"} -> apply_point_row(c, caster, row, target)
         [] row.stat \notin {"hp", "ap", "mp"} /\ row.kind = "steal" ->
              push_row(kept, caster, [row EXCEPT !.kind = "add"], caster, row.value)
         [] OTHER -> kept

(***************************************************************************)
(* Moving bodies                                                           *)
(***************************************************************************)
body_at(c, seat, cell) == [c EXCEPT !.fighters[seat].cell = cell]

\* One push or pull, cell by cell: a trap sprung on the way stops it, a wall or
\* a body blocks it. Gives the contract, the cells left and whether it is blocked.
Carried(entered, target, direction, remaining, push, origin) ==
    IF entered.fired \/ entered.c.fighters[target].dead
    THEN [c |-> entered.c, remaining |-> remaining, blocked |-> FALSE]
    ELSE displaced(entered.c, target, direction, remaining, push, origin)

displaced(c, target, direction, remaining, push, origin) ==
    LET here == c.fighters[target].cell
        next == step_cell(here, direction)
        stops == [c |-> c, remaining |-> remaining, blocked |-> FALSE]
    IN CASE remaining = 0 \/ (~push /\ manhattan(here, origin) <= 1) -> stops
         [] /\ remaining > 0 /\ (push \/ manhattan(here, origin) > 1)
            /\ (~legal_cell(c, next) \/ fighter_at(c, next) # NoOne) ->
              [stops EXCEPT !.blocked = here # origin]
         [] OTHER -> Carried(on_enter(body_at(c, target, next), target),
                             target, direction, remaining - 1, push, origin)

\* A body pushed against something is hurt for the cells it had left.
Collided(way, caster, target, push) ==
    IF push /\ way.blocked /\ way.remaining > 0
    THEN hit(way.c, target, push_collision_damage(PlayerLevel, way.remaining, 0), caster)
    ELSE way.c

displace(c, caster, target, cells, push, origin) ==
    Collided(displaced(c, target,
               IF push THEN away_dir(origin, c.fighters[target].cell)
               ELSE toward_dir(origin, c.fighters[target].cell),
               cells, push, origin),
             caster, target, push)

\* A mutant of swap: the other body is left where it was.
swap_Half(c, caster, other) ==
    on_enter(body_at(c, caster, c.fighters[other].cell), caster).c

\* Two bodies change places; each then enters the cell it came to.
swap(c, caster, other) ==
    FoldLeft(LAMBDA s, seat : on_enter(s, seat).c,
             body_at(body_at(c, caster, c.fighters[other].cell),
                     other, c.fighters[caster].cell),
             <<caster, other>>)

(***************************************************************************)
(* Rows                                                                    *)
(***************************************************************************)
apply_to(c, caster, row, target, origin, cast_level) ==
    CASE row.kind \in {"damage", "punishment"} ->
           deal(c, caster, target,
                IF row.kind = "damage" THEN row.value
                ELSE punishment_base(row.value, c.fighters[caster].hp, max_hp_of(c, caster)),
                cast_level)
      [] row.kind = "pct_life" ->
           hit(c, target, (max_hp_of(c, target) * row.value) \div 100, caster)
      [] row.kind = "caster_damage" -> hit(c, caster, row.value, caster)
      [] row.kind \in {"add", "remove", "steal", "fixed_remove"} ->
           apply_number_row(c, caster, row, target, cast_level)
      [] row.kind \in {"push", "pull"} ->
           displace(c, caster, target, row.value, row.kind = "push", origin)
      [] row.kind = "return" -> push_row(c, target, row, caster, cast_level)
      [] row.kind = "dispel" -> [c EXCEPT !.fighters[target].effects = <<>>]
      [] OTHER -> push_row(c, target, row, caster, row.value)

\* Those farthest from the pivot are pushed first, the nearest pulled first.
travel_order(c, targets, pivot, push) ==
    LET far(s) == manhattan(c.fighters[s].cell, pivot)
    IN SortSeq(targets, LAMBDA a, b :
         IF far(a) = far(b) THEN a < b
         ELSE IF push THEN far(a) > far(b) ELSE far(a) < far(b))

InTravelOrder(c, row, targets, origin) ==
    IF row.kind \in {"push", "pull"}
    THEN travel_order(c, targets, origin, row.kind = "push") ELSE targets

teleport(c, caster, anchor) ==
    IF fighter_at(c, anchor) = NoOne /\ legal_cell(c, anchor)
    THEN on_enter(body_at(c, caster, anchor), caster).c ELSE c

swap_with(c, caster, row, other) ==
    IF other \notin {NoOne, caster} /\ target_allowed(c, caster, row, other)
    THEN swap(c, caster, other) ELSE c

apply_row(c, caster, row, anchor, origin, cast_level) ==
    CASE row.kind = "teleport" -> teleport(c, caster, anchor)
      [] row.kind = "swap" ->
           swap_with(c, caster, row, visible_occupant(c, caster, anchor))
      [] OTHER ->
           FoldLeft(LAMBDA s, t : IF s.ended THEN s
                                  ELSE apply_to(s, caster, row, t, origin, cast_level),
                    c, InTravelOrder(c, row, zone_targets(c, caster, row, anchor, origin), origin))

\* Nothing is resolved once the fight is over. A row is sure or left to chance.
resolve_rows(c, caster, rows, anchor, origin, cast_level) ==
    FoldLeft(LAMBDA s, row :
               IF s.ended \/ ~(row.sure \/ s.turn_seed.chance) THEN s
               ELSE apply_row(s, caster, row, anchor, origin, cast_level),
             c, rows)

(***************************************************************************)
(* Zones                                                                   *)
(***************************************************************************)
Displacements == {"push", "pull", "teleport", "swap"}

displaces(rows) == \E i \in DOMAIN rows : rows[i].kind \in Displacements

\* The zone is its payload's area; bodies move after numbers have landed.
trap_rows(zone) ==
    LET rows == [i \in DOMAIN zone.effects |->
                   [zone.effects[i] EXCEPT !.shape = zone.shape, !.size = zone.size]]
    IN SelectSeq(rows, LAMBDA r : r.kind \notin Displacements)
       \o SelectSeq(rows, LAMBDA r : r.kind \in Displacements)

covers(zone, cell) == in_zone(zone.shape, zone.size, zone.anchor, cell)

\* Stepping into traps removes them all, then springs them one after another,
\* those that displace last.
GentleFirst(traps) == SelectSeq(traps, LAMBDA z : ~displaces(z.effects))
                      \o SelectSeq(traps, LAMBDA z : displaces(z.effects))

Sprung(c, cell, touched) ==
    [c |-> FoldLeft(LAMBDA s, z : IF s.ended THEN s
                       ELSE resolve_rows(s, z.owner, trap_rows(z), z.anchor, z.anchor, 0),
                    [c EXCEPT !.zones = SelectSeq(@, LAMBDA z : ~(z.trap /\ covers(z, cell)))],
                    GentleFirst(touched)),
     fired |-> touched # <<>>]

on_enter(c, seat) ==
    IF c.fighters[seat].dead THEN [c |-> c, fired |-> FALSE]
    ELSE Sprung(c, c.fighters[seat].cell,
                SelectSeq(c.zones, LAMBDA z : z.trap /\ covers(z, c.fighters[seat].cell)))

\* The glyphs under a fighter as its turn opens, all from the cell it stood on.
fire_glyphs_under(c, seat) ==
    LET cell == c.fighters[seat].cell
        under == SelectSeq(c.zones, LAMBDA z : ~z.trap /\ covers(z, cell))
    IN IF c.fighters[seat].dead THEN c
       ELSE FoldLeft(LAMBDA s, z : IF s.ended THEN s
                       ELSE resolve_rows(s, z.owner, z.effects, cell, cell, 0),
                     c, under)

\* Glyphs count the turns of their owner; a zone without a count stays.
tick_board_zones(c, owner) ==
    LET mine(z) == z.owner = owner /\ z.turns > 0
        kept == SelectSeq(c.zones, LAMBDA z : ~(mine(z) /\ z.turns = 1))
    IN [c EXCEPT !.zones = [i \in DOMAIN kept |->
          IF mine(kept[i]) THEN [kept[i] EXCEPT !.turns = @ - 1] ELSE kept[i]]]

(***************************************************************************)
(* Casting                                                                 *)
(***************************************************************************)
casts_of(c, name) ==
    Len(SelectSeq(c.turn_casts, LAMBDA r : r.spell = name))
casts_on(c, name, target) ==
    Len(SelectSeq(c.turn_casts, LAMBDA r : r.spell = name /\ r.target = target))

is_placement(row) == row.kind \in {"trap", "glyph"}
placements(rows) == SelectSeq(rows, is_placement)
payload(rows) == SelectSeq(rows, LAMBDA r : ~is_placement(r))

\* One zone a cast, one anchor a zone, and no trap under a body.
placement_anchor_available(c, rows, cell) ==
    /\ Len(rows) = 1
    /\ \A i \in DOMAIN c.zones : c.zones[i].anchor # cell
    /\ rows[1].kind = "trap" => fighter_at(c, cell) = NoOne

placement_rows_castable(c, rows, cell) ==
    placements(rows) = <<>> \/ placement_anchor_available(c, placements(rows), cell)

has_direct_damage(rows) ==
    \E i \in DOMAIN rows :
      \/ rows[i].kind \in {"damage", "pct_life", "punishment"}
      \/ rows[i].kind = "steal" /\ rows[i].stat = "hp" /\ rows[i].turns = 0

\* The rows of this cast: the critical ones when the turn's draw says so.
spell_turn_rows(c, level) ==
    IF level.crit_effects # <<>> /\ c.turn_seed.crit THEN level.crit_effects ELSE level.effects

\* A mutant of cast_legality: the caps of a turn are not looked at.
cast_legality_Uncapped(c, caster, name, cell) ==
    LET level == SpellOf(c, name)
        far == manhattan(c.fighters[caster].cell, cell)
    IN IF /\ c.fighters[caster].ap >= level.ap /\ legal_cell(c, cell)
          /\ far >= level.rmin /\ far <= level.rmax
          /\ placement_rows_castable(c, spell_turn_rows(c, level), cell)
       THEN "" ELSE "out_of_range"

\* The refusals of a cast, in the order the code tries them; "" for none.
cast_legality(c, caster, name, cell) ==
    LET level == SpellOf(c, name)
        f == c.fighters[caster]
        far == manhattan(f.cell, cell)
        reach == IF level.modifiable THEN modifiable_range_max(c, caster, level.rmax)
                 ELSE level.rmax
        occupant == fighter_at(c, cell)
        zones == placements(spell_turn_rows(c, level))
    IN CASE f.ap < level.ap -> "no_ap"
         [] ~legal_cell(c, cell) -> "bad_target_cell"
         [] far < level.rmin \/ far > reach -> "out_of_range"
         [] level.straight /\ ~same_line(f.cell, cell) -> "not_in_line"
         [] level.sight /\ ~line_of_sight(f.cell, cell, sight_blockers(c, caster, cell)) ->
              "no_line_of_sight"
         [] level.per_turn > 0 /\ casts_of(c, name) >= level.per_turn -> "cast_cap"
         [] /\ level.per_target > 0 /\ occupant # NoOne
            /\ casts_on(c, name, occupant) >= level.per_target -> "target_cap"
         [] level.cooldown > 0 /\ f.cooldowns[name] > 0 -> "cooldown"
         [] zones # <<>> /\ ~placement_anchor_available(c, zones, cell) -> "bad_target_cell"
         [] OTHER -> ""

Booked(c, caster, name, cell) ==
    LET level == SpellOf(c, name)
    IN [c EXCEPT !.fighters[caster].ap = saturating_subtract(@, level.ap),
                 !.turn_slot = @ + 1,
                 !.turn_casts = Append(@, [spell |-> name, target |-> fighter_at(c, cell)]),
                 !.fighters[caster].cooldowns[name] =
                    IF level.cooldown > 0 THEN level.cooldown ELSE @]

\* The paid cast: a placement lays its zone and nothing else happens; a direct
\* blow first gives the caster away; then the rows are resolved.
Laid(caster, cell, row, rest) ==
    [owner |-> caster, trap |-> row.kind = "trap", shape |-> row.shape,
     size |-> row.size, anchor |-> cell,
     turns |-> IF row.kind = "glyph" THEN row.turns ELSE 0, effects |-> rest]

GivenAway(c, caster, rows) ==
    IF has_direct_damage(rows) THEN drop_invisibility(c, caster) ELSE c

Cast(c, caster, cell, rows, cast_level) ==
    IF placements(rows) # <<>>
    THEN [c EXCEPT !.zones = Append(@, Laid(caster, cell, placements(rows)[1], payload(rows)))]
    ELSE resolve_rows(GivenAway(c, caster, rows), caster, rows, cell,
                      c.fighters[caster].cell, cast_level)

Judged(c, caster, name, cell, cast_level, refusal) ==
    IF refusal # "" THEN [c EXCEPT !.error = refusal]
    ELSE Cast(Booked(c, caster, name, cell), caster, cell,
              spell_turn_rows(c, SpellOf(c, name)), cast_level)

resolve_spell(c, caster, name, cell, cast_level) ==
    Judged(c, caster, name, cell, cast_level, cast_legality(c, caster, name, cell))

(***************************************************************************)
(* Walking                                                                 *)
(***************************************************************************)
fresh_lockers(c, runner, cell, beaten) ==
    {s \in Seats(c) : /\ s # runner /\ ~c.fighters[s].dead
                      /\ c.fighters[s].team # c.fighters[runner].team
                      /\ s \notin beaten
                      /\ manhattan(c.fighters[s].cell, cell) = 1}

\* Leaving a cell that enemies stand next to: each locks a walk once, and a
\* failed departure costs part of both pools.
Toll(c, runner, contest) ==
    set_pools(c, runner, c.fighters[runner].ap - tackle_loss(c.fighters[runner].ap, contest),
                         c.fighters[runner].mp - tackle_loss(c.fighters[runner].mp, contest))

TackledBy(c, runner, beaten, lockers) ==
    [c |-> IF lockers = {} \/ c.turn_seed.escape THEN c
           ELSE Toll(c, runner, tackle_contest(0, [i \in 1 .. Cardinality(lockers) |-> 0])),
     beaten |-> beaten \cup lockers]

tackle_departure(c, runner, cell, beaten) ==
    TackledBy(c, runner, beaten, fresh_lockers(c, runner, cell, beaten))

\* One step of a walk whose state is the contract, the cell it should be on,
\* the lockers it has left behind and whether it goes on. A body that a trap
\* moved, or that now stands in the way, stops it.
Entered(d, runner, next, beaten) ==
    [c |-> d, at |-> next, beaten |-> beaten,
     on |-> ~d.ended /\ ~d.fighters[runner].dead]

Departed(w, runner, next, left) ==
    IF left.c.fighters[runner].mp = 0 \/ next = NoCell \/ fighter_at(left.c, next) # NoOne
    THEN [w EXCEPT !.on = FALSE, !.c = left.c]
    ELSE Entered(on_enter(spend(body_at(left.c, runner, next), runner, "mp", 1), runner).c,
                 runner, next, left.beaten)

WalkStep(w, runner, next) ==
    IF ~w.on \/ w.c.fighters[runner].cell # w.at \/ w.c.fighters[runner].mp = 0
    THEN [w EXCEPT !.on = FALSE]
    ELSE Departed(w, runner, next, tackle_departure(w.c, runner, w.at, w.beaten))

WalkFrom(c, runner) ==
    [c |-> c, at |-> c.fighters[runner].cell, beaten |-> {}, on |-> TRUE]

walk_path(c, runner, path) ==
    IF ~path_is_walkable(c.fighters[runner].cell, path, wall_mask(c, runner),
                         c.fighters[runner].mp)
    THEN [c EXCEPT !.error = "no_path"]
    ELSE FoldLeft(LAMBDA w, next : WalkStep(w, runner, next), WalkFrom(c, runner), path).c

\* Down a distance field, from wherever a trap may have put the walker.
StepDown(w, runner, here, field) ==
    IF field[here] = 0 THEN w
    ELSE WalkStep([w EXCEPT !.at = here], runner, best_step(here, field))

walk_down(c, runner, field) ==
    FoldLeft(LAMBDA w, n : StepDown(w, runner, w.c.fighters[runner].cell, field),
             WalkFrom(c, runner), [n \in 1 .. c.fighters[runner].mp |-> n]).c

WalkAlong(c, runner, field) ==
    IF field[c.fighters[runner].cell] > c.fighters[runner].mp THEN [c EXCEPT !.error = "no_path"]
    ELSE walk_down(c, runner, field)

walk_toward(c, runner, target) ==
    IF c.fighters[runner].cell = target THEN c
    ELSE WalkAlong(c, runner, bfs_distance_field(target, wall_mask(c, runner),
                                                 c.fighters[runner].mp))
=============================================================================
