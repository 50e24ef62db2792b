------------------------------ MODULE FightTurns -----------------------------
(***************************************************************************)
(* The turn boundary: turn_effects.ts and turns.ts. Between two turns of   *)
(* players the contract plays every mob turn in the way by itself, inside  *)
(* the one command that ended the turn; a mob cast that the rules refuse   *)
(* therefore refuses that command. `luck` gives the seed of a seat's turn. *)
(***************************************************************************)
EXTENDS FightEffects

RECURSIVE mob_turn(_, _), next_turns(_, _, _, _, _)

(***************************************************************************)
(* Ticks                                                                   *)
(***************************************************************************)
is_periodic_hp(row) == row.stat = "hp" /\ row.kind \in {"add", "remove", "steal"}

expire_turn_effects(c, seat) ==
    [c EXCEPT !.fighters[seat].effects = SelectSeq(@, LAMBDA r : r.turns > 0)]

\* The pool rows a fighter kept while it waited, applied to its fresh pools.
apply_pool_effects(c, seat) ==
    FoldLeft(LAMBDA s, row :
               CASE row.stat \notin {"ap", "mp"} -> s
                 [] row.stat \in {"ap", "mp"} /\ row.kind = "add" ->
                      grant(s, seat, row.stat, row.value)
                 [] row.stat \in {"ap", "mp"}
                      /\ row.kind \in {"remove", "steal", "fixed_remove"} ->
                      spend(s, seat, row.stat, row.value)
                 [] OTHER -> s,
             c, Rows(c, seat))

\* One tick of a row that heals or wounds its bearer; the tick is consumed.
Ticked(c, seat, row) ==
    IF row.kind = "add" THEN heal_seat(c, seat, row.value)
    ELSE hit(c, seat, reduce_damage(c, seat, row.value), row.source)

PeriodicTick(c, seat, i) ==
    IF ~is_periodic_hp(Rows(c, seat)[i]) \/ Rows(c, seat)[i].turns = 0 THEN c
    ELSE Ticked([c EXCEPT !.fighters[seat].effects[i].turns = @ - 1], seat, Rows(c, seat)[i])

Burnt(c, seat) == IF c.ended THEN c ELSE fire_glyphs_under(c, seat)

tick_turn_start(c, seat) ==
    tick_board_zones(Burnt(FoldLeft(LAMBDA s, i : PeriodicTick(s, seat, i), c,
                                    [i \in DOMAIN Rows(c, seat) |-> i]), seat), seat)

tick_turn_end(c, seat) ==
    [c EXCEPT !.fighters[seat].effects =
       [i \in DOMAIN @ |-> IF is_periodic_hp(@[i]) THEN @[i]
                           ELSE [@[i] EXCEPT !.turns = saturating_subtract(@, 1)]]]

tick_cooldowns(c, seat) ==
    [c EXCEPT !.fighters[seat].cooldowns =
       [name \in DOMAIN @ |-> saturating_subtract(@[name], 1)]]

(***************************************************************************)
(* The order of a round                                                    *)
(***************************************************************************)
SideSeats(c, team) ==
    SelectSeq([s \in Seats(c) |-> s], LAMBDA s : c.fighters[s].team = team)

\* The two sides interleaved in proportion to what each has left to place.
weave(c) ==
    LET a == SideSeats(c, 0)
        b == SideSeats(c, 1)
        place(order, i) ==
          LET j == Len(SelectSeq(order, LAMBDA s : c.fighters[s].team = 0))
              k == i - 1 - j
              take_a == j < Len(a) /\ (k >= Len(b) \/
                          (Len(a) - j) * Len(b) >= (Len(b) - k) * Len(a))
          IN Append(order, IF take_a THEN a[j + 1] ELSE b[k + 1])
    IN FoldLeft(place, <<>>, [i \in Seats(c) |-> i])

(***************************************************************************)
(* A mob's turn                                                            *)
(***************************************************************************)
Foes(c, mob) == {s \in Seats(c) : /\ ~c.fighters[s].dead
                                  /\ c.fighters[s].team # c.fighters[mob].team
                                  /\ ~has_row(c, s, "invis")}
Allies(c, mob) == {s \in Seats(c) : ~c.fighters[s].dead
                                      /\ c.fighters[s].team = c.fighters[mob].team}

NearestOf(c, mob, others) ==
    LET span(s) == manhattan(c.fighters[s].cell, c.fighters[mob].cell)
        near == {s \in others : \A t \in others : span(s) <= span(t)}
    IN IF others = {} THEN NoOne ELSE Min(near)

nearest_enemy(c, mob) == NearestOf(c, mob, Foes(c, mob))

nearest_ally(c, mob) ==
    LET others == Allies(c, mob) \ {mob}
    IN IF others = {} THEN mob ELSE NearestOf(c, mob, others)

wounded_ally(c, mob) ==
    LET missing(s) == max_hp_of(c, s) - c.fighters[s].hp
        hurt == {s \in Allies(c, mob) : missing(s) > 0}
        worst == {s \in hurt : \A t \in hurt : missing(s) >= missing(t)}
    IN IF hurt = {} THEN NoOne ELSE Min(worst)

SpellRows(level) == ToSet(level.effects) \cup ToSet(level.crit_effects)
AimsOnlyAt(level, filters) ==
    SpellRows(level) # {} /\ \A row \in SpellRows(level) : row.filter \in filters
has_heal(level) ==
    \E i \in DOMAIN level.effects :
      level.effects[i].kind = "add" /\ level.effects[i].stat = "hp"

placement_level_castable(c, level, anchor) ==
    /\ placement_rows_castable(c, level.effects, anchor)
    /\ level.crit_effects = <<>> \/ placement_rows_castable(c, level.crit_effects, anchor)

\* The mob looks at the authored reach only.
mob_castable(c, mob, level, from, anchor) ==
    cell_can_cast(from, anchor, level, sight_blockers(c, mob, anchor))

RushDown(c, mob, field) ==
    IF field[c.fighters[mob].cell] = NumCells THEN c ELSE walk_down(c, mob, field)

rush_toward(c, mob, cell) ==
    RushDown(c, mob, approach_field(cell, wall_mask(c, mob), c.fighters[mob].cell))

spell_anchor_seat(c, mob, enemy, level) ==
    CASE AimsOnlyAt(level, {"only_caster"}) -> mob
      [] ~AimsOnlyAt(level, {"only_caster"}) /\ has_heal(level) -> wounded_ally(c, mob)
      [] ~has_heal(level) /\ ~AimsOnlyAt(level, {"not_enemy", "only_caster"}) -> enemy
      [] OTHER -> IF level.rmax = 0 THEN mob ELSE nearest_ally(c, mob)

\* A mutant of mob_cast_cap_available: the caps on a turn are not counted.
mob_cast_cap_available_None(c, name, seat) == SpellOf(c, name).ap > 0

mob_cast_cap_available(c, name, seat) ==
    LET level == SpellOf(c, name)
    IN /\ level.ap > 0
       /\ level.per_turn = 0 \/ casts_of(c, name) < level.per_turn
       /\ level.per_target = 0 \/ casts_on(c, name, seat) < level.per_target

mob_active(c, mob) == ~c.ended /\ ~c.fighters[mob].dead /\ c.error = ""

\* Where a mob would walk to for a spell; NoCell when it would not.
approach_cell(c, mob, level, anchor) ==
    IF \/ has_heal(level) \/ AimsOnlyAt(level, {"only_caster"})
       \/ manhattan(c.fighters[mob].cell, anchor) > c.fighters[mob].mp + level.rmax
    THEN NoCell
    ELSE bfs_cast_cell(c.fighters[mob].cell, anchor, wall_mask(c, mob), c.fighters[mob].mp,
                       level, sight_blockers(c, mob, anchor))

\* A mob about to cast at a cell, after a walk or not: may it still?
Aim(c, mob, level, anchor, walked) ==
    [c |-> c, anchor |-> anchor, walked |-> walked,
     able |-> /\ mob_castable(c, mob, level, c.fighters[mob].cell, anchor)
              /\ walked => /\ mob_active(c, mob)
                           /\ placement_level_castable(c, level, anchor)
                           /\ c.fighters[mob].ap >= level.ap]

Arrived(d, mob, level, seat) == Aim(d, mob, level, d.fighters[seat].cell, TRUE)

Aimed(c, mob, level, seat, cell) ==
    IF cell = NoCell THEN Aim(c, mob, level, c.fighters[seat].cell, FALSE)
    ELSE Arrived(walk_toward(c, mob, cell), mob, level, seat)

MobCast(aimed, mob, name) ==
    CASE aimed.able -> [c |-> resolve_spell(aimed.c, mob, name, aimed.anchor, 1), did |-> "cast"]
      [] ~aimed.able /\ aimed.walked -> [c |-> aimed.c, did |-> "moved"]
      [] OTHER -> [c |-> aimed.c, did |-> "none"]

TryAt(c, mob, name, level, seat, anchor) ==
    IF \/ c.fighters[mob].ap < level.ap \/ c.fighters[mob].cooldowns[name] > 0
       \/ ~mob_cast_cap_available(c, name, seat)
       \/ ~placement_level_castable(c, level, anchor)
    THEN [c |-> c, did |-> "none"]
    ELSE MobCast(Aimed(c, mob, level, seat,
                   IF mob_castable(c, mob, level, c.fighters[mob].cell, anchor) THEN NoCell
                   ELSE approach_cell(c, mob, level, anchor)),
                 mob, name)

TryOn(c, mob, name, seat) ==
    IF seat = NoOne THEN [c |-> c, did |-> "none"]
    ELSE TryAt(c, mob, name, SpellOf(c, name), seat, c.fighters[seat].cell)

try_mob_spell(c, mob, enemy, name) ==
    TryOn(c, mob, name, spell_anchor_seat(c, mob, enemy, SpellOf(c, name)))

\* The first spell of the kit that does something.
mob_step(c, mob, enemy) ==
    FoldLeft(LAMBDA s, name : IF s.did # "none" THEN s ELSE try_mob_spell(c, mob, enemy, name),
             [c |-> c, did |-> "none"], Snapshot(c, mob).kit)

MaxMobRowCasts == 16
cast_limit(c, mob) ==
    LET kit == ToSet(Snapshot(c, mob).kit)
        widths == {Max({Len(SpellOf(c, n).effects), Len(SpellOf(c, n).crit_effects)}) : n \in kit}
    IN MaxMobRowCasts \div Max({1} \cup widths)

RushGoal(c, mob, enemy, starts) ==
    CASE enemy # NoOne -> c.fighters[enemy].cell
      [] enemy = NoOne /\ starts # <<>> -> starts[1]
      [] OTHER -> c.fighters[mob].cell

MobGoesOn(c, mob, enemy, step) ==
    CASE step.did = "cast" -> mob_turn(step.c, mob)
      [] step.did = "moved" -> step.c
      [] OTHER -> rush_toward(c, mob, RushGoal(c, mob, enemy, StartCells(c, c.fighters[mob].team)))

MobFacing(c, mob, enemy) ==
    MobGoesOn(c, mob, enemy, IF enemy = NoOne THEN [c |-> c, did |-> "none"]
                             ELSE mob_step(c, mob, enemy))

\* Cast while a spell serves; a walk ends the turn; with nothing to cast, rush
\* the nearest visible enemy, or the own start cells when nobody is visible.
mob_turn(c, mob) ==
    IF ~mob_active(c, mob) \/ Len(c.turn_casts) >= cast_limit(c, mob) THEN c
    ELSE MobFacing(c, mob, nearest_enemy(c, mob))

(***************************************************************************)
(* Handing the turn on                                                     *)
(***************************************************************************)
Filled(c, seat) == set_pools(c, seat, base_ap_of(c, seat), base_mp_of(c, seat))

\* The opening of a turn: fresh ledger, spent rows dropped, pools refilled and
\* corrected, then what heals, wounds or burns at the start of a turn.
OpenTurn(c, seat, seed) ==
    tick_turn_start(
      apply_pool_effects(
        Filled(expire_turn_effects([c EXCEPT !.turn_seed = seed, !.turn_slot = 0,
                                             !.turn_casts = <<>>], seat), seat), seat), seat)

\* A mutant of PointAt: the rounds are not counted.
PointAt_NoRound(c, p) == [c EXCEPT !.turn_ptr = p]

PointAt(c, p) == [c EXCEPT !.turn_ptr = p, !.round = IF p = 1 THEN @ + 1 ELSE @]

Pointed(c, examine) ==
    IF examine THEN c ELSE PointAt(c, (c.turn_ptr % Len(c.queue)) + 1)

OwnTurnClosed(c, seat) == tick_cooldowns(tick_turn_end(c, seat), seat)

Passed(c) == [c |-> c, has |-> FALSE]
Stopped(c) == [c |-> c, has |-> TRUE]

MobPlayed(c, seat) == IF c.ended THEN Stopped(c) ELSE Passed(OwnTurnClosed(c, seat))

Given(c, seat) ==
    CASE c.ended \/ (~c.fighters[seat].dead /\ is_player(c.fighters[seat])) -> Stopped(c)
      [] ~c.ended /\ c.fighters[seat].dead -> Passed(c)
      [] OTHER -> MobPlayed(mob_turn(c, seat), seat)

TurnAt(c, luck, seat) ==
    IF c.fighters[seat].dead THEN Passed(c) ELSE Given(OpenTurn(c, seat, luck[seat]), seat)

TurnPointed(c, luck) == TurnAt(c, luck, c.queue[c.turn_ptr])

HandFurther(next, luck, hops, limit) ==
    IF next.has THEN next.c ELSE next_turns(next.c, luck, FALSE, hops + 1, limit)

\* Hand the turn on, at most twice round the table: the dead are passed over, a
\* mob plays its turn, and a living player keeps it. `has` says whether the
\* fighter pointed at takes the turn, or the search goes on past it.
next_turns(c, luck, examine, hops, limit) ==
    IF hops > limit THEN c
    ELSE HandFurther(TurnPointed(Pointed(c, examine), luck), luck, hops, limit)

run_until_player(c, luck, opening) ==
    next_turns(c, luck, opening, 0, 2 * Len(c.queue))
=============================================================================
