------------------------------ MODULE FightRules -----------------------------
(***************************************************************************)
(* The fight as its commands (commands.ts): joining and placing, readiness, *)
(* the start, a player's moves, casts and strikes, the end of a turn and    *)
(* the crank that ends it for an absent player, and the forfeit. A command  *)
(* the rules refuse leaves the contract as it was, so it is not a step.     *)
(*                                                                         *)
(* A command that looks at the clock takes it as an input, as the code's   *)
(* observed_ms: `elapsed` is the time since the turn (or the placement)    *)
(* opened, 0 too soon to end it, 1 long enough, 2 long enough for anybody. *)
(***************************************************************************)
EXTENDS FightTurns

CONSTANT Accesses       \* the access an opener may choose, of public and group

ASSUME AccessAssumption == Accesses \subseteq {"public", "group"}

VARIABLE fight

Sides == {0, 1}

Seat(team, mob, cell, hp, names) ==
    [team |-> team, mob |-> mob, character |-> "", cell |-> cell,
     ready |-> mob # NoOne, dead |-> FALSE, settled |-> mob # NoOne,
     forfeited |-> FALSE, hp |-> hp, ap |-> 0, mp |-> 0, effects |-> <<>>,
     cooldowns |-> [name \in names |-> 0]]

\* Bound: the last round of an arena in which a turn is handed on.
MaxRound(c) == Arena(c).rounds

NamesOf(arena) == DOMAIN arena.spells

\* A contract in placement: the mobs stand, nobody has joined.
Opened(arena) ==
    [arena |-> arena,
     fighters |-> [m \in DOMAIN arena.mobs |->
                     Seat(1, m, arena.starts_b[m],
                          arena.mobs[m].max_hp, NamesOf(arena))],
     access |-> [t \in Sides |-> "unset"], opener |-> [t \in Sides |-> ""],
     queue |-> <<>>, round |-> 0, turn_ptr |-> 1, turn_slot |-> 0, turn_casts |-> <<>>,
     turn_seed |-> CHOOSE s \in Seeds : TRUE, zones |-> <<>>,
     ended |-> FALSE, winner |-> NoCell, error |-> ""]

Init == fight \in {Opened(arena) : arena \in Arenas}

(***************************************************************************)
(* Placement                                                               *)
(***************************************************************************)
placement_open == fight.round = 0 /\ ~fight.ended

free_start_cell(team) ==
    LET starts == StartCells(fight, team)
        taken == {fight.fighters[s].cell :
                    s \in {t \in Seats(fight) : ~fight.fighters[t].settled}}
        free == {i \in DOMAIN starts : starts[i] \notin taken}
    IN IF free = {} \/ Cardinality({s \in Seats(fight) : fight.fighters[s].team = team})
                         >= Len(starts)
       THEN NoCell ELSE starts[Min(free)]

Players(team) == {s \in Seats(fight) : /\ is_player(fight.fighters[s])
                                       /\ fight.fighters[s].team = team
                                       /\ ~fight.fighters[s].settled}

\* `grouped` says whether the party the joiner shows holds it and the opener.
join(who, team, access, grouped) ==
    LET cell == free_start_cell(team)
        seated == [Seat(team, NoOne, cell, Arena(fight).hp, NamesOf(fight.arena))
                     EXCEPT !.character = who]
    IN /\ placement_open
       /\ \A s \in Seats(fight) : /\ fight.fighters[s].team = team => is_player(fight.fighters[s])
                                  /\ fight.fighters[s].character # who
       /\ cell # NoCell
       /\ \/ /\ Players(team) = {}
             /\ fight' = [fight EXCEPT !.fighters = Append(@, seated),
                                       !.access[team] = access, !.opener[team] = who]
          \/ /\ Players(team) # {}
             /\ fight.access[team] = "group" => grouped
             /\ fight' = [fight EXCEPT !.fighters = Append(@, seated)]

place(seat, cell) ==
    LET f == fight.fighters[seat]
    IN /\ placement_open /\ is_player(f) /\ ~f.dead /\ ~f.settled
       /\ cell \in ToSet(StartCells(fight, f.team))
       /\ fighter_at(fight, cell) = NoOne
       /\ fight' = [fight EXCEPT !.fighters[seat].cell = cell]

ready(seat) ==
    /\ placement_open
    /\ is_player(fight.fighters[seat]) /\ ~fight.fighters[seat].dead
    /\ fight' = [fight EXCEPT !.fighters[seat].ready = TRUE]

\* The result of a command that hands the turn on; a refusal undoes it all.
HandOn(contract, opening) ==
    \E luck \in [Seats(fight) -> Seeds] :
      \E next \in {run_until_player(contract, luck, opening)} :
        next.error = "" /\ fight' = next

start(elapsed) ==
    LET woven == weave(fight)
        living == {i \in DOMAIN woven : ~fight.fighters[woven[i]].dead}
    IN /\ placement_open
       /\ players_ready_after(fight.fighters) \/ elapsed = 2
       /\ \A team \in Sides : living_count(fight.fighters, team) >= 1
       /\ HandOn([fight EXCEPT !.queue = woven, !.round = 1, !.turn_ptr = Min(living)], TRUE)

(***************************************************************************)
(* The turn of a player                                                    *)
(***************************************************************************)
Actor == fight.queue[fight.turn_ptr]
Active == fight.round >= 1 /\ ~fight.ended

assert_actor(needs_alive) ==
    /\ Active
    /\ is_player(fight.fighters[Actor]) /\ ~fight.fighters[Actor].settled
    /\ needs_alive => ~fight.fighters[Actor].dead

Committed(result) == \E next \in {result} : next.error = "" /\ fight' = next

move_to(path) == assert_actor(TRUE) /\ Committed(walk_path(fight, Actor, path))

cast_spell(name, cell) ==
    /\ assert_actor(TRUE)
    /\ name \in Arena(fight).book[fight.fighters[Actor].character]
    /\ Committed(resolve_spell(fight, Actor, name, cell, 1))

weapon_strike(cell) ==
    /\ assert_actor(TRUE)
    /\ Committed(resolve_spell(fight, Actor, "strike", cell, 0))

end_turn(elapsed) ==
    /\ assert_actor(FALSE) /\ elapsed >= 1 /\ fight.round <= MaxRound(fight)
    /\ HandOn(OwnTurnClosed(fight, Actor), FALSE)

\* Anybody may hand on a turn that has run out, or a dead fighter's at once.
crank(elapsed) ==
    /\ Active /\ fight.round <= MaxRound(fight)
    /\ \/ fight.fighters[Actor].dead /\ HandOn(fight, FALSE)
       \/ /\ ~fight.fighters[Actor].dead /\ elapsed = 2
          /\ HandOn(OwnTurnClosed(fight, Actor), FALSE)

forfeit(seat) ==
    LET gone == [fight EXCEPT !.fighters[seat].settled = TRUE,
                              !.fighters[seat].forfeited = TRUE]
        d == kill_fighter(gone, seat)
    IN /\ ~fight.ended /\ is_player(fight.fighters[seat]) /\ ~fight.fighters[seat].settled
       /\ IF d.round > 0 /\ ~d.ended /\ Actor = seat
          THEN fight.round <= MaxRound(fight) /\ HandOn(d, FALSE)
          ELSE fight' = d

(***************************************************************************)
(* The specification                                                       *)
(***************************************************************************)
Paths == {<<c>> : c \in Cells} \cup {<<c, d>> : c \in Cells, d \in Cells}

Join == \E who \in DOMAIN Arena(fight).book, team \in Sides, access \in Accesses,
           grouped \in BOOLEAN : join(who, team, access, grouped)
Place == \E seat \in Seats(fight), cell \in Cells : place(seat, cell)
Ready == \E seat \in Seats(fight) : ready(seat)
Start == \E elapsed \in {0, 2} : start(elapsed)
MoveTo == \E path \in Paths : move_to(path)
CastSpell == \E name \in NamesOf(fight.arena), cell \in Cells : cast_spell(name, cell)
WeaponStrike == \E cell \in Cells : weapon_strike(cell)
EndTurn == \E elapsed \in {0, 1} : end_turn(elapsed)
Crank == \E elapsed \in {1, 2} : crank(elapsed)
Forfeit == \E seat \in Seats(fight) : forfeit(seat)

Next == \/ Join \/ Place \/ Ready \/ Start \/ MoveTo \/ CastSpell
        \/ WeaponStrike \/ EndTurn \/ Crank \/ Forfeit

Spec == Init /\ [][Next]_fight

(***************************************************************************)
(* Properties                                                              *)
(***************************************************************************)
RowOK(row) == /\ DOMAIN row = {"kind", "stat", "value", "turns", "source"}
              /\ row.turns \in Nat /\ row.value \in Nat /\ row.source \in Seats(fight)

FighterOK(f) ==
    /\ f.team \in Sides /\ f.cell \in Cells /\ f.ap \in Nat /\ f.mp \in Nat
    /\ f.hp \in 0 .. IF is_mob(f) THEN Arena(fight).mobs[f.mob].max_hp ELSE PlayerMaxHp
    /\ \A i \in DOMAIN f.effects : RowOK(f.effects[i])
    /\ \A name \in DOMAIN f.cooldowns : f.cooldowns[name] \in Nat

TypeOK ==
    /\ \A s \in Seats(fight) : FighterOK(fight.fighters[s])
    /\ fight.error = "" /\ fight.winner \in Sides \cup {NoCell}
    /\ fight.turn_seed \in Seeds
    /\ fight.round > 0 => fight.turn_ptr \in DOMAIN fight.queue

\* The dead are those without life, and a fight in play is over exactly when a
\* side has nobody left; the winner is the side that still stands. Blows,
\* reflections, redirections, poisons, traps, glyphs and forfeits all reach it.
DeathsDecide ==
    LET left(team) == living_count(fight.fighters, team)
    IN /\ \A s \in Seats(fight) : fight.fighters[s].dead <=> fight.fighters[s].hp = 0
       /\ fight.round > 0 => (fight.ended <=> \E team \in Sides : left(team) = 0)
       /\ fight.ended => fight.winner = IF left(0) > 0 THEN 0
                                        ELSE IF left(1) > 0 THEN 1 ELSE NoCell

\* Two living bodies never share a cell and none stands in a wall, although
\* walks, pushes, swaps, teleports and the traps they spring all move bodies.
OneBodyPerCell ==
    \A s \in Seats(fight) : ~fight.fighters[s].dead =>
      /\ legal_cell(fight, fight.fighters[s].cell)
      /\ fighter_at(fight, fight.fighters[s].cell) = s

\* A zone on the board has a living owner: the dead get no turn to age it in,
\* and its payload needs them.
ZonesHaveLivingOwners ==
    \A i \in DOMAIN fight.zones : ~fight.fighters[fight.zones[i].owner].dead

\* No two zones are laid on the same anchor.
AnchorsDiffer ==
    \A i, j \in DOMAIN fight.zones :
      fight.zones[i].anchor = fight.zones[j].anchor => i = j

\* Between two commands the turn is never a mob's, nor that of somebody who
\* left: it is a player's, alive or killed in its own turn.
TurnIsAPlayers ==
    Active => is_player(fight.fighters[Actor]) /\ ~fight.fighters[Actor].settled

\* Within a turn nobody casts a spell more often, or more often at one target,
\* than its level allows.
CapsHold ==
    \A i \in DOMAIN fight.turn_casts :
      LET r == fight.turn_casts[i]
          level == SpellOf(fight, r.spell)
      IN /\ level.per_turn > 0 => casts_of(fight, r.spell) <= level.per_turn
         /\ level.per_target > 0 /\ r.target # NoOne =>
              casts_on(fight, r.spell, r.target) <= level.per_target

\* In its own turn a fighter holds no row that ran out in an earlier one: spent
\* rows are dropped before the pools are refilled, and rows laid in the turn
\* last at least until its end. (Poisons are spent tick by tick.)
FreshTurnIsClean ==
    Active =>
      \A i \in DOMAIN Rows(fight, Actor) :
        Rows(fight, Actor)[i].turns > 0 \/ is_periodic_hp(Rows(fight, Actor)[i])

\* What the stances of a fighter gained it in one turn, whoever's turn it was and
\* however often it was struck in it, stays within what the stances add up to.
GainedIn(owner, s) ==
    LET rows == Rows(fight, s)
    IN SumOf([i \in DOMAIN rows |->
         IF /\ rows[i].kind = "add" /\ rows[i].stat = "power"
            /\ rows[i].source = owner /\ rows[i].turns = ChatimentTurns
         THEN rows[i].value ELSE 0])

StancesCapped ==
    Active => \A s, owner \in Seats(fight) :
      has_row(fight, s, "chatiment") =>
        GainedIn(owner, s) <= sum_rows(fight, s, "chatiment", "power")

\* A turn that has run out can be handed on whatever the seeds of the turns in
\* between: no mob, however it was moved, drained or wounded, tries a cast the
\* rules refuse, for the refusal would undo the crank with it. One way is left:
\* a mob judges a spell by its authored reach, the rules by what is left of it.
Shortened(s) ==
    /\ is_mob(fight.fighters[s])
    /\ \E kind \in {"remove", "steal"} : sum_rows(fight, s, kind, "range") > 0
    /\ \E name \in ToSet(Snapshot(fight, s).kit) : SpellOf(fight, name).modifiable

TurnsCanBeHandedOn ==
    Active => \A luck \in [Seats(fight) -> Seeds] :
      LET refusal == run_until_player(OwnTurnClosed(fight, Actor), luck, FALSE).error
      IN refusal # "" => refusal = "out_of_range" /\ \E s \in Seats(fight) : Shortened(s)

\* The board is sound after every command: deaths decide the fight, bodies do not
\* share cells, zones have living owners and anchors of their own.
BoardIsSound == DeathsDecide /\ OneBodyPerCell /\ ZonesHaveLivingOwners /\ AnchorsDiffer

\* The turn that is played is sound: it is a player's, it holds no spent row, and
\* neither the casts of the turn nor the stances of its fighters pass their caps.
TurnIsSound == TurnIsAPlayers /\ FreshTurnIsClean /\ CapsHold /\ StancesCapped

\* The turn goes round: the order of play is fixed at the start, the dead stay
\* dead, nobody who lives is passed over (mobs between two players have played),
\* and a round is counted exactly when the pointer comes back past its end.
TurnGoesRound ==
    [][Active /\ Active' =>
         LET from == fight.turn_ptr
             to == fight'.turn_ptr
             passed == IF to > from THEN from + 1 .. to - 1
                       ELSE (from + 1 .. Len(fight.queue)) \cup (1 .. to - 1)
             moved == to # from \/ fight'.round # fight.round
         IN /\ fight'.queue = fight.queue
            /\ \A s \in Seats(fight) : fight.fighters[s].dead => fight'.fighters[s].dead
            /\ moved => /\ fight'.round = fight.round + IF to > from THEN 0 ELSE 1
                        /\ \A p \in passed :
                             LET f == fight'.fighters[fight.queue[p]]
                             IN f.dead \/ is_mob(f)]_fight
=============================================================================
