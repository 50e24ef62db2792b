------------------------------ MODULE FightMath -----------------------------
(***************************************************************************)
(* The integer rules of packages/fight/src/fight_math.ts and the mob       *)
(* scaling of create.ts. Divisions truncate as the code's bigints do; every *)
(* operand is a natural number. A draw of the code's generator is an       *)
(* argument here (`roll`), or a sequence of them where the rule draws in a *)
(* loop, so that a property over all rolls covers every seed.              *)
(***************************************************************************)
EXTENDS Naturals, Integers, Sequences, FiniteSets, FiniteSetsExt, SequencesExt

saturating_subtract(a, b) == IF a > b THEN a - b ELSE 0
Clamped(v, low, high) == Max({low, Min({v, high})})

amplify_damage(base, primary, raw) == (base * (100 + primary)) \div 100 + raw

apply_resistance(damage, pct) == (damage * (100 - Min({pct, 50}))) \div 100

apply_centered_resistance(damage, centered, centre) ==
    IF centered >= centre THEN apply_resistance(damage, centered - centre)
    ELSE (damage * (100 + centre - centered)) \div 100

punishment_base(base, hp, max_hp) ==
    IF max_hp = 0 THEN base
    ELSE (base * (2 * max_hp - Min({hp, max_hp}))) \div max_hp

heal_amount(base, intelligence) == (base * (100 + intelligence)) \div 100

\* How many values a roll of the generator can have.
CRIT_SCALE == 10000

\* A roll of 0 .. CRIT_SCALE - 1 placed in the authored range.
roll_in_range(minimum, maximum, roll) ==
    IF maximum <= minimum THEN minimum
    ELSE minimum + (roll * (maximum - minimum + 1)) \div CRIT_SCALE

\* The critical denominator; `ln_e6` is the scaled logarithm of agility + 12.
crit_denominator(crit_1_in, critical, ln_e6) ==
    LET base == saturating_subtract(crit_1_in, critical)
        scaled == (base * 29901 * 100) \div ln_e6
    IN CASE crit_1_in <= 2 -> crit_1_in
         [] crit_1_in > 2 /\ base < 2 -> 2
         [] OTHER -> Max({2, Min({scaled, base})})

tackle_bucket(agility) == agility \div 10 + 2

ProductOf(seq) ==
    LET product[n \in 0 .. Len(seq)] == IF n = 0 THEN 1 ELSE product[n - 1] * seq[n]
    IN product[Len(seq)]

\* The chance to leave: the runner's bucket against twice each locker's.
tackle_contest(runner, lockers) ==
    LET dodge == tackle_bucket(runner)
        row(a) == 2 * tackle_bucket(a)
    IN [numerator   |-> ProductOf([i \in DOMAIN lockers |-> Min({dodge, row(lockers[i])})]),
        denominator |-> ProductOf([i \in DOMAIN lockers |-> row(lockers[i])])]

\* A mutant of tackle_loss: the loss is rounded down.
tackle_loss_Floor(pool, contest) ==
    (pool * (contest.denominator - contest.numerator)) \div contest.denominator

\* The part of a pool lost to a failed departure, rounded up.
tackle_loss(pool, contest) ==
    LET lost == contest.denominator - contest.numerator
    IN (pool * lost + contest.denominator - 1) \div contest.denominator

push_collision_damage(level, blocked, roll) ==
    IF blocked = 0 THEN 0
    ELSE ((400 + ((roll % 8) + 1) * level) * blocked) \div 50

point_removal_chance(caster_wisdom, target_wisdom, current, maximum) ==
    LET bucket(w) == Max({1, w \div 10})
        rate == (50 * bucket(caster_wisdom)) \div bucket(target_wisdom)
    IN IF maximum = 0 THEN 0 ELSE Clamped((rate * current) \div maximum, 10, 90)

\* Points are taken one by one, each against a chance that falls with what is
\* left, until a roll fails, the row is spent or the pool is empty.
remove_points(rolls, value, caster_wisdom, target_wisdom, current, maximum) ==
    LET chance(taken) ==
          point_removal_chance(caster_wisdom, target_wisdom, current - taken, maximum)
        taken[n \in 0 .. value] ==
          IF n = 0 THEN 0
          ELSE LET sofar == taken[n - 1]
               IN IF sofar = n - 1 /\ sofar < current /\ rolls[n] < chance(sofar)
                  THEN sofar + 1 ELSE sofar
    IN IF maximum = 0 THEN 0 ELSE taken[value]

RetroGroupTenths == <<10, 11, 15, 23, 31, 36>>

retro_group_coefficient_tenths(n) ==
    IF n = 0 THEN 0 ELSE RetroGroupTenths[Min({n, Len(RetroGroupTenths)})]

\* The three group penalties applied one after the other, each truncating.
GroupXp(base, players_level, mobs_level, highest_mob, eligible) ==
    LET shared == (base * retro_group_coefficient_tenths(eligible)) \div 10
        tooHard == IF mobs_level > players_level + 10
                   THEN (shared * (players_level + 10)) \div mobs_level ELSE shared
        tooEasy == IF players_level > mobs_level + 5
                   THEN (tooHard * mobs_level) \div players_level ELSE tooHard
    IN IF players_level * 2 > highest_mob * 5
       THEN (tooEasy * (highest_mob * 5)) \div (players_level * 2) ELSE tooEasy

xp_for_player(base, wisdom, level, players_level, mobs_level, highest_mob, eligible) ==
    IF 0 \in {base, level, players_level, mobs_level, highest_mob, eligible} THEN 0
    ELSE (((GroupXp(base, players_level, mobs_level, highest_mob, eligible) * level)
             \div players_level) * (100 + wisdom)) \div 100

(***************************************************************************)
(* The award of a settlement (fighters.ts): the levels of the side that    *)
(* won, without its forfeited members, against the mobs it faced.          *)
(***************************************************************************)
SumOf(seq) ==
    LET total[n \in 0 .. Len(seq)] == IF n = 0 THEN 0 ELSE total[n - 1] + seq[n]
    IN total[Len(seq)]

HighestOf(seq) == IF seq = <<>> THEN 0 ELSE Max({seq[i] : i \in DOMAIN seq})

xp_award_of(base, wisdom, level, players, mobs) ==
    xp_for_player(base, wisdom, level, SumOf(players), SumOf(mobs), HighestOf(mobs),
                  Cardinality({i \in DOMAIN players :
                                 players[i] * 3 >= HighestOf(players)}))

(***************************************************************************)
(* Mob scaling: a mob's level is a percentage of its template's range.     *)
(***************************************************************************)
mob_level(low, high, scalar) == low + ((high - low) * scalar) \div 100

mob_scalar_for_level(low, high, requested) ==
    LET level == Clamped(requested, low, high)
        range == high - low
    IN IF range = 0 THEN 0 ELSE ((level - low) * 100 + range - 1) \div range

\* Sixty per cent of the authored value at the lowest level, 160 at the highest.
mob_band_scaled(base, low, high, level) ==
    IF high = low THEN base
    ELSE (base * (6 * (high - low) + 10 * (level - low))) \div (10 * (high - low))

mob_effect_value_scaled(base, low, high, level) ==
    LET scaled == mob_band_scaled(base, low, high, level)
    IN IF base > 0 /\ scaled = 0 THEN 1 ELSE scaled

mob_centered_band_scaled(value, centre, low, high, level) ==
    LET span == high - low
        scaled == ((centre - value) * (16 * span - 10 * (level - low))) \div (10 * span)
    IN CASE value >= centre ->
              centre + mob_band_scaled(value - centre, low, high, level)
         [] value < centre /\ high = low -> value
         [] OTHER -> saturating_subtract(centre, scaled)

mob_loot_chance_scaled(base_bp, low, high, level) ==
    IF high = low THEN base_bp
    ELSE Min({10000, (base_bp * (8 * (high - low) + 4 * (level - low)))
                        \div (10 * (high - low))})

\* Action and movement points grow to 130 per cent, rounded to the nearest.
mob_pool_scaled(base, low, high, level) ==
    LET denominator == 10 * (high - low)
    IN IF high = low THEN base
       ELSE (base * (denominator + 3 * (level - low)) + denominator \div 2)
              \div denominator
=============================================================================
