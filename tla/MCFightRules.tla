---------------------------- MODULE MCFightRules -----------------------------
EXTENDS FightRules, TLC

Row(kind, stat, value, turns, filter) ==
    [kind |-> kind, stat |-> stat, value |-> value, turns |-> turns,
     filter |-> filter, shape |-> "point", size |-> 0, sure |-> TRUE]
Wide(row, shape, size) == [row EXCEPT !.shape = shape, !.size = size]
Risky(row) == [row EXCEPT !.sure = FALSE]
Level(ap, rmin, rmax, effects) ==
    [ap |-> ap, rmin |-> rmin, rmax |-> rmax, sight |-> FALSE, straight |-> FALSE,
     modifiable |-> FALSE, per_turn |-> 1, per_target |-> 0, cooldown |-> 0,
     effects |-> effects, crit_effects |-> <<>>]

Strike == [Level(4, 1, 1, <<Row("damage", "none", 4, 0, "none")>>)
             EXCEPT !.sight = TRUE, !.per_turn = 0]
Snare == Level(3, 1, 2, <<Row("trap", "none", 0, 0, "none"),
                          Row("push", "none", 1, 0, "none"),
                          Row("damage", "none", 4, 0, "none")>>)
Brand == Level(3, 0, 2, <<Wide(Row("glyph", "none", 0, 2, "none"), "circle", 1),
                          Row("damage", "none", 4, 0, "not_team")>>)
Blink == [Level(3, 1, 3, <<Row("teleport", "none", 0, 0, "none")>>) EXCEPT !.cooldown = 2]
Switch == Level(3, 1, 3, <<Row("swap", "none", 0, 0, "none")>>)
Venom == [Level(2, 1, 2, <<Row("remove", "hp", 4, 2, "not_team"),
                           Risky(Row("steal", "ap", 2, 1, "not_team"))>>)
            EXCEPT !.per_target = 1, !.per_turn = 2, !.sight = TRUE]
Stance == Level(3, 0, 0, <<Row("chatiment", "power", 3, 3, "only_caster"),
                           Row("reflect", "none", 1, 2, "only_caster")>>)
Veil == Level(2, 0, 0, <<Row("invis", "none", 0, 1, "only_caster"),
                         Row("reduce", "none", 1, 2, "only_caster")>>)
Mirror == Level(4, 0, 1, <<Row("return", "none", 0, 2, "not_enemy"),
                           Row("redirect", "none", 0, 2, "not_self")>>)
Bite == [Level(3, 1, 1, <<Row("damage", "none", 3, 0, "not_team")>>)
           EXCEPT !.per_turn = 2, !.crit_effects = <<Row("steal", "hp", 6, 0, "not_team")>>]
Shove == [Level(3, 1, 2, <<Row("push", "none", 2, 0, "not_team"),
                           Row("remove", "mp", 1, 1, "not_team")>>)
            EXCEPT !.straight = TRUE]
Drag == Level(3, 1, 3, <<Row("pull", "none", 2, 0, "not_team"),
                         Row("damage", "none", 4, 0, "not_team")>>)
Mend == Level(3, 0, 2, <<Row("add", "hp", 4, 0, "not_enemy"),
                         Row("add", "ap", 1, 1, "not_enemy")>>)

Smite == Level(4, 1, 2, <<Row("pct_life", "none", 20, 0, "not_team"),
                          Row("punishment", "none", 1, 0, "not_team"),
                          Row("caster_damage", "none", 4, 0, "not_team")>>)
Blind == Level(2, 1, 3, <<Row("remove", "range", 2, 1, "not_team")>>)
Spit == [Level(3, 1, 2, <<Row("damage", "none", 4, 0, "not_team")>>)
           EXCEPT !.modifiable = TRUE]

Mob(max_hp, kit) == [max_hp |-> max_hp, ap |-> 6, mp |-> 2, kit |-> kit]

Table(names) ==
    [n \in names \cup {"strike"} |->
       CASE n = "strike" -> Strike [] n = "snare" -> Snare [] n = "brand" -> Brand
         [] n = "blink" -> Blink [] n = "switch" -> Switch [] n = "venom" -> Venom
         [] n = "stance" -> Stance [] n = "veil" -> Veil [] n = "mirror" -> Mirror
         [] n = "smite" -> Smite [] n = "blind" -> Blind [] n = "spit" -> Spit
         [] n = "bite" -> Bite [] n = "shove" -> Shove [] n = "drag" -> Drag
         [] OTHER -> Mend]

Board(rounds, hp, mobs, book, starts_a, starts_b, closed) ==
    LET names == UNION {book[ch] : ch \in DOMAIN book} \cup UNION {ToSet(mobs[m].kit) : m \in DOMAIN mobs}
    IN [closed |-> closed, obstacles |-> closed, starts_a |-> starts_a,
        starts_b |-> starts_b, mobs |-> mobs, book |-> book, rounds |-> rounds, hp |-> hp,
        spells |-> Table(names)]
Solo(names) == [ch \in {"ana"} |-> names]
Duo(names) == [ch \in {"ana", "bo"} |-> names]

MCArenas == {
  Board(2, 12, <<Mob(8, <<"shove", "bite">>)>>, Solo({"snare"}), <<0>>, <<5>>, {}),
  Board(1, 8, <<Mob(8, <<"drag", "bite">>)>>, Solo({"brand", "veil"}), <<0>>, <<5>>, {1, 2}),
  Board(1, 8, <<Mob(8, <<"bite", "mend">>)>>, Solo({"venom", "stance"}), <<0>>, <<5>>, {1, 2}),
  Board(1, 4, <<>>, [ana |-> {"smite"}, bo |-> {"mirror"}], <<0>>, <<4>>, {1, 2, 5}),
  Board(1, 4, <<Mob(4, <<"bite">>)>>, [ana |-> {"smite"}, bo |-> {"mirror"}], <<3, 4>>, <<5>>, {0, 1, 2}),
  Board(1, 8, <<Mob(8, <<"brand">>)>>, Solo({"switch", "blink"}), <<0>>, <<5>>, {1, 2}),
  Board(2, 8, <<Mob(8, <<"spit">>)>>, Solo({"blind"}), <<0>>, <<5>>, {1, 2})
  }

Calm == [crit |-> FALSE, chance |-> FALSE, contest |-> FALSE, escape |-> TRUE]
Wild == [crit |-> TRUE, chance |-> TRUE, contest |-> TRUE, escape |-> FALSE]
MCSeeds == {Calm, Wild}
=============================================================================
