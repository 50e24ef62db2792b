----------------------------- MODULE MCFightCalc -----------------------------
EXTENDS FightCalc, TLC

MCRolls == {0, 1, 2499, 3333, 5000, 6666, 9998, 9999}
MCWisdoms == {0, 15, 80}
MCAgilities == {0, 25, 90}
MCBases == {0, 1, 7, 40, 999}
MCDraws == {0, 9, 40, 99}
=============================================================================
