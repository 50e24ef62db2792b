------------------------------ MODULE MCOutfit ------------------------------
(* An instance of Outfit for TLC.                                           *)
EXTENDS Outfit

CONSTANTS omori, archero, hoe, pick, tool, farmer, miner

\* One member harvests for both jobs in turn and sets out with the hoe; the
\* other harvests nothing and has no tool yet.
MCOrder == <<omori, archero>>
MCItems == {hoe, pick}
MCSlots == {tool}
MCSlotOf == [i \in MCItems |-> tool]
MCKind == [i \in MCItems |-> IF i = hoe THEN farmer ELSE miner]
MCPower == [i \in MCItems |-> IF i = hoe THEN 1 ELSE 2]
MCWorn == [m \in {omori, archero} |->
             [s \in MCSlots |-> IF m = omori THEN hoe ELSE None]]
MCLies == {}
MCFighters == {omori}
MCJobs == [m \in {omori, archero} |->
             IF m = omori THEN {farmer, miner} ELSE {}]
=============================================================================
