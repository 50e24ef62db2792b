----------------------------- MODULE MCWorkshop -----------------------------
EXTENDS Workshop
CONSTANTS omori, archero, wheat, egg, flour, cake, sack, baker, rex, fang
MCMembers == {omori, archero}
MCPets == {rex, fang}
MCKinds == {wheat, flour, cake, sack}
MCNeeds == [k \in {flour, cake} |-> IF k = flour THEN <<<<wheat, 1>>>> ELSE <<<<flour, 1>>, <<wheat, 1>>>>]
MCJob == [k \in {flour, cake} |-> baker]
MCRequired == <<1, 2>>
MCPays == << <<1, 0>>, <<0, 0>> >>
MCWishes == << << <<cake, 2>> >> >>
MCIds == 1 .. 3
Empty == [i \in MCIds |-> NoStack]
Start(kiosk, power, level, lost0) == [kiosk |-> kiosk, power |-> power, level |-> level, lost |-> lost0]
BagAndWheat == [Empty EXCEPT ![1] = [kind |-> sack, n |-> 1], ![2] = [kind |-> wheat, n |-> 1]]
Holds(k, n) == [Empty EXCEPT ![1] = [kind |-> k, n |-> n]]
Powers(a, b) == [p \in MCPets |-> IF p = rex THEN a ELSE b]
MCStarts == {Start(BagAndWheat, Powers(2, 2), 2, 0), Start(Holds(cake, 1), Powers(1, 2), 1, 0),
             Start(Holds(cake, 2), Powers(0, 1), 2, 1)}
=============================================================================
