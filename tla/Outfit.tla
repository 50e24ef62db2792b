------------------------------- MODULE Outfit -------------------------------
(***************************************************************************)
(* What the characters of a party wear (equip.ts, equip_guard.ts), and the *)
(* harvests that need a tool worn (gather.ts; session.ts, the pass around  *)
(* them).  All characters draw on one kiosk.  Two activities change what   *)
(* they wear: the party-wide round of auto-equip, begun whenever a piece   *)
(* of gear turns up that nobody has seen, and each harvest, which puts on  *)
(* its tool before the walk and makes sure of it again after the walk.     *)
(* Both go through one queue.  Both plan on what the packets have shown,   *)
(* which may be long out of date, and ask the chain for the owner of what  *)
(* they touch before they send.                                            *)
(*                                                                         *)
(* A harvest may be ambushed: the verdict roots the character until a      *)
(* transaction of its own opens the fight.                                 *)
(*                                                                         *)
(* Every slot takes a category of its own: the pairs of slots that share a *)
(* category (relics) and what they add to plan_loadout are left out.       *)
(***************************************************************************)
EXTENDS Integers, Sequences, FiniteSets

CONSTANTS
  Order,        \* the members, leader first: the order of equip_targets
  Items,
  Slots, Tool,  \* Tool: the slot of the tools
  SlotOf,       \* the slot an item fits
  Kind,         \* the category of an item; for a tool, its gathering job
  Power,        \* item_power, by item
  Worn,         \* what the members wear to begin with: [slot -> item]
  Lies,         \* what lies in the kiosk to begin with
  Jobs,         \* the jobs each member harvests for (its chore)
  Fighters,     \* the members that are ambushed, or seated in a fight (bound)
  None

Members == {Order[n] : n \in 1 .. Len(Order)}

ASSUME OutfitAssumption ==
  /\ IsFiniteSet(Items) /\ None \notin Items
  /\ Tool \in Slots /\ Lies \subseteq Items /\ Fighters \subseteq Members
  /\ Order \in Seq(Members) \ {<<>>} /\ Cardinality(Members) = Len(Order)
  /\ SlotOf \in [Items -> Slots] /\ Power \in [Items -> Nat]
  /\ Worn \in [Members -> [Slots -> Items \cup {None}]]
  /\ \A m \in Members, s \in Slots : Worn[m][s] # None => SlotOf[Worn[m][s]] = s
  /\ \A m \in Members : None \notin Jobs[m]

VARIABLES
  (* the chain *)
  own,          \* by member: what it wears, whether it fights, its verdict
  held,         \* the items there are, worn or in the kiosk
  (* the projection *)
  row, bag,     \* the same, as far as packets have brought it
  (* memories of the process *)
  settle,       \* equip_settling: the members whose equips are parked
  recent,       \* recent_tool_swaps: the job of the tool swapped in lately
  hush,         \* ambush_resolution_retry_at: not yet to be resolved again
  known,        \* seen_gear_ids
  (* control *)
  queue,        \* equipment_queue: its tasks, the running one first
  pc, job,      \* the harvest of each member
  round,        \* the round of auto-equip; round.pc = "off": equip_running
  asked,        \* equip_requested
  due           \* history: the members gear turned up for that no round tried

chain == <<own, held>>
shown == <<row, bag>>
memos == <<settle, recent, hush>>
vars == <<chain, shown, memos, known, queue, pc, job, round, asked, due>>

Maybe(S) == S \cup {None}

\* No round, or the first look of one.
Off == [pc |-> "off", at |-> 0, claimed |-> {}, blocked |-> FALSE, wear |-> {}]
First == [Off EXCEPT !.pc = "looking", !.at = 1]

HarvestOf(m) == [for |-> "harvest", who |-> m]
GearOf(m) == [for |-> "gear", who |-> m]

Sheet(g) == [gear |-> g, fight |-> FALSE, verdict |-> FALSE]

Init ==
  /\ own = [m \in Members |-> Sheet(Worn[m])] /\ row = own
  /\ held = Lies \cup ({Worn[m][s] : m \in Members, s \in Slots} \ {None})
  /\ bag = held /\ known = {}
  /\ settle = {} /\ hush = {}
  /\ recent = [m \in Members |-> None]
  /\ queue = <<>> /\ round = Off /\ asked = FALSE
  /\ pc = [m \in Members |-> "idle"] /\ job = [m \in Members |-> None]
  /\ due = {}

---------------------------------------------------------------------------
(* The chain's equip.                                                      *)

Wears(m, i) == \E s \in Slots : own[m].gear[s] = i
InKiosk(i) == i \in held /\ ~\E m \in Members : Wears(m, i)

(* One transaction takes off the items of off and puts on those of on.  It *)
(* is all or nothing: what comes off must be worn, what goes on must lie   *)
(* in the kiosk, its slot must be free, and a fighter has left the kiosk.  *)
Bare(m, off) == {s \in Slots : own[m].gear[s] \in off \cup {None}}
Occupied(m, on, off) == \E i \in on : SlotOf[i] \notin Bare(m, off)
Equips(m, on, off) ==
  /\ ~own[m].fight
  /\ \A i \in off : Wears(m, i)
  /\ \A i \in on : InKiosk(i)
  /\ ~Occupied(m, on, off)

Dressed(m, on, off) ==
  [s \in Slots |-> IF \E i \in on : SlotOf[i] = s
                   THEN CHOOSE i \in on : SlotOf[i] = s
                   ELSE IF s \in Bare(m, off) THEN None ELSE own[m].gear[s]]

Dress(m, on, off) ==
  own' = IF Equips(m, on, off)
         THEN [own EXCEPT ![m].gear = Dressed(m, on, off)] ELSE own

(* The ownership check, with what it finds wrong.  A read that fails       *)
(* altogether vetoes nothing: `blind' stands for it.                       *)
AlreadyWorn(m, on) == {i \in on : Wears(m, i)}
StaleUnequip(m, off) == {i \in off : ~Wears(m, i)}
VerdictOk(m, on, off, blind) ==
  blind \/ (StaleUnequip(m, off) = {} /\ \A i \in on : InKiosk(i))

---------------------------------------------------------------------------
(* What the projection offers.                                             *)

Shows(m) == {row[m].gear[s] : s \in Slots} \ {None}
Unavailable == UNION {Shows(m) : m \in Members}
ToolShown(m) == row[m].gear[Tool]

\* tool_ready: shown as worn, or as lying in the kiosk.
ToolReady(m, j) ==
  \/ \E i \in Shows(m) : Kind[i] = j
  \/ \E i \in bag \ Unavailable : Kind[i] = j

\* plan_loadout: one item for each slot, the most powerful that is not
\* somebody else's or claimed.  A tool that will do is kept.
Pool(m, claimed) ==
  (bag \ ((Unavailable \ Shows(m)) \cup claimed)) \cup Shows(m)
Wanted(m) == IF Cardinality(Jobs[m]) = 1 THEN Jobs[m] ELSE {Kind[i] : i \in Items}
Choice(m, s, pool) ==
  LET fit == {i \in pool : SlotOf[i] = s /\ (s = Tool => Kind[i] \in Wanted(m))}
  IN  IF s = Tool /\ ToolShown(m) # None /\ Kind[ToolShown(m)] \in Wanted(m)
      THEN ToolShown(m)
      ELSE IF fit = {} THEN None
      ELSE CHOOSE i \in fit : \A other \in fit : Power[other] <= Power[i]
Loadout(m, claimed) == [s \in Slots |-> Choice(m, s, Pool(m, claimed))]

\* equip_plan: the slots whose choice is not what is shown there.
Changes(m, claimed) ==
  {s \in Slots : Loadout(m, claimed)[s] \notin {None, row[m].gear[s]}}
ToEquip(m, claimed) == {Loadout(m, claimed)[s] : s \in Changes(m, claimed)}
ToUnequip(m, claimed) == {row[m].gear[s] : s \in Changes(m, claimed)} \ {None}

---------------------------------------------------------------------------
(* The queue: create_serial_queue.  A task that fails is released too.     *)

Runs(task) == queue # <<>> /\ Head(queue) = task
Enters(task) == queue' = Append(queue, task)
Leaves == queue' = Tail(queue)
HandsOver(task) == queue' = Append(Tail(queue), task)

---------------------------------------------------------------------------
(* A harvest: gather_once.                                                 *)

Pc(m, p) ==
  /\ pc' = [pc EXCEPT ![m] = p]
  /\ job' = IF p \in {"idle", "resolving"} THEN [job EXCEPT ![m] = None] ELSE job

\* The pass of m comes to its chore: it fights nothing, no verdict waits for
\* it, and some live pack asks for a tool it has.
Begin(m) ==
  /\ pc[m] = "idle" /\ ~row[m].fight /\ ~row[m].verdict
  /\ \E j \in Jobs[m] :
       /\ ToolReady(m, j)
       /\ job' = [job EXCEPT ![m] = j]
  /\ hush' = hush \ {m}
  /\ pc' = [pc EXCEPT ![m] = "readying"] /\ Enters(HarvestOf(m))
  /\ UNCHANGED <<chain, shown, settle, recent, known, round, asked, due>>

\* ensure_tool, in three parts: the tool that is shown will do, ...
Verified(m, blind) ==
  /\ ToolShown(m) # None /\ Kind[ToolShown(m)] = job[m]
  /\ blind \/ Wears(m, ToolShown(m))
\* ... or it is shown wrongly, or another one is shown; a recent swap will do,
Stale(m) ==
  IF ToolShown(m) # None /\ Kind[ToolShown(m)] = job[m] THEN {ToolShown(m)} ELSE {}

\* A bug: a recent swap is trusted whatever tool it put on.
TrustsAnySwap(m) == Stale(m) = {} /\ recent[m] # None

Trusted(m) == Stale(m) = {} /\ recent[m] = job[m]
\* ... or else there may be one to swap in.
Spare(m) == {i \in bag \ (Unavailable \ Stale(m)) : SlotOf[i] = Tool /\ Kind[i] = job[m]}
Shed(m) == {ToolShown(m)} \ {None}

Forgets(m) ==
  recent' = IF Stale(m) = {} THEN recent ELSE [recent EXCEPT ![m] = None]

LacksTool(m) == Pc(m, "idle") /\ Leaves /\ own' = own

\* The pass is satisfied of the tool: before the walk it sets out, ...
SetsOut(m) == Pc(m, "walking") /\ Leaves /\ own' = own
\* ... after it it harvests.  An ambush is resolved outside the lock.
Worked(m) == own[m].gear[Tool] # None /\ Kind[own[m].gear[Tool]] = job[m]
Harvest(m, sure) ==
  \/ LacksTool(m)                                   \* refused, or no ambush
  \/ /\ ~own[m].fight /\ ~Worked(m)
     /\ Pc(m, IF sure THEN "betrayed" ELSE "toolless") /\ UNCHANGED <<own, queue>>
  \/ /\ ~own[m].fight /\ Worked(m) /\ m \in Fighters
     /\ own' = [own EXCEPT ![m].verdict = TRUE]
     /\ Pc(m, IF m \in hush THEN "idle" ELSE "resolving") /\ Leaves

HasTool(m, sure) ==
  IF pc[m] \in {"readying", "swapped"} THEN SetsOut(m) ELSE Harvest(m, sure)

Ensure(m) ==
  /\ pc[m] \in {"readying", "asserting"} /\ Runs(HarvestOf(m))
  /\ \E blind \in BOOLEAN :
       \/ /\ Verified(m, blind) /\ HasTool(m, ~blind)
          /\ UNCHANGED <<settle, recent>>
       \/ /\ ~Verified(m, blind) /\ Trusted(m) /\ HasTool(m, TRUE)
          /\ UNCHANGED <<settle, recent>>
       \/ /\ ~Verified(m, blind) /\ ~Trusted(m) /\ Forgets(m)
          /\ m \in settle \/ Spare(m) = {}
          /\ LacksTool(m) /\ UNCHANGED settle
       \/ /\ ~Verified(m, blind) /\ ~Trusted(m) /\ m \notin settle
          /\ \E i \in Spare(m) :
               \/ /\ ~blind /\ AlreadyWorn(m, {i}) # {}
                  /\ recent' = [recent EXCEPT ![m] = job[m]]
                  /\ HasTool(m, TRUE) /\ UNCHANGED settle
               \/ /\ blind \/ AlreadyWorn(m, {i}) = {}
                  /\ ~VerdictOk(m, {i}, Shed(m), blind)
                  /\ Forgets(m) /\ settle' = settle \cup {m}
                  /\ LacksTool(m)
               \/ /\ VerdictOk(m, {i}, Shed(m), blind)
                  /\ Forgets(m) /\ Dress(m, {i}, Shed(m))
                  /\ IF Equips(m, {i}, Shed(m))
                     THEN /\ UNCHANGED queue
                          /\ Pc(m, IF pc[m] = "readying" THEN "swapped" ELSE "reswapped")
                     ELSE Pc(m, "idle") /\ Leaves
                  /\ UNCHANGED settle
  /\ UNCHANGED <<held, shown, hush, known, round, asked, due>>

\* The answer to the swap of ensure_tool.
Swapped(m) ==
  /\ pc[m] \in {"swapped", "reswapped"}
  /\ recent' = [recent EXCEPT ![m] = job[m]] /\ settle' = settle \cup {m}
  /\ HasTool(m, TRUE)
  /\ UNCHANGED <<held, shown, hush, known, round, asked, due>>

\* The walk to the pack; it may pause, and the chain may not prove the leg.
WalkEnds(m) ==
  /\ pc[m] = "walking"
  /\ \/ Pc(m, "asserting") /\ Enters(HarvestOf(m))
     \/ Pc(m, "idle") /\ UNCHANGED queue
  /\ UNCHANGED <<chain, shown, memos, known, round, asked, due>>

\* The chain finds another tool, or none (2203).
Toolless(m) ==
  /\ pc[m] \in {"toolless", "betrayed"} /\ Pc(m, "idle") /\ Leaves
  /\ recent' = [recent EXCEPT ![m] = None] /\ settle' = settle \cup {m}
  /\ UNCHANGED <<chain, shown, hush, known, round, asked, due>>

\* resolve_pending_ambush, in the pass of a character that does not fight.
ResolvePending(m) ==
  /\ pc[m] = "idle" /\ row[m].verdict /\ ~row[m].fight /\ m \notin hush
  /\ Pc(m, "resolving")
  /\ UNCHANGED <<chain, shown, memos, known, queue, round, asked, due>>

\* resolve_protector: the fight opens, or the call fails, or the verdict is
\* cleared already (2207).
Resolves(m) ==
  /\ pc[m] = "resolving" /\ own[m].verdict
  /\ own' = [own EXCEPT ![m].verdict = FALSE, ![m].fight = TRUE]
  /\ hush' = hush \cup {m} /\ Pc(m, "idle")
  /\ UNCHANGED <<held, shown, settle, recent, known, queue, round, asked, due>>

ResolveFails(m) ==
  /\ pc[m] = "resolving"
  /\ hush' = hush \cup {m} /\ Pc(m, "idle")
  /\ UNCHANGED <<chain, shown, settle, recent, known, queue, round, asked, due>>

---------------------------------------------------------------------------
(* Auto-equip: take_gear_trigger, run_auto_equip, auto_equip_party.        *)

\* A pass meets gear it has never seen, and asks for a round.  A request
\* while one runs is kept for after it.
Notice ==
  /\ bag \ known # {} /\ known' = bag
  /\ due' = Members
  /\ IF round.pc # "off" THEN asked' = TRUE /\ UNCHANGED <<round, queue>>
     ELSE round' = First /\ Enters(GearOf(Order[1])) /\ asked' = FALSE
  /\ UNCHANGED <<chain, shown, memos, pc, job>>

\* A bug: a round that could not dress everybody is over all the same.
DropsTheBlocked(r) ==
  IF r.at < Len(Order)
  THEN /\ round' = [r EXCEPT !.at = @ + 1, !.pc = "looking", !.wear = {}]
       /\ HandsOver(GearOf(Order[r.at + 1])) /\ UNCHANGED asked
  ELSE IF asked
  THEN round' = First /\ asked' = FALSE /\ HandsOver(GearOf(Order[1]))
  ELSE round' = Off /\ Leaves /\ UNCHANGED asked

\* The end of a look at one member: on to the next one, to sleep when somebody
\* was blocked, to another round when one was asked for, or home.
Next_(r) ==
  IF r.at < Len(Order)
  THEN /\ round' = [r EXCEPT !.at = @ + 1, !.pc = "looking", !.wear = {}]
       /\ HandsOver(GearOf(Order[r.at + 1])) /\ UNCHANGED asked
  ELSE IF r.blocked
  THEN round' = [Off EXCEPT !.pc = "sleeping"] /\ asked' = TRUE /\ Leaves
  ELSE IF asked
  THEN round' = First /\ asked' = FALSE /\ HandsOver(GearOf(Order[1]))
  ELSE round' = Off /\ Leaves /\ UNCHANGED asked

\* A member that fights, or whose last change has not shown yet, is blocked.
Blocked(m) == row[m].fight \/ m \in settle

Look ==
  /\ round.pc = "looking"
  /\ LET m == Order[round.at]
         on == ToEquip(m, round.claimed)
         off == ToUnequip(m, round.claimed)
     IN /\ Runs(GearOf(m))
        /\ \/ /\ Blocked(m)
              /\ Next_([round EXCEPT !.blocked = TRUE])
              /\ UNCHANGED <<own, settle, due>>
           \/ /\ ~Blocked(m) /\ on = {}
              /\ due' = due \ {m}
              /\ Next_(round) /\ UNCHANGED <<own, settle>>
           \/ /\ ~Blocked(m) /\ on # {}
              /\ \E blind \in BOOLEAN :
                   LET left == IF blind THEN off ELSE off \ StaleUnequip(m, off)
                   IN  IF VerdictOk(m, on, left, blind)
                          THEN /\ Dress(m, on, left)
                               /\ round' = [round EXCEPT !.wear = on,
                                    !.pc = IF Equips(m, on, left) THEN "dressed"
                                           ELSE IF Occupied(m, on, left)
                                           THEN "occupied" ELSE "failed"]
                               /\ UNCHANGED <<settle, due, queue, asked>>
                          ELSE /\ settle' = settle \cup {m}
                               /\ Next_([round EXCEPT !.blocked = TRUE,
                                                      !.claimed = @ \cup on])
                               /\ UNCHANGED <<own, due>>
  /\ UNCHANGED <<held, shown, recent, hush, known, pc, job>>

\* The answer to its transaction.  Only an occupied slot is tried again.
Dressed_ ==
  /\ round.pc \in {"dressed", "occupied", "failed"}
  /\ LET m == Order[round.at]
         claims == IF round.pc = "failed" THEN {} ELSE round.wear
     IN /\ settle' = IF round.pc = "failed" THEN settle ELSE settle \cup {m}
        /\ due' = IF round.pc = "occupied" THEN due ELSE due \ {m}
        /\ Next_([round EXCEPT !.claimed = @ \cup claims,
                               !.blocked = @ \/ round.pc = "occupied"])
  /\ UNCHANGED <<chain, shown, recent, hush, known, pc, job>>

WakesUp ==
  /\ round.pc = "sleeping"
  /\ round' = First /\ asked' = FALSE /\ Enters(GearOf(Order[1]))
  /\ UNCHANGED <<chain, shown, memos, known, pc, job, due>>

---------------------------------------------------------------------------
(* The world around.                                                       *)

\* Gear drops into the kiosk.
Drops(i) ==
  /\ i \notin held /\ held' = held \cup {i}
  /\ UNCHANGED <<own, shown, memos, known, queue, pc, job, round, asked, due>>

\* The character is seated in a fight of the party, and leaves its fight.
JoinsFight(m) ==
  /\ m \in Fighters
  /\ pc[m] = "idle" /\ ~row[m].fight /\ ~own[m].fight /\ ~own[m].verdict
  /\ own' = [own EXCEPT ![m].fight = TRUE]
  /\ UNCHANGED <<held, shown, memos, known, queue, pc, job, round, asked, due>>
FightEnds(m) ==
  /\ own[m].fight /\ own' = [own EXCEPT ![m].fight = FALSE]
  /\ UNCHANGED <<held, shown, memos, known, queue, pc, job, round, asked, due>>

\* Packets: the whole roster (packet/characters), the whole inventory.
RosterArrives ==
  /\ row # own /\ row' = own
  /\ UNCHANGED <<chain, bag, memos, known, queue, pc, job, round, asked, due>>
BagArrives ==
  /\ bag # held /\ bag' = held
  /\ UNCHANGED <<chain, row, memos, known, queue, pc, job, round, asked, due>>

\* Clocks.  The window of a swap is over before that of the settling it began
\* with (both are EQUIP_SETTLE_MS).
RecentEnds(m) ==
  /\ recent[m] # None /\ recent' = [recent EXCEPT ![m] = None]
  /\ UNCHANGED <<chain, shown, settle, hush, known, queue, pc, job, round, asked, due>>
SettleEnds(m) ==
  /\ m \in settle /\ recent[m] = None /\ settle' = settle \ {m}
  /\ UNCHANGED <<chain, shown, recent, hush, known, queue, pc, job, round, asked, due>>
HushEnds(m) ==
  /\ m \in hush /\ hush' = hush \ {m}
  /\ UNCHANGED <<chain, shown, settle, recent, known, queue, pc, job, round, asked, due>>

Harvests(m) ==
  \/ Begin(m) \/ Ensure(m) \/ Swapped(m) \/ WalkEnds(m) \/ Toolless(m)
  \/ ResolvePending(m) \/ Resolves(m) \/ ResolveFails(m)

Next ==
  \/ \E m \in Members :
       \/ Harvests(m)
       \/ JoinsFight(m) \/ FightEnds(m)
       \/ RecentEnds(m) \/ SettleEnds(m) \/ HushEnds(m)
  \/ \E i \in Items : Drops(i)
  \/ RosterArrives \/ BagArrives \/ Notice \/ Look \/ Dressed_ \/ WakesUp

Spec == Init /\ [][Next]_vars

\* Every await ends, packets arrive, clocks run, fights end, and a resolution is
\* not refused for ever.
Goes(m) ==
  \/ Ensure(m) \/ Swapped(m) \/ WalkEnds(m) \/ Toolless(m)
  \/ ResolvePending(m) \/ Resolves(m) \/ ResolveFails(m)

FairSpec ==
  /\ Spec
  /\ WF_vars(RosterArrives) /\ WF_vars(BagArrives \/ Notice)
  /\ WF_vars(Look \/ Dressed_ \/ WakesUp)
  /\ \A m \in Members :
       /\ WF_vars(Goes(m))
       /\ WF_vars(RecentEnds(m) \/ SettleEnds(m))
  /\ \A m \in Fighters :
       SF_vars(Resolves(m)) /\ WF_vars(FightEnds(m)) /\ WF_vars(HushEnds(m))

---------------------------------------------------------------------------
(* Properties.                                                             *)

(* After the walk the tool is asserted under the lock of the harvest itself *)
(* (gather.ts:369-380), so that no slot swapped meanwhile makes the chain   *)
(* refuse it (2203): it is refused only when the ownership check could not  *)
(* read the chain, whatever the packets show and whatever is remembered of  *)
(* recent swaps.                                                            *)
GathersWithTool == \A m \in Members : pc[m] # "betrayed"

(* Gear that turns up is tried for every member in the end, though the     *)
(* member fights or settles when it is first looked at, and though it turns *)
(* up while a round runs (session.ts:659-686); and a fired verdict is      *)
(* resolved in the end, though the first call fails (gather.ts:159).       *)
NothingForgotten ==
  /\ \A m \in Members : m \in due ~> (m \notin due \/ Blocked(m))
  /\ \A m \in Fighters : own[m].verdict ~> ~own[m].verdict
=============================================================================
