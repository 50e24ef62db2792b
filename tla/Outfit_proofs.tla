--------------------------- MODULE Outfit_proofs ---------------------------
(***************************************************************************)
(* Proofs about Outfit, for any party, any items and slots, whatever the   *)
(* members wear to begin with and whichever jobs they harvest for.         *)
(***************************************************************************)
EXTENDS Outfit, FiniteSetTheorems, WellFoundedInduction, TLAPS

(* The inductive invariant, in named parts. *)

Sheets == [gear : [Slots -> Items \cup {None}], fight : BOOLEAN, verdict : BOOLEAN]

Tasks == [for : {"harvest", "gear"}, who : Members]

Typed ==
  /\ own \in [Members -> Sheets] /\ row \in [Members -> Sheets]
  /\ held \subseteq Items /\ bag \subseteq Items
  /\ pc = [m \in Members |-> pc[m]] /\ job = [m \in Members |-> job[m]]
  /\ recent = [m \in Members |-> recent[m]]
  /\ queue \in Seq(Tasks)
  /\ round = [pc |-> round.pc, at |-> round.at, claimed |-> round.claimed,
              blocked |-> round.blocked, wear |-> round.wear]
  /\ round.pc \notin {"off", "sleeping"} => round.at \in 1 .. Len(Order)

(* What is worn fits the slot it is worn in, and what is shown did. *)
GearFits ==
  \A m \in Members, s \in Slots :
    /\ own[m].gear[s] # None => SlotOf[own[m].gear[s]] = s
    /\ row[m].gear[s] # None => SlotOf[row[m].gear[s]] = s

(* A harvest past its beginning is for a job of its member. *)
Busy == {"readying", "swapped", "walking", "asserting", "reswapped", "toolless", "betrayed"}
JobChosen == \A m \in Members : pc[m] \in Busy => job[m] \in Jobs[m]

(* A tool just swapped in is worn when the answer comes; a swap remembered is
   of a tool worn still, unless the next swap is under way. *)
Swapping == {"swapped", "reswapped"}
SwapsHold ==
  \A m \in Members :
    IF pc[m] \in Swapping
    THEN Worked(m)
    ELSE recent[m] # None =>
           /\ recent[m] \in Jobs[m]
           /\ own[m].gear[Tool] # None /\ Kind[own[m].gear[Tool]] = recent[m]

(* Whoever awaits the answer to an equip, or to a gather, runs in the queue. *)
Awaiting == Swapping \cup {"toolless", "betrayed"}
QueueRuns ==
  /\ \A m \in Members : pc[m] \in Awaiting => Runs(HarvestOf(m))
  /\ round.pc \in {"dressed", "occupied", "failed"} => Runs(GearOf(Order[round.at]))

IInv == Typed /\ GearFits /\ JobChosen /\ SwapsHold /\ QueueRuns /\ GathersWithTool

-----------------------------------------------------------------------------
USE DEF vars, chain, shown, memos

LEMMA OrderTyped ==
  /\ Len(Order) \in Nat /\ 1 \in 1 .. Len(Order)
  /\ \A n \in 1 .. Len(Order) : Order[n] \in Members
<1>1. Order \in Seq(Members) /\ Order # <<>>
  BY OutfitAssumption
<1>2. Len(Order) \in Nat /\ Len(Order) # 0
  BY <1>1
<1> QED
  BY <1>2 DEF Members

LEMMA TasksTyped ==
  /\ \A m \in Members : HarvestOf(m) \in Tasks /\ GearOf(m) \in Tasks
  /\ \A m, n \in Members : HarvestOf(m) = HarvestOf(n) => m = n
  /\ \A m, n \in Members : HarvestOf(m) # GearOf(n)
  BY DEF Tasks, HarvestOf, GearOf

LEMMA InitEstablishesIInv == Init => IInv
<1> SUFFICES ASSUME Init PROVE IInv
  OBVIOUS
<1>1. own \in [Members -> Sheets] /\ held \subseteq Items
  BY OutfitAssumption DEF Init, Sheet, Sheets
<1>2. Typed
  BY <1>1 DEF Init, Typed, Off
<1>3. GearFits
  BY OutfitAssumption DEF Init, GearFits, Sheet
<1>4. JobChosen /\ SwapsHold /\ QueueRuns /\ GathersWithTool
  BY DEF Init, JobChosen, Busy, SwapsHold, Swapping, QueueRuns, Awaiting, GathersWithTool, Off
<1> QED
  BY <1>2, <1>3, <1>4 DEF IInv

(* The case analysis on a step, used by the lemmas below. *)
LEMMA NextCases ==
  ASSUME [Next]_vars
  PROVE  \/ \E m \in Members :
              \/ Begin(m) \/ Ensure(m) \/ Swapped(m) \/ WalkEnds(m) \/ Toolless(m)
              \/ ResolvePending(m) \/ Resolves(m) \/ ResolveFails(m)
              \/ JoinsFight(m) \/ FightEnds(m) \/ RecentEnds(m) \/ SettleEnds(m) \/ HushEnds(m)
         \/ \E i \in Items : Drops(i)
         \/ RosterArrives \/ BagArrives \/ Notice \/ Look \/ Dressed_ \/ WakesUp
         \/ UNCHANGED vars
  BY Zenon DEF Next, Harvests

-----------------------------------------------------------------------------
(* The queue. *)

(* A task that enters goes behind the one that runs. *)
LEMMA EntersKeepsHead ==
  ASSUME Typed, NEW task \in Tasks, Enters(task)
  PROVE  /\ queue' \in Seq(Tasks)
         /\ \A other : Runs(other) => Runs(other)'
<1>1. queue' = Append(queue, task) /\ queue \in Seq(Tasks)
  BY DEF Enters, Typed
<1>2. queue' \in Seq(Tasks) /\ queue' # <<>>
  BY <1>1
<1>3. ASSUME queue # <<>> PROVE Head(queue') = Head(queue)
  <2>1. Len(queue) \in Nat /\ Len(queue) # 0
    BY <1>1, <1>3
  <2>2. queue'[1] = queue[1]
    BY <1>1, <2>1
  <2> QED
    BY <1>1, <1>2, <1>3, <2>2
<1>4. ASSUME NEW other, queue # <<>> /\ Head(queue) = other
      PROVE  queue' # <<>> /\ Head(queue') = other
  BY <1>2, <1>3, <1>4
<1> QED
  BY <1>2, <1>4 DEF Runs

LEMMA LeavesTyped ==
  ASSUME Typed, NEW task, Runs(task), NEW other \in Tasks, Leaves \/ HandsOver(other)
  PROVE  queue' \in Seq(Tasks)
<1>1. queue \in Seq(Tasks) /\ queue # <<>>
  BY DEF Typed, Runs
<1>2. Tail(queue) \in Seq(Tasks)
  BY <1>1
<1> QED
  BY <1>2 DEF Leaves, HandsOver

-----------------------------------------------------------------------------
(* What an equip changes. *)

(* It dresses one member, each slot with something that fits it. *)
LEMMA DressFits ==
  ASSUME Typed, GearFits, NEW m, NEW on, NEW off, Dress(m, on, off)
  PROVE  /\ own' \in [Members -> Sheets]
         /\ \A n \in Members, s \in Slots :
              own'[n].gear[s] # None => SlotOf[own'[n].gear[s]] = s
         /\ \A n \in Members : n # m => own'[n] = own[n]
         /\ ~ Equips(m, on, off) => own' = own
<1>1. CASE ~ Equips(m, on, off) \/ m \notin Members
  BY <1>1 DEF Dress, Typed, GearFits
<1>2. CASE Equips(m, on, off) /\ m \in Members
  <2>1. /\ own' = [own EXCEPT ![m].gear = Dressed(m, on, off)]
        /\ own[m] \in Sheets /\ on \subseteq Items
    BY <1>2 DEF Dress, Typed, Equips, InKiosk
  <2>2. \A s \in Slots : /\ Dressed(m, on, off)[s] \in Items \cup {None}
                         /\ Dressed(m, on, off)[s] # None => SlotOf[Dressed(m, on, off)[s]] = s
    <3> TAKE s \in Slots
    <3>1. CASE \E i \in on : SlotOf[i] = s
      BY <2>1, <3>1 DEF Dressed
    <3>2. CASE ~ (\E i \in on : SlotOf[i] = s) /\ s \in Bare(m, off)
      BY <3>2 DEF Dressed
    <3>3. CASE ~ (\E i \in on : SlotOf[i] = s) /\ s \notin Bare(m, off)
      BY <1>2, <2>1, <3>3 DEF Dressed, Sheets, GearFits
    <3> QED
      BY <3>1, <3>2, <3>3
  <2>3. Dressed(m, on, off) \in [Slots -> Items \cup {None}]
    BY <2>2 DEF Dressed
  <2>4. PICK sheet : sheet = [own[m] EXCEPT !.gear = Dressed(m, on, off)]
    OBVIOUS
  <2>5. sheet \in Sheets /\ sheet.gear = Dressed(m, on, off)
    BY <2>1, <2>3, <2>4 DEF Sheets
  <2>6. own' = [own EXCEPT ![m] = sheet]
    BY <2>1, <2>4
  <2>7. own' \in [Members -> Sheets] /\ own'[m] = sheet /\ \A n \in Members : n # m => own'[n] = own[n]
    BY <1>2, <2>5, <2>6 DEF Typed
  <2> QED
    BY <1>2, <2>2, <2>5, <2>7 DEF GearFits
<1> QED
  BY <1>1, <1>2

(* A tool stays where it is unless the equip names it among what comes off. *)
LEMMA DressKeepsTool ==
  ASSUME Typed, NEW m \in Members, NEW on, NEW off, Dress(m, on, off),
         own[m].gear[Tool] # None, own[m].gear[Tool] \notin off
  PROVE  own'[m].gear[Tool] = own[m].gear[Tool]
<1>1. CASE ~ Equips(m, on, off)
  BY <1>1 DEF Dress
<1>2. CASE Equips(m, on, off)
  <2>1. Tool \in Slots /\ Tool \notin Bare(m, off)
    BY OutfitAssumption DEF Bare
  <2>2. \A i \in on : SlotOf[i] # Tool
    BY <1>2, <2>1 DEF Equips, Occupied
  <2>3. Dressed(m, on, off)[Tool] = own[m].gear[Tool]
    BY <2>1, <2>2 DEF Dressed
  <2> QED
    BY <1>2, <2>3 DEF Dress, Typed, Sheets
<1> QED
  BY <1>1, <1>2

(* A tool that goes on is worn. *)
LEMMA DressPutsTool ==
  ASSUME Typed, NEW m \in Members, NEW i, NEW off, SlotOf[i] = Tool,
         Equips(m, {i}, off), Dress(m, {i}, off)
  PROVE  own'[m].gear[Tool] = i /\ i \in Items
<1>1. Tool \in Slots /\ i \in Items
  BY OutfitAssumption DEF Equips, InKiosk, Typed
<1>2. Dressed(m, {i}, off)[Tool] = i
  BY <1>1 DEF Dressed
<1> QED
  BY <1>1, <1>2 DEF Dress, Typed, Sheets

-----------------------------------------------------------------------------
(* The steps of a harvest. *)

(* What may be remembered of the swaps of m when its step does not swap. *)
Recalls(m, v) ==
  \/ v = None
  \/ v = recent[m] /\ pc[m] \notin Swapping
  \/ v = job[m] /\ pc[m] \in Busy /\ Worked(m)

(* How the queue follows a step of m to p. *)
Queues(m, p) ==
  \/ Enters(HarvestOf(m)) /\ p \notin Awaiting
  \/ UNCHANGED queue /\ (p \in Awaiting => Runs(HarvestOf(m)))
  \/ Leaves /\ Runs(HarvestOf(m)) /\ p \notin Awaiting

(* Any step of the harvest of m: to p, for job j, with v remembered. *)
LEMMA HarvestStep ==
  ASSUME IInv, NEW m \in Members, NEW p, NEW j, NEW v,
         pc' = [pc EXCEPT ![m] = p], job' = [job EXCEPT ![m] = j],
         recent' = [recent EXCEPT ![m] = v],
         p # "betrayed", p \in Busy => j \in Jobs[m],
         own' \in [Members -> Sheets],
         \A s \in Slots : own'[m].gear[s] # None => SlotOf[own'[m].gear[s]] = s,
         \A n \in Members : n # m => own'[n].gear = own[n].gear,
         p \in Swapping => own'[m].gear[Tool] # None /\ Kind[own'[m].gear[Tool]] = j,
         p \notin Swapping => own'[m].gear = own[m].gear /\ Recalls(m, v),
         Queues(m, p), UNCHANGED <<held, row, bag, round>>
  PROVE  IInv'
<1>0. /\ pc'[m] = p /\ job'[m] = j /\ recent'[m] = v
      /\ \A n \in Members : n # m => pc'[n] = pc[n] /\ job'[n] = job[n] /\ recent'[n] = recent[n]
  BY DEF IInv, Typed
<1>1. Typed'
  <2>1. queue' \in Seq(Tasks)
    <3>1. CASE Enters(HarvestOf(m))
      BY <3>1, EntersKeepsHead, TasksTyped DEF IInv
    <3>2. CASE UNCHANGED queue
      BY <3>2 DEF IInv, Typed
    <3>3. CASE Leaves /\ Runs(HarvestOf(m))
      BY <3>3, LeavesTyped, TasksTyped DEF IInv
    <3> QED
      BY <3>1, <3>2, <3>3 DEF Queues
  <2>2. /\ pc' = [n \in Members |-> pc'[n]] /\ job' = [n \in Members |-> job'[n]]
        /\ recent' = [n \in Members |-> recent'[n]]
    BY DEF IInv, Typed
  <2> QED
    BY <2>1, <2>2 DEF IInv, Typed
<1>2. GearFits'
  <2> SUFFICES ASSUME NEW n \in Members, NEW s \in Slots
               PROVE  /\ own'[n].gear[s] # None => SlotOf[own'[n].gear[s]] = s
                      /\ row'[n].gear[s] # None => SlotOf[row'[n].gear[s]] = s
    BY DEF GearFits
  <2> QED
    BY DEF IInv, GearFits
<1>3. JobChosen'
  BY <1>0 DEF IInv, JobChosen
<1>4. SwapsHold'
  <2> SUFFICES ASSUME NEW n \in Members
               PROVE  IF pc'[n] \in Swapping
                      THEN own'[n].gear[Tool] # None /\ Kind[own'[n].gear[Tool]] = job'[n]
                      ELSE recent'[n] # None =>
                             /\ recent'[n] \in Jobs[n]
                             /\ own'[n].gear[Tool] # None
                             /\ Kind[own'[n].gear[Tool]] = recent'[n]
    BY DEF SwapsHold, Worked
  <2>1. CASE n # m
    BY <1>0, <2>1 DEF IInv, SwapsHold, Worked
  <2>2. CASE n = m /\ p \in Swapping
    BY <1>0, <2>2
  <2>3. CASE n = m /\ p \notin Swapping
    BY <1>0, <2>3 DEF IInv, SwapsHold, Worked, Recalls, JobChosen
  <2> QED
    BY <2>1, <2>2, <2>3
<1>5. QueueRuns'
  <2>1. CASE Enters(HarvestOf(m)) /\ p \notin Awaiting
    <3>1. \A other : Runs(other) => Runs(other)'
      BY <2>1, EntersKeepsHead, TasksTyped DEF IInv
    <3>2. \A n \in Members : pc'[n] \in Awaiting => Runs(HarvestOf(n))
      BY <1>0, <2>1 DEF IInv, QueueRuns
    <3>3. round'.pc \in {"dressed", "occupied", "failed"} => Runs(GearOf(Order[round'.at]))
      BY DEF IInv, QueueRuns
    <3> QED
      BY <3>1, <3>2, <3>3 DEF QueueRuns, HarvestOf, GearOf
  <2>2. CASE UNCHANGED queue /\ (p \in Awaiting => Runs(HarvestOf(m)))
    BY <1>0, <2>2 DEF IInv, QueueRuns, Runs, HarvestOf, GearOf
  <2>3. CASE Leaves /\ Runs(HarvestOf(m)) /\ p \notin Awaiting
    <3>1. \A n \in Members : pc'[n] \notin Awaiting
      BY <1>0, <2>3, TasksTyped DEF IInv, QueueRuns, Runs
    <3>2. round'.pc \notin {"dressed", "occupied", "failed"}
      <4>1. round.pc \in {"dressed", "occupied", "failed"} => Order[round.at] \in Members
        BY OrderTyped DEF IInv, Typed
      <4> QED
        BY <2>3, <4>1, TasksTyped DEF IInv, QueueRuns, Runs
    <3> QED
      BY <3>1, <3>2 DEF QueueRuns
  <2> QED
    BY <2>1, <2>2, <2>3 DEF Queues
<1>6. GathersWithTool'
  BY <1>0 DEF IInv, GathersWithTool
<1> QED
  BY <1>1, <1>2, <1>3, <1>4, <1>5, <1>6 DEF IInv

(* A step that changes at most the fight of m. *)
LEMMA GearStays ==
  ASSUME IInv, NEW m \in Members, NEW fight \in BOOLEAN, NEW verdict \in BOOLEAN,
         \/ own' = own
         \/ own' = [own EXCEPT ![m].fight = fight]
         \/ own' = [own EXCEPT ![m].verdict = verdict]
         \/ own' = [own EXCEPT ![m].verdict = verdict, ![m].fight = fight]
  PROVE  /\ own' \in [Members -> Sheets]
         /\ \A n \in Members : own'[n].gear = own[n].gear
         /\ \A s \in Slots : own'[m].gear[s] # None => SlotOf[own'[m].gear[s]] = s
<1>1. own \in [Members -> Sheets]
  BY DEF IInv, Typed
<1>2. own' \in [Members -> Sheets] /\ \A n \in Members : own'[n].gear = own[n].gear
  <2>1. CASE own' = own
    BY <1>1, <2>1
  <2>2. CASE own' = [own EXCEPT ![m].fight = fight]
    BY <1>1, <2>2 DEF Sheets
  <2>3. CASE own' = [own EXCEPT ![m].verdict = verdict]
    BY <1>1, <2>3 DEF Sheets
  <2>4. CASE own' = [own EXCEPT ![m].verdict = verdict, ![m].fight = fight]
    <3>1. own[m] \in Sheets
      BY <1>1
    <3>2. [own[m] EXCEPT !.verdict = verdict, !.fight = fight] \in Sheets
      BY <3>1 DEF Sheets
    <3>3. [own[m] EXCEPT !.verdict = verdict, !.fight = fight].gear = own[m].gear
      BY <3>1 DEF Sheets
    <3>4. own' = [own EXCEPT ![m] = [own[m] EXCEPT !.verdict = verdict, !.fight = fight]]
      BY <1>1, <2>4 DEF Sheets
    <3> QED
      BY <1>1, <3>2, <3>3, <3>4
  <2> QED
    BY <2>1, <2>2, <2>3, <2>4
<1> QED
  BY <1>2 DEF IInv, GearFits

(* A step of a harvest whose job goes as Pc says, and that dresses nobody. *)
LEMMA PlainStep ==
  ASSUME IInv, NEW m \in Members, NEW p, NEW v, Pc(m, p),
         p \notin Swapping, p # "betrayed", p \in Busy => pc[m] \in Busy,
         recent' = [recent EXCEPT ![m] = v], Recalls(m, v), Queues(m, p),
         own' \in [Members -> Sheets], \A n \in Members : own'[n].gear = own[n].gear,
         \A s \in Slots : own'[m].gear[s] # None => SlotOf[own'[m].gear[s]] = s,
         UNCHANGED <<held, row, bag, round>>
  PROVE  IInv'
<1>1. pc' = [pc EXCEPT ![m] = p]
  BY DEF Pc
<1>2. CASE p \in {"idle", "resolving"}
  BY <1>1, <1>2, HarvestStep DEF Pc, Busy
<1>3. CASE p \notin {"idle", "resolving"}
  <2>1. job' = [job EXCEPT ![m] = job[m]]
    BY <1>3 DEF Pc, IInv, Typed
  <2>2. p \in Busy => job[m] \in Jobs[m]
    BY DEF IInv, JobChosen
  <2> QED
    BY <1>1, <2>1, <2>2, HarvestStep
<1> QED
  BY <1>2, <1>3

(* The pass of m goes by the tool it wears: it lacks it, sets out or harvests. *)
LEMMA UsesTool ==
  ASSUME IInv, NEW m \in Members, NEW sure, NEW v,
         pc[m] \in {"readying", "asserting"} \cup Swapping, Runs(HarvestOf(m)),
         LacksTool(m) \/ HasTool(m, sure), sure => Worked(m),
         recent' = [recent EXCEPT ![m] = v], Recalls(m, v),
         UNCHANGED <<held, row, bag, round>>
  PROVE  IInv'
<1>0. pc[m] \in Busy
  BY DEF Busy, Swapping
<1>1. CASE LacksTool(m)
  <2>1. Pc(m, "idle") /\ Queues(m, "idle") /\ own' = own
    BY <1>1 DEF LacksTool, Queues, Awaiting, Swapping
  <2> QED
    BY <2>1, GearStays, PlainStep DEF Swapping, Busy
<1>2. CASE SetsOut(m)
  <2>1. Pc(m, "walking") /\ Queues(m, "walking") /\ own' = own
    BY <1>2 DEF SetsOut, Queues, Awaiting, Swapping
  <2> QED
    BY <1>0, <2>1, GearStays, PlainStep DEF Swapping
<1>3. CASE ~ Worked(m) /\ Pc(m, IF sure THEN "betrayed" ELSE "toolless") /\ UNCHANGED <<own, queue>>
  <2>1. Pc(m, "toolless") /\ Queues(m, "toolless") /\ own' = own
    BY <1>3 DEF Queues
  <2> QED
    BY <1>0, <2>1, GearStays, PlainStep DEF Swapping
<1>4. CASE /\ own' = [own EXCEPT ![m].verdict = TRUE]
           /\ Pc(m, IF m \in hush THEN "idle" ELSE "resolving") /\ Leaves
  <2>1. PICK p \in {"idle", "resolving"} : Pc(m, p)
    BY <1>4
  <2>2. Queues(m, p)
    BY <1>4 DEF Queues, Awaiting, Swapping
  <2>3. /\ own' \in [Members -> Sheets] /\ \A n \in Members : own'[n].gear = own[n].gear
        /\ \A s \in Slots : own'[m].gear[s] # None => SlotOf[own'[m].gear[s]] = s
    BY <1>4, GearStays
  <2> QED
    BY <2>1, <2>2, <2>3, PlainStep DEF Swapping, Busy
<1> QED
  BY <1>1, <1>2, <1>3, <1>4 DEF HasTool, Harvest

(* A tool verified, trusted or found worn is the tool of the job. *)
LEMMA ToolIsWorn ==
  ASSUME IInv, NEW m \in Members, pc[m] \in {"readying", "asserting"},
         \/ Verified(m, FALSE)
         \/ Trusted(m)
         \/ \E i \in Spare(m) : AlreadyWorn(m, {i}) # {}
  PROVE  Worked(m)
<1>1. /\ own[m] \in Sheets /\ row[m] \in Sheets /\ bag \subseteq Items /\ Tool \in Slots
      /\ \A s \in Slots : own[m].gear[s] # None => SlotOf[own[m].gear[s]] = s
      /\ \A s \in Slots : row[m].gear[s] # None => SlotOf[row[m].gear[s]] = s
  BY OutfitAssumption DEF IInv, Typed, GearFits
<1>2. CASE Verified(m, FALSE)
  BY <1>1, <1>2 DEF Verified, Wears, Worked, ToolShown
<1>3. CASE Trusted(m)
  <2>1. recent[m] = job[m] /\ job[m] # None
    BY <1>3, OutfitAssumption DEF Trusted, IInv, JobChosen, Busy
  <2> QED
    BY <2>1 DEF IInv, SwapsHold, Swapping, Worked
<1>4. CASE \E i \in Spare(m) : AlreadyWorn(m, {i}) # {}
  <2>1. PICK i \in Spare(m) : Wears(m, i)
    BY <1>4 DEF AlreadyWorn
  <2>2. i \in Items /\ SlotOf[i] = Tool /\ Kind[i] = job[m] /\ i # None
    BY <1>1, OutfitAssumption DEF Spare
  <2>3. own[m].gear[Tool] = i
    BY <1>1, <2>1, <2>2 DEF Wears
  <2> QED
    BY <2>2, <2>3 DEF Worked
<1> QED
  BY <1>2, <1>3, <1>4

LEMMA EnsureKeeps ==
  ASSUME IInv, NEW m \in Members, Ensure(m)
  PROVE  IInv'
<1>0. /\ pc[m] \in {"readying", "asserting"} /\ Runs(HarvestOf(m))
      /\ pc[m] \in Busy /\ pc[m] \notin Swapping /\ job[m] \in Jobs[m]
      /\ UNCHANGED <<held, row, bag, round>>
  BY DEF Ensure, Busy, Swapping, IInv, JobChosen
<1>1. recent = [recent EXCEPT ![m] = recent[m]] /\ Recalls(m, recent[m]) /\ Recalls(m, None)
  BY <1>0 DEF IInv, Typed, Recalls
<1>2. ASSUME Forgets(m) PROVE \E v : recent' = [recent EXCEPT ![m] = v] /\ Recalls(m, v)
  BY <1>1, <1>2 DEF Forgets
<1> PICK blind \in BOOLEAN :
       \/ Verified(m, blind) /\ HasTool(m, ~blind) /\ UNCHANGED recent
       \/ ~Verified(m, blind) /\ Trusted(m) /\ HasTool(m, TRUE) /\ UNCHANGED recent
       \/ Forgets(m) /\ LacksTool(m)
       \/ \E i \in Spare(m) :
            \/ /\ AlreadyWorn(m, {i}) # {}
               /\ recent' = [recent EXCEPT ![m] = job[m]] /\ HasTool(m, TRUE)
            \/ /\ Forgets(m) /\ Dress(m, {i}, Shed(m))
               /\ IF Equips(m, {i}, Shed(m))
                  THEN /\ UNCHANGED queue
                       /\ Pc(m, IF pc[m] = "readying" THEN "swapped" ELSE "reswapped")
                  ELSE Pc(m, "idle") /\ Leaves
  BY DEF Ensure
<1>3. CASE Verified(m, blind) /\ HasTool(m, ~blind) /\ UNCHANGED recent
  <2>1. ~ blind => Worked(m)
    BY <1>0, <1>3, ToolIsWorn
  <2> QED
    BY <1>0, <1>1, <1>3, <2>1, UsesTool
<1>4. CASE Trusted(m) /\ HasTool(m, TRUE) /\ UNCHANGED recent
  BY <1>0, <1>1, <1>4, ToolIsWorn, UsesTool
<1>5. CASE Forgets(m) /\ LacksTool(m)
  BY <1>0, <1>2, <1>5, UsesTool
<1>6. ASSUME NEW i \in Spare(m), AlreadyWorn(m, {i}) # {},
             recent' = [recent EXCEPT ![m] = job[m]], HasTool(m, TRUE)
      PROVE  IInv'
  <2>1. Worked(m)
    BY <1>0, <1>6, ToolIsWorn
  <2> QED
    BY <1>0, <1>6, <2>1, UsesTool DEF Recalls
<1>7. ASSUME NEW i \in Spare(m), Forgets(m), Dress(m, {i}, Shed(m)), Equips(m, {i}, Shed(m)),
             UNCHANGED queue, Pc(m, IF pc[m] = "readying" THEN "swapped" ELSE "reswapped")
      PROVE  IInv'
  <2>1. PICK p \in Swapping : pc' = [pc EXCEPT ![m] = p]
    BY <1>7 DEF Pc, Swapping
  <2>2. job' = [job EXCEPT ![m] = job[m]]
    BY <1>7 DEF Pc, IInv, Typed
  <2>3. own'[m].gear[Tool] = i /\ i # None /\ Kind[i] = job[m]
    <3>1. SlotOf[i] = Tool /\ Kind[i] = job[m]
      BY DEF Spare
    <3> QED
      BY <1>7, <3>1, DressPutsTool, OutfitAssumption DEF IInv
  <2>4. /\ own' \in [Members -> Sheets]
        /\ \A s \in Slots : own'[m].gear[s] # None => SlotOf[own'[m].gear[s]] = s
        /\ \A n \in Members : n # m => own'[n].gear = own[n].gear
    BY <1>7, DressFits DEF IInv
  <2>5. Queues(m, p)
    BY <1>0, <1>7 DEF Queues
  <2>6. PICK v : recent' = [recent EXCEPT ![m] = v]
    BY <1>2, <1>7
  <2> QED
    BY <1>0, <2>1, <2>2, <2>3, <2>4, <2>5, <2>6, HarvestStep DEF Swapping
<1>8. ASSUME NEW i \in Spare(m), Forgets(m), Dress(m, {i}, Shed(m)), ~ Equips(m, {i}, Shed(m)),
             Pc(m, "idle"), Leaves
      PROVE  IInv'
  <2>1. LacksTool(m)
    BY <1>8 DEF LacksTool, Dress
  <2> QED
    BY <1>0, <1>2, <1>8, <2>1, UsesTool
<1> QED
  BY <1>3, <1>4, <1>5, <1>6, <1>7, <1>8

(* Every other step of a harvest. *)
LEMMA HarvestsKeep ==
  ASSUME IInv, NEW m \in Members,
         \/ Begin(m) \/ Swapped(m) \/ WalkEnds(m) \/ Toolless(m)
         \/ ResolvePending(m) \/ Resolves(m) \/ ResolveFails(m)
  PROVE  IInv'
<1>0. recent = [recent EXCEPT ![m] = recent[m]]
  BY DEF IInv, Typed
<1>1. own' = own => /\ own' \in [Members -> Sheets]
                    /\ \A n \in Members : own'[n].gear = own[n].gear
                    /\ \A s \in Slots : own'[m].gear[s] # None => SlotOf[own'[m].gear[s]] = s
  BY GearStays
<1>2. CASE Begin(m)
  <2>1. PICK j \in Jobs[m] : job' = [job EXCEPT ![m] = j]
    BY <1>2 DEF Begin
  <2>2. /\ pc' = [pc EXCEPT ![m] = "readying"] /\ Queues(m, "readying")
        /\ recent' = [recent EXCEPT ![m] = recent[m]] /\ Recalls(m, recent[m])
        /\ own' = own /\ UNCHANGED <<held, row, bag, round>>
    BY <1>0, <1>2 DEF Begin, Queues, Recalls, Awaiting, Swapping
  <2> QED
    BY <1>1, <2>1, <2>2, HarvestStep DEF Swapping
<1>3. CASE Swapped(m)
  <2>1. /\ pc[m] \in Swapping /\ pc[m] \in Busy /\ Worked(m) /\ Runs(HarvestOf(m))
        /\ recent' = [recent EXCEPT ![m] = job[m]] /\ HasTool(m, TRUE)
        /\ UNCHANGED <<held, row, bag, round>>
    BY <1>3 DEF Swapped, Swapping, Busy, IInv, SwapsHold, QueueRuns, Awaiting
  <2> QED
    BY <2>1, UsesTool DEF Recalls
<1>4. CASE WalkEnds(m)
  <2>1. /\ recent' = [recent EXCEPT ![m] = recent[m]] /\ Recalls(m, recent[m])
        /\ own' = own /\ UNCHANGED <<held, row, bag, round>> /\ pc[m] \in Busy
    BY <1>0, <1>4 DEF WalkEnds, Recalls, Swapping, Busy
  <2>2. PICK p \in {"asserting", "idle"} : Pc(m, p) /\ Queues(m, p)
    BY <1>4 DEF WalkEnds, Queues, Awaiting, Swapping
  <2> QED
    BY <1>1, <2>1, <2>2, PlainStep DEF Swapping
<1>5. CASE Toolless(m)
  <2>1. /\ Pc(m, "idle") /\ Leaves /\ Runs(HarvestOf(m))
        /\ recent' = [recent EXCEPT ![m] = None]
        /\ own' = own /\ UNCHANGED <<held, row, bag, round>>
    BY <1>5 DEF Toolless, IInv, QueueRuns, Awaiting
  <2>2. Queues(m, "idle") /\ Recalls(m, None)
    BY <2>1 DEF Queues, Recalls, Awaiting, Swapping
  <2> QED
    BY <1>1, <2>1, <2>2, PlainStep DEF Swapping, Busy
<1>6. CASE ResolvePending(m)
  <2>1. /\ Pc(m, "resolving") /\ Queues(m, "resolving")
        /\ recent' = [recent EXCEPT ![m] = recent[m]] /\ Recalls(m, recent[m])
        /\ own' = own /\ UNCHANGED <<held, row, bag, round>>
    BY <1>0, <1>6 DEF ResolvePending, Queues, Recalls, Awaiting, Swapping
  <2> QED
    BY <1>1, <2>1, PlainStep DEF Swapping, Busy
<1>7. CASE Resolves(m) \/ ResolveFails(m)
  <2>1. /\ Pc(m, "idle") /\ Queues(m, "idle")
        /\ recent' = [recent EXCEPT ![m] = recent[m]] /\ Recalls(m, recent[m])
        /\ UNCHANGED <<held, row, bag, round>>
    BY <1>0, <1>7 DEF Resolves, ResolveFails, Queues, Recalls, Awaiting, Swapping
  <2>2. own' = own \/ own' = [own EXCEPT ![m].verdict = FALSE, ![m].fight = TRUE]
    BY <1>7 DEF Resolves, ResolveFails
  <2>3. /\ own' \in [Members -> Sheets] /\ \A n \in Members : own'[n].gear = own[n].gear
        /\ \A s \in Slots : own'[m].gear[s] # None => SlotOf[own'[m].gear[s]] = s
    BY <2>2, GearStays
  <2> QED
    BY <2>1, <2>3, PlainStep DEF Swapping, Busy
<1> QED
  BY <1>2, <1>3, <1>4, <1>5, <1>6, <1>7

-----------------------------------------------------------------------------
(* The steps of a round of auto-equip. *)

(* A round keeps a tool its member wants: the plan chooses the tool that is
   shown, and what is shown in another slot never was a tool. *)
LEMMA RoundKeepsTool ==
  ASSUME Typed, GearFits, NEW m \in Members, NEW claimed, NEW on, NEW off,
         Dress(m, on, off), off \subseteq ToUnequip(m, claimed),
         own[m].gear[Tool] # None, Kind[own[m].gear[Tool]] \in Wanted(m)
  PROVE  own'[m].gear[Tool] = own[m].gear[Tool]
<1> DEFINE tool == own[m].gear[Tool]
<1>1. Tool \in Slots /\ SlotOf[tool] = Tool
  BY OutfitAssumption DEF GearFits
<1>2. SUFFICES ASSUME tool \in off PROVE FALSE
  BY DressKeepsTool
<1>3. PICK s \in Changes(m, claimed) : row[m].gear[s] = tool
  BY <1>2 DEF ToUnequip
<1>4. s = Tool
  BY <1>1, <1>3 DEF Changes, GearFits
<1>5. Choice(m, Tool, Pool(m, claimed)) = tool
  BY <1>3, <1>4 DEF Choice, ToolShown
<1> QED
  BY <1>1, <1>3, <1>4, <1>5 DEF Changes, Loadout

LEMMA JobsAreWanted ==
  ASSUME Typed, NEW m \in Members,
         own[m].gear[Tool] # None, Kind[own[m].gear[Tool]] \in Jobs[m]
  PROVE  Kind[own[m].gear[Tool]] \in Wanted(m)
<1>1. own[m].gear[Tool] \in Items
  BY OutfitAssumption DEF Typed, Sheets
<1> QED
  BY <1>1 DEF Wanted

(* A step of the round that dresses at most one member. *)
LEMMA RoundStep ==
  ASSUME IInv, own' \in [Members -> Sheets],
         \A n \in Members, s \in Slots : own'[n].gear[s] # None => SlotOf[own'[n].gear[s]] = s,
         \A n \in Members : own[n].gear[Tool] # None /\ Kind[own[n].gear[Tool]] \in Jobs[n]
                              => own'[n].gear[Tool] = own[n].gear[Tool],
         queue' \in Seq(Tasks),
         \A n \in Members : pc[n] \in Awaiting => Runs(HarvestOf(n))',
         round' = [pc |-> round'.pc, at |-> round'.at, claimed |-> round'.claimed,
                   blocked |-> round'.blocked, wear |-> round'.wear],
         round'.pc \notin {"off", "sleeping"} => round'.at \in 1 .. Len(Order),
         round'.pc \in {"dressed", "occupied", "failed"} => Runs(GearOf(Order[round.at]))' /\ round'.at = round.at,
         UNCHANGED <<held, row, bag, recent, pc, job>>
  PROVE  IInv'
<1>1. Typed'
  BY DEF IInv, Typed
<1>2. GearFits' /\ JobChosen' /\ GathersWithTool'
  BY DEF IInv, GearFits, JobChosen, GathersWithTool
<1>3. SwapsHold'
  <2> SUFFICES ASSUME NEW n \in Members
               PROVE  IF pc[n] \in Swapping
                      THEN own'[n].gear[Tool] # None /\ Kind[own'[n].gear[Tool]] = job[n]
                      ELSE recent[n] # None =>
                             /\ recent[n] \in Jobs[n]
                             /\ own'[n].gear[Tool] # None
                             /\ Kind[own'[n].gear[Tool]] = recent[n]
    BY DEF SwapsHold, Worked
  <2>1. pc[n] \in Swapping => job[n] \in Jobs[n]
    BY DEF IInv, JobChosen, Swapping, Busy
  <2> QED
    BY <2>1 DEF IInv, SwapsHold, Worked
<1>4. QueueRuns'
  BY DEF QueueRuns, Runs, HarvestOf, GearOf
<1> QED
  BY <1>1, <1>2, <1>3, <1>4 DEF IInv

(* The end of a look hands the queue on to another look, or gives it up. *)
LEMMA LookEnds ==
  ASSUME IInv, NEW r, NEW m, Runs(GearOf(m)), Next_(r), m \in Members,
         r = [pc |-> r.pc, at |-> round.at, claimed |-> r.claimed,
              blocked |-> r.blocked, wear |-> r.wear],
         round.at \in 1 .. Len(Order)
  PROVE  /\ queue' \in Seq(Tasks)
         /\ \A n \in Members : pc[n] \notin Awaiting
         /\ round' = [pc |-> round'.pc, at |-> round'.at, claimed |-> round'.claimed,
                      blocked |-> round'.blocked, wear |-> round'.wear]
         /\ round'.pc \in {"off", "sleeping", "looking"}
         /\ round'.pc = "looking" => round'.at \in 1 .. Len(Order)
<1>0. \A n \in Members : pc[n] \notin Awaiting
  BY TasksTyped DEF IInv, QueueRuns, Runs
<1>1. CASE r.at < Len(Order)
  <2>1. r.at + 1 \in 1 .. Len(Order) /\ r.at = round.at
    BY <1>1, OrderTyped
  <2>2. round' = [pc |-> "looking", at |-> r.at + 1, claimed |-> r.claimed,
                  blocked |-> r.blocked, wear |-> {}]
    BY <1>1 DEF Next_
  <2>3. GearOf(Order[r.at + 1]) \in Tasks /\ HandsOver(GearOf(Order[r.at + 1]))
    BY <1>1, <2>1, OrderTyped, TasksTyped DEF Next_
  <2>4. queue' \in Seq(Tasks)
    BY <2>3, LeavesTyped DEF IInv
  <2> QED
    BY <1>0, <2>1, <2>2, <2>4
<1>2. CASE ~ (r.at < Len(Order))
  <2>1. GearOf(Order[1]) \in Tasks
    BY OrderTyped, TasksTyped
  <2>2. Leaves \/ HandsOver(GearOf(Order[1]))
    BY <1>2 DEF Next_
  <2>3. queue' \in Seq(Tasks)
    BY <2>1, <2>2, LeavesTyped DEF IInv
  <2>4. round' = First \/ round' = [Off EXCEPT !.pc = "sleeping"] \/ round' = Off
    BY <1>2 DEF Next_
  <2>5. PICK p \in {"looking", "sleeping", "off"}, n \in {0, 1} :
          /\ round' = [pc |-> p, at |-> n, claimed |-> {}, blocked |-> FALSE, wear |-> {}]
          /\ p = "looking" => n = 1
    <3>1. CASE round' = First
      <4>1. round' = [pc |-> "looking", at |-> 1, claimed |-> {}, blocked |-> FALSE, wear |-> {}]
        BY <3>1 DEF First, Off
      <4> QED
        BY <4>1
    <3>2. CASE round' = [Off EXCEPT !.pc = "sleeping"]
      <4>1. round' = [pc |-> "sleeping", at |-> 0, claimed |-> {}, blocked |-> FALSE, wear |-> {}]
        BY <3>2 DEF Off
      <4> QED
        BY <4>1
    <3> QED
      BY <2>4, <3>1, <3>2 DEF Off
  <2>6. /\ round' = [pc |-> round'.pc, at |-> round'.at, claimed |-> round'.claimed,
                     blocked |-> round'.blocked, wear |-> round'.wear]
        /\ round'.pc = p /\ round'.at = n
    BY <2>5
  <2> QED
    BY <1>0, <2>3, <2>5, <2>6, OrderTyped
<1> QED
  BY <1>1, <1>2

LEMMA LookKeeps ==
  ASSUME IInv, Look
  PROVE  IInv'
<1> DEFINE m == Order[round.at]
           on == ToEquip(m, round.claimed)
           off == ToUnequip(m, round.claimed)
<1>1. /\ round.pc = "looking" /\ round.at \in 1 .. Len(Order) /\ m \in Members
      /\ Runs(GearOf(m)) /\ UNCHANGED <<held, row, bag, recent, pc, job>>
      /\ round = [pc |-> round.pc, at |-> round.at, claimed |-> round.claimed,
                  blocked |-> round.blocked, wear |-> round.wear]
  BY OrderTyped DEF Look, IInv, Typed
<1>2. ASSUME NEW r, Next_(r), own' = own,
             r = [pc |-> r.pc, at |-> round.at, claimed |-> r.claimed,
                  blocked |-> r.blocked, wear |-> r.wear]
      PROVE  IInv'
  <2>1. /\ queue' \in Seq(Tasks) /\ \A n \in Members : pc[n] \notin Awaiting
        /\ round' = [pc |-> round'.pc, at |-> round'.at, claimed |-> round'.claimed,
                     blocked |-> round'.blocked, wear |-> round'.wear]
        /\ round'.pc \in {"off", "sleeping", "looking"}
        /\ round'.pc = "looking" => round'.at \in 1 .. Len(Order)
    BY <1>1, <1>2, LookEnds
  <2>2. /\ own' \in [Members -> Sheets]
        /\ \A n \in Members, s \in Slots : own'[n].gear[s] # None => SlotOf[own'[n].gear[s]] = s
    BY <1>2 DEF IInv, Typed, GearFits
  <2> QED
    BY <1>1, <1>2, <2>1, <2>2, RoundStep
<1>3. ASSUME NEW left, left \subseteq off, Dress(m, on, left), UNCHANGED queue,
             round' = [round EXCEPT !.wear = on,
                          !.pc = IF Equips(m, on, left) THEN "dressed"
                                 ELSE IF Occupied(m, on, left) THEN "occupied" ELSE "failed"]
      PROVE  IInv'
  <2>1. /\ own' \in [Members -> Sheets]
        /\ \A n \in Members, s \in Slots : own'[n].gear[s] # None => SlotOf[own'[n].gear[s]] = s
        /\ \A n \in Members : n # m => own'[n] = own[n]
    BY <1>3, DressFits DEF IInv
  <2>2. ASSUME own[m].gear[Tool] # None, Kind[own[m].gear[Tool]] \in Jobs[m]
        PROVE  own'[m].gear[Tool] = own[m].gear[Tool]
    BY <1>1, <1>3, <2>2, JobsAreWanted, RoundKeepsTool DEF IInv
  <2>3. PICK p \in {"dressed", "occupied", "failed"} : round' = [round EXCEPT !.wear = on, !.pc = p]
    BY <1>3
  <2>4. round' = [pc |-> p, at |-> round.at, claimed |-> round.claimed,
                  blocked |-> round.blocked, wear |-> on]
    BY <1>1, <2>3
  <2>5. queue' \in Seq(Tasks) /\ \A other : Runs(other)' <=> Runs(other)
    BY <1>3 DEF IInv, Typed, Runs
  <2>6. /\ \A n \in Members : pc[n] \in Awaiting => Runs(HarvestOf(n))'
        /\ Runs(GearOf(Order[round.at]))'
    BY <1>1, <1>3 DEF IInv, QueueRuns, Runs, HarvestOf, GearOf
  <2>7. /\ round' = [pc |-> round'.pc, at |-> round'.at, claimed |-> round'.claimed,
                     blocked |-> round'.blocked, wear |-> round'.wear]
        /\ round'.at = round.at
    BY <2>4
  <2>8. \A n \in Members : own[n].gear[Tool] # None /\ Kind[own[n].gear[Tool]] \in Jobs[n]
                            => own'[n].gear[Tool] = own[n].gear[Tool]
    BY <2>1, <2>2
  <2> HIDE DEF m, on, off
  <2> QED
    BY <1>1, <2>1, <2>5, <2>6, <2>7, <2>8, RoundStep
<1>4. \/ \E r : /\ Next_(r) /\ own' = own
                 /\ r = [pc |-> r.pc, at |-> round.at, claimed |-> r.claimed,
                         blocked |-> r.blocked, wear |-> r.wear]
      \/ \E left : /\ left \subseteq off /\ Dress(m, on, left) /\ UNCHANGED queue
                    /\ round' = [round EXCEPT !.wear = on,
                          !.pc = IF Equips(m, on, left) THEN "dressed"
                                 ELSE IF Occupied(m, on, left) THEN "occupied" ELSE "failed"]
  <2>1. ASSUME NEW r, r = [round EXCEPT !.blocked = TRUE]
        PROVE  r = [pc |-> r.pc, at |-> round.at, claimed |-> r.claimed,
                    blocked |-> r.blocked, wear |-> r.wear]
    <3> HIDE DEF m, on, off
    <3> QED
      BY <1>1, <2>1
  <2>2. \/ Next_([round EXCEPT !.blocked = TRUE]) /\ own' = own
        \/ Next_(round) /\ own' = own
        \/ Next_([round EXCEPT !.blocked = TRUE, !.claimed = @ \cup on]) /\ own' = own
        \/ \E left : /\ left \subseteq off /\ Dress(m, on, left) /\ UNCHANGED queue
                      /\ round' = [round EXCEPT !.wear = on,
                            !.pc = IF Equips(m, on, left) THEN "dressed"
                                   ELSE IF Occupied(m, on, left) THEN "occupied" ELSE "failed"]
    BY DEF Look
  <2> HIDE DEF m, on, off
  <2>3. CASE Next_([round EXCEPT !.blocked = TRUE]) /\ own' = own
    <3>1. PICK r : r = [round EXCEPT !.blocked = TRUE]
      OBVIOUS
    <3> QED
      BY <2>1, <2>3, <3>1
  <2>4. CASE Next_(round) /\ own' = own
    BY <1>1, <2>4
  <2>5. CASE Next_([round EXCEPT !.blocked = TRUE, !.claimed = @ \cup on]) /\ own' = own
    <3>1. PICK r : r = [round EXCEPT !.blocked = TRUE, !.claimed = @ \cup on]
      OBVIOUS
    <3>2. r = [pc |-> r.pc, at |-> round.at, claimed |-> r.claimed,
               blocked |-> r.blocked, wear |-> r.wear]
      BY <1>1, <3>1
    <3>3. Next_(r)
      BY <2>5, <3>1
    <3> QED
      BY <2>5, <3>2, <3>3
  <2> QED
    BY <2>2, <2>3, <2>4, <2>5
<1> HIDE DEF m, on, off
<1> QED
  BY <1>2, <1>3, <1>4

(* The answer to its transaction, and its beginnings. *)
LEMMA RoundKeeps ==
  ASSUME IInv, Dressed_ \/ Notice \/ WakesUp
  PROVE  IInv'
<1>0. /\ own' = own /\ UNCHANGED <<held, row, recent, pc, job>>
      /\ own' \in [Members -> Sheets]
      /\ \A n \in Members, s \in Slots : own'[n].gear[s] # None => SlotOf[own'[n].gear[s]] = s
      /\ UNCHANGED bag
  BY DEF Dressed_, Notice, WakesUp, IInv, Typed, GearFits
<1>1. CASE Dressed_
  <2> DEFINE m == Order[round.at]
             claims == IF round.pc = "failed" THEN {} ELSE round.wear
  <2>1. /\ round.pc \in {"dressed", "occupied", "failed"} /\ round.at \in 1 .. Len(Order)
        /\ m \in Members /\ Runs(GearOf(m))
        /\ round = [pc |-> round.pc, at |-> round.at, claimed |-> round.claimed,
                    blocked |-> round.blocked, wear |-> round.wear]
    BY <1>1, OrderTyped DEF Dressed_, IInv, Typed, QueueRuns
  <2>2. PICK r : /\ r = [round EXCEPT !.claimed = @ \cup claims,
                                     !.blocked = @ \/ round.pc = "occupied"]
                 /\ Next_(r)
    BY <1>1 DEF Dressed_
  <2>3. r = [pc |-> r.pc, at |-> round.at, claimed |-> r.claimed,
             blocked |-> r.blocked, wear |-> r.wear]
    <3> HIDE DEF m, claims
    <3> QED
      BY <2>1, <2>2
  <2>4. /\ queue' \in Seq(Tasks) /\ \A n \in Members : pc[n] \notin Awaiting
        /\ round' = [pc |-> round'.pc, at |-> round'.at, claimed |-> round'.claimed,
                     blocked |-> round'.blocked, wear |-> round'.wear]
        /\ round'.pc \in {"off", "sleeping", "looking"}
        /\ round'.pc = "looking" => round'.at \in 1 .. Len(Order)
    BY <2>1, <2>2, <2>3, LookEnds
  <2> QED
    BY <1>0, <2>4, RoundStep
<1>2. ASSUME round' = First, Enters(GearOf(Order[1]))
      PROVE  IInv'
  <2>1. GearOf(Order[1]) \in Tasks
    BY OrderTyped, TasksTyped
  <2>2. queue' \in Seq(Tasks) /\ \A other : Runs(other) => Runs(other)'
    BY <1>2, <2>1, EntersKeepsHead DEF IInv
  <2>3. \A n \in Members : pc[n] \in Awaiting => Runs(HarvestOf(n))'
    BY <2>2 DEF IInv, QueueRuns, HarvestOf
  <2>4. round' = [pc |-> "looking", at |-> 1, claimed |-> {}, blocked |-> FALSE, wear |-> {}]
    BY <1>2 DEF First, Off
  <2>5. /\ round' = [pc |-> round'.pc, at |-> round'.at, claimed |-> round'.claimed,
                     blocked |-> round'.blocked, wear |-> round'.wear]
        /\ round'.pc = "looking" /\ round'.at = 1
    BY <2>4
  <2> QED
    BY <1>0, <2>2, <2>3, <2>5, OrderTyped, RoundStep
<1>3. CASE Notice /\ round.pc # "off"
  <2>1. UNCHANGED <<round, queue>>
    BY <1>3 DEF Notice
  <2> QED
    BY <1>0, <2>1 DEF IInv, Typed, GearFits, JobChosen, SwapsHold, Worked, QueueRuns, Runs,
                      HarvestOf, GearOf, GathersWithTool
<1>4. CASE WakesUp \/ (Notice /\ round.pc = "off")
  BY <1>2, <1>4 DEF WakesUp, Notice
<1> QED
  BY <1>1, <1>3, <1>4

-----------------------------------------------------------------------------
(* The steps of the world. *)

LEMMA WorldKeeps ==
  ASSUME IInv, NEW m \in Members,
         \/ JoinsFight(m) \/ FightEnds(m) \/ RecentEnds(m) \/ SettleEnds(m) \/ HushEnds(m)
         \/ \E i \in Items : Drops(i)
         \/ RosterArrives \/ BagArrives \/ UNCHANGED vars
  PROVE  IInv'
<1>1. /\ UNCHANGED <<pc, job, queue, round>>
      /\ recent' = recent \/ recent' = [recent EXCEPT ![m] = None]
      /\ row' \in {row, own} /\ bag' \in {bag, held} /\ held' \subseteq held \cup Items
  <2>1. CASE JoinsFight(m) \/ FightEnds(m)
    BY <2>1 DEF JoinsFight, FightEnds
  <2>2. CASE RecentEnds(m) \/ SettleEnds(m) \/ HushEnds(m)
    BY <2>2 DEF RecentEnds, SettleEnds, HushEnds
  <2>3. CASE (\E i \in Items : Drops(i)) \/ RosterArrives \/ BagArrives \/ UNCHANGED vars
    BY <2>3 DEF Drops, RosterArrives, BagArrives
  <2> QED
    BY <2>1, <2>2, <2>3
<1>2. own' \in [Members -> Sheets] /\ \A n \in Members : own'[n].gear = own[n].gear
  <2>1. \/ own' = own
        \/ own' = [own EXCEPT ![m].fight = TRUE]
        \/ own' = [own EXCEPT ![m].fight = FALSE]
    BY DEF JoinsFight, FightEnds, RecentEnds, SettleEnds, HushEnds, Drops, RosterArrives, BagArrives
  <2> QED
    BY <2>1, GearStays
<1>3. recent' = [n \in Members |-> recent'[n]] /\ \A n \in Members : recent'[n] \in {recent[n], None}
  BY <1>1 DEF IInv, Typed
<1>4. Typed'
  BY <1>1, <1>2, <1>3 DEF IInv, Typed
<1>5. GearFits'
  <2> SUFFICES ASSUME NEW n \in Members, NEW s \in Slots
               PROVE  /\ own'[n].gear[s] # None => SlotOf[own'[n].gear[s]] = s
                      /\ row'[n].gear[s] # None => SlotOf[row'[n].gear[s]] = s
    BY DEF GearFits
  <2> QED
    BY <1>1, <1>2 DEF IInv, GearFits
<1>6. JobChosen' /\ QueueRuns' /\ GathersWithTool'
  BY <1>1 DEF IInv, JobChosen, QueueRuns, Runs, HarvestOf, GearOf, GathersWithTool
<1>7. SwapsHold'
  <2> SUFFICES ASSUME NEW n \in Members
               PROVE  IF pc[n] \in Swapping
                      THEN own'[n].gear[Tool] # None /\ Kind[own'[n].gear[Tool]] = job[n]
                      ELSE recent'[n] # None =>
                             /\ recent'[n] \in Jobs[n]
                             /\ own'[n].gear[Tool] # None
                             /\ Kind[own'[n].gear[Tool]] = recent'[n]
    BY <1>1 DEF SwapsHold, Worked
  <2> QED
    BY <1>2, <1>3 DEF IInv, SwapsHold, Worked
<1> QED
  BY <1>4, <1>5, <1>6, <1>7 DEF IInv

-----------------------------------------------------------------------------
(* The invariant is inductive: no harvest and no round, in any interleaving
   with packets, clocks and fights, breaks what the others rely on. *)
THEOREM IInvHolds == Spec => []IInv
<1>1. IInv /\ [Next]_vars => IInv'
  <2> SUFFICES ASSUME IInv, [Next]_vars PROVE IInv'
    OBVIOUS
  <2>1. Order[1] \in Members
    BY OrderTyped
  <2>2. ASSUME NEW m \in Members,
               \/ Begin(m) \/ Ensure(m) \/ Swapped(m) \/ WalkEnds(m) \/ Toolless(m)
               \/ ResolvePending(m) \/ Resolves(m) \/ ResolveFails(m)
        PROVE  IInv'
    BY <2>2, EnsureKeeps, HarvestsKeep
  <2>3. CASE Look \/ Dressed_ \/ Notice \/ WakesUp
    BY <2>3, LookKeeps, RoundKeeps
  <2>4. CASE \/ \E m \in Members : \/ JoinsFight(m) \/ FightEnds(m) \/ RecentEnds(m)
                                   \/ SettleEnds(m) \/ HushEnds(m)
             \/ \E i \in Items : Drops(i)
             \/ RosterArrives \/ BagArrives \/ UNCHANGED vars
    BY <2>1, <2>4, WorldKeeps
  <2> QED
    BY <2>2, <2>3, <2>4, NextCases
<1> QED
  BY <1>1, InitEstablishesIInv, PTL DEF Spec

(* Asserting the tool under the lock of the harvest is enough (gather.ts:369-
   380): when the ownership check could be read, the chain never refuses the
   harvest for its tool, whatever rounds of auto-equip, packets out of date and
   swaps remembered do meanwhile. *)
THEOREM HarvestHasTool == Spec => []GathersWithTool
  BY IInvHolds, PTL DEF IInv

(* At most one equip, or harvest the chain answers for, is on its way at a
   time: what was verified of the kiosk by one is not spent by another of this
   process (equipment_queue, session.ts). *)
EquipsAreSerial ==
  \A m \in Members : pc[m] \in Awaiting =>
    /\ round.pc \notin {"dressed", "occupied", "failed"}
    /\ \A n \in Members : pc[n] \in Awaiting => n = m

(* The serial queue of the session keeps equips and harvests apart: no two
   members await one at the same time. *)
THEOREM OneEquipAtATime == Spec => []EquipsAreSerial
<1>1. IInv => EquipsAreSerial
  <2> SUFFICES ASSUME IInv, NEW m \in Members, pc[m] \in Awaiting
               PROVE  /\ round.pc \notin {"dressed", "occupied", "failed"}
                      /\ \A n \in Members : pc[n] \in Awaiting => n = m
    BY DEF EquipsAreSerial
  <2>1. round.pc \in {"dressed", "occupied", "failed"} => Order[round.at] \in Members
    BY OrderTyped DEF IInv, Typed
  <2> QED
    BY <2>1, TasksTyped DEF IInv, QueueRuns, Runs
<1> QED
  BY <1>1, IInvHolds, PTL

-----------------------------------------------------------------------------
(* What a round changes for the better. *)

(* Any set of items has a most powerful one. *)
LEMMA StrongestExists ==
  ASSUME NEW fit \in SUBSET Items, fit # {}
  PROVE  \E i \in fit : \A other \in fit : Power[other] <= Power[i]
<1> DEFINE Above(i) == {other \in fit : Power[other] > Power[i]}
           aboves == {Above(i) : i \in fit}
<1>1. IsFiniteSet(fit) /\ \A i \in fit : Power[i] \in Nat
  BY OutfitAssumption, FS_Subset
<1>2. aboves \subseteq FiniteSubsetsOf(fit) /\ aboves # {}
  <2>1. \A i \in fit : Above(i) \in SUBSET fit
    OBVIOUS
  <2> HIDE DEF Above
  <2>2. aboves \subseteq SUBSET fit /\ aboves # {}
    BY <2>1
  <2> QED
    BY <1>1, <2>2, FS_FiniteSubsetsOfFinite
<1>3. PICK least \in aboves : \A set \in aboves : <<set, least>> \notin StrictSubsetOrdering(fit)
  <2> HIDE DEF aboves
  <2> QED
    BY <1>2, FS_StrictSubsetOrderingWellFounded, WFMin, Zenon
<1>4. PICK i \in fit : least = Above(i)
  BY <1>3
<1>5. ASSUME NEW other \in fit, ~ (Power[other] <= Power[i]) PROVE FALSE
  <2>1. Power[other] > Power[i] /\ Power[other] \in Nat /\ Power[i] \in Nat
    BY <1>1, <1>5
  <2>2. Above(other) \subseteq Above(i) /\ other \in Above(i) /\ other \notin Above(other)
    BY <1>1, <2>1
  <2>3. Above(other) \in aboves /\ Above(i) \in SUBSET fit /\ Above(other) \in SUBSET fit
    OBVIOUS
  <2> HIDE DEF Above, aboves
  <2> QED
    BY <1>3, <1>4, <2>2, <2>3 DEF StrictSubsetOrdering
<1> QED
  BY <1>5

(* What the plan puts on in a slot fits it, and is no weaker than what is shown
   there; for the tools, it is wanted when what is shown is not. *)
LEMMA ChangesForTheBetter ==
  ASSUME Typed, GearFits, NEW m \in Members, NEW claimed, NEW s \in Changes(m, claimed)
  PROVE  LET new == Loadout(m, claimed)[s]
             old == row[m].gear[s]
         IN  /\ new \in Items /\ SlotOf[new] = s
             /\ s = Tool => Kind[new] \in Wanted(m)
             /\ old # None => IF s = Tool THEN Kind[old] \notin Wanted(m)
                                          ELSE Power[old] <= Power[new]
<1> DEFINE new == Loadout(m, claimed)[s]
           old == row[m].gear[s]
           fit == {i \in Pool(m, claimed) : SlotOf[i] = s /\ (s = Tool => Kind[i] \in Wanted(m))}
<1>1. s \in Slots /\ new \notin {None, old} /\ new = Choice(m, s, Pool(m, claimed))
  BY DEF Changes, Loadout
<1>2. ~ (s = Tool /\ old # None /\ Kind[old] \in Wanted(m))
  BY <1>1 DEF Choice, ToolShown
<1>3. fit # {} /\ new = CHOOSE i \in fit : \A other \in fit : Power[other] <= Power[i]
  BY <1>1, <1>2 DEF Choice, ToolShown
<1>4. Shows(m) \subseteq Items /\ fit \subseteq Items
  BY <1>1 DEF Shows, Pool, Typed, Sheets
<1>5. new \in fit /\ \A other \in fit : Power[other] <= Power[new]
  <2> HIDE DEF fit, new
  <2> QED
    BY <1>3, <1>4, StrongestExists
<1>6. ASSUME s # Tool, old # None PROVE old \in fit
  BY <1>1, <1>6 DEF Pool, Shows, GearFits
<1> QED
  BY <1>2, <1>4, <1>5, <1>6

(* A look at m and its equip, seen from one slot of m. *)
LEMMA DressUpgrades ==
  ASSUME Typed, GearFits, NEW m \in Members, NEW claimed, NEW off,
         off \subseteq ToUnequip(m, claimed), Dress(m, ToEquip(m, claimed), off),
         NEW s \in Slots, own[m].gear[s] # None, own'[m].gear[s] # own[m].gear[s]
  PROVE  LET is == own'[m].gear[s]
             was == own[m].gear[s]
         IN  /\ is # None
             /\ IF s = Tool THEN Kind[was] \notin Wanted(m) /\ Kind[is] \in Wanted(m)
                            ELSE Power[was] <= Power[is]
<1> DEFINE was == own[m].gear[s]
           on == ToEquip(m, claimed)
<1>1. /\ Equips(m, on, off) /\ own'[m].gear = Dressed(m, on, off)
      /\ was \in Items /\ was # None /\ SlotOf[was] = s
  BY DEF Dress, Typed, Sheets, GearFits
<1>2. \A t \in Changes(m, claimed) :
        /\ SlotOf[Loadout(m, claimed)[t]] = t
        /\ Loadout(m, claimed)[t] \in Items
  BY ChangesForTheBetter
<1>3. s \in Bare(m, off)
  <2>1. \A i \in on : SlotOf[i] \in Bare(m, off)
    BY <1>1 DEF Equips, Occupied
  <2>2. Dressed(m, on, off)[s] # was
    BY <1>1
  <2> QED
    BY <2>1, <2>2 DEF Dressed
<1>4. was \in off
  BY <1>1, <1>3 DEF Bare
<1>5. s \in Changes(m, claimed) /\ row[m].gear[s] = was
  BY <1>1, <1>4 DEF ToUnequip, Changes, GearFits
<1>6. \A i \in on : SlotOf[i] = s <=> i = Loadout(m, claimed)[s]
  BY <1>2, <1>5 DEF ToEquip
<1>7. own'[m].gear[s] = Loadout(m, claimed)[s]
  <2>1. Loadout(m, claimed)[s] \in on
    BY <1>5 DEF ToEquip
  <2> HIDE DEF on
  <2>2. (CHOOSE i \in on : SlotOf[i] = s) = Loadout(m, claimed)[s]
    BY <1>6, <2>1
  <2> QED
    BY <1>1, <1>6, <2>1, <2>2 DEF Dressed
<1> QED
  BY <1>1, <1>5, <1>7, ChangesForTheBetter, OutfitAssumption

(* A round of auto-equip never leaves a member worse off, however stale the
   packets it plans on (equip_plan, equip.ts): a slot that was filled stays
   filled, what comes off made room for something no weaker, and the tools for
   one of a job the member has where the one it wore was of none. *)
Upgrades ==
  \A m \in Members, s \in Slots :
    LET is == own'[m].gear[s]
        was == own[m].gear[s]
    IN  was # None /\ is # was =>
          /\ is # None
          /\ IF s = Tool THEN Kind[was] \notin Wanted(m) /\ Kind[is] \in Wanted(m)
                         ELSE Power[was] <= Power[is]

(* A round of auto-equip never leaves its wearer with less than it found:
   choose_equipment only ever fills a slot or improves it. *)
THEOREM RoundsUpgrade == Spec => [][Look \/ Dressed_ => Upgrades]_vars
<1>1. IInv /\ (Look \/ Dressed_) => Upgrades
  <2> SUFFICES ASSUME IInv, Look \/ Dressed_, NEW m \in Members, NEW s \in Slots,
                      own[m].gear[s] # None, own'[m].gear[s] # own[m].gear[s]
               PROVE  /\ own'[m].gear[s] # None
                      /\ IF s = Tool THEN /\ Kind[own[m].gear[s]] \notin Wanted(m)
                                          /\ Kind[own'[m].gear[s]] \in Wanted(m)
                                     ELSE Power[own[m].gear[s]] <= Power[own'[m].gear[s]]
    BY DEF Upgrades
  <2>1. PICK off : /\ off \subseteq ToUnequip(Order[round.at], round.claimed)
                   /\ Dress(Order[round.at], ToEquip(Order[round.at], round.claimed), off)
    BY DEF Look, Dressed_
  <2>2. m = Order[round.at]
    BY <2>1, DressFits DEF IInv
  <2> QED
    BY <2>1, <2>2, DressUpgrades DEF IInv
<1> QED
  BY <1>1, IInvHolds, PTL DEF Spec
=============================================================================
