---------------------------- MODULE Mover_proofs ----------------------------
(***************************************************************************)
(* Proofs about Mover, for any length of the line and any travel bank.     *)
(***************************************************************************)
EXTENDS Mover, FiniteSetTheorems, TLAPS

(* The inductive invariant, in named parts.  A date that cannot be real has a
   rank of its own. *)

Rank == 0 .. 3
Sentinels == [x : Pos, age : {Sentinel}, rank : {Top}]
Copies(top) == [x : Pos, age : -Root .. top, rank : Rank]
Anchors == [x : Pos, age : -(Root + Lead) .. Cap, rank : Rank] \cup Sentinels \cup {None}

Held ==
  /\ chk \in Copies(Cap) /\ node \in Copies(Cap) /\ row \in Copies(0) \cup Sentinels
  /\ anchor \in Anchors

Typed ==
  /\ Held
  /\ held \in Nat /\ pose \in Pos /\ goal \in Pos /\ dest \in {0, Far}
  /\ clock \in BOOLEAN /\ unseen \in BOOLEAN /\ blind \in BOOLEAN

(* A roster push or a read that is not out of date shows the checkpoint. *)
InDate ==
  /\ node.rank = chk.rank => node = chk
  /\ row.rank = chk.rank => row = Dated(chk)

(* Only the checkpoint on chain may root a character in the future: nothing that
   dates from before it does, up to the error of the clock. *)
OneFuture ==
  /\ node.age >= Least(0, chk.age)
  /\ row.age # Sentinel => row.age >= Least(0, chk.age)
  /\ anchor # None /\ anchor.age # Sentinel => anchor.age >= Least(0, chk.age) - Lead

(* An anchor that knows of the checkpoint never makes it older. *)
NeverFavours ==
  ~unseen => /\ anchor # None
             /\ anchor.age = Sentinel \/ (anchor.x = chk.x /\ anchor.age <= chk.age)

(* What prove_ready proves is where the character stands, unless a read moved it
   onto its anchor meanwhile. *)
GoalIsPose ==
  pc \in {"prove", "wait"} /\ why # "arrive" => pose = goal \/ (anchor # None /\ anchor.x = pose)

IInv == Typed /\ InDate /\ OneFuture /\ NeverFavours /\ GoalIsPose /\ ProvedLegIsAccepted

-----------------------------------------------------------------------------
USE DEF Held, chainVars, known, loopVars, ghosts, vars, Pos, Sentinel, Top, Rank, Copies, Sentinels,
        Anchors, Written

LEMMA Constants ==
  /\ Far \in Nat /\ Cap \in Nat /\ Lead \in Nat /\ Margin \in Nat /\ Root \in Nat
  /\ MaxTroubles \in Nat
  /\ Cap >= Far + Margin /\ Lead <= Margin /\ Margin < Root /\ Root > 0
  /\ \A c \in Copies(Cap) \cup Copies(0) \cup Sentinels \cup (Anchors \ {None}) :
       c # None /\ c \in [x : Int, age : Int, rank : Int]
  BY MoverAssumption

-----------------------------------------------------------------------------
(* Renumbering. *)

(* Counting the smaller ranks keeps different ranks apart. *)
LEMMA RanksStayApart ==
  ASSUME NEW R \in SUBSET Nat, IsFiniteSet(R), Cardinality(R) <= 4
  PROVE  /\ \A r \in R : Cardinality({q \in R : q < r}) \in Rank
         /\ \A r, s \in R : Cardinality({q \in R : q < r}) = Cardinality({q \in R : q < s}) => r = s
<1> DEFINE Below(r) == {q \in R : q < r}
<1>1. \A r \in R : IsFiniteSet(Below(r)) /\ Cardinality(Below(r)) \in Nat
  BY FS_Subset, FS_CardinalityType
<1>2. ASSUME NEW r \in R PROVE Cardinality(Below(r)) <= 3
  <2>1. Below(r) \in SUBSET (R \ {r})
    OBVIOUS
  <2>2. IsFiniteSet(R \ {r}) /\ Cardinality(R \ {r}) = Cardinality(R) - 1
    BY FS_RemoveElement
  <2>3. Cardinality(R) \in Nat
    BY FS_CardinalityType
  <2> HIDE DEF Below
  <2>4. Cardinality(Below(r)) <= Cardinality(R \ {r})
    BY <2>1, <2>2, FS_Subset
  <2> QED
    BY <1>1, <2>2, <2>3, <2>4
<1>3. ASSUME NEW r \in R, NEW s \in R, r < s PROVE Cardinality(Below(r)) # Cardinality(Below(s))
  <2>1. Below(r) \in SUBSET Below(s) /\ r \in Below(s) /\ r \notin Below(r)
    <3>1. r \in Nat /\ s \in Nat /\ \A q \in R : q \in Nat
      OBVIOUS
    <3>2. \A q \in R : q < r => q < s
      BY <1>3, <3>1
    <3>3. Below(r) \in SUBSET Below(s)
      BY <3>2
    <3>4. r \in Below(s) /\ ~ (r < r)
      BY <1>3, <3>1
    <3> QED
      BY <3>3, <3>4
  <2>2. IsFiniteSet(Below(s))
    BY <1>1
  <2> HIDE DEF Below
  <2>3. Cardinality(Below(s)) = Cardinality(Below(r)) => Below(s) = Below(r)
    BY <2>1, <2>2, FS_Subset
  <2> QED
    BY <2>1, <2>3
<1>4. ASSUME NEW r \in R, NEW s \in R, Cardinality(Below(r)) = Cardinality(Below(s)) PROVE r = s
  <2> HIDE DEF Below
  <2>1. ~ (r < s) /\ ~ (s < r)
    BY <1>3, <1>4
  <2> QED
    BY <2>1
<1>5. \A r \in R : Cardinality(Below(r)) \in Rank
  BY <1>1, <1>2
<1> QED
  BY <1>4, <1>5

(* Hold keeps where each of the four is and how old, and who is whose copy. *)
Numbered == [x : Int, age : Int, rank : 0 .. Top]
Same(c, d) == d \in [x : {c.x}, age : {c.age}, rank : Rank \cup {Top}] /\ (c.rank = Top <=> d.rank = Top)
LEMMA HoldKeeps ==
  ASSUME NEW chain \in Numbered, NEW push \in Numbered, NEW read \in Numbered,
         NEW own \in Numbered \cup {None}, Hold(chain, push, read, own)
  PROVE  /\ Same(chain, chk') /\ Same(push, row') /\ Same(read, node')
         /\ IF own = None THEN anchor' = None ELSE Same(own, anchor')
         /\ row'.rank = chk'.rank => push.rank = chain.rank
         /\ node'.rank = chk'.rank => read.rank = chain.rank
<1> DEFINE R == Ranks({chain, push, read, own})
<1>0. chain # None /\ push # None /\ read # None
  BY MoverAssumption DEF Numbered
<1>1. R \in SUBSET Nat /\ IsFiniteSet(R) /\ Cardinality(R) <= 4
  <2>1. PICK last \in Nat : R \subseteq ({chain.rank} \cup {push.rank} \cup {read.rank} \cup {last})
                            /\ R \in SUBSET Nat
    <3>1. CASE own = None
      BY <3>1 DEF Ranks, Numbered
    <3>2. CASE own # None
      BY <3>2 DEF Ranks, Numbered
    <3> QED
      BY <3>1, <3>2
  <2>2. /\ IsFiniteSet({chain.rank}) /\ Cardinality({chain.rank}) = 1
    BY FS_Singleton
  <2>3. /\ IsFiniteSet({chain.rank} \cup {push.rank})
        /\ Cardinality({chain.rank} \cup {push.rank}) \in 0 .. 2
    BY <2>2, FS_AddElement
  <2>4. /\ IsFiniteSet({chain.rank} \cup {push.rank} \cup {read.rank})
        /\ Cardinality({chain.rank} \cup {push.rank} \cup {read.rank}) \in 0 .. 3
    BY <2>3, FS_AddElement
  <2>5. /\ IsFiniteSet({chain.rank} \cup {push.rank} \cup {read.rank} \cup {last})
        /\ Cardinality({chain.rank} \cup {push.rank} \cup {read.rank} \cup {last}) \in 0 .. 4
    <3> DEFINE Three == {chain.rank} \cup {push.rank} \cup {read.rank}
    <3>1. IsFiniteSet(Three) /\ Cardinality(Three) \in 0 .. 3
      BY <2>4
    <3> HIDE DEF Three
    <3>2. /\ IsFiniteSet(Three \cup {last})
          /\ Cardinality(Three \cup {last})
               = IF last \in Three THEN Cardinality(Three) ELSE Cardinality(Three) + 1
      BY <3>1, FS_AddElement, Zenon
    <3>3. Cardinality(Three \cup {last}) \in 0 .. 4
      BY <3>1, <3>2
    <3> QED
      BY <3>2, <3>3 DEF Three
  <2> HIDE DEF R
  <2> DEFINE All == {chain.rank} \cup {push.rank} \cup {read.rank} \cup {last}
  <2>6. IsFiniteSet(R) /\ Cardinality(R) <= Cardinality(All)
    <3>1. R \in SUBSET All /\ IsFiniteSet(All)
      BY <2>1, <2>5
    <3> HIDE DEF All
    <3> QED
      BY <3>1, FS_Subset
  <2>7. Cardinality(R) \in Nat
    BY <2>6, FS_CardinalityType
  <2>8. Cardinality(R) <= 4
    BY <2>5, <2>6, <2>7
  <2> QED
    BY <2>1, <2>6, <2>8
<1>2. /\ chain.rank \in R /\ push.rank \in R /\ read.rank \in R
      /\ own # None => own.rank \in R
  BY <1>0 DEF Ranks
<1>3. /\ chk' = Renumber(chain, R) /\ row' = Renumber(push, R)
      /\ node' = Renumber(read, R) /\ anchor' = Renumber(own, R)
  BY DEF Hold
<1> HIDE DEF R
<1>4. /\ \A r \in R : Cardinality({q \in R : q < r}) \in Rank
      /\ \A r, s \in R : Cardinality({q \in R : q < r}) = Cardinality({q \in R : q < s}) => r = s
  BY <1>1, RanksStayApart
<1>5. ASSUME NEW c \in Numbered, c.rank \in R
      PROVE  /\ Same(c, Renumber(c, R))
             /\ c.rank # Top => Renumber(c, R).rank = Cardinality({q \in R : q < c.rank})
  <2>1. c # None
    BY MoverAssumption DEF Numbered
  <2>2. CASE c.rank = Top
    BY <2>1, <2>2 DEF Renumber, Same, Numbered
  <2>3. CASE c.rank # Top
    <3>1. PICK n \in Rank : n = Cardinality({q \in R : q < c.rank})
      BY <1>4, <1>5
    <3>2. Renumber(c, R) = [c EXCEPT !.rank = n]
      BY <2>1, <2>3, <3>1 DEF Renumber
    <3> QED
      BY <2>3, <3>1, <3>2 DEF Same, Numbered
  <2> QED
    BY <2>2, <2>3
<1>6. ASSUME NEW c \in Numbered, c.rank \in R, NEW d \in Numbered, d.rank \in R,
             Renumber(c, R).rank = Renumber(d, R).rank
      PROVE  c.rank = d.rank
  <2>1. Same(c, Renumber(c, R)) /\ Same(d, Renumber(d, R))
    BY <1>5, <1>6
  <2>2. CASE c.rank = Top \/ d.rank = Top
    BY <1>6, <2>1, <2>2 DEF Same
  <2>3. CASE c.rank # Top /\ d.rank # Top
    BY <1>4, <1>5, <1>6, <2>3
  <2> QED
    BY <2>2, <2>3
<1>7. IF own = None THEN anchor' = None ELSE Same(own, anchor')
  BY <1>2, <1>3, <1>5 DEF Renumber
<1> QED
  BY <1>2, <1>3, <1>5, <1>6, <1>7

(* The newest of the ranks that may be real. *)
LEMMA LatestIsLast ==
  ASSUME Typed
  PROVE  /\ Latest \in Rank
         /\ \A c \in {chk, row, node, anchor} \ {None} : c.rank # Top => c.rank <= Latest
<1> DEFINE S == Ranks({chk, row, node, anchor}) \ {Top}
<1>1. S \in SUBSET Rank /\ chk.rank \in S
  <2>1. \A c \in {chk, row, node, anchor} \ {None} : c.rank \in Rank \cup {Top}
    BY DEF Typed
  <2>2. chk # None /\ chk.rank \in Rank
    BY Constants DEF Typed
  <2> QED
    BY <2>1, <2>2 DEF Ranks
<1>2. Latest = CHOOSE r \in S : \A q \in S : q <= r
  BY DEF Latest
<1>3. \A c \in {chk, row, node, anchor} \ {None} : c.rank # Top => c.rank \in S
  BY DEF Ranks
<1> HIDE DEF S
<1>4. \E r \in S : \A q \in S : q <= r
  <2>1. \A q \in S : q \in {0, 1, 2, 3}
    BY <1>1
  <2>2. \/ 3 \in S
        \/ 3 \notin S /\ 2 \in S
        \/ 3 \notin S /\ 2 \notin S /\ 1 \in S
        \/ 3 \notin S /\ 2 \notin S /\ 1 \notin S /\ 0 \in S
    BY <1>1, <2>1
  <2> QED
    BY <2>1, <2>2
<1>5. Latest \in S /\ \A q \in S : q <= Latest
  BY <1>2, <1>4
<1> QED
  BY <1>1, <1>3, <1>5

LEMMA DatedCopy ==
  ASSUME NEW c \in Copies(Cap)
  PROVE  /\ Dated(c) \in Copies(0) /\ Dated(c).rank = c.rank
         /\ Dated(c).x = c.x /\ Dated(c).age = Least(0, c.age)
<1>1. PICK d : d = Dated(c)
  OBVIOUS
<1>2. d = [x |-> c.x, age |-> Least(0, c.age), rank |-> c.rank]
  BY <1>1 DEF Dated
<1>3. Least(0, c.age) \in -Root .. 0
  BY Constants DEF Least
<1>4. d \in Copies(0) /\ d.rank = c.rank /\ d.x = c.x /\ d.age = Least(0, c.age)
  BY <1>2, <1>3, Constants
<1> QED
  BY <1>1, <1>4

(* What the four hold is typed so that Hold applies. *)
LEMMA AreNumbered ==
  ASSUME Typed
  PROVE  /\ chk \in Numbered /\ row \in Numbered /\ node \in Numbered
         /\ anchor \in Numbered \cup {None} /\ Dated(chk) \in Numbered
<1>1. Dated(chk) \in Copies(0)
  BY DatedCopy DEF Typed
<1> QED
  BY <1>1, Constants DEF Typed, Numbered

LEMMA InitEstablishesIInv == Init => IInv
<1> SUFFICES ASSUME Init PROVE IInv
  OBVIOUS
<1>1. PICK x \in Pos : chk = [x |-> x, age |-> 0, rank |-> 0]
  BY DEF Init
<1>2. chk \in Copies(Cap) /\ chk.age = 0 /\ chk.rank = 0
  BY <1>1, Constants
<1>4. row = Dated(chk) /\ row \in Copies(0) /\ row.age = 0
  BY <1>2, DatedCopy DEF Init, Least
<1>5. Typed
  <2>1. anchor \in Anchors
    BY DEF Init
  <2>2. 0 \in Pos /\ dest \in {0, Far}
    BY Constants DEF Init
  <2>3. node \in Copies(Cap)
    BY <1>2 DEF Init
  <2> QED
    BY <1>2, <1>4, <2>1, <2>2, <2>3 DEF Init, Typed
<1>6. InDate /\ OneFuture /\ NeverFavours /\ GoalIsPose /\ ProvedLegIsAccepted
  BY <1>2, <1>4 DEF Init, InDate, OneFuture, NeverFavours, GoalIsPose, ProvedLegIsAccepted, Least
<1> QED
  BY <1>5, <1>6 DEF IInv

-----------------------------------------------------------------------------
(* What a door writes, a push brings or a read answers, before renumbering. *)

Loose(low, top) == [x : Pos, age : low .. top, rank : 0 .. 8]
Fits(chain, push, read, own) ==
  /\ chain \in Loose(-Root, Cap) /\ read \in Loose(-Root, Cap)
  /\ push \in Loose(-Root, 0) \cup Sentinels
  /\ own \in Loose(-(Root + Lead), Cap) \cup Sentinels \cup {None}
  /\ read.rank = chain.rank => read = chain
  /\ push.rank = chain.rank => push = Dated(chain)
  /\ read.age >= Least(0, chain.age)
  /\ push.age # Sentinel => push.age >= Least(0, chain.age)
  /\ own # None /\ own.age # Sentinel => own.age >= Least(0, chain.age) - Lead

LEMMA SameLoose ==
  ASSUME NEW low \in Int, NEW top \in Int, NEW c \in Loose(low, top), NEW d, Same(c, d)
  PROVE  d \in [x : Pos, age : low .. top, rank : Rank] /\ d.x = c.x /\ d.age = c.age
  BY DEF Same, Loose

LEMMA SameSentinel ==
  ASSUME NEW c \in Sentinels, NEW d, Same(c, d)
  PROVE  d \in Sentinels /\ d.x = c.x /\ d.age = c.age
  BY DEF Same

LEMMA HoldStep ==
  ASSUME NEW chain, NEW push, NEW read, NEW own, Fits(chain, push, read, own),
         Hold(chain, push, read, own)
  PROVE  /\ Held' /\ InDate' /\ OneFuture'
         /\ chk'.x = chain.x /\ chk'.age = chain.age
         /\ IF own = None THEN anchor' = None
            ELSE anchor' # None /\ anchor'.x = own.x /\ anchor'.age = own.age
<1>0. /\ -Root \in Int /\ -(Root + Lead) \in Int /\ Cap \in Int /\ 0 \in Int
  BY Constants
<1>1. /\ chain \in Loose(-Root, Cap) /\ read \in Loose(-Root, Cap)
      /\ push \in Loose(-Root, 0) \cup Sentinels
      /\ own \in Loose(-(Root + Lead), Cap) \cup Sentinels \cup {None}
  BY DEF Fits
<1>2. /\ chain \in Numbered /\ read \in Numbered /\ push \in Numbered
      /\ own \in Numbered \cup {None}
  BY <1>1, Constants DEF Loose, Numbered
<1>3. /\ Same(chain, chk') /\ Same(push, row') /\ Same(read, node')
      /\ IF own = None THEN anchor' = None ELSE Same(own, anchor')
      /\ row'.rank = chk'.rank => push.rank = chain.rank
      /\ node'.rank = chk'.rank => read.rank = chain.rank
  BY <1>2, HoldKeeps
<1>4. /\ chk' \in Copies(Cap) /\ chk'.x = chain.x /\ chk'.age = chain.age
      /\ node' \in Copies(Cap) /\ node'.x = read.x /\ node'.age = read.age
  BY <1>0, <1>1, <1>3, SameLoose
<1>5. row' \in Copies(0) \cup Sentinels /\ row'.x = push.x /\ row'.age = push.age
  BY <1>0, <1>1, <1>3, SameLoose, SameSentinel
<1>7. ASSUME own # None
      PROVE  anchor' \in Anchors \ {None} /\ anchor'.x = own.x /\ anchor'.age = own.age
  <2>1. /\ anchor' \in [x : Pos, age : -(Root + Lead) .. Cap, rank : Rank] \cup Sentinels
        /\ anchor'.x = own.x /\ anchor'.age = own.age
    BY <1>0, <1>1, <1>3, <1>7, SameLoose, SameSentinel
  <2>2. anchor' \in [x : Int, age : Int, rank : Int]
    <3>1. CASE anchor' \in [x : Pos, age : -(Root + Lead) .. Cap, rank : Rank]
      BY <3>1
    <3>2. CASE anchor' \in Sentinels
      BY <3>2, Constants
    <3> QED
      BY <2>1, <3>1, <3>2
  <2>3. anchor' # None
    BY <2>2, MoverAssumption
  <2> QED
    BY <2>1, <2>3
<1>8. Held'
  BY <1>3, <1>4, <1>5, <1>7
<1>9. InDate'
  <2>1. ASSUME node'.rank = chk'.rank PROVE node' = chk'
    <3>1. read = chain
      BY <1>3, <2>1 DEF Fits
    <3> QED
      BY <1>4, <2>1, <3>1
  <2>2. ASSUME row'.rank = chk'.rank PROVE row' = Dated(chk')
    <3>1. push = Dated(chain)
      BY <1>3, <2>2 DEF Fits
    <3>2. PICK d : d = Dated(chain)
      OBVIOUS
    <3>3. d.x = chain.x /\ d.age = Least(0, chain.age)
      BY <1>1, <3>2 DEF Dated, Loose
    <3>4. /\ Dated(chk') \in Copies(0) /\ Dated(chk').rank = chk'.rank
          /\ Dated(chk').x = chk'.x /\ Dated(chk').age = Least(0, chk'.age)
      BY <1>4, DatedCopy
    <3>5. row'.x = Dated(chk').x /\ row'.age = Dated(chk').age /\ row'.rank = Dated(chk').rank
      BY <1>4, <1>5, <2>2, <3>1, <3>2, <3>3, <3>4
    <3> QED
      BY <1>5, <3>4, <3>5
  <2> QED
    BY <2>1, <2>2 DEF InDate
<1>10. OneFuture'
  <2>1. /\ node'.age >= Least(0, chk'.age)
        /\ row'.age # Sentinel => row'.age >= Least(0, chk'.age)
    BY <1>4, <1>5 DEF Fits
  <2>2. anchor' # None /\ anchor'.age # Sentinel => anchor'.age >= Least(0, chk'.age) - Lead
    BY <1>3, <1>4, <1>7 DEF Fits
  <2> QED
    BY <2>1, <2>2 DEF OneFuture, Least
<1> QED
  BY <1>3, <1>4, <1>7, <1>8, <1>9, <1>10

(* What is held may be held again. *)
LEMMA HeldFits ==
  ASSUME IInv
  PROVE  Fits(chk, row, node, anchor)
<1>1. /\ chk \in Loose(-Root, Cap) /\ node \in Loose(-Root, Cap)
      /\ row \in Loose(-Root, 0) \cup Sentinels
      /\ anchor \in Loose(-(Root + Lead), Cap) \cup Sentinels \cup {None}
  BY DEF IInv, Typed, Loose
<1> QED
  BY <1>1 DEF IInv, InDate, OneFuture, Fits

-----------------------------------------------------------------------------
(* Learning of the checkpoint. *)

Learns ==
  /\ Held' /\ InDate' /\ OneFuture' /\ NeverFavours'
  /\ held' \in Nat /\ pose' \in Pos /\ unseen' \in BOOLEAN
  /\ chk'.x = chk.x /\ chk'.age = chk.age
  /\ \/ anchor' # None /\ anchor'.x = pose'
     \/ anchor' = anchor /\ pose' = pose

LEMMA Unlearnt ==
  ASSUME IInv, UNCHANGED known
  PROVE  Learns
  BY DEF IInv, Typed, InDate, OneFuture, NeverFavours, Learns

(* The copy that replaces the anchor is the checkpoint, or is known not to be. *)
LEMMA AdoptsCopy ==
  ASSUME IInv, NEW c, c = row \/ c = node, Hold(chk, row, node, c),
         held' \in Nat, pose' = c.x, unseen' = (c.rank # chk.rank)
  PROVE  Learns
<1>1. c \in Loose(-Root, Cap) \cup Sentinels /\ c # None
  <2>1. c \in Copies(Cap) \cup Copies(0) \cup Sentinels
    BY DEF IInv, Typed
  <2>2. c \in Loose(-Root, Cap) \cup Loose(-Root, 0) \cup Sentinels
    BY HeldFits DEF Fits
  <2> QED
    BY <2>1, <2>2, Constants DEF Loose
<1>2. c.age # Sentinel => c.age >= Least(0, chk.age) - Lead
  BY <1>1, Constants DEF IInv, OneFuture, Typed, Least
<1>3. c \in Loose(-(Root + Lead), Cap) \cup Sentinels
  BY <1>1, Constants DEF Loose
<1>4. Fits(chk, row, node, c)
  BY <1>2, <1>3, HeldFits DEF Fits
<1>5. /\ Held' /\ InDate' /\ OneFuture' /\ chk'.x = chk.x /\ chk'.age = chk.age
      /\ anchor' # None /\ anchor'.x = c.x /\ anchor'.age = c.age
  BY <1>1, <1>4, HoldStep
<1>6. ASSUME ~ unseen' PROVE c.x = chk.x /\ c.age <= chk.age
  <2>1. c = chk \/ c = Dated(chk)
    BY <1>6 DEF IInv, InDate
  <2>2. Dated(chk).x = chk.x /\ Dated(chk).age = Least(0, chk.age)
    BY DatedCopy DEF IInv, Typed
  <2> QED
    BY <2>1, <2>2 DEF IInv, Typed, Least
<1>7. NeverFavours'
  BY <1>5, <1>6 DEF NeverFavours
<1>8. pose' \in Pos
  BY <1>1 DEF Loose
<1> QED
  BY <1>1, <1>5, <1>7, <1>8 DEF Learns

LEMMA SyncLearns ==
  ASSUME IInv, Sync
  PROVE  Learns
<1>1. CASE SyncAdopts
  BY <1>1, AdoptsCopy DEF Sync
<1>2. CASE ~ SyncAdopts
  BY <1>2, Unlearnt DEF Sync
<1> QED
  BY <1>1, <1>2

LEMMA ReadLearns ==
  ASSUME IInv, Refresh \/ RefreshOrFail
  PROVE  Learns
<1>1. ASSUME NEW lead \in 0 .. Lead, Adopt(lead) PROVE Learns
  <2>1. (IF clock THEN Least(Cap, Most(0, node.age + lead)) ELSE 0) \in Nat
    BY Constants DEF IInv, Typed, Least, Most
  <2>2. CASE anchor = None \/ Newer(node, anchor)
    BY <1>1, <2>1, <2>2, AdoptsCopy DEF Adopt
  <2>3. CASE ~ (anchor = None \/ Newer(node, anchor))
    BY <1>1, <2>3, Unlearnt DEF Adopt
  <2> QED
    BY <2>2, <2>3
<1> QED
  BY <1>1, Unlearnt DEF Refresh, RefreshOrFail

-----------------------------------------------------------------------------
(* Doors. *)

(* A door that the chain lets through writes a checkpoint that fits. *)
LEMMA DoorFits ==
  ASSUME IInv, NEW x \in Pos, NEW k \in {1, 2}, NEW age \in {0, -Root}, chk.age >= 0,
         NEW own \in Loose(-(Root + Lead), Cap) \cup Sentinels \cup {None},
         own # None /\ own.age # Sentinel => own.age >= age - Lead
  PROVE  Fits(Written(x, age, Latest + k), row, node, own)
<1>1. PICK c : c = [x |-> x, age |-> age, rank |-> Latest + k]
  OBVIOUS
<1>2. /\ Latest \in Rank
      /\ \A d \in {chk, row, node, anchor} \ {None} : d.rank # Top => d.rank <= Latest
  BY LatestIsLast DEF IInv
<1>3. row # None /\ node # None
  BY Constants DEF IInv, Typed
<1>4. c \in Loose(-Root, Cap) /\ c.age = age /\ c.rank = Latest + k
  BY <1>1, <1>2, Constants DEF Loose
<1>5. row.rank # c.rank /\ node.rank # c.rank
  BY <1>2, <1>3, <1>4 DEF IInv, Typed
<1>6. /\ node \in Loose(-Root, Cap) /\ row \in Loose(-Root, 0) \cup Sentinels
      /\ Least(0, age) = age /\ Least(0, chk.age) = 0
  <2>1. node \in Loose(-Root, Cap) /\ row \in Loose(-Root, 0) \cup Sentinels
    BY HeldFits DEF Fits
  <2>2. Least(0, age) = age /\ Least(0, chk.age) = 0
    BY Constants DEF Least, IInv, Typed
  <2> QED
    BY <2>1, <2>2
<1>7. node.age >= age /\ (row.age # Sentinel => row.age >= age)
  BY <1>6, Constants DEF IInv, OneFuture, Loose
<1> QED
  BY <1>1, <1>4, <1>5, <1>6, <1>7 DEF Fits

(* The anchor measured from before the door may stay. *)
LEMMA AnchorStays ==
  ASSUME IInv, chk.age >= 0, NEW age \in {0, -Root}
  PROVE  /\ anchor \in Loose(-(Root + Lead), Cap) \cup Sentinels \cup {None}
         /\ anchor # None /\ anchor.age # Sentinel => anchor.age >= age - Lead
         /\ anchor # None /\ anchor.age # Sentinel => anchor.age >= -Lead
<1>1. anchor # None /\ anchor.age # Sentinel => anchor.age >= -Lead /\ anchor.age \in Int
  BY Constants DEF IInv, OneFuture, Typed, Least
<1> QED
  BY <1>1, HeldFits, Constants DEF Fits

LEMMA ForeignDoorKeeps ==
  ASSUME IInv, ForeignDoor
  PROVE  IInv'
<1>1. PICK x \in Pos : ChainProves(x) /\ Commit(Written(x, 0, Latest + 1), anchor)
  BY DEF ForeignDoor
<1>2. chk.age >= 0
  BY <1>1 DEF ChainProves
<1>3. Fits(Written(x, 0, Latest + 1), row, node, anchor)
  BY <1>2, AnchorStays, DoorFits
<1>4. /\ Held' /\ InDate' /\ OneFuture'
      /\ IF anchor = None THEN anchor' = None ELSE anchor' # None /\ anchor'.x = anchor.x
  BY <1>1, <1>3, HoldStep DEF Commit
<1>5. unseen' = TRUE /\ UNCHANGED <<clock, held, pose, loopVars, blind>>
  BY DEF ForeignDoor
<1>6. GoalIsPose'
  BY <1>4, <1>5 DEF IInv, GoalIsPose
<1> QED
  BY <1>4, <1>5, <1>6 DEF IInv, Typed, NeverFavours, ProvedLegIsAccepted

LEMMA GatherKeeps ==
  ASSUME IInv, GatherHere
  PROVE  IInv'
<1>1. PICK lead \in 0 .. Lead : /\ Commit(Written(pose, -Root, Latest + 1), Rooted(lead))
                               /\ held' = (IF Keeps(lead) THEN held ELSE 0)
  BY Constants DEF GatherHere
<1>2. /\ chk.age >= 0 /\ pose \in Pos /\ unseen' = FALSE /\ pc' = "idle"
      /\ UNCHANGED <<clock, pose, why, goal, dest, tried, blind>> /\ held' \in Nat
  BY <1>1 DEF GatherHere, ChainProves, IInv, Typed
<1>3. Keeps(lead) => anchor # None /\ anchor.age = Sentinel
  BY <1>2, AnchorStays, Constants DEF Keeps, IInv, Typed
<1>4. ~ Keeps(lead) => /\ Rooted(lead).x = pose /\ Rooted(lead).age = -(Root + lead)
                       /\ Rooted(lead) \in Loose(-(Root + Lead), Cap)
  <2>1. Latest \in Rank
    BY LatestIsLast DEF IInv
  <2> QED
    BY <1>2, <2>1, Constants DEF Rooted, Loose
<1>5. /\ Rooted(lead) \in Loose(-(Root + Lead), Cap) \cup Sentinels
      /\ Rooted(lead) # None /\ Rooted(lead).age # Sentinel => Rooted(lead).age >= -Root - Lead
  <2>1. CASE Keeps(lead)
    BY <1>2, <1>3, <2>1, AnchorStays DEF Rooted
  <2>2. CASE ~ Keeps(lead)
    BY <1>4, <2>2, Constants
  <2> QED
    BY <2>1, <2>2
<1>6. Fits(Written(pose, -Root, Latest + 1), row, node, Rooted(lead))
  BY <1>2, <1>5, DoorFits
<1>7. Rooted(lead) # None
  <2>1. CASE Keeps(lead)
    BY <1>3, <2>1 DEF Rooted
  <2>2. CASE ~ Keeps(lead)
    <3>1. Rooted(lead) \in [x : Int, age : Int, rank : Int]
      BY <1>4, <2>2, Constants DEF Loose
    <3> QED
      BY <3>1, MoverAssumption
  <2> QED
    BY <2>1, <2>2
<1>8. /\ Held' /\ InDate' /\ OneFuture' /\ chk'.x = pose /\ chk'.age = -Root
      /\ anchor' # None /\ anchor'.x = Rooted(lead).x /\ anchor'.age = Rooted(lead).age
  BY <1>1, <1>6, <1>7, HoldStep DEF Commit
<1>9. NeverFavours'
  <2>1. CASE Keeps(lead)
    BY <1>3, <1>8, <2>1 DEF NeverFavours, Rooted
  <2>2. CASE ~ Keeps(lead)
    BY <1>4, <1>8, <2>2, Constants DEF NeverFavours
  <2> QED
    BY <2>1, <2>2
<1> QED
  BY <1>2, <1>8, <1>9 DEF IInv, Typed, GoalIsPose, ProvedLegIsAccepted

(* The end of a visit of the zone. *)
LEMMA ZoneIsLeft ==
  ASSUME IInv, LeaveZone \/ Sleep
  PROVE  /\ goal' \in Pos /\ blind' \in BOOLEAN /\ pc' \in {"idle", "reread"}
         /\ GoalIsPose' /\ ProvedLegIsAccepted'
<1>1. pc' \in {"idle", "reread"} /\ goal' = 0 /\ blind' = FALSE
  BY DEF LeaveZone, Sleep
<1>2. 0 \in Pos
  BY Constants
<1>3. GoalIsPose' /\ ProvedLegIsAccepted'
  BY <1>1 DEF GoalIsPose, ProvedLegIsAccepted
<1> QED
  BY <1>1, <1>2, <1>3

LEMMA SearchLandsKeeps ==
  ASSUME IInv, SearchLands
  PROVE  IInv'
<1>1. PICK own \in OwnEstimate : Commit(Written(pose, 0, Latest + 2), own)
  BY DEF SearchLands
<1>2. /\ chk.age >= 0 /\ pose \in Pos /\ held' = 0 /\ unseen' = FALSE /\ dest' \in {0, Far}
      /\ LeaveZone /\ UNCHANGED <<clock, left, pose>>
  BY Constants DEF SearchLands, ChainProves, IInv, Typed
<1>3. /\ own \in Loose(-(Root + Lead), Cap) \cup Sentinels /\ own.x = pose
      /\ own.age = Sentinel \/ own.age \in -Lead .. 0
  <2>1. Latest \in Rank
    BY LatestIsLast DEF IInv
  <2>2. CASE own = Written(pose, Sentinel, Top)
    BY <1>2, <2>2
  <2>3. CASE own = Written(pose, 0, Latest + 1)
    BY <1>2, <2>1, <2>3, Constants DEF Loose
  <2>4. ASSUME NEW lead \in 1 .. Lead, own = Written(pose, -lead, Latest + 3)
        PROVE  own \in Loose(-(Root + Lead), Cap) /\ own.x = pose /\ own.age \in -Lead .. 0
    BY <1>2, <2>1, <2>4, Constants DEF Loose
  <2> QED
    BY <2>2, <2>3, <2>4 DEF OwnEstimate
<1>4. own # None
  <2>1. own \in [x : Int, age : Int, rank : Int]
    BY <1>3, Constants DEF Loose
  <2> QED
    BY <2>1, MoverAssumption
<1>5. Fits(Written(pose, 0, Latest + 2), row, node, own)
  <2>1. own.age # Sentinel => own.age >= 0 - Lead
    BY <1>3, Constants
  <2> QED
    BY <1>2, <1>3, <2>1, DoorFits
<1>6. /\ Held' /\ InDate' /\ OneFuture' /\ chk'.x = pose /\ chk'.age = 0
      /\ anchor' # None /\ anchor'.x = own.x /\ anchor'.age = own.age
  BY <1>1, <1>4, <1>5, HoldStep DEF Commit
<1>7. NeverFavours'
  BY <1>3, <1>6, Constants DEF NeverFavours
<1> QED
  BY <1>2, <1>6, <1>7, ZoneIsLeft DEF IInv, Typed

LEMMA SearchLostKeeps ==
  ASSUME IInv, SearchLost
  PROVE  IInv'
<1>1. /\ Commit(Written(pose, 0, Latest + 1), anchor) /\ chk.age >= 0 /\ pose \in Pos
      /\ unseen' = TRUE /\ Sleep /\ UNCHANGED <<clock, held, pose, dest>>
  BY DEF SearchLost, ChainProves, IInv, Typed
<1>2. Fits(Written(pose, 0, Latest + 1), row, node, anchor)
  BY <1>1, AnchorStays, DoorFits
<1>3. Held' /\ InDate' /\ OneFuture'
  BY <1>1, <1>2, HoldStep DEF Commit
<1> QED
  BY <1>1, <1>3, ZoneIsLeft DEF IInv, Typed, NeverFavours

-----------------------------------------------------------------------------
(* The loop. *)

(* A step that learns at most of the checkpoint. *)
LEMMA LearningKeeps ==
  ASSUME IInv, Learns, dest' = dest, clock' \in BOOLEAN, blind' \in BOOLEAN,
         goal' \in Pos, GoalIsPose', ProvedLegIsAccepted'
  PROVE  IInv'
  BY DEF IInv, Typed, Learns

LEMMA ReadsKeep ==
  ASSUME IInv, Pass \/ StartLeg \/ ProveRead \/ WaitRead \/ SearchRefused \/ Reread
  PROVE  IInv'
<1>1. Learns /\ dest' = dest /\ clock' = clock
  BY SyncLearns, ReadLearns DEF Pass, StartLeg, ProveRead, WaitRead, SearchRefused, Reread
<1>2. CASE Pass \/ StartLeg \/ Reread
  <2>1. goal' = goal /\ blind' = blind /\ pc' \in {"start", "leg"}
    BY <1>2 DEF Pass, StartLeg, Reread
  <2> QED
    BY <1>1, <2>1, LearningKeeps DEF IInv, Typed, GoalIsPose, ProvedLegIsAccepted
<1>3. CASE ProveRead \/ WaitRead
  <2>1. /\ goal' = goal /\ blind' = blind /\ why' = why
        /\ pc \in {"prove", "wait"} /\ pc' = "wait"
    BY <1>3 DEF ProveRead, WaitRead
  <2>2. GoalIsPose'
    BY <1>1, <2>1 DEF IInv, GoalIsPose, Learns
  <2> QED
    BY <1>1, <2>1, <2>2, LearningKeeps DEF IInv, Typed, ProvedLegIsAccepted
<1>4. CASE SearchRefused
  <2>1. LeaveZone
    BY <1>4 DEF SearchRefused
  <2> QED
    BY <1>1, <2>1, ZoneIsLeft, LearningKeeps DEF IInv, Typed
<1> QED
  BY <1>2, <1>3, <1>4

(* The step on a leg, within the line. *)
LEMMA StepLegKeeps ==
  ASSUME IInv, StepLeg
  PROVE  IInv'
<1>1. /\ pose' = Next1 /\ pc' = "leg" /\ pose # dest
      /\ UNCHANGED <<chainVars, anchor, held, pc, why, goal, dest, ghosts>>
  BY DEF StepLeg
<1>2. pose' \in Pos
  BY <1>1, Constants DEF IInv, Typed, Next1
<1> QED
  BY <1>1, <1>2 DEF IInv, Typed, InDate, OneFuture, NeverFavours, GoalIsPose, ProvedLegIsAccepted

LEMMA LegsKeep ==
  ASSUME IInv, Reanchor \/ Stall \/ ArriveLeg \/ NotProved \/ SearchFails
  PROVE  IInv'
<1>1. UNCHANGED known /\ UNCHANGED <<clock, dest>>
  BY DEF Reanchor, Stall, ArriveLeg, NotProved, SearchFails
<1>2. Learns
  BY <1>1, Unlearnt
<1>3. CASE Reanchor \/ ArriveLeg
  <2>1. /\ pc' = "prove" /\ blind' = blind /\ goal' \in Pos
        /\ why' = "arrive" \/ goal' = pose
    BY <1>3, Constants DEF Reanchor, ArriveLeg, IInv, Typed
  <2> QED
    BY <1>1, <1>2, <2>1, LearningKeeps DEF IInv, Typed, GoalIsPose, ProvedLegIsAccepted
<1>4. CASE Stall \/ NotProved \/ SearchFails
  BY <1>1, <1>2, <1>4, ZoneIsLeft, LearningKeeps DEF Stall, NotProved, SearchFails, IInv, Typed
<1> QED
  BY <1>3, <1>4

(* The proof of the mover is a proof of the chain. *)
LEMMA ProofIsSound ==
  ASSUME IInv, clock, ~unseen, NEW x \in Pos, NEW lead \in 0 .. Lead, CanReach(x, Margin, lead),
         pose = x \/ anchor.x = pose
  PROVE  ChainProves(pose)
<1>1. /\ anchor # None /\ anchor.age # Sentinel
      /\ anchor.age + lead - Margin >= 0 /\ anchor.age + lead - Margin >= Gap(anchor.x, x)
  BY Constants DEF CanReach, Provable, Elapsed, Least, Gap, IInv, Typed
<1>2. anchor.x = chk.x /\ anchor.age <= chk.age
  BY <1>1 DEF IInv, NeverFavours
<1>3. chk.age >= 0 /\ chk.age >= Gap(chk.x, x)
  BY <1>1, <1>2, Constants DEF IInv, Typed, Gap
<1> QED
  BY <1>2, <1>3 DEF ChainProves, Provable, Gap, IInv, Typed

LEMMA ProvedKeeps ==
  ASSUME IInv, Proved
  PROVE  IInv'
<1>1. UNCHANGED known /\ UNCHANGED <<clock, dest>> /\ pc = "wait"
  BY DEF Proved
<1>2. Learns
  BY <1>1, Unlearnt
<1>3. CASE why = "arrive"
  <2>1. pc' = "prove" /\ goal' = pose /\ blind' = blind
    BY <1>3 DEF Proved
  <2> QED
    BY <1>1, <1>2, <2>1, LearningKeeps DEF IInv, Typed, GoalIsPose, ProvedLegIsAccepted
<1>4. CASE why # "arrive"
  <2>1. pc' = "submit" /\ goal' = goal /\ blind' = ~clock
    BY <1>4 DEF Proved
  <2>2. ASSUME ~ unseen, clock PROVE ChainProves(pose)
    <3>1. PICK lead \in 0 .. Lead : CanReach(goal, Margin, lead)
      BY DEF Proved
    <3>2. pose = goal \/ anchor.x = pose
      BY <1>1, <1>4 DEF IInv, GoalIsPose
    <3> QED
      BY <2>2, <3>1, <3>2, ProofIsSound DEF IInv, Typed
  <2>3. ProvedLegIsAccepted'
    BY <1>1, <2>1, <2>2 DEF ProvedLegIsAccepted, ChainProves, Provable, Gap
  <2> QED
    BY <1>1, <1>2, <2>1, <2>3, LearningKeeps DEF IInv, Typed, GoalIsPose
<1> QED
  BY <1>3, <1>4

-----------------------------------------------------------------------------
(* The environment. *)

(* What time does to one of the four. *)
LEMMA AgedCopy ==
  ASSUME NEW low \in Int, NEW top \in Int, low > Sentinel, low <= top,
         NEW c \in [x : Pos, age : low .. top, rank : Rank], c # None
  PROVE  /\ Aged(c, top) \in [x : Pos, age : low .. top, rank : Rank]
         /\ Aged(c, top).x = c.x /\ Aged(c, top).rank = c.rank
         /\ Aged(c, top).age = Least(top, c.age + 1)
<1>1. PICK d : d = Aged(c, top)
  OBVIOUS
<1>2. c.age # Sentinel
  BY Constants
<1>3. d = [x |-> c.x, age |-> Least(top, c.age + 1), rank |-> c.rank]
  BY <1>1, <1>2 DEF Aged
<1>4. Least(top, c.age + 1) \in low .. top
  BY DEF Least
<1>5. /\ d \in [x : Pos, age : low .. top, rank : Rank]
      /\ d.x = c.x /\ d.rank = c.rank /\ d.age = Least(top, c.age + 1)
  BY <1>3, <1>4
<1> QED
  BY <1>1, <1>5

LEMMA TickKeeps ==
  ASSUME IInv, Tick
  PROVE  IInv'
<1>0. /\ chk' = Aged(chk, Cap) /\ node' = Aged(node, Cap)
      /\ row' = Aged(row, 0) /\ anchor' = Aged(anchor, Cap) /\ held' = Least(Cap, held + 1)
      /\ UNCHANGED <<clock, left, pose, loopVars, unseen, blind>>
  BY DEF Tick
<1>1. /\ chk \in Copies(Cap) /\ node \in Copies(Cap) /\ chk # None /\ node # None /\ row # None
      /\ -Root \in Int /\ Cap \in Int /\ -(Root + Lead) \in Int /\ -Root > Sentinel /\ -Root <= 0
      /\ -Root <= Cap /\ -(Root + Lead) > Sentinel /\ -(Root + Lead) <= Cap
  <2>1. chk \in Copies(Cap) /\ node \in Copies(Cap) /\ row \in Copies(0) \cup Sentinels
    BY DEF IInv, Typed
  <2> QED
    BY <2>1, Constants
<1>2. /\ chk' \in Copies(Cap) /\ chk'.x = chk.x /\ chk'.rank = chk.rank
      /\ chk'.age = Least(Cap, chk.age + 1)
      /\ node' \in Copies(Cap) /\ node'.x = node.x /\ node'.rank = node.rank
      /\ node'.age = Least(Cap, node.age + 1)
  BY <1>0, <1>1, AgedCopy
<1>3. /\ row' \in Copies(0) \cup Sentinels /\ row'.rank = row.rank /\ row'.x = row.x
      /\ row'.age = IF row.age = Sentinel THEN Sentinel ELSE Least(0, row.age + 1)
  <2>1. CASE row \in Sentinels
    BY <1>0, <2>1 DEF Aged
  <2>2. CASE row \in Copies(0)
    <3>1. row.age # Sentinel
      BY <2>2, Constants
    <3> QED
      BY <1>0, <1>1, <2>2, <3>1, AgedCopy
  <2> QED
    BY <2>1, <2>2 DEF IInv, Typed
<1>5. ASSUME anchor # None
      PROVE  /\ anchor' \in Anchors /\ anchor' # None /\ anchor'.x = anchor.x
             /\ anchor'.age = IF anchor.age = Sentinel THEN Sentinel ELSE Least(Cap, anchor.age + 1)
  <2>1. CASE anchor \in Sentinels
    BY <1>0, <1>5, <2>1 DEF Aged
  <2>2. CASE anchor \in [x : Pos, age : -(Root + Lead) .. Cap, rank : Rank]
    <3>1. anchor.age # Sentinel
      BY <1>1, <2>2, Constants
    <3>2. /\ anchor' \in [x : Pos, age : -(Root + Lead) .. Cap, rank : Rank]
          /\ anchor'.x = anchor.x /\ anchor'.age = Least(Cap, anchor.age + 1)
      BY <1>0, <1>1, <1>5, <2>2, AgedCopy
    <3>3. anchor' \in [x : Int, age : Int, rank : Int]
      BY <3>2
    <3> QED
      BY <3>1, <3>2, <3>3, MoverAssumption
  <2> QED
    BY <1>5, <2>1, <2>2 DEF IInv, Typed
<1>6. Typed'
  <2>1. anchor' \in Anchors
    BY <1>0, <1>5 DEF Aged
  <2>2. held' \in Nat
    BY <1>0, Constants DEF IInv, Typed, Least
  <2> QED
    BY <1>0, <1>2, <1>3, <2>1, <2>2 DEF IInv, Typed
<1>7. InDate'
  <2>1. ASSUME node'.rank = chk'.rank PROVE node' = chk'
    BY <1>0, <1>2, <2>1 DEF IInv, InDate
  <2>2. ASSUME row'.rank = chk'.rank PROVE row' = Dated(chk')
    <3>1. row = Dated(chk)
      BY <1>2, <1>3, <2>2 DEF IInv, InDate
    <3>2. row.x = chk.x /\ row.age = Least(0, chk.age) /\ row \in Copies(0)
      BY <1>1, <3>1, DatedCopy
    <3>3. row'.age = Least(0, chk'.age)
      <4>1. row.age # Sentinel /\ chk.age \in Int
        BY <1>1, <3>2, Constants
      <4>2. row'.age = Least(0, Least(0, chk.age) + 1) /\ chk'.age = Least(Cap, chk.age + 1)
        BY <1>2, <1>3, <3>2, <4>1
      <4> QED
        BY <4>1, <4>2, Constants DEF Least
    <3>4. row' \in Copies(0)
      BY <1>2, <1>3, <2>2
    <3>5. /\ Dated(chk') \in Copies(0) /\ Dated(chk').rank = chk'.rank
          /\ Dated(chk').x = chk'.x /\ Dated(chk').age = Least(0, chk'.age)
      BY <1>2, DatedCopy
    <3> QED
      BY <1>2, <1>3, <2>2, <3>2, <3>3, <3>4, <3>5
  <2> QED
    BY <2>1, <2>2 DEF InDate
<1>8. OneFuture'
  <2>1. node'.age >= Least(0, chk'.age)
    BY <1>1, <1>2, Constants DEF IInv, OneFuture, Least
  <2>2. ASSUME row'.age # Sentinel PROVE row'.age >= Least(0, chk'.age)
    <3>1. row.age # Sentinel /\ row.age >= Least(0, chk.age) /\ row.age \in Int
      BY <1>3, <2>2, Constants DEF IInv, OneFuture, Typed
    <3> QED
      BY <1>1, <1>2, <1>3, <3>1, Constants DEF Least
  <2>3. ASSUME anchor' # None, anchor'.age # Sentinel PROVE anchor'.age >= Least(0, chk'.age) - Lead
    <3>1. anchor # None
      BY <1>0, <2>3 DEF Aged
    <3>2. anchor.age # Sentinel /\ anchor.age >= Least(0, chk.age) - Lead /\ anchor.age \in Int
      BY <1>5, <2>3, <3>1, Constants DEF IInv, OneFuture, Typed
    <3> QED
      BY <1>1, <1>2, <1>5, <3>1, <3>2, Constants DEF Least
  <2> QED
    BY <2>1, <2>2, <2>3 DEF OneFuture, Least
<1>9. NeverFavours'
  <2> SUFFICES ASSUME ~ unseen
               PROVE  anchor' # None /\ (anchor'.age = Sentinel \/ (anchor'.x = chk'.x /\ anchor'.age <= chk'.age))
    BY <1>0 DEF NeverFavours
  <2>1. anchor # None /\ (anchor.age = Sentinel \/ (anchor.x = chk.x /\ anchor.age <= chk.age))
    BY DEF IInv, NeverFavours
  <2>2. anchor.age \in Int
    BY <2>1, Constants DEF IInv, Typed
  <2> QED
    BY <1>1, <1>2, <1>5, <2>1, <2>2, Constants DEF Least
<1>10. GoalIsPose'
  BY <1>0, <1>5 DEF IInv, GoalIsPose
<1>11. ProvedLegIsAccepted'
  <2> SUFFICES ASSUME chk.age >= 0, chk.age >= Gap(chk.x, pose)
               PROVE  chk'.age >= 0 /\ chk'.age >= Gap(chk'.x, pose)
    BY <1>0 DEF IInv, ProvedLegIsAccepted, ChainProves, Provable, Gap
  <2>1. Gap(chk.x, pose) <= Far
    BY <1>1, Constants DEF IInv, Typed, Gap
  <2>2. Gap(chk.x, pose) \in Int
    BY <1>1 DEF IInv, Typed, Gap
  <2> QED
    BY <1>1, <1>2, <2>1, <2>2, Constants DEF Least
<1> QED
  BY <1>6, <1>7, <1>8, <1>9, <1>10, <1>11 DEF IInv

LEMMA EnvironmentKeeps ==
  ASSUME IInv, RowCatchesUp \/ NodeCatchesUp \/ SentinelRow \/ ClockExpires \/ ClockReturns
               \/ UNCHANGED vars
  PROVE  IInv'
<1>1. CASE ClockExpires \/ ClockReturns \/ UNCHANGED vars
  <2>1. UNCHANGED known /\ UNCHANGED loopVars /\ blind' = blind /\ clock' \in BOOLEAN
    BY <1>1 DEF ClockExpires, ClockReturns, IInv, Typed
  <2>2. Learns
    BY <2>1, Unlearnt
  <2> QED
    BY <2>1, <2>2, LearningKeeps DEF IInv, Typed, GoalIsPose, ProvedLegIsAccepted,
                                     ChainProves, Provable, Gap
<1>2. ASSUME NEW push, NEW read, Hold(chk, push, read, anchor), Fits(chk, push, read, anchor),
             UNCHANGED <<clock, held, pose, loopVars, ghosts>>
      PROVE  IInv'
  <2>1. /\ Held' /\ InDate' /\ OneFuture' /\ chk'.x = chk.x /\ chk'.age = chk.age
        /\ IF anchor = None THEN anchor' = None
           ELSE anchor' # None /\ anchor'.x = anchor.x /\ anchor'.age = anchor.age
    BY <1>2, HoldStep
  <2>2. Typed'
    BY <1>2, <2>1 DEF IInv, Typed
  <2>3. NeverFavours' /\ GoalIsPose'
    BY <1>2, <2>1 DEF IInv, NeverFavours, GoalIsPose
  <2>4. ProvedLegIsAccepted'
    BY <1>2, <2>1 DEF IInv, ProvedLegIsAccepted, ChainProves, Provable, Gap
  <2> QED
    BY <2>1, <2>2, <2>3, <2>4 DEF IInv
<1>3. CASE RowCatchesUp
  <2>1. Fits(chk, Dated(chk), node, anchor)
    <3>1. Dated(chk) \in Copies(0) /\ Dated(chk).age = Least(0, chk.age)
      BY DatedCopy DEF IInv, Typed
    <3>2. Dated(chk) \in Loose(-Root, 0) /\ Dated(chk).age >= Least(0, chk.age)
      BY <3>1, Constants DEF Loose, Least, IInv, Typed
    <3> QED
      BY <3>2, HeldFits DEF Fits
  <2> QED
    BY <1>2, <1>3, <2>1 DEF RowCatchesUp
<1>4. CASE NodeCatchesUp
  <2>1. chk.age >= Least(0, chk.age)
    BY Constants DEF Least, IInv, Typed
  <2>2. Fits(chk, row, chk, anchor)
    BY <2>1, HeldFits DEF Fits
  <2> QED
    BY <1>2, <1>4, <2>2 DEF NodeCatchesUp
<1>5. CASE SentinelRow
  <2>1. PICK push : push = [chk EXCEPT !.age = Sentinel, !.rank = Top]
    OBVIOUS
  <2>2. push \in Sentinels /\ push.rank # chk.rank /\ push.age = Sentinel
    <3>1. chk \in Copies(Cap)
      BY DEF IInv, Typed
    <3>2. push = [x |-> chk.x, age |-> Sentinel, rank |-> Top]
      BY <2>1, <3>1
    <3> QED
      BY <3>1, <3>2
  <2>3. Fits(chk, push, node, anchor)
    BY <2>2, HeldFits DEF Fits
  <2> QED
    BY <1>2, <1>5, <2>1, <2>3 DEF SentinelRow
<1> QED
  BY <1>1, <1>3, <1>4, <1>5

-----------------------------------------------------------------------------
(* The invariant is inductive: however the pushes and reads lag, whatever doors
   the mover is not told of, and wherever it stands in its own loop, an anchor
   that knows of the checkpoint never makes it older. *)
THEOREM IInvHolds == Spec => []IInv
<1>1. IInv /\ [Next]_vars => IInv'
  <2> SUFFICES ASSUME IInv, [Next]_vars PROVE IInv'
    OBVIOUS
  <2>1. CASE Environment \/ UNCHANGED vars
    BY <2>1, TickKeeps, ForeignDoorKeeps, EnvironmentKeeps DEF Environment
  <2>2. CASE Loop
    BY <2>2, ReadsKeep, GatherKeeps, StepLegKeeps, LegsKeep DEF Loop
  <2>3. CASE Zone
    BY <2>3, ReadsKeep, ProvedKeeps, LegsKeep, SearchLandsKeeps, SearchLostKeeps DEF Zone
  <2> QED
    BY <2>1, <2>2, <2>3 DEF Next
<1> QED
  BY <1>1, InitEstablishesIInv, PTL DEF Spec

(* What the mover proves the chain proves too (travel_proof_ready and
   world_map::travel_ok): a search submitted by a mover that knows of the
   checkpoint, and had a sample of the chain's clock, is never refused with 305,
   on a line of any length, however far the clock runs ahead within the margin. *)
THEOREM ProvedLegsAreAccepted == Spec => []ProvedLegIsAccepted
  BY IInvHolds, PTL DEF IInv

(* The pose a character streams never runs ahead of its proof: it moves by one
   step that the anchor pays for at that instant (travel.ts, the loop of
   travel_to), or jumps onto the checkpoint it measures from. *)
PoseFollows ==
  \/ anchor' # None /\ anchor'.x = pose'
  \/ /\ pc = "leg" /\ Gap(pose, pose') = 1
     /\ \E lead \in 0 .. Lead : CanReach(pose', 0, lead)

(* The pose the bot streams to the server is one the chain will prove: it moves
   as far as the time since the anchor pays for, or is set to a checkpoint. *)
THEOREM PoseNeverRunsAhead == Spec => [][pose' # pose => PoseFollows]_vars
<1>1. ASSUME IInv, Next, pose' # pose PROVE PoseFollows
  <2>1. CASE Environment
    BY <1>1, <2>1 DEF Environment, Tick, ForeignDoor, RowCatchesUp, NodeCatchesUp, SentinelRow,
                      ClockExpires, ClockReturns
  <2>2. CASE Pass \/ StartLeg \/ ProveRead \/ WaitRead \/ SearchRefused \/ Reread
    <3>1. Learns
      BY <1>1, <2>2, SyncLearns, ReadLearns
         DEF Pass, StartLeg, ProveRead, WaitRead, SearchRefused, Reread
    <3> QED
      BY <1>1, <3>1 DEF Learns, PoseFollows
  <2>3. CASE StepLeg
    <3>1. pc = "leg" /\ pose' = Next1 /\ pose # dest /\ \E lead \in 0 .. Lead : CanReach(Next1, 0, lead)
      BY <2>3 DEF StepLeg
    <3>2. Gap(pose, Next1) = 1
      BY <1>1, Constants DEF Gap, Next1, IInv, Typed
    <3> QED
      BY <3>1, <3>2 DEF PoseFollows
  <2>4. CASE GatherHere \/ Reanchor \/ Stall \/ ArriveLeg
    BY <1>1, <2>4 DEF GatherHere, Reanchor, Stall, ArriveLeg
  <2>5. CASE Proved \/ NotProved \/ SearchLands \/ SearchLost \/ SearchFails
    BY <1>1, <2>5 DEF Proved, NotProved, SearchLands, SearchLost, SearchFails
  <2> QED
    BY <1>1, <2>1, <2>2, <2>3, <2>4, <2>5 DEF Next, Loop, Zone
<1>2. IInv /\ [Next]_vars => [pose' # pose => PoseFollows]_vars
  BY <1>1
<1> QED
  BY <1>2, IInvHolds, PTL DEF Spec
=============================================================================
