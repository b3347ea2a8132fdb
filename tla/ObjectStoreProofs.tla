-------------------------- MODULE ObjectStoreProofs --------------------------
(***************************************************************************)
(* No object the shared ref reaches is lost, for any number of nodes,      *)
(* clients, pushes, passes and crashes, and any ancestry.                  *)
(*                                                                         *)
(* Three arguments meet.  While a pass cleans up, whatever it protects is  *)
(* in the newest pack, which is not among those it removes (Carried).      *)
(* What is protected when a read starts stays protected, because the ref   *)
(* only moves to tips that succeed it.  And an object the ref reaches only *)
(* since the pass of a node began is new there, as its push was: no pass   *)
(* removes a new file, provided none is republished between the stat and   *)
(* the removal of its old self (NoTouchInSweep).                           *)
(***************************************************************************)
EXTENDS ObjectStore, SequenceTheorems, FiniteSetTheorems, TLAPS

Ages   == {"new", "old"}
Packs  == [objects : SUBSET Objects, data : BOOLEAN]
Tips   == Objects \union {None}
Passes == [pc : {"idle", "mark", "sweep", "clean"}, tip : Tips,
           todo : SUBSET Objects, checked : Tips,
           aged : SUBSET Objects, stale : SUBSET Nat]
Pushes == [pc : {"idle", "publish", "copy", "cas"}, tip : Tips, expected : Tips,
           done : Nat, at : Nodes \union {None}]
Reads  == [pc : {"idle", "loose", "catalog", "data", "missing"},
           node : Nodes \union {None}, object : Tips, pack : Nat]

-----------------------------------------------------------------------------
(* The inductive invariant.                                                *)

Shared == /\ world \in Worlds /\ ref \in Tips
          /\ up \subseteq world.nodes /\ listed \subseteq Nodes

FilesTyped(n) ==
    /\ DOMAIN loose[n] \subseteq Objects
    /\ \A o \in DOMAIN loose[n] : loose[n][o] \in Ages
    /\ made[n] \in Nat /\ DOMAIN packs[n] \subseteq 1..made[n]
    /\ \A p \in DOMAIN packs[n] : packs[n][p] \in Packs

\* The newest pack of a node, which no pass removes, names the object.
Newest(n, o) ==
    /\ made[n] \in DOMAIN packs[n] \ gc[n].stale
    /\ o \in packs[n][made[n]].objects
    /\ packs[n][made[n]].data

\* What a pass protects was reached by the ref then and still is; what it has
\* checked for removal is not protected.
PassOf(n) ==
    LET pass == gc[n] IN
    /\ pass \in Passes
    /\ pass.pc = "idle" => pass = NoPass
    /\ History(pass.tip) \subseteq History(ref)
    /\ pass.checked # None => pass.pc = "sweep" /\ pass.checked \notin History(pass.tip)
    /\ pass.aged \subseteq History(pass.tip)
    /\ pass.stale \subseteq DOMAIN packs[n]
    /\ pass.pc # "clean" => pass.stale = {}
    /\ made[n] <= world.packs
    /\ pass.pc \in {"mark", "sweep"} => made[n] < world.packs

\* While the pass cleans up, what it protects of the packs it removes and of
\* the loose files it unlinks is in the newest pack.
Carried(n) ==
    gc[n].pc = "clean" =>
        /\ \A o \in gc[n].aged : Newest(n, o)
        /\ \A p \in gc[n].stale :
             \A o \in packs[n][p].objects \intersect History(gc[n].tip) : Newest(n, o)

NodeOK(n) == FilesTyped(n) /\ PassOf(n) /\ Carried(n)
Domains == /\ DOMAIN loose = Nodes /\ DOMAIN packs = Nodes
           /\ DOMAIN made = Nodes /\ gc \in [Nodes -> Passes]
NodesOK == Domains /\ \A n \in Nodes : NodeOK(n)

\* A push has come as far as it has counted, towards a tip that succeeds what
\* it will replace.
PushOf(c) ==
    LET p == push[c] IN
    /\ p.pc = "idle" => p.tip = None
    /\ p.pc # "idle" =>
        /\ p.tip \in Objects
        /\ p.expected = None \/ p.expected \in History(p.tip)
        /\ p.pc = "cas" => p.done = Len(Chain[p.tip])
        /\ p.pc # "cas" => p.done < Len(Chain[p.tip])

PushesOK == push \in [Clients -> Pushes] /\ \A c \in Clients : PushOf(c)

\* A read that has missed the loose file is of an object that is in a pack.
ReadsOK ==
    LET o == reader.object
        n == reader.node
    IN  /\ reader \in Reads /\ reader.pc # "missing"
        /\ reader.pc \in {"loose", "catalog"} => n \in Nodes /\ o \in Protected(n)
        /\ reader.pc = "loose" => o \in Has(n)
        /\ reader.pc = "catalog" => Indexes(n, o) # {}

IsNew(n, o) == o \in DOMAIN loose[n] /\ loose[n][o] = "new"

\* A pass that is about to remove a file removes an old one.
CheckedOld(n) ==
    gc[n].checked # None => /\ gc[n].checked \in DOMAIN loose[n]
                            /\ loose[n][gc[n].checked] = "old"

\* Whatever the ref reaches is on a node that protects it or has it as a new
\* file; so is whatever a push has published, once and if the ref reaches it.
Secure(n, o) == o \in Has(n) /\ (o \in Protected(n) \/ IsNew(n, o))
RefIsSecure ==
    \A o \in History(ref) : \E n \in world.nodes : Secure(n, o)
PublishedIsSecure ==
    \A c \in Clients : push[c].pc # "idle" =>
        \A o \in Published(c) :
            o \in History(ref) \/ \E n \in world.nodes : IsNew(n, o)

NothingIsLost ==
    /\ \A n \in Nodes : CheckedOld(n)
    /\ RefIsSecure /\ PublishedIsSecure

IInv == /\ Shared /\ NodesOK /\ PushesOK /\ ReadsOK
        /\ NoTouchInSweep => NothingIsLost

-----------------------------------------------------------------------------
(* The helpers.                                                            *)

\* The greatest of a bounded set of numbers is one of them.
LEMMA MaxIsMember ==
    ASSUME NEW k \in Nat, NEW S \in SUBSET (1..k), S # {}
    PROVE  Max(S) \in S /\ \A y \in S : y <= Max(S)
<1> DEFINE Above(x) == (x + 1)..k
           T == {Above(x) : x \in S}
           R == StrictSubsetOrdering(1..k)
<1>1. IsWellFoundedOn(R, SUBSET (1..k))
  <2>1. FiniteSubsetsOf(1..k) = SUBSET (1..k)
    <3>1. IsFiniteSet(1..k)
      BY FS_Interval
    <3> QED
      BY ONLY <3>1, FS_FiniteSubsetsOfFinite
  <2>2. IsWellFoundedOn(StrictSubsetOrdering(1..k), FiniteSubsetsOf(1..k))
    BY ONLY FS_StrictSubsetOrderingWellFounded
  <2> QED
    BY <2>1, <2>2
<1>2. T \subseteq SUBSET (1..k) /\ T # {}
  <2>1. \A x \in S : Above(x) \in SUBSET (1..k)
    OBVIOUS
  <2> HIDE DEF Above
  <2> QED
    BY <2>1
<1>3. PICK t \in T : \A u \in T : <<u, t>> \notin R
  <2> HIDE DEF T, R
  <2> QED
    BY <1>1, <1>2, WFMin
<1>4. PICK x \in S : t = Above(x)
  OBVIOUS
<1>5. \A y \in S : x >= y
  <2> SUFFICES ASSUME NEW y \in S, y > x
               PROVE  FALSE
    OBVIOUS
  <2>1. y \in Above(x) /\ y \notin Above(y) /\ Above(y) \subseteq Above(x)
    OBVIOUS
  <2>2. Above(x) \in SUBSET (1..k) /\ Above(y) \in SUBSET (1..k)
    OBVIOUS
  <2>3. <<Above(y), Above(x)>> \in R
    <3> HIDE DEF Above
    <3> QED
      BY <2>1, <2>2 DEF StrictSubsetOrdering
  <2>4. Above(y) \in T
    OBVIOUS
  <2> HIDE DEF T, R, Above
  <2> QED
    BY <1>3, <1>4, <2>3, <2>4
<1> HIDE DEF T, R, Above
<1>6. \E z \in S : \A y \in S : z >= y
  BY <1>5
<1>7. Max(S) \in S /\ \A y \in S : Max(S) >= y
  BY <1>6, Zenon DEF Max
<1> QED
  BY <1>7

\* A pack with a greater name than any other is the one a reader takes.
LEMMA MaxIsGreatest ==
    ASSUME NEW S \in SUBSET Nat, NEW g \in S, \A y \in S : y <= g
    PROVE  Max(S) = g
<1> DEFINE IsMax(x) == \A y \in S : x >= y
<1>1. IsMax(g)
  OBVIOUS
<1>2. \A x \in S : IsMax(x) => x = g
  OBVIOUS
<1> QED
  BY <1>1, <1>2 DEF Max

\* The history of a tip is closed under ancestry and holds the tip.
LEMMA Ancestry ==
    /\ None \notin Objects /\ History(None) = {}
    /\ \A t \in Tips : /\ History(t) \subseteq Objects
                       /\ \A u \in History(t) : History(u) \subseteq History(t)
    /\ \A t \in Objects : /\ t \in History(t)
                          /\ Len(Chain[t]) \in Nat \ {0}
                          /\ \A i \in 1..Len(Chain[t]) : Chain[t][i] \in Objects
                          /\ History(t) = {Chain[t][i] : i \in 1..Len(Chain[t])}
<1>1. None \notin Objects /\ History(None) = {}
  BY ObjectStoreAssumption DEF History
<1>2. ASSUME NEW t \in Objects
      PROVE  /\ t \in History(t) /\ History(t) \subseteq Objects
             /\ \A u \in History(t) : History(u) \subseteq History(t)
             /\ Len(Chain[t]) \in Nat \ {0}
             /\ \A i \in 1..Len(Chain[t]) : Chain[t][i] \in Objects
             /\ History(t) = {Chain[t][i] : i \in 1..Len(Chain[t])}
  <2>1. /\ Chain[t] \in Seq(Objects) /\ t \in History(t)
        /\ \A u \in History(t) : History(u) \subseteq History(t)
    BY ObjectStoreAssumption
  <2>2. /\ DOMAIN Chain[t] = 1..Len(Chain[t]) /\ Len(Chain[t]) \in Nat
        /\ \A i \in 1..Len(Chain[t]) : Chain[t][i] \in Objects
    BY <2>1
  <2>3. History(t) = {Chain[t][i] : i \in 1..Len(Chain[t])}
    BY <1>1, <2>2 DEF History, Members
  <2>4. Len(Chain[t]) # 0
    BY <2>1, <2>2, <2>3
  <2> QED
    BY <2>1, <2>2, <2>3, <2>4
<1> QED
  BY <1>1, <1>2 DEF Tips

\* The store starts empty.
LEMMA InitIInv == Init => IInv
<1> SUFFICES ASSUME Init
             PROVE  IInv
  OBVIOUS
<1>1. Shared /\ world.nodes \subseteq Nodes /\ world.packs \in Nat
  BY ObjectStoreAssumption DEF Init, Shared, Tips
<1>2. NoPass \in Passes
  BY DEF NoPass, Passes, Tips
<1>3. NodesOK
  <2>1. ASSUME NEW n \in Nodes
        PROVE  NodeOK(n)
    <3>1. /\ DOMAIN loose[n] = {} /\ DOMAIN packs[n] = {}
          /\ made[n] = 0 /\ gc[n] = NoPass
      BY DEF Init
    <3>2. FilesTyped(n)
      BY <3>1 DEF FilesTyped
    <3> QED
      BY <1>1, <1>2, <3>1, <3>2, Ancestry DEF NodeOK, PassOf, Carried, NoPass
  <2> QED
    BY <1>2, <2>1 DEF Init, NodesOK, Domains
<1>4. PushesOK
  BY DEF Init, PushesOK, PushOf, Pushes, NoPush, Tips
<1>5. ReadsOK
  BY DEF Init, ReadsOK, Reads, NoRead, Tips
<1>6. NothingIsLost
  BY Ancestry DEF Init, NothingIsLost, CheckedOld, RefIsSecure,
     PublishedIsSecure, NoPass, NoPush
<1> QED
  BY <1>1, <1>3, <1>4, <1>5, <1>6 DEF IInv

-----------------------------------------------------------------------------
(* What a step keeps of a node.                                            *)

\* Protected objects stay, stay indexed and stay protected.
Keeps(n) ==
    /\ Protected(n) \intersect Has(n) \subseteq Has(n)'
    /\ \A o \in Protected(n) : Indexes(n, o) # {} => Indexes(n, o)' # {}
    /\ Protected(n) \subseteq Protected(n)'

\* A new file stays one, unless the pass protects the object or nobody is
\* pushing it any more and no pass is under way.
LeavesNew(n) ==
    \A o \in Objects : IsNew(n, o) =>
        \/ IsNew(n, o)'
        \/ o \in History(gc[n].tip)
        \/ /\ gc[n].pc = "idle" /\ o \in Has(n)'
           /\ \A c \in Clients : push[c].pc # "idle" => o \notin Published(c)

NodeSame(n) == /\ loose'[n] = loose[n] /\ packs'[n] = packs[n]
               /\ made'[n] = made[n] /\ gc'[n] = gc[n]

RefAdvances == /\ ref' \in Tips /\ History(ref) \subseteq History(ref')
               /\ world' = world

\* A node on which nothing happens.
LEMMA SameNode ==
    ASSUME NEW n \in Nodes, NodeOK(n), NodeSame(n), RefAdvances
    PROVE  NodeOK(n)' /\ Keeps(n) /\ LeavesNew(n) /\ (CheckedOld(n) => CheckedOld(n)')
<1>1. /\ \A o : Indexes(n, o)' = Indexes(n, o) /\ Packed(n, o)' = Packed(n, o)
      /\ Has(n)' = Has(n)
  BY DEF NodeSame, Indexes, Packed, Has
<1>2. Protected(n) \subseteq Protected(n)'
  BY DEF NodeSame, RefAdvances, Protected
<1>3. NodeOK(n)'
  BY DEF NodeSame, RefAdvances, NodeOK, FilesTyped, PassOf, Carried, Newest
<1> QED
  BY <1>1, <1>2, <1>3 DEF NodeSame, Keeps, LeavesNew, IsNew, CheckedOld

\* A file is published on a node.
LEMMA Touched ==
    ASSUME NEW n \in Nodes, NodeOK(n), NEW o \in Objects,
           loose'[n] = Fresh(loose[n], {o}), packs'[n] = packs[n],
           made'[n] = made[n], gc'[n] = gc[n], UNCHANGED <<ref, world>>
    PROVE  /\ NodeOK(n)' /\ Keeps(n) /\ LeavesNew(n) /\ IsNew(n, o)'
           /\ (gc[n].checked # o /\ CheckedOld(n)) => CheckedOld(n)'
<1>1. /\ DOMAIN loose'[n] = DOMAIN loose[n] \union {o}
      /\ loose'[n][o] = "new"
      /\ \A q \in DOMAIN loose[n] : q # o => loose'[n][q] = loose[n][q]
  BY DEF Fresh
<1>2. /\ \A q : Indexes(n, q)' = Indexes(n, q) /\ Packed(n, q)' = Packed(n, q)
      /\ Has(n) \subseteq Has(n)'
  BY <1>1 DEF Indexes, Packed, Has
<1>3. Protected(n) = Protected(n)'
  BY DEF Protected
<1>4. NodeOK(n)'
  BY <1>1 DEF NodeOK, FilesTyped, PassOf, Carried, Newest, Ages
<1>5. IsNew(n, o)' /\ \A q \in Objects : IsNew(n, q) => IsNew(n, q)'
  BY <1>1 DEF IsNew
<1>6. (gc[n].checked # o /\ CheckedOld(n)) => CheckedOld(n)'
  BY <1>1 DEF CheckedOld
<1> QED
  BY <1>2, <1>3, <1>4, <1>5, <1>6 DEF Keeps, LeavesNew

-----------------------------------------------------------------------------
(* The steps of a pass.                                                    *)

\* What a proof about one step of the pass of node n establishes.
Serves(n) == /\ NodeOK(n)' /\ Keeps(n)
             /\ CheckedOld(n) => CheckedOld(n)' /\ LeavesNew(n)
             /\ \A m \in Nodes \ {n} : NodeSame(m)
             /\ Domains'

\* The pass of the node becomes r, and no file is touched.
PassBecomes(n, r) ==
    /\ gc' \in [Nodes -> Passes] /\ gc'[n] = r
    /\ \A m \in Nodes \ {n} : gc'[m] = gc[m]
    /\ UNCHANGED <<loose, packs, made, ref, world>>

\* What a pass may become before it has written its pack.
Prepares(n, r) ==
    /\ r \in Passes
    /\ r.pc = "idle" => r = NoPass
    /\ History(r.tip) \subseteq History(ref)
    /\ r.checked # None => r.pc = "sweep" /\ r.checked \notin History(r.tip)
    /\ r.aged \subseteq History(r.tip)
    /\ r.pc # "clean" /\ r.stale = {}
    /\ r.pc \in {"mark", "sweep"} => made[n] < world.packs
    /\ r.pc # "idle" => Protected(n) \subseteq History(r.tip)
    /\ CheckedOld(n) /\ r.checked # None =>
          r.checked \in DOMAIN loose[n] /\ loose[n][r.checked] = "old"

\* A step that moves the pass on and touches no file.
LEMMA PassMoves ==
    ASSUME NEW n \in Nodes, NodesOK, NEW r, PassBecomes(n, r), Prepares(n, r)
    PROVE  Serves(n)
<1> USE DEF PassBecomes, Prepares
<1>1. gc'[n] = r
  OBVIOUS
<1>2. NodeOK(n) /\ Domains
  BY DEF NodesOK
<1>3. /\ \A o : Indexes(n, o)' = Indexes(n, o) /\ Packed(n, o)' = Packed(n, o)
      /\ Has(n)' = Has(n) /\ \A o : IsNew(n, o)' = IsNew(n, o)
  BY DEF Indexes, Packed, Has, IsNew
<1>4. Protected(n) \subseteq Protected(n)'
  BY <1>1, <1>2 DEF Protected, NodeOK, PassOf
<1>5. NodeOK(n)'
  BY <1>1, <1>2 DEF NodeOK, FilesTyped, PassOf, Carried
<1>6. CheckedOld(n) => CheckedOld(n)'
  BY <1>1 DEF CheckedOld
<1>7. \A m \in Nodes \ {n} : NodeSame(m)
  BY <1>1 DEF NodeSame
<1>8. Domains'
  BY <1>1, <1>2 DEF Domains
<1> QED
  BY <1>3, <1>4, <1>5, <1>6, <1>7, <1>8 DEF Serves, Keeps, LeavesNew

\* The pass of a node and the fields of the record it is kept in.
LEMMA PassTypes ==
    ASSUME NEW n \in Nodes, NodesOK
    PROVE  /\ gc \in [Nodes -> Passes] /\ gc[n] \in Passes
           /\ PassOf(n) /\ NoPass \in Passes
           /\ NoPass.pc = "idle" /\ NoPass.tip = None /\ NoPass.checked = None
           /\ NoPass.aged = {} /\ NoPass.stale = {} /\ NoPass.todo = {}
  BY DEF NodesOK, Domains, NodeOK, NoPass, Passes, Tips

\* A pass that is given up or over.
LEMMA PassEnds ==
    ASSUME NEW n \in Nodes, NodesOK, UNCHANGED <<loose, packs, made, ref, world>>,
           gc' = [gc EXCEPT ![n] = NoPass]
    PROVE  Serves(n)
<1>1. NoPass \in Passes /\ History(NoPass.tip) = {}
  BY PassTypes, Ancestry
<1>2. PassBecomes(n, NoPass)
  BY <1>1, PassTypes DEF PassBecomes
<1>3. Prepares(n, NoPass)
  BY <1>1, PassTypes DEF Prepares
<1> QED
  BY <1>2, <1>3, PassMoves

\* A pass starts from the ref as it is.
LEMMA StartPassServes ==
    ASSUME NEW n \in Nodes, Shared, NodesOK, StartPass(n)
    PROVE  Serves(n)
<1>1. gc[n] = NoPass /\ made[n] < world.packs
  BY PassTypes DEF StartPass, PassOf
<1>2. PICK r : r = gc'[n]
  OBVIOUS
<1>3. gc \in [Nodes -> Passes] /\ ref \in Tips
  BY PassTypes DEF Shared
<1>4. /\ r \in Passes /\ r.pc = "mark" /\ r.tip = ref
      /\ r.checked = gc[n].checked /\ r.aged = gc[n].aged /\ r.stale = gc[n].stale
  BY <1>2, <1>3 DEF StartPass, Passes
<1>5. PassBecomes(n, r)
  <2>1. /\ gc' = [gc EXCEPT ![n].pc = "mark", ![n].tip = ref]
        /\ UNCHANGED <<loose, packs, made, ref, world>>
    BY DEF StartPass
  <2>2. gc' = [gc EXCEPT ![n] = r]
    BY ONLY <1>2, <1>3, <2>1
  <2> QED
    BY <1>2, <1>3, <1>4, <2>1, <2>2 DEF PassBecomes
<1>6. Protected(n) = History(ref)
  BY <1>1, PassTypes DEF Protected
<1>7. r.checked = None /\ r.aged = {} /\ r.stale = {}
  BY <1>1, <1>4, PassTypes
<1>8. Prepares(n, r)
  BY <1>1, <1>4, <1>6, <1>7 DEF Prepares
<1> QED
  BY <1>5, <1>8, PassMoves

\* The mark either ends the pass or lists its loose files.
LEMMA MarkServes ==
    ASSUME NEW n \in Nodes, NodesOK, Mark(n)
    PROVE  Serves(n)
<1> DEFINE r == [gc[n] EXCEPT !.pc = "sweep", !.todo = DOMAIN loose[n]]
<1>1. gc[n].pc = "mark" /\ DOMAIN loose[n] \subseteq Objects
  BY DEF Mark, NodesOK, NodeOK, FilesTyped
<1>2. /\ r \in Passes /\ r.pc = "sweep" /\ r.tip = gc[n].tip
      /\ r.checked = gc[n].checked /\ r.aged = gc[n].aged /\ r.stale = gc[n].stale
  BY <1>1, PassTypes DEF Passes
<1>3. Protected(n) = History(gc[n].tip)
  BY <1>1 DEF Protected
<1>4. CASE gc' = [gc EXCEPT ![n] = r]
  <2> HIDE DEF r
  <2>1. /\ History(gc[n].tip) \subseteq History(ref) /\ gc[n].checked = None
        /\ gc[n].aged \subseteq History(gc[n].tip) /\ gc[n].stale = {}
        /\ made[n] < world.packs
    BY <1>1, PassTypes DEF PassOf
  <2>2. Prepares(n, r)
    BY <1>2, <1>3, <2>1 DEF Prepares
  <2>3. PassBecomes(n, r)
    BY <1>2, <1>4, PassTypes DEF Mark, PassBecomes
  <2> QED
    BY <2>2, <2>3, PassMoves
<1>5. CASE gc' = [gc EXCEPT ![n] = NoPass]
  BY <1>5, PassEnds DEF Mark
<1> QED
  BY <1>4, <1>5 DEF Mark

\* The stat of a file picks a file for removal if it is old and unreachable.
LEMMA StatServes ==
    ASSUME NEW n \in Nodes, NodesOK, NEW o \in Objects, Stat(n, o)
    PROVE  Serves(n)
<1>1. PICK A \in SUBSET Objects :
        A = IF o \in History(gc[n].tip) /\ Aged(n, o) THEN gc[n].aged \union {o}
                                                      ELSE gc[n].aged
  BY PassTypes DEF Passes
<1>2. PICK k \in Tips : k = IF o \notin History(gc[n].tip) /\ Aged(n, o)
                            THEN o ELSE gc[n].checked
  BY PassTypes DEF Passes, Tips
<1> DEFINE r == [gc[n] EXCEPT !.todo = @ \ {o}, !.aged = A, !.checked = k]
<1>3. gc' = [gc EXCEPT ![n] = r]
  BY <1>1, <1>2, PassTypes DEF Stat
<1>4. /\ r \in Passes /\ r.pc = "sweep" /\ r.tip = gc[n].tip /\ r.checked = k
      /\ r.aged = A /\ r.stale = gc[n].stale
  BY PassTypes DEF Stat, Passes
<1>5. /\ History(gc[n].tip) \subseteq History(ref) /\ gc[n].checked = None
      /\ A \subseteq History(gc[n].tip) /\ gc[n].stale = {}
      /\ made[n] < world.packs /\ Protected(n) = History(gc[n].tip)
      /\ k # None => k \notin History(gc[n].tip) /\ Aged(n, k)
  BY <1>1, <1>2, PassTypes, Ancestry DEF Stat, PassOf, Protected
<1> HIDE DEF r
<1>6. Prepares(n, r)
  BY <1>4, <1>5 DEF Prepares, Aged
<1>7. PassBecomes(n, r)
  <2>1. UNCHANGED <<loose, packs, made, ref, world>>
    BY DEF Stat
  <2> QED
    BY <1>3, <1>4, <2>1, PassTypes DEF PassBecomes
<1> QED
  BY <1>6, <1>7, PassMoves

\* A pass that finds nothing to pack, or a pack it cannot read.
LEMMA NothingToPackServes ==
    ASSUME NEW n \in Nodes, NodesOK, NothingToPack(n) \/ EndPass(n)
    PROVE  Serves(n)
  BY PassEnds DEF NothingToPack, EndPass

\* What the newest pack of a table names is read from it.
LEMMA NewestIsRead ==
    ASSUME NEW T, NEW g \in Nat, DOMAIN T \subseteq 1..g, g \in DOMAIN T,
           NEW o, o \in T[g].objects
    PROVE  LET I == {p \in DOMAIN T : o \in T[p].objects} IN
           I # {} /\ Max(I) = g
<1> DEFINE I == {p \in DOMAIN T : o \in T[p].objects}
<1>1. g \in I /\ I \in SUBSET Nat /\ \A p \in I : p <= g
  OBVIOUS
<1> HIDE DEF I
<1>2. I # {} /\ Max(I) = g
  BY <1>1, MaxIsGreatest
<1> QED
  BY <1>2 DEF I

\* What the newest pack of a node names is packed, now and after a step.
LEMMA NewestIsPacked ==
    ASSUME NEW n \in Nodes, NEW o
    PROVE  /\ FilesTyped(n) /\ Newest(n, o) => Packed(n, o) /\ Indexes(n, o) # {}
           /\ (FilesTyped(n) /\ Newest(n, o))' => (Packed(n, o) /\ Indexes(n, o) # {})'
<1>1. FilesTyped(n) /\ Newest(n, o) => Packed(n, o) /\ Indexes(n, o) # {}
  <2> SUFFICES ASSUME FilesTyped(n), Newest(n, o)
               PROVE  Packed(n, o) /\ Indexes(n, o) # {}
    OBVIOUS
  <2>1. /\ made[n] \in Nat /\ DOMAIN packs[n] \subseteq 1..made[n]
        /\ made[n] \in DOMAIN packs[n] /\ o \in packs[n][made[n]].objects
    BY DEF FilesTyped, Newest
  <2>2. Indexes(n, o) # {} /\ Max(Indexes(n, o)) = made[n]
    BY <2>1, NewestIsRead DEF Indexes
  <2> QED
    BY <2>2 DEF Packed, Newest
<1>2. (FilesTyped(n) /\ Newest(n, o))' => (Packed(n, o) /\ Indexes(n, o) # {})'
  <2> SUFFICES ASSUME FilesTyped(n)', Newest(n, o)'
               PROVE  Packed(n, o)' /\ Indexes(n, o)' # {}
    OBVIOUS
  <2>1. /\ made'[n] \in Nat /\ DOMAIN packs'[n] \subseteq 1..made'[n]
        /\ made'[n] \in DOMAIN packs'[n] /\ o \in packs'[n][made'[n]].objects
    BY DEF FilesTyped, Newest
  <2>2. Indexes(n, o)' # {} /\ Max(Indexes(n, o)') = made'[n]
    BY <2>1, NewestIsRead DEF Indexes
  <2> QED
    BY <2>2 DEF Packed, Newest
<1> QED
  BY <1>1, <1>2

\* The removal of a checked file, which the pass does not protect.
LEMMA RemoveServes ==
    ASSUME NEW n \in Nodes, NodesOK, Remove(n)
    PROVE  Serves(n)
<1> DEFINE k == gc[n].checked
<1>1. /\ gc[n] \in Passes /\ gc \in [Nodes -> Passes] /\ NodeOK(n) /\ Domains
  BY PassTypes DEF NodesOK
<1>2. k # None /\ gc[n].pc = "sweep" /\ k \notin Protected(n)
  BY <1>1 DEF Remove, NodeOK, PassOf, Protected
<1>3. /\ gc' \in [Nodes -> Passes] /\ gc'[n].checked = None
      /\ gc'[n].pc = gc[n].pc /\ gc'[n].tip = gc[n].tip
      /\ gc'[n].aged = gc[n].aged /\ gc'[n].stale = gc[n].stale
      /\ \A m \in Nodes \ {n} : gc'[m] = gc[m]
  BY <1>1 DEF Remove, Passes, Tips
<1>4. /\ DOMAIN loose' = Nodes /\ DOMAIN loose'[n] = DOMAIN loose[n] \ {k}
      /\ \A o \in DOMAIN loose'[n] : loose'[n][o] = loose[n][o]
      /\ \A m \in Nodes \ {n} : loose'[m] = loose[m]
  BY <1>1 DEF Remove, Domains, Without
<1>5. /\ \A o : Indexes(n, o)' = Indexes(n, o) /\ Packed(n, o)' = Packed(n, o)
      /\ Has(n) \ {k} \subseteq Has(n)'
      /\ Protected(n)' = Protected(n)
  <2>1. \A o : Indexes(n, o)' = Indexes(n, o) /\ Packed(n, o)' = Packed(n, o)
    BY DEF Remove, Indexes, Packed
  <2>2. Protected(n)' = Protected(n)
    BY <1>2, <1>3 DEF Remove, Protected
  <2> QED
    BY <1>4, <2>1, <2>2 DEF Has
<1>6. Keeps(n)
  BY <1>2, <1>5 DEF Keeps
<1>7. NodeOK(n)'
  <2>1. FilesTyped(n)'
    BY <1>1, <1>4 DEF Remove, NodeOK, FilesTyped
  <2>2. PassOf(n)'
    BY <1>1, <1>2, <1>3 DEF Remove, NodeOK, PassOf
  <2>3. Carried(n)'
    BY <1>2, <1>3 DEF Carried
  <2> QED
    BY <2>1, <2>2, <2>3 DEF NodeOK
<1>8. CheckedOld(n) => CheckedOld(n)' /\ LeavesNew(n)
  BY <1>2, <1>3, <1>4 DEF CheckedOld, LeavesNew, IsNew
<1>9. Domains' /\ \A m \in Nodes \ {n} : NodeSame(m)
  BY <1>1, <1>3, <1>4 DEF Remove, Domains, NodeSame
<1> QED
  BY <1>6, <1>7, <1>8, <1>9 DEF Serves

\* The unlinking of a loose file, of which the newest pack holds a copy.
LEMMA UnlinkServes ==
    ASSUME NEW n \in Nodes, NodesOK, NEW o \in Objects, Unlink(n, o)
    PROVE  Serves(n)
<1>1. /\ gc[n] \in Passes /\ gc \in [Nodes -> Passes] /\ NodeOK(n) /\ Domains
  BY PassTypes DEF NodesOK
<1>2. /\ gc[n].pc = "clean" /\ gc[n].checked = None /\ o \in gc[n].aged
      /\ o \in History(gc[n].tip) /\ Newest(n, o)
  BY <1>1 DEF Unlink, NodeOK, PassOf, Carried
<1>3. /\ gc' \in [Nodes -> Passes] /\ gc'[n].checked = gc[n].checked
      /\ gc'[n].pc = gc[n].pc /\ gc'[n].tip = gc[n].tip
      /\ gc'[n].aged = gc[n].aged \ {o} /\ gc'[n].stale = gc[n].stale
      /\ \A m \in Nodes \ {n} : gc'[m] = gc[m]
  BY <1>1 DEF Unlink, Passes
<1>4. /\ DOMAIN loose' = Nodes /\ DOMAIN loose'[n] = DOMAIN loose[n] \ {o}
      /\ \A q \in DOMAIN loose'[n] : loose'[n][q] = loose[n][q]
      /\ \A m \in Nodes \ {n} : loose'[m] = loose[m]
  BY <1>1 DEF Unlink, Domains, Without
<1>5. Packed(n, o)
  BY <1>1, <1>2, NewestIsPacked DEF NodeOK
<1>6. /\ \A q : Indexes(n, q)' = Indexes(n, q) /\ Packed(n, q)' = Packed(n, q)
      /\ Has(n) \subseteq Has(n)'
      /\ Protected(n)' = Protected(n)
  <2>1. \A q : Indexes(n, q)' = Indexes(n, q) /\ Packed(n, q)' = Packed(n, q)
    BY DEF Unlink, Indexes, Packed
  <2>2. Protected(n)' = Protected(n)
    BY <1>2, <1>3 DEF Unlink, Protected
  <2> QED
    BY <1>4, <1>5, <2>1, <2>2 DEF Has
<1>7. Keeps(n)
  BY <1>6 DEF Keeps
<1>8. NodeOK(n)'
  <2>1. FilesTyped(n)'
    BY <1>1, <1>4 DEF Unlink, NodeOK, FilesTyped
  <2>2. PassOf(n)'
    BY <1>1, <1>2, <1>3 DEF Unlink, NodeOK, PassOf
  <2>3. Carried(n)'
    BY <1>1, <1>2, <1>3 DEF Unlink, NodeOK, Carried, Newest
  <2> QED
    BY <2>1, <2>2, <2>3 DEF NodeOK
<1>9. CheckedOld(n)' /\ LeavesNew(n)
  BY <1>2, <1>3, <1>4 DEF CheckedOld, LeavesNew, IsNew
<1>10. Domains' /\ \A m \in Nodes \ {n} : NodeSame(m)
  BY <1>1, <1>3, <1>4 DEF Unlink, Domains, NodeSame
<1> QED
  BY <1>7, <1>8, <1>9, <1>10 DEF Serves

\* The new pack of a pass holds whatever the pass protects of the old ones.
LEMMA RepackServes ==
    ASSUME NEW n \in Nodes, Shared, NodesOK, NEW kept \in Kept(n), RepackOf(n, kept)
    PROVE  Serves(n)
<1> DEFINE S == kept \union gc[n].aged
           g == made[n] + 1
<1>1. /\ gc[n] \in Passes /\ gc \in [Nodes -> Passes] /\ NodeOK(n) /\ Domains
      /\ FilesTyped(n) /\ PassOf(n) /\ world.packs \in Nat
  BY PassTypes, ObjectStoreAssumption DEF NodesOK, NodeOK, Shared
<1>2. /\ gc[n].pc = "sweep" /\ gc[n].checked = None
      /\ \A o \in kept : Packed(n, o)
      /\ made[n] < world.packs /\ made[n] \in Nat /\ DOMAIN packs[n] \subseteq 1..made[n]
  BY <1>1 DEF RepackOf, Sweeping, PassOf, FilesTyped
<1>3. /\ gc' \in [Nodes -> Passes] /\ gc'[n].checked = gc[n].checked
      /\ gc'[n].pc = "clean" /\ gc'[n].tip = gc[n].tip
      /\ gc'[n].aged = gc[n].aged /\ gc'[n].stale = DOMAIN packs[n]
      /\ \A m \in Nodes \ {n} : gc'[m] = gc[m]
  <2>1. DOMAIN packs[n] \in SUBSET Nat
    BY <1>2
  <2> QED
    BY <1>1, <2>1 DEF RepackOf, Passes
<1>4. S \subseteq Objects
  BY <1>1 DEF Kept, InPacks, FilesTyped, Packs, PassOf, Passes
<1>5. Protected(n) = History(gc[n].tip) /\ Protected(n)' = Protected(n)
  BY <1>2, <1>3 DEF RepackOf, Protected
<1>6. /\ DOMAIN packs' = Nodes /\ DOMAIN made' = Nodes
      /\ \A m \in Nodes \ {n} : packs'[m] = packs[m] /\ made'[m] = made[m]
  BY <1>1 DEF RepackOf, Domains
<1>7. \A m \in Nodes \ {n} : NodeSame(m)
  BY <1>3, <1>6 DEF RepackOf, NodeSame
<1>8. Domains'
  BY <1>1, <1>3, <1>6 DEF RepackOf, Domains
<1>9. CheckedOld(n)' /\ LeavesNew(n)
  BY <1>2, <1>3 DEF RepackOf, CheckedOld, LeavesNew, IsNew
<1>10. CASE S = {}
  <2>1. packs'[n] = packs[n] /\ made'[n] = made[n]
    BY <1>10 DEF RepackOf
  <2>2. /\ \A o : Indexes(n, o)' = Indexes(n, o) /\ Packed(n, o)' = Packed(n, o)
        /\ Has(n)' = Has(n)
    BY <2>1 DEF RepackOf, Indexes, Packed, Has
  <2>3. FilesTyped(n)'
    BY <1>1, <2>1 DEF RepackOf, FilesTyped
  <2>4. PassOf(n)'
    BY <1>1, <1>2, <1>3, <2>1 DEF RepackOf, PassOf
  <2>5. \A p \in DOMAIN packs[n] : packs[n][p].objects \intersect History(gc[n].tip) = {}
    BY <1>10 DEF Kept, InPacks
  <2>6. Carried(n)'
    BY <1>3, <1>10, <2>1, <2>5 DEF Carried
  <2> QED
    BY <1>5, <1>7, <1>8, <1>9, <2>2, <2>3, <2>4, <2>6 DEF Serves, Keeps, NodeOK
<1>11. CASE S # {}
  <2>1. /\ packs'[n] = WithPack(n, S) /\ made'[n] = g
    BY <1>1, <1>11 DEF RepackOf, Domains
  <2>2. /\ DOMAIN packs'[n] = DOMAIN packs[n] \union {g} /\ g \notin DOMAIN packs[n]
        /\ packs'[n][g] = [objects |-> S, data |-> TRUE]
        /\ \A p \in DOMAIN packs[n] : packs'[n][p] = packs[n][p]
    BY <1>2, <2>1 DEF WithPack
  <2>3. FilesTyped(n)'
    <3>1. g \in Nat /\ DOMAIN packs'[n] \subseteq 1..g
      BY <1>2, <2>2
    <3>2. packs'[n][g] \in Packs
      BY <1>4, <2>2 DEF Packs
    <3> HIDE DEF S, g
    <3> QED
      BY <1>1, <2>1, <2>2, <3>1, <3>2 DEF RepackOf, FilesTyped
  <2>4. PassOf(n)'
    <3>1. g <= world.packs
      BY <1>1, <1>2
    <3>2. gc'[n] \in Passes
      BY <1>3
    <3> HIDE DEF S, g
    <3> QED
      BY <1>1, <1>2, <1>3, <2>1, <2>2, <3>1, <3>2 DEF RepackOf, PassOf
  <2>5. \A o \in S : Newest(n, o)'
    <3> HIDE DEF S, g
    <3> QED
      BY <1>3, <2>1, <2>2 DEF Newest
  <2>6. Carried(n)'
    <3>1. \A p \in DOMAIN packs[n] :
            packs[n][p].objects \intersect History(gc[n].tip) \subseteq S
      BY DEF Kept, InPacks
    <3> HIDE DEF g
    <3> QED
      BY <1>3, <2>2, <2>5, <3>1 DEF Carried
  <2>7. \A o \in S : Packed(n, o)' /\ Indexes(n, o)' # {}
    BY <2>3, <2>5, NewestIsPacked
  <2>8. ASSUME NEW o \in Protected(n)
        PROVE  /\ o \in Has(n) => o \in Has(n)'
               /\ Indexes(n, o) # {} => Indexes(n, o)' # {}
    <3>1. Indexes(n, o) # {} => o \in kept
      BY <1>5 DEF Indexes, Kept, InPacks
    <3>2. o \in kept => Packed(n, o)' /\ Indexes(n, o)' # {}
      BY <2>7
    <3> QED
      BY <3>1, <3>2 DEF RepackOf, Has, Packed
  <2> QED
    BY <1>5, <1>7, <1>8, <1>9, <2>3, <2>4, <2>6, <2>8 DEF Serves, Keeps, NodeOK
<1> QED
  BY <1>10, <1>11

\* The newest of the packs a pass removes; what the pass protects of it is in
\* a newer one that stays.
LEMMA StalePack ==
    ASSUME NEW n \in Nodes, NodeOK(n), gc[n].pc = "clean", gc[n].stale # {}
    PROVE  LET p == Max(gc[n].stale) IN
           /\ p \in gc[n].stale /\ p \in DOMAIN packs[n]
           /\ \A o \in packs[n][p].objects \intersect History(gc[n].tip) : Newest(n, o)
           /\ gc[n].checked = None /\ Protected(n) = History(gc[n].tip)
<1>1. /\ gc[n].stale \in SUBSET (1..made[n]) /\ made[n] \in Nat
      /\ gc[n].stale \subseteq DOMAIN packs[n]
  BY DEF NodeOK, FilesTyped, PassOf
<1>2. Max(gc[n].stale) \in gc[n].stale
  BY <1>1, MaxIsMember
<1> QED
  BY <1>1, <1>2 DEF NodeOK, PassOf, Carried, Protected

\* The removal of the data of a replaced pack.
LEMMA RemoveDataServes ==
    ASSUME NEW n \in Nodes, NodesOK, RemoveData(n)
    PROVE  Serves(n)
<1>1. /\ gc[n] \in Passes /\ NodeOK(n) /\ Domains
      /\ gc[n].pc = "clean" /\ gc[n].stale # {}
  BY PassTypes DEF NodesOK, RemoveData
<1>2. PICK p : p = Max(gc[n].stale)
  OBVIOUS
<1>3. /\ p \in gc[n].stale /\ p \in DOMAIN packs[n]
      /\ \A o \in packs[n][p].objects \intersect History(gc[n].tip) : Newest(n, o)
      /\ gc[n].checked = None /\ Protected(n) = History(gc[n].tip)
  BY <1>1, <1>2, StalePack
<1>4. /\ DOMAIN packs' = Nodes /\ DOMAIN packs'[n] = DOMAIN packs[n]
      /\ packs'[n][p] = [packs[n][p] EXCEPT !.data = FALSE]
      /\ \A q \in DOMAIN packs[n] : q # p => packs'[n][q] = packs[n][q]
      /\ \A m \in Nodes \ {n} : packs'[m] = packs[m]
  BY <1>1, <1>2, <1>3 DEF RemoveData, Domains
<1>5. /\ packs[n][p] \in Packs /\ packs'[n][p] \in Packs
      /\ \A q \in DOMAIN packs[n] : packs'[n][q].objects = packs[n][q].objects
  <2>1. packs[n][p] \in Packs
    BY <1>1, <1>3 DEF NodeOK, FilesTyped
  <2>2. packs'[n][p] \in Packs /\ packs'[n][p].objects = packs[n][p].objects
    BY <1>4, <2>1 DEF Packs
  <2> QED
    BY <1>4, <2>1, <2>2
<1>6. \A o : Indexes(n, o)' = Indexes(n, o)
  BY <1>4, <1>5 DEF Indexes
<1>7. Protected(n)' = Protected(n)
  BY DEF RemoveData, Protected
<1>8. \A o : Newest(n, o) => Newest(n, o)'
  BY <1>3, <1>4 DEF RemoveData, Newest
<1>9. FilesTyped(n)'
  BY <1>1, <1>4, <1>5 DEF RemoveData, NodeOK, FilesTyped
<1>10. NodeOK(n)'
  <2>1. PassOf(n)'
    BY <1>1, <1>4 DEF RemoveData, NodeOK, PassOf
  <2>2. Carried(n)'
    BY <1>1, <1>5, <1>8 DEF RemoveData, NodeOK, PassOf, Carried
  <2> QED
    BY <1>9, <2>1, <2>2 DEF NodeOK
<1>11. ASSUME NEW o \in Protected(n), Packed(n, o)
       PROVE  Packed(n, o)'
  <2>1. CASE o \in packs[n][p].objects
    BY <1>3, <1>8, <1>9, <2>1, NewestIsPacked
  <2>2. CASE o \notin packs[n][p].objects
    <3>1. Max(Indexes(n, o)) \in Indexes(n, o)
      <4>1. Indexes(n, o) \in SUBSET (1..made[n]) /\ made[n] \in Nat /\ Indexes(n, o) # {}
        BY <1>1, <1>11 DEF Indexes, Packed, NodeOK, FilesTyped
      <4> QED
        BY <4>1, MaxIsMember
    <3>2. Max(Indexes(n, o)) # p /\ Max(Indexes(n, o)) \in DOMAIN packs[n]
      BY <2>2, <3>1 DEF Indexes
    <3> QED
      BY <1>4, <1>6, <1>11, <3>2 DEF Packed
  <2> QED
    BY <2>1, <2>2
<1>12. Keeps(n)
  <2>1. Protected(n) \intersect Has(n) \subseteq Has(n)'
    BY <1>11 DEF RemoveData, Has
  <2> QED
    BY <1>6, <1>7, <2>1 DEF Keeps
<1>13. CheckedOld(n)' /\ LeavesNew(n)
  BY <1>3 DEF RemoveData, CheckedOld, LeavesNew, IsNew
<1>14. Domains' /\ \A m \in Nodes \ {n} : NodeSame(m)
  BY <1>1, <1>4 DEF RemoveData, Domains, NodeSame
<1> QED
  BY <1>10, <1>12, <1>13, <1>14 DEF Serves

\* The removal of the index of a replaced pack.
LEMMA RemoveIndexServes ==
    ASSUME NEW n \in Nodes, NodesOK, RemoveIndex(n)
    PROVE  Serves(n)
<1>1. /\ gc[n] \in Passes /\ gc \in [Nodes -> Passes] /\ NodeOK(n) /\ Domains
      /\ gc[n].pc = "clean" /\ gc[n].stale # {}
  BY PassTypes DEF NodesOK, RemoveIndex
<1>2. PICK p : p = Max(gc[n].stale)
  OBVIOUS
<1>3. /\ p \in gc[n].stale /\ p \in DOMAIN packs[n]
      /\ \A o \in packs[n][p].objects \intersect History(gc[n].tip) : Newest(n, o)
      /\ gc[n].checked = None /\ Protected(n) = History(gc[n].tip)
  BY <1>1, <1>2, StalePack
<1>4. /\ DOMAIN packs' = Nodes /\ DOMAIN packs'[n] = DOMAIN packs[n] \ {p}
      /\ \A q \in DOMAIN packs'[n] : packs'[n][q] = packs[n][q]
      /\ \A m \in Nodes \ {n} : packs'[m] = packs[m]
  BY <1>1, <1>2 DEF RemoveIndex, Domains, Without
<1>5. /\ gc' \in [Nodes -> Passes] /\ gc'[n].checked = gc[n].checked
      /\ gc'[n].pc = gc[n].pc /\ gc'[n].tip = gc[n].tip
      /\ gc'[n].aged = gc[n].aged /\ gc'[n].stale = gc[n].stale \ {p}
      /\ \A m \in Nodes \ {n} : gc'[m] = gc[m]
  BY <1>1, <1>2 DEF RemoveIndex, Passes
<1>6. Protected(n)' = Protected(n)
  BY <1>1, <1>3, <1>5 DEF RemoveIndex, Protected
<1>7. \A o : Newest(n, o) => Newest(n, o)'
  BY <1>3, <1>4, <1>5 DEF RemoveIndex, Newest
<1>8. FilesTyped(n)'
  BY <1>1, <1>4 DEF RemoveIndex, NodeOK, FilesTyped
<1>9. NodeOK(n)'
  <2>1. PassOf(n)'
    BY <1>1, <1>3, <1>4, <1>5 DEF RemoveIndex, NodeOK, PassOf
  <2>2. Carried(n)'
    BY <1>1, <1>4, <1>5, <1>7 DEF NodeOK, PassOf, Carried
  <2> QED
    BY <1>8, <2>1, <2>2 DEF NodeOK
<1>10. ASSUME NEW o \in Protected(n), Indexes(n, o) # {}
       PROVE  /\ Indexes(n, o)' # {}
              /\ Packed(n, o) => Packed(n, o)'
  <2>1. CASE o \in packs[n][p].objects
    BY <1>3, <1>7, <1>8, <2>1, NewestIsPacked
  <2>2. CASE o \notin packs[n][p].objects
    <3>1. Indexes(n, o)' = Indexes(n, o)
      BY <1>4, <2>2 DEF Indexes
    <3>2. Max(Indexes(n, o)) \in Indexes(n, o)
      <4>1. Indexes(n, o) \in SUBSET (1..made[n]) /\ made[n] \in Nat
        BY <1>1 DEF Indexes, NodeOK, FilesTyped
      <4> QED
        BY <1>10, <4>1, MaxIsMember
    <3>3. packs'[n][Max(Indexes(n, o))] = packs[n][Max(Indexes(n, o))]
      BY <1>4, <2>2, <3>2 DEF Indexes
    <3> QED
      BY <1>10, <3>1, <3>3 DEF Packed
  <2> QED
    BY <2>1, <2>2
<1>11. Keeps(n)
  <2>1. Protected(n) \intersect Has(n) \subseteq Has(n)'
    BY <1>10 DEF RemoveIndex, Has, Packed
  <2> QED
    BY <1>6, <1>10, <2>1 DEF Keeps
<1>12. CheckedOld(n)' /\ LeavesNew(n)
  BY <1>3, <1>5 DEF RemoveIndex, CheckedOld, LeavesNew, IsNew
<1>13. Domains' /\ \A m \in Nodes \ {n} : NodeSame(m)
  BY <1>1, <1>4, <1>5 DEF RemoveIndex, Domains, NodeSame
<1> QED
  BY <1>9, <1>11, <1>12, <1>13 DEF Serves

\* A file ages once no pass is under way and nobody is pushing it.
LEMMA AgeServes ==
    ASSUME NEW n \in Nodes, NodesOK, NEW o \in Objects, Age(n, o)
    PROVE  Serves(n)
<1>1. NodeOK(n) /\ Domains /\ gc[n].pc = "idle" /\ gc[n].checked = None
  BY PassTypes DEF NodesOK, NodeOK, PassOf, Age
<1>2. /\ DOMAIN loose' = Nodes /\ DOMAIN loose'[n] = DOMAIN loose[n]
      /\ loose'[n][o] = "old"
      /\ \A q \in DOMAIN loose[n] : q # o => loose'[n][q] = loose[n][q]
      /\ \A m \in Nodes \ {n} : loose'[m] = loose[m]
  BY <1>1 DEF Age, Domains
<1>3. /\ \A q : Indexes(n, q)' = Indexes(n, q) /\ Packed(n, q)' = Packed(n, q)
      /\ Has(n)' = Has(n) /\ Protected(n)' = Protected(n)
  <2>1. \A q : Indexes(n, q)' = Indexes(n, q) /\ Packed(n, q)' = Packed(n, q)
    BY DEF Age, Indexes, Packed
  <2>2. Protected(n)' = Protected(n)
    BY DEF Age, Protected
  <2> QED
    BY <1>2, <2>1, <2>2 DEF Has
<1>4. NodeOK(n)'
  <2>1. FilesTyped(n)'
    BY <1>1, <1>2 DEF Age, NodeOK, FilesTyped, Ages
  <2>2. PassOf(n)' /\ Carried(n)'
    BY <1>1 DEF Age, NodeOK, PassOf, Carried
  <2> QED
    BY <2>1, <2>2 DEF NodeOK
<1>5. LeavesNew(n)
  <2>1. o \in Has(n)'
    BY <1>2 DEF Age, Has
  <2>2. \A c \in Clients : push[c].pc # "idle" => o \notin Published(c)
    BY DEF Age
  <2> QED
    BY <1>1, <1>2, <2>1, <2>2 DEF LeavesNew, IsNew
<1>6. CheckedOld(n)'
  BY <1>1 DEF Age, CheckedOld
<1>7. Domains' /\ \A m \in Nodes \ {n} : NodeSame(m)
  BY <1>1, <1>2 DEF Age, Domains, NodeSame
<1> QED
  BY <1>3, <1>4, <1>5, <1>6, <1>7 DEF Serves, Keeps

-----------------------------------------------------------------------------
(* What a step keeps of the whole store.                                   *)

\* No push has published more than before, but for files that are new now.
PushesKept ==
    \A c \in Clients : push'[c].pc # "idle" =>
        \A o \in Published(c)' :
            \/ push[c].pc # "idle" /\ o \in Published(c)
            \/ \E n \in world.nodes : IsNew(n, o)'

\* What every node is like after a step.
NodesServed ==
    /\ NodesOK'
    /\ \A n \in Nodes : /\ Keeps(n)
                        /\ NoTouchInSweep => LeavesNew(n) /\ CheckedOld(n)'

\* Nothing happens on any node.
LEMMA SameNodes ==
    ASSUME IInv, UNCHANGED <<loose, packs, made, gc>>, RefAdvances
    PROVE  NodesServed
<1>1. ASSUME NEW m \in Nodes
      PROVE  /\ NodeOK(m)' /\ Keeps(m)
             /\ NoTouchInSweep => LeavesNew(m) /\ CheckedOld(m)'
  <2>1. NodeSame(m) /\ NodeOK(m) /\ (NoTouchInSweep => CheckedOld(m))
    BY DEF NodeSame, IInv, NodesOK, NothingIsLost
  <2> QED
    BY <2>1, SameNode
<1>2. Domains'
  BY DEF IInv, NodesOK, Domains
<1> QED
  BY <1>1, <1>2 DEF NodesOK, NodesServed

\* The pass of one node takes a step.
LEMMA OneNodeServed ==
    ASSUME IInv, NEW n \in Nodes, Serves(n), UNCHANGED <<world, ref>>
    PROVE  NodesServed
<1>1. NodesOK /\ RefAdvances /\ (NoTouchInSweep => NothingIsLost)
  BY DEF IInv, RefAdvances, Shared
<1>2. ASSUME NEW m \in Nodes
      PROVE  /\ NodeOK(m)' /\ Keeps(m)
             /\ NoTouchInSweep => LeavesNew(m) /\ CheckedOld(m)'
  <2>1. CASE m = n
    BY <1>1, <2>1 DEF Serves, NothingIsLost
  <2>2. CASE m # n
    BY <1>1, <2>2, SameNode DEF Serves, NodesOK, NothingIsLost
  <2> QED
    BY <2>1, <2>2
<1> QED
  BY <1>2 DEF NodesOK, Serves, NodesServed

\* A file is published on some nodes, none of which is about to remove it.
LEMMA NodesTouched ==
    ASSUME IInv, NEW S \in SUBSET Nodes, NEW o \in Objects,
           UNCHANGED <<world, ref, packs, made, gc>>, DOMAIN loose' = Nodes,
           \A m \in Nodes : loose'[m] = IF m \in S THEN Fresh(loose[m], {o}) ELSE loose[m],
           \A m \in S : NoTouchInSweep /\ CheckedOld(m) => gc[m].checked # o
    PROVE  NodesServed /\ \A m \in S : IsNew(m, o)'
<1>1. NodesOK /\ RefAdvances /\ (NoTouchInSweep => NothingIsLost)
  BY DEF IInv, RefAdvances, Shared
<1>2. ASSUME NEW m \in Nodes
      PROVE  /\ NodeOK(m)' /\ Keeps(m)
             /\ NoTouchInSweep => LeavesNew(m) /\ CheckedOld(m)'
             /\ m \in S => IsNew(m, o)'
  <2>1. NodeOK(m) /\ (NoTouchInSweep => CheckedOld(m))
    BY <1>1 DEF NodesOK, NothingIsLost
  <2>2. CASE m \in S
    BY <2>1, <2>2, Touched
  <2>3. CASE m \notin S
    BY <1>1, <2>1, <2>3, SameNode DEF NodeSame
  <2> QED
    BY <2>2, <2>3
<1>3. Domains'
  BY <1>1 DEF NodesOK, Domains
<1> QED
  BY <1>2, <1>3 DEF NodesOK, NodesServed

\* What the ref reaches and what pushes have published stays on some node.
LEMMA StaysSecure ==
    ASSUME IInv, UNCHANGED <<ref, world>>, PushesKept, NodesServed, NoTouchInSweep
    PROVE  NothingIsLost'
<1> USE DEF NodesServed
<1>1. /\ world.nodes \subseteq Nodes /\ NothingIsLost
      /\ \A n \in Nodes : PassOf(n)
      /\ History(ref) \subseteq Objects
      /\ \A c \in Clients : push[c].pc # "idle" => Published(c) \subseteq Objects
  <2>1. /\ world.nodes \subseteq Nodes /\ NothingIsLost
        /\ \A n \in Nodes : PassOf(n)
        /\ History(ref) \subseteq Objects
    BY ObjectStoreAssumption, Ancestry DEF IInv, Shared, NodesOK, NodeOK
  <2>2. ASSUME NEW c \in Clients, push[c].pc # "idle"
        PROVE  Published(c) \subseteq Objects
    <3>1. /\ PushOf(c) /\ push[c] \in Pushes
      BY DEF IInv, PushesOK
    <3>2. /\ push[c].tip \in Objects /\ push[c].done \in Nat
          /\ push[c].pc = "copy" => push[c].done + 1 \in 1..Len(Chain[push[c].tip])
          /\ \A i \in 1..push[c].done : i \in 1..Len(Chain[push[c].tip])
      BY <2>2, <3>1, Ancestry DEF PushOf, Pushes
    <3> QED
      BY <3>2, Ancestry DEF Published, NextObject
  <2> QED
    BY <2>1, <2>2
<1>2. RefIsSecure'
  <2> SUFFICES ASSUME NEW o \in History(ref)
               PROVE  \E n \in world.nodes : Secure(n, o)'
    BY DEF RefIsSecure
  <2>1. PICK n \in world.nodes : Secure(n, o)
    BY <1>1 DEF NothingIsLost, RefIsSecure
  <2>2. n \in Nodes /\ o \in Objects
    BY <1>1
  <2>3. CASE o \in Protected(n)
    BY <2>1, <2>2, <2>3 DEF Secure, Keeps
  <2>4. CASE IsNew(n, o)'
    BY <2>2, <2>4 DEF Secure, IsNew, Has
  <2>5. CASE o \in History(gc[n].tip)
    <3>1. o \in Protected(n)
      BY <1>1, <2>2, <2>5 DEF Protected
    <3> QED
      BY <2>3, <3>1
  <2>6. CASE gc[n].pc = "idle"
    BY <2>3, <2>6 DEF Protected
  <2> QED
    BY <2>1, <2>2, <2>3, <2>4, <2>5, <2>6 DEF Secure, LeavesNew
<1>3. PublishedIsSecure'
  <2> SUFFICES ASSUME NEW c \in Clients, push'[c].pc # "idle",
                      NEW o \in Published(c)', o \notin History(ref),
                      ~ \E n \in world.nodes : IsNew(n, o)'
               PROVE  \E n \in world.nodes : IsNew(n, o)'
    BY DEF PublishedIsSecure
  <2>1. push[c].pc # "idle" /\ o \in Published(c) /\ o \in Objects
    BY <1>1 DEF PushesKept
  <2>2. PICK n \in world.nodes : IsNew(n, o)
    BY <1>1, <2>1 DEF NothingIsLost, PublishedIsSecure
  <2>3. n \in Nodes /\ o \notin History(gc[n].tip)
    BY <1>1 DEF PassOf
  <2> QED
    BY <2>1, <2>2, <2>3 DEF LeavesNew
<1> QED
  BY <1>2, <1>3 DEF NothingIsLost

\* A read under way stays possible.
LEMMA StaysReadable ==
    ASSUME IInv, reader' \in {reader, NoRead}, NodesServed
    PROVE  ReadsOK'
<1>1. CASE reader' = reader
  BY <1>1 DEF IInv, ReadsOK, NodesServed, Keeps
<1>2. CASE reader' = NoRead
  BY <1>2 DEF ReadsOK, NoRead, Reads, Tips
<1> QED
  BY <1>1, <1>2

\* A step of the pass of one node.
LEMMA PassStep ==
    ASSUME IInv, NEW n \in Nodes, Serves(n),
           UNCHANGED <<world, ref, up, listed, push, reader>>
    PROVE  IInv' /\ NodesServed
<1>1. NodesServed
  BY OneNodeServed
<1>2. PushesKept
  BY DEF PushesKept, Published, NextObject
<1>3. NoTouchInSweep => NothingIsLost'
  BY <1>1, <1>2, StaysSecure
<1>4. Shared' /\ PushesOK'
  BY DEF IInv, Shared, PushesOK, PushOf
<1>5. ReadsOK'
  BY <1>1, StaysReadable
<1> QED
  BY <1>1, <1>3, <1>4, <1>5 DEF IInv, NodesServed

-----------------------------------------------------------------------------
(* The steps of a push.                                                    *)

\* The push of client c becomes r, and the others stay as they are.
PushBecomes(c, r) == /\ push' \in [Clients -> Pushes] /\ push'[c] = r
                     /\ \A d \in Clients \ {c} : push'[d] = push[d]

\* The objects a push has published so far.
LEMMA PushFacts ==
    ASSUME IInv, NEW c \in Clients
    PROVE  /\ push \in [Clients -> Pushes] /\ push[c] \in Pushes /\ NoPush \in Pushes
           /\ NoPush.pc = "idle" /\ NoPush.tip = None /\ PushOf(c) /\ world.nodes \subseteq Nodes
           /\ up \subseteq world.nodes /\ listed \subseteq Nodes /\ ref \in Tips
           /\ push[c].pc \in {"publish", "copy"} =>
                /\ push[c].done + 1 \in 1..Len(Chain[push[c].tip])
                /\ NextObject(c) \in Objects
           /\ push[c].pc = "cas" => Published(c) = History(push[c].tip)
           /\ push[c].pc = "copy" =>
                Published(c) = {Chain[push[c].tip][i] : i \in 1..(push[c].done + 1)}
           /\ push[c].pc # "copy" =>
                Published(c) = {Chain[push[c].tip][i] : i \in 1..push[c].done}
<1>1. /\ push \in [Clients -> Pushes] /\ push[c] \in Pushes /\ NoPush \in Pushes
      /\ NoPush.pc = "idle" /\ NoPush.tip = None /\ PushOf(c) /\ world.nodes \subseteq Nodes
      /\ up \subseteq world.nodes /\ listed \subseteq Nodes /\ ref \in Tips
  BY ObjectStoreAssumption DEF IInv, Shared, PushesOK, NoPush, Pushes, Tips
<1>2. push[c].pc # "idle" => push[c].tip \in Objects
  BY <1>1 DEF PushOf
<1>3. push[c].done \in Nat
  BY <1>1 DEF Pushes
<1>4. push[c].pc \in {"publish", "copy"} =>
                /\ push[c].done + 1 \in 1..Len(Chain[push[c].tip])
                /\ NextObject(c) \in Objects
  BY <1>1, <1>2, <1>3, Ancestry DEF PushOf, NextObject
<1>5. push[c].pc = "cas" => Published(c) = History(push[c].tip)
  BY <1>1, <1>2, Ancestry DEF PushOf, Published
<1>6. push[c].pc = "copy" =>
        Published(c) = {Chain[push[c].tip][i] : i \in 1..(push[c].done + 1)}
  <2>1. 1..(push[c].done + 1) = (1..push[c].done) \union {push[c].done + 1}
    BY <1>3
  <2> QED
    BY <2>1 DEF Published, NextObject
<1> QED
  BY <1>1, <1>4, <1>5, <1>6 DEF Published

\* A push that changes nothing but itself and nothing it has published.
LEMMA PushMoves ==
    ASSUME IInv, NEW c \in Clients, NEW r, PushBecomes(c, r), PushOf(c)', NodesServed,
           r.pc # "idle" => \A o \in Published(c)' :
              \/ push[c].pc # "idle" /\ o \in Published(c)
              \/ \E n \in world.nodes : IsNew(n, o)',
           UNCHANGED <<world, ref, up, listed, reader>>
    PROVE  IInv'
<1>1. PushesKept
  <2> SUFFICES ASSUME NEW d \in Clients, push'[d].pc # "idle", NEW o \in Published(d)'
               PROVE  \/ push[d].pc # "idle" /\ o \in Published(d)
                      \/ \E n \in world.nodes : IsNew(n, o)'
    BY DEF PushesKept
  <2>1. CASE d = c
    BY <2>1 DEF PushBecomes
  <2>2. CASE d # c
    BY <2>2 DEF PushBecomes, Published, NextObject
  <2> QED
    BY <2>1, <2>2
<1>2. NoTouchInSweep => NothingIsLost'
  BY <1>1, StaysSecure
<1>3. PushesOK'
  <2>1. \A d \in Clients \ {c} : PushOf(d)'
    BY DEF IInv, PushesOK, PushBecomes, PushOf
  <2> QED
    BY <2>1 DEF PushBecomes, PushesOK
<1>4. Shared'
  BY DEF IInv, Shared
<1>5. ReadsOK'
  BY StaysReadable
<1> QED
  BY <1>2, <1>3, <1>4, <1>5 DEF IInv, NodesServed

\* A push starts towards a tip that succeeds the ref.
LEMMA StartPushKeeps ==
    ASSUME IInv, NEW c \in Clients, NEW t \in Objects, StartPush(c, t)
    PROVE  IInv' /\ NodesServed
<1>1. NodesServed
  BY SameNodes DEF StartPush, RefAdvances, IInv, Shared
<1>2. PICK r : r = [NoPush EXCEPT !.pc = "publish", !.tip = t, !.expected = ref]
  OBVIOUS
<1>3. /\ r \in Pushes /\ r.pc = "publish" /\ r.tip = t /\ r.expected = ref /\ r.done = 0
  BY <1>2 DEF NoPush, Pushes, Tips, IInv, Shared
<1>4. push' = [push EXCEPT ![c] = r]
  BY <1>2 DEF StartPush
<1>5. PushBecomes(c, r)
  BY <1>3, <1>4, PushFacts DEF PushBecomes
<1>6. PushOf(c)' /\ Published(c)' = {}
  <2>1. PushOf(c)'
    <3>1. Len(Chain[t]) \in Nat \ {0} /\ (ref = None \/ ref \in History(t))
      BY Ancestry DEF StartPush
    <3> QED
      BY <1>3, <1>5, <3>1 DEF PushBecomes, PushOf
  <2>2. Published(c)' = {}
    BY <1>3, <1>5 DEF PushBecomes, Published
  <2> QED
    BY <2>1, <2>2
<1> QED
  BY <1>1, <1>5, <1>6, PushMoves DEF StartPush

\* An object is published at a node.
LEMMA PublishLocalKeeps ==
    ASSUME IInv, NEW c \in Clients, NEW n \in Nodes, PublishLocal(c, n)
    PROVE  IInv' /\ NodesServed
<1>1. PICK o \in Objects : o = NextObject(c)
  BY PushFacts DEF PublishLocal
<1>2. n \in world.nodes /\ push[c].pc = "publish"
  BY PushFacts DEF PublishLocal
<1>3. NodesServed /\ IsNew(n, o)'
  <2>1. PICK S \in SUBSET Nodes : S = {n}
    OBVIOUS
  <2>2. /\ DOMAIN loose' = Nodes
        /\ \A m \in Nodes : loose'[m] = IF m \in S THEN Fresh(loose[m], {o}) ELSE loose[m]
        /\ \A m \in S : NoTouchInSweep => gc[m].checked # o
    BY <1>1, <2>1 DEF PublishLocal, IInv, NodesOK, Domains, MayTouch
  <2> QED
    BY <2>1, <2>2, NodesTouched DEF PublishLocal
<1>4. PICK r : r = push'[c]
  OBVIOUS
<1>5. /\ push' \in [Clients -> Pushes]
      /\ \A d \in Clients \ {c} : push'[d] = push[d]
      /\ r.pc = "copy" /\ r.tip = push[c].tip
      /\ r.expected = push[c].expected /\ r.done = push[c].done
  BY <1>4, PushFacts DEF PublishLocal, Pushes
<1>6. PushBecomes(c, r)
  BY <1>4, <1>5 DEF PushBecomes
<1>7. PushOf(c)'
  BY <1>2, <1>4, <1>5, PushFacts DEF PushOf
<1>8. Published(c)' = Published(c) \union {o}
  BY <1>1, <1>2, <1>4, <1>5 DEF Published, NextObject
<1> QED
  BY <1>2, <1>3, <1>6, <1>7, <1>8, PushMoves DEF PublishLocal

\* The peers that answer get a copy; too few fail the push.
LEMMA CopyKeeps ==
    ASSUME IInv, NEW c \in Clients, NEW answered \in SUBSET Nodes, Copy(c, answered)
    PROVE  IInv' /\ NodesServed
<1>1. PICK o \in Objects : o = NextObject(c)
  BY PushFacts DEF Copy
<1>2. NodesServed
  <2>1. /\ DOMAIN loose' = Nodes
        /\ \A m \in Nodes : loose'[m] = IF m \in answered THEN Fresh(loose[m], {o})
                                                          ELSE loose[m]
        /\ \A m \in answered : NoTouchInSweep => gc[m].checked # o
        /\ UNCHANGED <<world, ref, packs, made, gc, up, listed, reader>>
    BY <1>1 DEF Copy, MayTouch
  <2> QED
    BY <2>1, NodesTouched
<1>3. /\ push[c].pc = "copy" /\ UNCHANGED <<world, ref, up, listed, reader>>
  BY DEF Copy
<1>4. CASE push' = [push EXCEPT ![c] = NoPush]
  <2>1. PushBecomes(c, NoPush)
    BY <1>4, PushFacts DEF PushBecomes
  <2>2. PushOf(c)'
    BY <2>1, PushFacts DEF PushBecomes, PushOf
  <2> QED
    BY <1>2, <1>3, <2>1, <2>2, PushFacts, PushMoves
<1> DEFINE last == push[c].done + 1 = Len(Chain[push[c].tip])
           x == [push[c] EXCEPT !.done = @ + 1, !.at = None,
                                !.pc = IF last THEN "cas" ELSE "publish"]
<1>5. CASE push' = [push EXCEPT ![c] = x]
  <2>0. PICK pc \in {"cas", "publish"} : pc = IF last THEN "cas" ELSE "publish"
    OBVIOUS
  <2>1. PICK r : r = push'[c]
    OBVIOUS
  <2>2. PICK k : k = push[c].done + 1
    OBVIOUS
  <2>3. /\ k \in Nat /\ k \in 1..Len(Chain[push[c].tip])
        /\ push[c].tip \in Objects /\ Len(Chain[push[c].tip]) \in Nat
        /\ push[c].expected = None \/ push[c].expected \in History(push[c].tip)
    BY <1>3, <2>2, PushFacts, Ancestry DEF PushOf, Pushes
  <2>4. /\ push' \in [Clients -> Pushes]
        /\ \A d \in Clients \ {c} : push'[d] = push[d]
        /\ r.pc = pc /\ r.tip = push[c].tip
        /\ r.expected = push[c].expected /\ r.done = k
    BY <1>5, <2>0, <2>1, <2>2, <2>3, PushFacts DEF Pushes
  <2>5. PushBecomes(c, r)
    BY <2>1, <2>4 DEF PushBecomes
  <2>6. PushOf(c)'
    BY <2>0, <2>1, <2>2, <2>3, <2>4 DEF PushOf
  <2>7. Published(c)' = Published(c)
    <3>1. Published(c) = {Chain[push[c].tip][i] : i \in 1..k}
      BY <1>3, <2>2, PushFacts
    <3>2. Published(c)' = {Chain[push[c].tip][i] : i \in 1..k}
      BY <2>1, <2>4 DEF Published
    <3> QED
      BY <3>1, <3>2
  <2> QED
    BY <1>2, <1>3, <2>5, <2>6, <2>7, PushMoves
<1>6. push' \in {[push EXCEPT ![c] = NoPush], [push EXCEPT ![c] = x]}
  BY Zenon DEF Copy
<1> HIDE DEF x
<1> QED
  BY <1>2, <1>4, <1>5, <1>6

\* The ref moves to a tip that succeeds it and has been published, or the push
\* was overtaken.
LEMMA CompareAndSwapKeeps ==
    ASSUME IInv, NEW c \in Clients, CompareAndSwap(c)
    PROVE  IInv' /\ NodesServed
<1>1. /\ push[c].pc = "cas" /\ push[c].tip \in Objects
      /\ push[c].expected = None \/ push[c].expected \in History(push[c].tip)
      /\ Published(c) = History(push[c].tip)
  BY PushFacts DEF CompareAndSwap, PushOf
<1>2. RefAdvances /\ (ref' = ref \/ History(ref') = Published(c))
  <2>1. CASE ref = push[c].expected
    BY <1>1, <2>1, Ancestry DEF CompareAndSwap, RefAdvances, Tips
  <2>2. CASE ref # push[c].expected
    BY <2>2, PushFacts DEF CompareAndSwap, RefAdvances
  <2> QED
    BY <2>1, <2>2
<1>3. NodesServed
  BY <1>2, SameNodes DEF CompareAndSwap
<1>4. PushesOK' /\ PushBecomes(c, NoPush)
  <2>1. PushBecomes(c, NoPush)
    BY PushFacts DEF CompareAndSwap, PushBecomes
  <2>2. \A d \in Clients : PushOf(d)'
    BY <2>1, PushFacts DEF PushBecomes, PushOf, IInv, PushesOK
  <2> QED
    BY <2>1, <2>2 DEF PushBecomes, PushesOK
<1>5. Shared' /\ ReadsOK'
  <2>1. ReadsOK'
    BY <1>3, StaysReadable DEF CompareAndSwap
  <2> QED
    BY <1>2, <2>1 DEF CompareAndSwap, IInv, Shared, RefAdvances
<1>6. ASSUME NoTouchInSweep
      PROVE  NothingIsLost'
  <2>1. /\ NothingIsLost /\ world.nodes \subseteq Nodes
        /\ \A n \in Nodes : Protected(n) \subseteq Protected(n)'
        /\ History(ref) \subseteq Objects /\ History(push[c].tip) \subseteq Objects
    BY <1>1, <1>3, <1>6, PushFacts, Ancestry DEF IInv, NodesServed, Keeps, Tips
  <2>2. /\ \A n, o : IsNew(n, o)' = IsNew(n, o)
        /\ \A n : Has(n)' = Has(n)
    <3>1. \A n, o : IsNew(n, o)' = IsNew(n, o) /\ Packed(n, o)' = Packed(n, o)
      BY DEF CompareAndSwap, IsNew, Packed, Indexes
    <3> QED
      BY <3>1 DEF CompareAndSwap, Has
  <2>3. RefIsSecure'
    <3> SUFFICES ASSUME NEW o \in History(ref')
                 PROVE  \E n \in world.nodes : Secure(n, o)'
      BY DEF RefIsSecure, CompareAndSwap
    <3>1. CASE o \in History(ref)
      BY <2>1, <2>2, <3>1 DEF NothingIsLost, RefIsSecure, Secure
    <3>2. CASE o \notin History(ref)
      <4>1. o \in Published(c) /\ o \in Objects
        BY <1>1, <1>2, <2>1, <3>2
      <4>2. PICK n \in world.nodes : IsNew(n, o)
        BY <1>1, <2>1, <3>2, <4>1 DEF NothingIsLost, PublishedIsSecure
      <4> QED
        BY <2>2, <4>1, <4>2 DEF Secure, Has, IsNew
    <3> QED
      BY <3>1, <3>2
  <2>4. PublishedIsSecure'
    <3> SUFFICES ASSUME NEW d \in Clients, push'[d].pc # "idle", NEW o \in Published(d)'
                 PROVE  \/ o \in History(ref')
                        \/ \E n \in world.nodes : IsNew(n, o)'
      BY DEF PublishedIsSecure, CompareAndSwap
    <3>1. d # c /\ push'[d] = push[d]
      BY <1>4, PushFacts DEF PushBecomes
    <3>2. o \in Published(d) /\ push[d].pc # "idle"
      BY <3>1 DEF Published, NextObject
    <3> QED
      BY <1>2, <2>1, <2>2, <3>2 DEF NothingIsLost, PublishedIsSecure, RefAdvances
  <2> QED
    BY <1>3, <1>6, <2>3, <2>4 DEF NothingIsLost, NodesServed
<1> QED
  BY <1>3, <1>4, <1>5, <1>6 DEF IInv, NodesServed

-----------------------------------------------------------------------------
(* Replication and membership.                                             *)

\* A node fetches an object it does not hold from a peer.
LEMMA CopyFromPeerKeeps ==
    ASSUME IInv, NEW n \in Nodes, NEW o \in Objects, CopyFromPeer(n, o)
    PROVE  IInv' /\ NodesServed
<1>1. CheckedOld(n) => gc[n].checked # o
  BY Ancestry DEF CheckedOld, CopyFromPeer, Has
<1>2. NodesServed
  <2>1. PICK S \in SUBSET Nodes : S = {n}
    OBVIOUS
  <2>2. /\ DOMAIN loose' = Nodes
        /\ \A m \in Nodes : loose'[m] = IF m \in S THEN Fresh(loose[m], {o}) ELSE loose[m]
        /\ \A m \in S : NoTouchInSweep /\ CheckedOld(m) => gc[m].checked # o
    BY <1>1, <2>1 DEF CopyFromPeer, IInv, NodesOK, Domains
  <2> QED
    BY <2>1, <2>2, NodesTouched DEF CopyFromPeer
<1>3. PushesKept
  BY DEF CopyFromPeer, PushesKept, Published, NextObject
<1>4. NoTouchInSweep => NothingIsLost'
  BY <1>2, <1>3, StaysSecure DEF CopyFromPeer
<1>5. Shared' /\ PushesOK'
  BY DEF CopyFromPeer, IInv, Shared, PushesOK, PushOf
<1>6. ReadsOK'
  BY <1>2, StaysReadable DEF CopyFromPeer
<1> QED
  BY <1>2, <1>4, <1>5, <1>6 DEF IInv, NodesServed

\* Rows come and go and nodes start: no file and no pass changes.
LEMMA MembershipKeeps ==
    ASSUME IInv, NEW n \in Nodes, Heartbeat(n) \/ RowExpires(n) \/ NodeStarts(n)
    PROVE  IInv' /\ NodesServed
<1>1. /\ UNCHANGED <<world, ref, loose, packs, made, gc, push, reader>>
      /\ up' \subseteq world.nodes /\ listed' \subseteq Nodes
  BY DEF Heartbeat, RowExpires, NodeStarts, IInv, Shared
<1>2. NodesServed
  BY <1>1, SameNodes DEF RefAdvances, IInv, Shared
<1>3. PushesKept
  BY <1>1 DEF PushesKept, Published, NextObject
<1>4. NoTouchInSweep => NothingIsLost'
  BY <1>1, <1>2, <1>3, StaysSecure
<1>5. Shared' /\ PushesOK'
  BY <1>1 DEF IInv, Shared, PushesOK, PushOf
<1>6. ReadsOK'
  BY <1>1, <1>2, StaysReadable
<1> QED
  BY <1>2, <1>4, <1>5, <1>6 DEF IInv, NodesServed

\* A node stops: its pass, the pushes it serves and its read end there.
LEMMA NodeStopsKeeps ==
    ASSUME IInv, NEW n \in Nodes, NodeStops(n)
    PROVE  IInv' /\ NodesServed
<1>1. /\ UNCHANGED <<world, ref, loose, packs, made, listed>> /\ up' \subseteq world.nodes
      /\ gc' = [gc EXCEPT ![n] = NoPass] /\ reader' \in {reader, NoRead}
  BY DEF NodeStops, IInv, Shared
<1>2. Serves(n)
  BY <1>1, PassEnds DEF IInv
<1>3. NodesServed
  BY <1>1, <1>2, OneNodeServed
<1>4. /\ push' \in [Clients -> Pushes]
      /\ \A c \in Clients : push'[c] = push[c] \/ push'[c] = NoPush
  <2>1. \A c \in Clients : push[c] \in Pushes /\ NoPush \in Pushes
    BY PushFacts
  <2>2. push' = [c \in Clients |-> IF push[c].at = n THEN NoPush ELSE push[c]]
    BY DEF NodeStops
  <2> QED
    BY <2>1, <2>2
<1>5. PushesKept
  BY <1>4, PushFacts DEF PushesKept, Published, NextObject
<1>6. NoTouchInSweep => NothingIsLost'
  BY <1>1, <1>3, <1>5, StaysSecure
<1>7. Shared' /\ PushesOK'
  BY <1>1, <1>4, PushFacts DEF IInv, Shared, PushesOK, PushOf
<1>8. ReadsOK'
  BY <1>1, <1>3, StaysReadable
<1> QED
  BY <1>3, <1>6, <1>7, <1>8 DEF IInv, NodesServed

-----------------------------------------------------------------------------
(* The steps of a read.                                                    *)

\* A read steps: nothing changes but what it knows.
LEMMA ReadStep ==
    ASSUME IInv, UNCHANGED <<world, ref, loose, packs, made, gc, up, listed, push>>,
           ReadsOK'
    PROVE  IInv' /\ NodesServed
<1>1. NodesServed
  BY SameNodes DEF RefAdvances, IInv, Shared
<1>2. PushesKept
  BY DEF PushesKept, Published, NextObject
<1>3. NoTouchInSweep => NothingIsLost'
  BY <1>1, <1>2, StaysSecure
<1>4. Shared' /\ PushesOK'
  BY DEF IInv, Shared, PushesOK, PushOf
<1> QED
  BY <1>1, <1>3, <1>4 DEF IInv, NodesServed

LEMMA StartReadKeeps ==
    ASSUME IInv, NEW n \in Nodes, NEW o \in Objects, StartRead(n, o)
    PROVE  IInv' /\ NodesServed
<1>1. /\ reader' = [pc |-> "loose", node |-> n, object |-> o, pack |-> 0]
      /\ o \in Protected(n) /\ o \in Has(n)
      /\ UNCHANGED <<world, ref, loose, packs, made, gc, up, listed, push>>
  BY DEF StartRead
<1>2. Protected(n)' = Protected(n) /\ Has(n)' = Has(n)
  BY <1>1 DEF Protected, Has, Packed, Indexes
<1>3. ReadsOK'
  BY <1>1, <1>2 DEF ReadsOK, Reads, Tips
<1> QED
  BY <1>1, <1>3, ReadStep

\* An object that is not loose any more is in a pack.
LEMMA ReadLooseKeeps ==
    ASSUME IInv, ReadLoose
    PROVE  IInv' /\ NodesServed
<1>1. UNCHANGED <<world, ref, loose, packs, made, gc, up, listed, push>>
  BY DEF ReadLoose
<1> SUFFICES ReadsOK'
  BY <1>1, ReadStep
<1>2. CASE reader' = NoRead
  BY <1>2 DEF ReadsOK, NoRead, Reads, Tips
<1>3. CASE /\ reader.object \notin DOMAIN loose[reader.node]
           /\ reader' = [reader EXCEPT !.pc = "catalog"]
  <2>1. PICK n \in Nodes, o \in Tips : n = reader.node /\ o = reader.object
    BY DEF ReadLoose, IInv, ReadsOK, Reads
  <2>2. o \in Protected(n) /\ Indexes(n, o) # {}
    BY <1>3, <2>1 DEF ReadLoose, IInv, ReadsOK, Has, Packed
  <2>3. /\ reader \in Reads /\ reader' \in Reads /\ reader'.pc = "catalog"
        /\ reader'.node = n /\ reader'.object = o
    BY <1>3, <2>1 DEF IInv, ReadsOK, Reads
  <2>4. Protected(n)' = Protected(n) /\ Indexes(n, o)' = Indexes(n, o)
    BY <1>1 DEF Protected, Indexes
  <2> QED
    BY <2>2, <2>3, <2>4 DEF ReadsOK
<1> QED
  BY <1>2, <1>3 DEF ReadLoose

\* The catalog of the indexes names the object.
LEMMA LoadCatalogKeeps ==
    ASSUME IInv, LoadCatalog
    PROVE  IInv' /\ NodesServed
<1>1. UNCHANGED <<world, ref, loose, packs, made, gc, up, listed, push>>
  BY DEF LoadCatalog
<1>2. PICK n \in Nodes, o \in Tips : n = reader.node /\ o = reader.object
  BY DEF LoadCatalog, IInv, ReadsOK, Reads
<1>3. PICK found : found = Indexes(n, o)
  OBVIOUS
<1>4. found # {} /\ Max(found) \in Nat
  <2>1. found # {}
    BY <1>2, <1>3 DEF LoadCatalog, IInv, ReadsOK
  <2>2. PICK k \in Nat : k = made[n] /\ DOMAIN packs[n] \subseteq 1..k
    BY DEF IInv, NodesOK, NodeOK, FilesTyped
  <2>3. found \in SUBSET (1..k)
    BY <1>3, <2>2 DEF Indexes
  <2>4. \A p \in found : p \in Nat
    BY <2>3
  <2>5. Max(found) \in found
    BY <2>1, <2>3, MaxIsMember
  <2> QED
    BY ONLY <2>1, <2>4, <2>5
<1>6. reader' = [reader EXCEPT !.pc = "data", !.pack = Max(found)]
  BY <1>2, <1>3, <1>4 DEF LoadCatalog
<1>7. ReadsOK'
  <2>1. reader \in Reads
    BY DEF IInv, ReadsOK
  <2>2. reader' \in Reads /\ reader'.pc = "data"
    BY <1>4, <1>6, <2>1 DEF Reads
  <2> QED
    BY <2>2 DEF ReadsOK
<1> QED
  BY <1>1, <1>7, ReadStep

LEMMA ReadDataKeeps ==
    ASSUME IInv, ReadData
    PROVE  IInv' /\ NodesServed
<1>1. ReadsOK'
  BY DEF ReadData, ReadsOK, NoRead, Reads, Tips
<1> QED
  BY <1>1, ReadStep DEF ReadData

-----------------------------------------------------------------------------
(* The theorems.                                                           *)

LEMMA NextKeeps == IInv /\ [Next]_vars => IInv' /\ NodesServed
<1> SUFFICES ASSUME IInv, [Next]_vars
             PROVE  IInv' /\ NodesServed
  OBVIOUS
<1>1. ASSUME NEW c \in Clients, NEW t \in Objects, StartPush(c, t)
      PROVE  IInv' /\ NodesServed
  BY <1>1, StartPushKeeps
<1>2. ASSUME NEW c \in Clients, CompareAndSwap(c)
      PROVE  IInv' /\ NodesServed
  BY <1>2, CompareAndSwapKeeps
<1>3. ASSUME NEW c \in Clients, NEW S \in SUBSET Nodes, Copy(c, S)
      PROVE  IInv' /\ NodesServed
  BY <1>3, CopyKeeps
<1>4. ASSUME NEW n \in Nodes, NEW c \in Clients, PublishLocal(c, n)
      PROVE  IInv' /\ NodesServed
  BY <1>4, PublishLocalKeeps
<1>5. ASSUME NEW n \in Nodes, Heartbeat(n) \/ RowExpires(n) \/ NodeStarts(n)
      PROVE  IInv' /\ NodesServed
  BY <1>5, MembershipKeeps
<1>6. ASSUME NEW n \in Nodes, NodeStops(n)
      PROVE  IInv' /\ NodesServed
  BY <1>6, NodeStopsKeeps
<1>7. ASSUME NEW n \in Nodes,
             \/ StartPass(n) \/ Mark(n) \/ Remove(n) \/ NothingToPack(n) \/ Repack(n)
             \/ RemoveData(n) \/ RemoveIndex(n) \/ EndPass(n)
             \/ \E o \in Objects : Age(n, o) \/ Stat(n, o) \/ Unlink(n, o)
      PROVE  IInv' /\ NodesServed
  <2>1. UNCHANGED <<world, ref, up, listed, push, reader>>
    BY <1>7 DEF StartPass, Mark, Remove, NothingToPack, Repack, RepackOf, RemoveData,
       RemoveIndex, EndPass, Age, Stat, Unlink
  <2>2. NodesOK /\ Shared
    BY DEF IInv
  <2>3. Serves(n)
    BY <1>7, <2>2, StartPassServes, MarkServes, RemoveServes, NothingToPackServes,
       RepackServes, RemoveDataServes, RemoveIndexServes, AgeServes, StatServes,
       UnlinkServes
    DEF Repack
  <2> QED
    BY <2>1, <2>3, PassStep
<1>8. ASSUME NEW n \in Nodes, NEW o \in Objects, CopyFromPeer(n, o)
      PROVE  IInv' /\ NodesServed
  BY <1>8, CopyFromPeerKeeps
<1>9. ASSUME NEW n \in Nodes, NEW o \in Objects, StartRead(n, o)
      PROVE  IInv' /\ NodesServed
  BY <1>9, StartReadKeeps
<1>10. ASSUME ReadLoose \/ LoadCatalog \/ ReadData
       PROVE  IInv' /\ NodesServed
  BY <1>10, ReadLooseKeeps, LoadCatalogKeeps, ReadDataKeeps
<1>11. ASSUME UNCHANGED vars
       PROVE  IInv' /\ NodesServed
  <2>1. ReadsOK'
    BY <1>11 DEF vars, IInv, ReadsOK, Protected, Has, Packed, Indexes
  <2> QED
    BY <1>11, <2>1, ReadStep DEF vars
<1> QED
  BY <1>1, <1>2, <1>3, <1>4, <1>5, <1>6, <1>7, <1>8, <1>9, <1>10, <1>11 DEF Next

\* The inductive invariant holds of every behaviour.
THEOREM Invariance == Spec => []IInv
<1>1. Init => IInv
  BY InitIInv
<1>2. IInv /\ [Next]_vars => IInv'
  BY NextKeeps
<1> QED
  BY <1>1, <1>2, PTL DEF Spec

\* The files, packs, passes and pushes have their types: a pass lists for
\* removal only packs that exist, and a push counts no object its chain lacks.
THEOREM TypeCorrect == Spec => []TypeOK
<1>1. IInv => TypeOK
  <2> SUFFICES ASSUME IInv
               PROVE  TypeOK
    OBVIOUS
  <2>1. /\ world \in Worlds /\ ref \in Objects \union {None} /\ world.packs \in Nat
        /\ up \subseteq Nodes /\ listed \subseteq Nodes
    BY ObjectStoreAssumption DEF IInv, Shared, Tips
  <2>2. ASSUME NEW n \in Nodes
        PROVE  /\ DOMAIN loose[n] \subseteq Objects
               /\ \A o \in DOMAIN loose[n] : loose[n][o] \in {"new", "old"}
               /\ DOMAIN packs[n] \subseteq 1..made[n] /\ made[n] <= world.packs + 1
               /\ gc[n].stale \subseteq DOMAIN packs[n]
               /\ gc[n].pc \in {"idle", "mark", "sweep", "clean"}
    <3>1. FilesTyped(n) /\ PassOf(n)
      BY DEF IInv, NodesOK, NodeOK
    <3> QED
      BY <2>1, <3>1 DEF FilesTyped, PassOf, Passes, Ages
  <2>3. ASSUME NEW c \in Clients, push[c].tip # None
        PROVE  push[c].done \in 0..Len(Chain[push[c].tip])
    <3>1. push[c] \in Pushes /\ PushOf(c) /\ push[c].tip \in Objects
      BY <2>3, PushFacts DEF PushOf, Pushes, Tips
    <3>2. push[c].done \in Nat /\ Len(Chain[push[c].tip]) \in Nat
      BY <3>1, Ancestry DEF Pushes
    <3>3. push[c].done <= Len(Chain[push[c].tip])
      BY <2>3, <3>1, <3>2 DEF PushOf
    <3> QED
      BY <3>2, <3>3
  <2> QED
    BY <2>1, <2>2, <2>3 DEF TypeOK
<1> QED
  BY <1>1, Invariance, PTL

\* gcRepository and repackRepository: a node that holds an object its ref
\* reaches keeps holding it through every single file operation of a pass, and
\* through a crash between any two of them.
THEOREM ProtectedObjectsAreKept == Spec => ReachableIsKept
<1>1. IInv /\ [Next]_vars =>
        [\A n \in world.nodes : Protected(n) \intersect Has(n) \subseteq Has(n)']_vars
  <2>1. IInv => world.nodes \subseteq Nodes
    BY ObjectStoreAssumption DEF IInv, Shared
  <2> QED
    BY <2>1, NextKeeps DEF NodesServed, Keeps
<1> QED
  BY <1>1, Invariance, PTL DEF Spec, ReachableIsKept

\* FileStorage.ReadObject: a read of an object the ref reaches never answers
\* that there is none, wherever repacking moves the object meanwhile.
THEOREM ReadsFindObjects == Spec => []NoFalseMissing
<1>1. IInv => NoFalseMissing
  BY DEF IInv, ReadsOK, NoFalseMissing
<1> QED
  BY <1>1, Invariance, PTL

\* Some node holds every object the ref reaches, as long as no file is
\* republished between the stat and the removal by which a sweep drops its old
\* self: the code takes no lock there.
THEOREM RefStaysComplete ==
    ASSUME NoTouchInSweep
    PROVE  Spec => []RefIsComplete
<1>1. IInv => RefIsComplete
  BY NoTouchInSweep DEF IInv, NothingIsLost, RefIsSecure, Secure, RefIsComplete
<1> QED
  BY <1>1, Invariance, PTL

=============================================================================
