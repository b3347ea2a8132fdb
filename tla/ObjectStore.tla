---------------------------- MODULE ObjectStore -----------------------------
(***************************************************************************)
(* The object side of the context remote: nodes that keep context objects  *)
(* as loose files and in packs, share one ref database, copy objects to    *)
(* each other and collect garbage, while clients push chains of objects    *)
(* through whatever node answers, and readers look objects up.             *)
(*                                                                         *)
(* A file is "new" until the grace period has passed since it was last     *)
(* published, then "old".  A pack is an index file and a data file under   *)
(* one name; names grow with time, so a greater number is a newer pack.    *)
(* The pass of the garbage collector takes one file operation per step,    *)
(* and a node may crash between any two of them; its files stay.           *)
(***************************************************************************)
EXTENDS Naturals, FiniteSets, Sequences, FiniteSetsExt

CONSTANTS Nodes, Clients,
          ReplicationFactor,
          Chain,        \* [tip -> its ancestry in publication order]
          Worlds,       \* [nodes, reads, tips: client -> what it pushes, packs: bound]
          NoTouchInSweep, \* no file is republished between its stat and remove
          None

Objects == DOMAIN Chain
Members(s) == {s[i] : i \in DOMAIN s}
History(tip) == IF tip = None THEN {} ELSE Members(Chain[tip])

ASSUME ObjectStoreAssumption ==
    /\ ReplicationFactor \in Nat \ {0} /\ NoTouchInSweep \in BOOLEAN
    /\ None \notin Objects
    /\ \A t \in Objects : /\ Chain[t] \in Seq(Objects) /\ t \in History(t)
                           /\ \A u \in History(t) : History(u) \subseteq History(t)
    /\ \A w \in Worlds : w.nodes \subseteq Nodes /\ w.packs \in Nat

VARIABLES
    world,   \* the one of Worlds this behaviour takes place in
    ref,     \* the tip in the shared ref database
    loose,   \* [Nodes -> [files -> "new" or "old"]]
    packs,   \* [Nodes -> [index files -> [objects, data]]]
    made,    \* packs a node has written (bounds the repacking)
    gc,      \* the maintenance pass of a node
    up,      \* nodes that run
    listed,  \* nodes with a fresh row in cluster_nodes
    push,    \* [Clients -> a push under way]
    reader   \* one read by a node's file storage

vars == <<world, ref, loose, packs, made, gc, up, listed, push, reader>>

NoPass == [pc |-> "idle", tip |-> None, todo |-> {}, checked |-> None,
           aged |-> {}, stale |-> {}]
NoPush == [pc |-> "idle", tip |-> None, expected |-> None, done |-> 0, at |-> None]
NoRead == [pc |-> "idle", node |-> None, object |-> None, pack |-> 0]

Init ==
    /\ world \in Worlds /\ ref = None
    /\ loose = [n \in Nodes |-> <<>>] /\ packs = [n \in Nodes |-> <<>>]
    /\ made = [n \in Nodes |-> 0] /\ gc = [n \in Nodes |-> NoPass]
    /\ up = world.nodes /\ listed = world.nodes
    /\ push = [c \in Clients |-> NoPush] /\ reader = NoRead

-----------------------------------------------------------------------------
(* What a node holds.                                                      *)

\* The indexes that name an object; readers take the newest.
Indexes(n, o) == {p \in DOMAIN packs[n] : o \in packs[n][p].objects}
Packed(n, o) == Indexes(n, o) # {} /\ packs[n][Max(Indexes(n, o))].data
Has(n) == {o \in Objects : o \in DOMAIN loose[n] \/ Packed(n, o)}

Without(f, S) == [x \in DOMAIN f \ S |-> f[x]]

\* FileSystem.PublishObject: a new loose file, or a new time for the old one.
Fresh(files, S) == [o \in DOMAIN files \union S |-> IF o \in S THEN "new" ELSE files[o]]

MayTouch(n, o) == NoTouchInSweep => gc[n].checked # o

-----------------------------------------------------------------------------
(* Pushing.                                                                *)

Peers(n) == listed \ {n}

\* PushRemote up to the first object: the remote tip is in the chain.
StartPush(c, t) ==
    /\ t \in world.tips[c] /\ push[c].pc = "idle" /\ ref # t
    /\ ref = None \/ ref \in History(t)
    /\ push' = [push EXCEPT ![c] = [NoPush EXCEPT !.pc = "publish", !.tip = t,
                                                  !.expected = ref]]
    /\ UNCHANGED <<world, ref, loose, packs, made, gc, up, listed, reader>>

NextObject(c) == Chain[push[c].tip][push[c].done + 1]

\* The next request, at any node; the whole chain is published every time.
PublishLocal(c, n) ==
    /\ push[c].pc = "publish" /\ n \in up
    /\ MayTouch(n, NextObject(c))
    /\ loose' = [loose EXCEPT ![n] = Fresh(@, {NextObject(c)})]
    /\ push' = [push EXCEPT ![c].pc = "copy", ![c].at = n]
    /\ UNCHANGED <<world, ref, packs, made, gc, up, listed, reader>>

\* ReplicatedStorage.PublishObject: the peers that answer; too few fail it.
Copy(c, answered) ==
    LET peers == Peers(push[c].at)
        required == Min({ReplicationFactor, 1 + Cardinality(peers)})
        last == push[c].done + 1 = Len(Chain[push[c].tip])
    IN  /\ push[c].pc = "copy"
        /\ answered \subseteq peers \intersect up
        /\ required = 1 => answered = {}
        /\ \A n \in answered : MayTouch(n, NextObject(c))
        /\ loose' = [n \in Nodes |-> IF n \in answered
                                     THEN Fresh(loose[n], {NextObject(c)})
                                     ELSE loose[n]]
        /\ push' = [push EXCEPT ![c] =
                      IF 1 + Cardinality(answered) < required THEN NoPush
                      ELSE [push[c] EXCEPT !.done = @ + 1, !.at = None,
                              !.pc = IF last THEN "cas" ELSE "publish"]]
        /\ UNCHANGED <<world, ref, packs, made, gc, up, listed, reader>>

\* CompareAndSwapRef: a server without a coordinator reads no object for it.
CompareAndSwap(c) ==
    /\ push[c].pc = "cas"
    /\ ref' = IF ref = push[c].expected THEN push[c].tip ELSE ref
    /\ push' = [push EXCEPT ![c] = NoPush]
    /\ UNCHANGED <<world, loose, packs, made, gc, up, listed, reader>>

-----------------------------------------------------------------------------
(* Replication and membership.                                             *)

\* A fetch on a miss and an anti-entropy round do the same to one object.
\* Seeded fault: a peer offers its loose objects only.
CopyLooseFromPeer(n, o) ==
    /\ n \in up /\ o \notin Has(n)
    /\ \E p \in Peers(n) \intersect up : o \in DOMAIN loose[p]
    /\ loose' = [loose EXCEPT ![n] = Fresh(@, {o})]
    /\ UNCHANGED <<world, ref, packs, made, gc, up, listed, push, reader>>
CopyFromPeer(n, o) ==
    /\ n \in up /\ o \notin Has(n)
    /\ \E p \in Peers(n) \intersect up : o \in Has(p)
    /\ loose' = [loose EXCEPT ![n] = Fresh(@, {o})]
    /\ UNCHANGED <<world, ref, packs, made, gc, up, listed, push, reader>>

Heartbeat(n) ==
    /\ n \in up \ listed /\ listed' = listed \union {n}
    /\ UNCHANGED <<world, ref, loose, packs, made, gc, up, push, reader>>

\* The row is older than the TTL, or the node left.
RowExpires(n) ==
    /\ n \in listed /\ Cardinality(world.nodes) > 1 /\ listed' = listed \ {n}
    /\ UNCHANGED <<world, ref, loose, packs, made, gc, up, push, reader>>

\* A crash: requests at the node fail, its files stay.
NodeStops(n) ==
    /\ n \in up /\ up' = up \ {n}
    /\ gc' = [gc EXCEPT ![n] = NoPass]
    /\ push' = [c \in Clients |-> IF push[c].at = n THEN NoPush ELSE push[c]]
    /\ reader' = IF reader.node = n THEN NoRead ELSE reader
    /\ UNCHANGED <<world, ref, loose, packs, made, listed>>

NodeStarts(n) ==
    /\ n \in world.nodes \ up /\ up' = up \union {n}
    /\ UNCHANGED <<world, ref, loose, packs, made, gc, listed, push, reader>>

\* The grace period passes.  It is longer than a push and than the marking of
\* a pass: no file ages during the push that published it, nor while a pass
\* marks; after the mark the cutoff is fixed.
Published(c) == {Chain[push[c].tip][i] : i \in 1..push[c].done}
                  \union IF push[c].pc = "copy" THEN {NextObject(c)} ELSE {}
Age(n, o) ==
    /\ o \in DOMAIN loose[n] /\ loose[n][o] = "new"
    /\ gc[n].pc = "idle"
    /\ \A c \in Clients : push[c].pc # "idle" => o \notin Published(c)
    /\ loose' = [loose EXCEPT ![n][o] = "old"]
    /\ UNCHANGED <<world, ref, packs, made, gc, up, listed, push, reader>>

-----------------------------------------------------------------------------
(* Maintenance: gcRepository and repackRepository on one node.             *)

\* The lock is free, and the refs are read.
StartPass(n) ==
    /\ n \in up /\ gc[n].pc = "idle" /\ made[n] < world.packs
    /\ gc' = [gc EXCEPT ![n].pc = "mark", ![n].tip = ref]
    /\ UNCHANGED <<world, ref, loose, packs, made, up, listed, push, reader>>

\* Whatever the refs reach is read here; an incomplete history ends the pass.
\* Then the cutoff is fixed and the loose files are listed.
Mark(n) ==
    /\ gc[n].pc = "mark"
    /\ gc' = [gc EXCEPT ![n] = IF History(gc[n].tip) \subseteq Has(n)
                               THEN [@ EXCEPT !.pc = "sweep", !.todo = DOMAIN loose[n]]
                               ELSE NoPass]
    /\ UNCHANGED <<world, ref, loose, packs, made, up, listed, push, reader>>

\* The stat of one listed file, and the removal if it is old and unreachable.
Aged(n, o) == o \in DOMAIN loose[n] /\ loose[n][o] = "old"
\* Seeded fault: the age is not looked at.
StatWithoutAge(n, o) ==
    /\ gc[n].pc = "sweep" /\ gc[n].checked = None /\ o \in gc[n].todo
    /\ gc' = [gc EXCEPT
                ![n].todo = @ \ {o},
                ![n].aged = IF o \in History(gc[n].tip) /\ Aged(n, o)
                            THEN @ \union {o} ELSE @,
                ![n].checked = IF o \notin History(gc[n].tip) THEN o ELSE @]
    /\ UNCHANGED <<world, ref, loose, packs, made, up, listed, push, reader>>
Stat(n, o) ==
    /\ gc[n].pc = "sweep" /\ gc[n].checked = None /\ o \in gc[n].todo
    /\ gc' = [gc EXCEPT
                ![n].todo = @ \ {o},
                ![n].aged = IF o \in History(gc[n].tip) /\ Aged(n, o)
                            THEN @ \union {o} ELSE @,
                ![n].checked = IF o \notin History(gc[n].tip) /\ Aged(n, o)
                               THEN o ELSE @]
    /\ UNCHANGED <<world, ref, loose, packs, made, up, listed, push, reader>>

Remove(n) ==
    /\ gc[n].checked # None
    /\ loose' = [loose EXCEPT ![n] = Without(@, {gc[n].checked})]
    /\ gc' = [gc EXCEPT ![n].checked = None]
    /\ UNCHANGED <<world, ref, packs, made, up, listed, push, reader>>

\* The new pack: the entries of the old ones that are kept and the aged files.
\* The reachable entries are kept, and of the others those whose time, that of
\* the file when it was packed, is not past the cutoff: a publication may have
\* renewed it.  Each entry is read from the newest index that names it; one
\* that cannot be read ends the pass.  Data, then index, become visible.
InPacks(n) == UNION {packs[n][p].objects : p \in DOMAIN packs[n]}
Kept(n) == {S \in SUBSET InPacks(n) : InPacks(n) \intersect History(gc[n].tip) \subseteq S}
RewriteNeeded(n, kept) == \/ gc[n].aged # {}
                          \/ Cardinality(DOMAIN packs[n]) > 1
                          \/ kept # InPacks(n)
Sweeping(n) == gc[n].pc = "sweep" /\ gc[n].todo = {} /\ gc[n].checked = None

NothingToPack(n) ==
    /\ Sweeping(n)
    /\ \E kept \in Kept(n) :
         ~RewriteNeeded(n, kept) \/ \E o \in kept : ~Packed(n, o)
    /\ gc' = [gc EXCEPT ![n] = NoPass]
    /\ UNCHANGED <<world, ref, loose, packs, made, up, listed, push, reader>>

WithPack(n, S) == [p \in DOMAIN packs[n] \union {made[n] + 1} |->
                     IF p \in DOMAIN packs[n] THEN packs[n][p]
                     ELSE [objects |-> S, data |-> TRUE]]
\* Seeded fault: what was already packed is not carried over.
RepackLooseOnly(n) ==
    /\ Sweeping(n) /\ \E kept \in Kept(n) : RewriteNeeded(n, kept)
    /\ packs' = [packs EXCEPT ![n] = WithPack(n, gc[n].aged)]
    /\ made' = [made EXCEPT ![n] = @ + 1]
    /\ gc' = [gc EXCEPT ![n].pc = "clean", ![n].stale = DOMAIN packs[n]]
    /\ UNCHANGED <<world, ref, loose, up, listed, push, reader>>
RepackOf(n, kept) ==
    /\ Sweeping(n) /\ RewriteNeeded(n, kept)
    /\ \A o \in kept : Packed(n, o)
    /\ LET sources == kept \union gc[n].aged IN
       IF sources = {} THEN UNCHANGED <<packs, made>>
       ELSE /\ packs' = [packs EXCEPT ![n] = WithPack(n, sources)]
            /\ made' = [made EXCEPT ![n] = @ + 1]
    /\ gc' = [gc EXCEPT ![n].pc = "clean", ![n].stale = DOMAIN packs[n]]
    /\ UNCHANGED <<world, ref, loose, up, listed, push, reader>>

Repack(n) == \E kept \in Kept(n) : RepackOf(n, kept)

\* The replaced packs go, the newest first: the data, then the index.
RemoveData(n) ==
    /\ gc[n].pc = "clean" /\ gc[n].stale # {}
    /\ packs[n][Max(gc[n].stale)].data
    /\ packs' = [packs EXCEPT ![n][Max(gc[n].stale)].data = FALSE]
    /\ UNCHANGED <<world, ref, loose, made, gc, up, listed, push, reader>>

\* Seeded fault: the index stays in the list of what is to be removed.
RemoveIndexOnly(n) ==
    /\ gc[n].pc = "clean" /\ gc[n].stale # {}
    /\ ~packs[n][Max(gc[n].stale)].data
    /\ packs' = [packs EXCEPT ![n] = Without(@, {Max(gc[n].stale)})]
    /\ UNCHANGED <<world, ref, loose, made, gc, up, listed, push, reader>>
RemoveIndex(n) ==
    /\ gc[n].pc = "clean" /\ gc[n].stale # {}
    /\ ~packs[n][Max(gc[n].stale)].data
    /\ packs' = [packs EXCEPT ![n] = Without(@, {Max(gc[n].stale)})]
    /\ gc' = [gc EXCEPT ![n].stale = @ \ {Max(@)}]
    /\ UNCHANGED <<world, ref, loose, made, up, listed, push, reader>>

\* Then the loose copies of what was packed.
\* Seeded fault: they go before the pack is written.
UnlinkEarly(n, o) ==
    /\ gc[n].pc \in {"sweep", "clean"} /\ o \in gc[n].aged
    /\ gc[n].stale = {} /\ gc[n].todo = {} /\ gc[n].checked = None
    /\ loose' = [loose EXCEPT ![n] = Without(@, {o})]
    /\ gc' = [gc EXCEPT ![n] = [@ EXCEPT !.aged = IF gc[n].pc = "sweep" THEN @ ELSE @ \ {o}]]
    /\ UNCHANGED <<world, ref, packs, made, up, listed, push, reader>>
Unlink(n, o) ==
    /\ gc[n].pc = "clean" /\ gc[n].stale = {} /\ o \in gc[n].aged
    /\ loose' = [loose EXCEPT ![n] = Without(@, {o})]
    /\ gc' = [gc EXCEPT ![n].aged = @ \ {o}]
    /\ UNCHANGED <<world, ref, packs, made, up, listed, push, reader>>

EndPass(n) ==
    /\ gc[n].pc = "clean" /\ gc[n].stale = {} /\ gc[n].aged = {}
    /\ gc' = [gc EXCEPT ![n] = NoPass]
    /\ UNCHANGED <<world, ref, loose, packs, made, up, listed, push, reader>>

-----------------------------------------------------------------------------
(* FileStorage.ReadObject of a protected object that the node holds.       *)

\* What the ref reached when the pass of the node read the refs; of what it
\* reaches since then the node may drop an old copy made for another push.
Protected(n) == IF gc[n].pc = "idle" THEN History(ref) ELSE History(gc[n].tip)

StartRead(n, o) ==
    /\ world.reads /\ reader.pc = "idle" /\ n \in up /\ o \in Protected(n) \intersect Has(n)
    /\ reader' = [pc |-> "loose", node |-> n, object |-> o, pack |-> 0]
    /\ UNCHANGED <<world, ref, loose, packs, made, gc, up, listed, push>>

ReadLoose ==
    /\ reader.pc = "loose"
    /\ reader' = IF reader.object \in DOMAIN loose[reader.node] THEN NoRead
                 ELSE [reader EXCEPT !.pc = "catalog"]
    /\ UNCHANGED <<world, ref, loose, packs, made, gc, up, listed, push>>

\* packCatalogCache.load: it repeats until the indexes it holds are the ones
\* the directory listed, so the catalog is the directory at one instant.
LoadCatalog ==
    /\ reader.pc = "catalog"
    /\ LET found == Indexes(reader.node, reader.object) IN
       reader' = IF found = {} THEN [reader EXCEPT !.pc = "missing"]
                 ELSE [reader EXCEPT !.pc = "data", !.pack = Max(found)]
    /\ UNCHANGED <<world, ref, loose, packs, made, gc, up, listed, push>>

\* readPackRange: the object, or an error (not "missing") if the data is gone.
ReadData == /\ reader.pc = "data" /\ reader' = NoRead
            /\ UNCHANGED <<world, ref, loose, packs, made, gc, up, listed, push>>

-----------------------------------------------------------------------------

Next ==
    \/ \E c \in Clients : \/ \E t \in Objects : StartPush(c, t)
                          \/ CompareAndSwap(c)
                          \/ \E S \in SUBSET Nodes : Copy(c, S)
    \/ \E n \in Nodes :
         \/ \E c \in Clients : PublishLocal(c, n)
         \/ Heartbeat(n) \/ RowExpires(n) \/ NodeStops(n) \/ NodeStarts(n)
         \/ StartPass(n) \/ Mark(n) \/ Remove(n) \/ NothingToPack(n) \/ Repack(n)
         \/ RemoveData(n) \/ RemoveIndex(n) \/ EndPass(n)
         \/ \E o \in Objects : \/ CopyFromPeer(n, o) \/ Age(n, o) \/ Stat(n, o)
                               \/ Unlink(n, o) \/ StartRead(n, o)
    \/ ReadLoose \/ LoadCatalog \/ ReadData

Spec == Init /\ [][Next]_vars

\* AntiEntropy.Run comes back to every object that is listed and missing.
FairSpec == Spec /\ \A n \in Nodes, o \in Objects : WF_vars(CopyFromPeer(n, o))

-----------------------------------------------------------------------------
(* Properties.                                                             *)

TypeOK ==
    /\ world \in Worlds /\ ref \in Objects \union {None}
    /\ up \subseteq Nodes /\ listed \subseteq Nodes
    /\ \A n \in Nodes :
         /\ DOMAIN loose[n] \subseteq Objects
         /\ \A o \in DOMAIN loose[n] : loose[n][o] \in {"new", "old"}
         /\ DOMAIN packs[n] \subseteq 1..made[n] /\ made[n] <= world.packs + 1
         /\ gc[n].stale \subseteq DOMAIN packs[n]
         /\ gc[n].pc \in {"idle", "mark", "sweep", "clean"}
    /\ \A c \in Clients : push[c].tip = None \/ push[c].done \in 0..Len(Chain[push[c].tip])

\* docs/guides/team-server.md, storage maintenance: what the ref reaches is
\* never lost, whatever passes, crashes, republications of collected objects
\* and copies come between: some node holds every object of its history.
RefIsComplete ==
    \A o \in History(ref) : \E n \in world.nodes : o \in Has(n)

\* A node that holds a protected object keeps holding it, through every file
\* operation of the pass and a crash in the middle of one.
ReachableIsKept ==
    [][\A n \in world.nodes : Protected(n) \intersect Has(n) \subseteq Has(n)']_vars

\* A read of a protected object the node holds never ends in "missing", the
\* one answer callers take for the object's absence, however repacking moves
\* the object from file to pack and from pack to pack meanwhile.
NoFalseMissing == reader.pc # "missing"

\* docs/guides/team-server.md: the cluster heals without operator action: an
\* object the ref reaches gets to every node unless a node stops or is
\* delisted.
ReachesEveryNode ==
    \A n \in Nodes, o \in Objects :
       o \in History(ref) ~> \/ n \notin world.nodes \/ o \in Has(n)
                             \/ up # world.nodes \/ listed # world.nodes
=============================================================================
