--------------------------- MODULE ContextObjects ---------------------------
(***************************************************************************)
(* Context snapshots as values: what an object says, when its ancestry     *)
(* loads, how a note's binding follows its entity from one source revision *)
(* to the next, and how two snapshots are merged over a common ancestor.   *)
(*                                                                         *)
(* Objects are numbered in the order they were written, so a parent has a  *)
(* smaller number; the number stands for the content digest.  The source   *)
(* tree of a revision maps the entity keys it declares to their structural *)
(* hashes (with language and kind).  Bodies, authors and times are         *)
(* abstracted: a revision number stands for its immutable content.         *)
(***************************************************************************)
EXTENDS Naturals, Sequences, FiniteSets

CONSTANTS Sources,   \* Git revisions
          Keys,      \* entity keys
          Tree,      \* [Sources -> [subset of Keys -> hash]]
          NoteIds

States == {"active", "needs_review", "historical"}

\* A note record; sup is the superseded revision, 0 if none.
Notes == [rev : Nat, sup : Nat, entity : Keys, state : States, src : Sources]

Entry(rev, sup, entity, state, src) ==
    [rev |-> rev, sup |-> sup, entity |-> entity, state |-> state, src |-> src]

\* A snapshot: its ordered parents, its source and a note per note id.
Object(parents, source, notes) ==
    [parents |-> parents, source |-> source, notes |-> notes]

Members(s) == {s[i] : i \in DOMAIN s}

\* The pending rows replace the committed notes of the same id (mergeNotes).
Overlay(committed, pending) ==
    [n \in DOMAIN committed \union DOMAIN pending |->
        IF n \in DOMAIN pending THEN pending[n] ELSE committed[n]]

-----------------------------------------------------------------------------
(* Ancestry.                                                               *)

\* A sequence but for the members that were seen before.
Without(s, seen) ==
    LET first[k \in 0..Len(s)] ==
          IF k = 0 THEN <<>>
          ELSE IF s[k] \in seen THEN first[k - 1] ELSE Append(first[k - 1], s[k])
    IN  first[Len(s)]

\* The chain of an object over the chains of its parents: its ancestors in
\* post-order, parents in their order, each object once, the object itself last.
ChainOf(objects, chain, i) ==
    LET ps == objects[i].parents IN
    CASE Len(ps) = 0 -> <<i>>
      [] Len(ps) = 1 -> Append(chain[ps[1]], i)
      [] OTHER -> LET first == chain[ps[1]] IN
                  Append(first \o Without(chain[ps[2]], Members(first)), i)

Chains(objects) ==
    LET chain[i \in DOMAIN objects] == ChainOf(objects, chain, i) IN chain

Chain(objects, tip) == Chains(objects)[tip]
History(objects, tip) == Members(Chain(objects, tip))

\* IsAncestor: no commit is an ancestor of everything.
IsAncestor(objects, descendant, ancestor) ==
    ancestor = 0 \/ ancestor \in History(objects, descendant)

\* validateContextObject: every note is bound at the snapshot's own source,
\* and no revision is mapped twice.
ValidContextObject(o) ==
    /\ \A n \in DOMAIN o.notes : o.notes[n].src = o.source
    /\ \A n, m \in DOMAIN o.notes :
          o.notes[n].rev = o.notes[m].rev => n = m

\* validateRevisionLinks: a superseded revision belongs to the same note and
\* occurs earlier in the chain, and a revision never changes its content.
RevisionLinks(objects, chain) ==
    \A k \in DOMAIN chain :
      LET notes == objects[chain[k]].notes IN
      \A n \in DOMAIN notes :
        /\ notes[n].sup # 0 =>
             \E j \in 1..(k - 1) :
                LET older == objects[chain[j]].notes IN
                n \in DOMAIN older /\ older[n].rev = notes[n].sup
        /\ \A j \in 1..(k - 1) :
             LET older == objects[chain[j]].notes IN
             \A m \in DOMAIN older :
                older[m].rev = notes[n].rev =>
                   m = n /\ older[m].sup = notes[n].sup

\* loadObjectGraph: every object of the ancestry is there and valid.
Loads(objects, have, tip) ==
    LET chain == Chain(objects, tip) IN
    /\ Members(chain) \subseteq have
    /\ \A i \in Members(chain) : ValidContextObject(objects[i])
    /\ RevisionLinks(objects, chain)

-----------------------------------------------------------------------------
(* Merging.                                                                *)

\* snapshotAncestorDistances: the shortest path from the tip to each ancestor.
Distances(objects, tip) ==
    LET H == History(objects, tip)
        d[i \in H] ==
          IF i = tip THEN 0
          ELSE LET via == {d[c] : c \in {c \in H : c > i /\
                                         i \in Members(objects[c].parents)}}
               IN  1 + (CHOOSE x \in via : \A y \in via : x <= y)
    IN  d

CommonAncestors(objects, local, remote) ==
    History(objects, local) \intersect History(objects, remote)

\* FindMergeBase: of the common ancestors the one whose farther tip is
\* nearest, then the nearest in total, then the smallest identifier.
FindMergeBase(objects, local, remote) ==
    LET dl == Distances(objects, local)
        dr == Distances(objects, remote)
        common == CommonAncestors(objects, local, remote)
        far(i) == IF dl[i] > dr[i] THEN dl[i] ELSE dr[i]
        better(i, j) ==
            \/ far(i) < far(j)
            \/ far(i) = far(j) /\ dl[i] + dr[i] < dl[j] + dr[j]
            \/ far(i) = far(j) /\ dl[i] + dr[i] = dl[j] + dr[j] /\ i <= j
    IN  CHOOSE i \in common : \A j \in common : better(i, j)

\* A note a snapshot does not hold is compared by its absence.
Held(notes, n) == IF n \in DOMAIN notes THEN {notes[n]} ELSE {}

\* PlanSnapshotMerge: per note, the side that changed it wins; a note that
\* both sides changed differently is a conflict.
Undecided(base, local, remote) ==
    {n \in DOMAIN base \union DOMAIN local \union DOMAIN remote :
        /\ Held(local, n) # Held(remote, n)
        /\ Held(local, n) # Held(base, n)
        /\ Held(remote, n) # Held(base, n)}

Automatic(base, local, remote) ==
    LET pick(n) == IF Held(local, n) = Held(remote, n) THEN Held(local, n)
                   ELSE IF Held(local, n) = Held(base, n) THEN Held(remote, n)
                   ELSE Held(local, n)
        kept == {n \in (DOMAIN base \union DOMAIN local \union DOMAIN remote)
                          \ Undecided(base, local, remote) : pick(n) # {}}
    IN  [n \in kept |-> CHOOSE r \in pick(n) : TRUE]

-----------------------------------------------------------------------------
(* Bindings.                                                               *)

HashAt(source, k) == IF k \in DOMAIN Tree[source] THEN {Tree[source][k]} ELSE {}

Rebound(note, entity, state, source) ==
    [note EXCEPT !.entity = entity, !.state = state, !.src = source]

\* Reconcile: what becomes of a note whose entity had the hash in previous
\* (empty if it is unknown), in a tree of current entities.  A note that is
\* not active and whose entity did not change keeps its state.
\* Seeded fault: a note that followed its entity gets a state of its own.
ReconcileToMoved(note, previous, current, source) ==
    LET same == {k \in DOMAIN current : current[k] \in previous} IN
    IF note.entity \in DOMAIN current
    THEN Rebound(note, note.entity,
                 IF note.entity \in same THEN note.state ELSE "needs_review", source)
    ELSE IF Cardinality(same) = 1
         THEN Rebound(note, CHOOSE k \in same : TRUE, "moved", source)
         ELSE Rebound(note, note.entity, "historical", source)
Reconcile(note, previous, current, source) ==
    LET same == {k \in DOMAIN current : current[k] \in previous} IN
    CASE previous = {} -> Rebound(note, note.entity, "needs_review", source)
      [] previous # {} /\ note.entity \in DOMAIN current ->
           Rebound(note, note.entity,
                   IF note.entity \in same THEN note.state ELSE "needs_review",
                   source)
      [] OTHER ->
           CASE Cardinality(same) = 1 ->
                  Rebound(note, CHOOSE k \in same : TRUE, note.state, source)
             [] Cardinality(same) > 1 ->
                  Rebound(note, note.entity, "needs_review", source)
             [] OTHER -> Rebound(note, note.entity, "historical", source)
=============================================================================
