-------------------------- MODULE CandidateLanding --------------------------
(***************************************************************************)
(* What a landing puts into the history: from the notes an author commits  *)
(* on the branch of a change, through the candidate that is published for  *)
(* it, to the snapshot that lands after the merge, planned by the          *)
(* coordinator or resolved by hand in a recovery session.                  *)
(*                                                                         *)
(* Landing is about the transactions and races of this protocol and leaves *)
(* the contents out; here the contents are told apart and every exchange   *)
(* with the server is one step.  One change; its branch starts at the      *)
(* canonical tip.  A record per note: its operation, the revision it adds  *)
(* or rebinds, the revision it was based on, its entity and the entity's   *)
(* hash at the head of the change.                                         *)
(***************************************************************************)
EXTENDS ContextObjects

CONSTANTS Histories,   \* [objects, revs]: canonical histories to start from
          Foreign,     \* record sets that other clients publish
          Terminals,   \* processes that work on the recovery session
          Authored,    \* contents of the note files that people resolve with
          Unindexed,   \* sources of which the clone's index misses a language
          None,
          MaxRevs,     \* BOUND on revisions
          MaxObjects   \* BOUND on snapshots, the landed one not counted

Records == [op : {"add", "revise", "rebind"}, note : NoteIds, rev : Nat,
            base : Nat, sup : Nat, entity : Keys,
            hash : UNION {{Tree[s][k] : k \in DOMAIN Tree[s]} : s \in Sources}]
IsNotes(f) == f \in [DOMAIN f -> Notes] /\ DOMAIN f \subseteq NoteIds
IsSnapshot(o) == /\ o = Object(o.parents, o.source, o.notes)
                 /\ o.source \in Sources /\ IsNotes(o.notes)

\* Snapshots in the order they were written, parents before their children.
IsHistory(objs) ==
    /\ objs \in Seq(Members(objs))
    /\ \A i \in DOMAIN objs : IsSnapshot(objs[i]) /\ objs[i].parents \in Seq(1..(i - 1))

ASSUME CandidateLandingAssumption ==
    /\ MaxRevs \in Nat /\ MaxObjects \in Nat
    /\ None \notin Sources \union NoteIds /\ Authored \subseteq Notes
    /\ \A s \in Sources : DOMAIN Tree[s] \subseteq Keys
    /\ \A h \in Histories : /\ IsHistory(h.objects) /\ h.objects # <<>>
                             /\ h.revs \in 0..MaxRevs
    /\ \A records \in Foreign : records \subseteq Records

\* What notes, snapshots and records say of revisions: which note each is of,
\* and the revision it supersedes.  A rebind writes no revision.
Says(notes)     == {<<notes[n].rev, n, notes[n].sup>> : n \in DOMAIN notes}
Book(objs)      == UNION {Says(objs[i].notes) : i \in DOMAIN objs}
Claims(records) == {<<r.rev, r.note, r.sup>> : r \in {r \in records : r.op # "rebind"}}
Consistent(S)   == \A x, y \in S : x[1] = y[1] => x = y

\* Clients draw revision identifiers at random (newID): two contents never have
\* the same one, whoever wrote them.  A canonical history was loaded before.
ASSUME RevisionsAssumption ==
    \A h \in Histories :
      /\ Loads(h.objects, DOMAIN h.objects, Len(h.objects))
      /\ \A records \in Foreign \union {{}} :
           LET S == Book(h.objects) \union Claims(records) IN
           /\ Consistent(S)
           /\ \A x \in S : x[1] \notin (h.revs + 1)..MaxRevs

VARIABLES
    objects,    \* every snapshot written
    ref,        \* the canonical tip
    author,     \* the author's clone: its tip, source and effective notes
    revs,       \* number of revisions written
    candidate,  \* the published delta: base, records, and the tip it tells of
    merged,     \* the merge commit, None while the change is open
    plan,       \* the final plan of the coordinator
    session,    \* the recovery session: version (0: none yet) and plan
    view,       \* [Terminals -> the session as the terminal read it]
    landed      \* the snapshot that landed: its number (0: none yet), plan, choices

vars == <<objects, ref, author, revs, candidate, merged, plan, session, view,
          landed>>

NoDelta == [base |-> 0, tip |-> 0, records |-> {}]
NoSession == [version |-> 0, plan |-> [base |-> 0, source |-> None,
                                       notes |-> [n \in {} |-> None],
                                       conflicts |-> {}]]
NotLanded == [id |-> 0, plan |-> None, by |-> None]

Init ==
    /\ \E h \in Histories :
         /\ objects = h.objects /\ ref = Len(h.objects) /\ revs = h.revs
         /\ author = [tip |-> ref, source |-> objects[ref].source,
                      notes |-> objects[ref].notes]
    /\ candidate = NoDelta /\ merged = None /\ plan = None
    /\ session = NoSession /\ view = [t \in Terminals |-> NoSession]
    /\ landed = NotLanded

-----------------------------------------------------------------------------
(* The author's clone, while the change is open; LocalStore has its         *)
(* transactions one by one.                                                *)

Author(notes) ==
    /\ merged = None
    /\ author' = [author EXCEPT !.notes = notes]
    /\ UNCHANGED <<objects, ref, candidate, merged, plan, session, view, landed>>

Written(n, note) ==
    /\ revs < MaxRevs /\ revs' = revs + 1
    /\ Author(Overlay(author.notes, [m \in {n} |-> note]))

AddPendingNote(n, k) ==
    /\ n \notin UNION {DOMAIN objects[i].notes : i \in DOMAIN objects}
    /\ n \notin DOMAIN author.notes
    /\ k \in DOMAIN Tree[author.source]
    /\ Written(n, Entry(revs + 1, 0, k, "active", author.source))

\* Only over the committed revision, and only where its entity exists.
ReviseNote(n) ==
    /\ n \in DOMAIN objects[author.tip].notes
    /\ LET note == author.notes[n] IN
       /\ note.rev = objects[author.tip].notes[n].rev
       /\ note.state # "historical" /\ note.entity \in DOMAIN Tree[author.source]
       /\ Written(n, Entry(revs + 1, note.rev, note.entity, "active", author.source))

ReviewNote(n, k) ==
    /\ n \in DOMAIN author.notes /\ k \in DOMAIN Tree[author.source]
    /\ author.notes[n].state = "needs_review"
    /\ Author(Overlay(author.notes, [m \in {n} |->
                 Rebound(author.notes[n], k, "active", author.source)]))
    /\ UNCHANGED revs

\* The author's HEAD moves on and update reconciles the active notes, from a
\* committed state; a note that is not active keeps its old binding, and a
\* clone that has one commits no more (LocalStore), so it is left out here.
UpdateTo(s) ==
    /\ merged = None /\ s # author.source /\ author.notes = objects[author.tip].notes
    /\ \A n \in DOMAIN author.notes : author.notes[n].state = "active"
    /\ author' = [author EXCEPT !.source = s, !.notes =
          [n \in DOMAIN @ |-> Reconcile(@[n], HashAt(author.source, @[n].entity),
                                        Tree[s], s)]]
    /\ UNCHANGED <<objects, ref, revs, candidate, merged, plan,
                   session, view, landed>>

Commit ==
    /\ merged = None /\ Len(objects) < MaxObjects
    /\ author.notes # objects[author.tip].notes
    /\ objects' = Append(objects,
                         Object(<<author.tip>>, author.source, author.notes))
    /\ author' = [author EXCEPT !.tip = Len(objects) + 1]
    /\ UNCHANGED <<ref, revs, candidate, merged, plan, session, view,
                   landed>>

-----------------------------------------------------------------------------
(* The candidate.                                                          *)

Record(op, n, rev, base, sup, entity, hash) ==
    [op |-> op, note |-> n, rev |-> rev, base |-> base, sup |-> sup,
     entity |-> entity, hash |-> hash]

\* normalizeCandidateContextRecord, and one record per note.
ValidRecord(r) ==
    CASE r.op = "add"    -> r.base = 0 /\ r.sup = 0
      [] r.op = "revise" -> r.base # 0 /\ r.sup = r.base /\ r.rev # r.base
      [] r.op = "rebind" -> r.base # 0 /\ r.rev = r.base /\ r.sup = 0
ValidDelta(records) ==
    /\ \A r \in records : ValidRecord(r)
    /\ \A r, q \in records : r.note = q.note => r = q

\* The hash of a note's entity at the head, else at the base of the change.
Evidence(base, tip, k) ==
    IF k \in DOMAIN Tree[tip.source] THEN HashAt(tip.source, k)
                                     ELSE HashAt(base.source, k)

\* buildCandidateContextDelta: what the branch's snapshot says that the base
\* does not; a binding that only changed its state is not a record.
\* Seeded fault: a note that only moved to another entity is not told.
DeltaWithoutRebinds(base, tip) ==
    {Record(IF n \in DOMAIN base.notes THEN "revise" ELSE "add", n, tip.notes[n].rev,
            IF n \in DOMAIN base.notes THEN base.notes[n].rev ELSE 0,
            tip.notes[n].sup, tip.notes[n].entity,
            CHOOSE h \in Evidence(base, tip, tip.notes[n].entity) : TRUE) :
        n \in {n \in DOMAIN tip.notes :
                  n \in DOMAIN base.notes => tip.notes[n].rev # base.notes[n].rev}}
Changed(base, tip) ==
    {n \in DOMAIN tip.notes : n \in DOMAIN base.notes =>
        \/ tip.notes[n].rev # base.notes[n].rev
        \/ tip.notes[n].entity # base.notes[n].entity}
Delta(base, tip) ==
    LET known(n) == n \in DOMAIN base.notes
        revised(n) == known(n) /\ tip.notes[n].rev # base.notes[n].rev
        hash(n) == CHOOSE h \in Evidence(base, tip, tip.notes[n].entity) : TRUE
        of(n) == LET note == tip.notes[n] IN
                 CASE ~known(n) ->
                        Record("add", n, note.rev, 0, note.sup, note.entity, hash(n))
                   [] revised(n) ->
                        Record("revise", n, note.rev, base.notes[n].rev, note.sup,
                               note.entity, hash(n))
                   [] OTHER ->
                        Record("rebind", n, note.rev, note.rev, 0, note.entity, hash(n))
    IN  {of(n) : n \in Changed(base, tip)}

\* PublishCandidate, client and server: nothing pending, the base is still the
\* canonical tip and an ancestor, and the delta passes the normalization.
PublishCandidate ==
    LET base == objects[ref]  tip == objects[author.tip] IN
    /\ merged = None /\ author.notes = tip.notes /\ author.source = tip.source
    /\ IsAncestor(objects, author.tip, ref)
    /\ \A n \in Changed(base, tip) : Evidence(base, tip, tip.notes[n].entity) # {}
    /\ ValidDelta(Delta(base, tip))
    /\ candidate' = [base |-> ref, tip |-> author.tip, records |-> Delta(base, tip)]
    /\ UNCHANGED <<objects, ref, author, revs, merged, plan, session,
                   view, landed>>

\* Another client of the candidate API; the server compares its records with
\* nothing but the rules of the format.
PublishForeign ==
    /\ merged = None
    /\ \E records \in Foreign :
         /\ ValidDelta(records)
         /\ candidate' = [base |-> ref, tip |-> 0, records |-> records]
    /\ UNCHANGED <<objects, ref, author, revs, merged, plan, session,
                   view, landed>>

\* Somebody else revises a note and pushes to the canonical ref.
PushElsewhere ==
    /\ landed.id = 0 /\ Len(objects) < MaxObjects
    /\ revs < MaxRevs /\ revs' = revs + 1
    /\ \E n \in DOMAIN objects[ref].notes :
         LET note == objects[ref].notes[n] IN
         /\ note.entity \in DOMAIN Tree[note.src] /\ note.state # "historical"
         /\ objects' = Append(objects,
              Object(<<ref>>, note.src, Overlay(objects[ref].notes, [m \in {n} |->
                  Entry(revs + 1, note.rev, note.entity, "active", note.src)])))
         /\ ref' = Len(objects) + 1
    /\ UNCHANGED <<author, candidate, merged, plan, session, view, landed>>

MergeChange(s) ==
    /\ merged = None /\ merged' = s
    /\ UNCHANGED <<objects, ref, author, revs, candidate, plan, session,
                   view, landed>>

-----------------------------------------------------------------------------
(* Planning.                                                               *)

\* bindCandidateNote: against the hash the record was made for.
Bind(note, hash, source) ==
    LET now == HashAt(source, note.entity) IN
    Rebound(note, note.entity,
            CASE now = {} -> "historical"
              [] now = {hash} -> "active"
              [] OTHER -> "needs_review", source)

FromRecord(r, source) ==
    Bind(Entry(r.rev, r.sup, r.entity, "active", source), r.hash, source)

\* applyCandidateRecord, its refusals: notes are the canonical decisions.
\* Seeded fault: a revision of another one than the canonical is accepted.
RefusalsWithoutBase(r, notes, source) ==
    LET found == r.note \in DOMAIN notes
        same  == found /\ notes[r.note] = FromRecord(r, source)
        based == found /\ notes[r.note].rev = r.base
        known == found /\ notes[r.note].rev = r.rev
    IN  CASE r.op = "add" /\ found /\ ~same          -> {"note_collision"}
          [] r.op = "revise" /\ known /\ ~same       -> {"immutable_revision_conflict"}
          [] r.op = "rebind" /\ ~based               -> {"revision_conflict"}
          [] OTHER                                   -> {}
Refusals(r, notes, source) ==
    LET found == r.note \in DOMAIN notes
        same  == found /\ notes[r.note] = FromRecord(r, source)
        based == found /\ notes[r.note].rev = r.base
        known == found /\ notes[r.note].rev = r.rev
    IN  CASE r.op = "add" /\ found /\ ~same          -> {"note_collision"}
          [] r.op = "revise" /\ known /\ ~same       -> {"immutable_revision_conflict"}
          [] r.op = "revise" /\ ~known /\ ~based     -> {"revision_conflict"}
          [] r.op = "rebind" /\ ~based               -> {"revision_conflict"}
          [] OTHER                                   -> {}

\* ... and what it decides: a rebind keeps the canonical revision's content.
\* Seeded fault: it takes the note from the record.
DecidedFromRecord(r, notes, source) == FromRecord(r, source)
Decided(r, notes, source) ==
    IF r.op = "rebind"
    THEN Bind([notes[r.note] EXCEPT !.entity = r.entity], r.hash, source)
    ELSE FromRecord(r, source)

\* PlanLanding of a candidate on a version of the ref.
PlanLanding(base, source, records) ==
    LET o == objects[base]
        notes == [n \in DOMAIN o.notes |->
                    Reconcile(o.notes[n], HashAt(o.source, o.notes[n].entity),
                              Tree[source], source)]
        refused == {r \in records : Refusals(r, notes, source) # {}}
        applied == records \ refused
        decided == [n \in {r.note : r \in applied} |->
                      Decided(CHOOSE r \in applied : r.note = n, notes, source)]
    IN  [base |-> base, source |-> source, notes |-> Overlay(notes, decided),
         conflicts |-> {r.note : r \in refused}]

\* validateLandingPlanInput: a candidate, an empty one too, is planned on the
\* version it was published for, or not at all.
Plannable == candidate # NoDelta => candidate.base = ref

\* BuildLandingSnapshot
Snapshot(p) == Object(<<p.base>>, p.source, p.notes)

PlanFinal ==
    /\ merged # None /\ plan = None /\ session.version = 0 /\ landed.id = 0
    /\ Plannable
    /\ plan' = PlanLanding(ref, merged, candidate.records)
    /\ UNCHANGED <<objects, ref, author, revs, candidate, merged,
                   session, view, landed>>

\* An unblocked plan lands if the ref is still the one it was planned on, else
\* the next run plans again.
LandAutomatically ==
    /\ plan # None /\ landed.id = 0 /\ plan.conflicts = {}
    /\ IF plan.base = ref
       THEN /\ objects' = Append(objects, Snapshot(plan))
            /\ ref' = Len(objects) + 1
            /\ landed' = [id |-> Len(objects) + 1, plan |-> plan, by |-> "coordinator"]
            /\ UNCHANGED plan
       ELSE plan' = None /\ UNCHANGED <<objects, ref, landed>>
    /\ UNCHANGED <<author, revs, candidate, merged, session, view>>

-----------------------------------------------------------------------------
(* Recovery: the session of one clone, used from several terminals.        *)

\* RecoverLanding, after the coordinator blocked its plan: the clone, at the
\* merge commit, plans again on the current ref.  It stays at that ref.  Where
\* its index misses a language, or has none of that source, there is a conflict
\* of no note, None; the coordinator's runner fails instead.
RecoverLanding ==
    /\ plan # None /\ plan.conflicts # {} /\ session.version = 0
    /\ landed.id = 0 /\ Plannable
    /\ LET missing == IF merged \in Unindexed THEN {None} ELSE {} IN
       session' = [version |-> 1,
                   plan |-> [PlanLanding(ref, merged, candidate.records)
                               EXCEPT !.conflicts = @ \union missing]]
    /\ UNCHANGED <<objects, ref, author, revs, candidate, merged, plan,
                   view, landed>>

ReadSession(t) ==
    /\ session.version # 0 /\ landed.id = 0
    /\ view' = [view EXCEPT ![t] = session]
    /\ UNCHANGED <<objects, ref, author, revs, candidate, merged, plan,
                   session, landed>>

\* ResolveLandingPlan: one conflict goes, with the note it decides.
Resolved(p, n, notes) ==
    [base |-> p.base, source |-> p.source, notes |-> Overlay(p.notes, notes),
     conflicts |-> p.conflicts \ {n}]

\* UpdateLandingSession writes if the version is the one that was read.
\* Seeded fault: it does not compare the version.
UpdateUnversioned(t, p) == session' = [version |-> view[t].version + 1, plan |-> p]
UpdateSession(t, p) ==
    session' = IF session.version = view[t].version
               THEN [version |-> session.version + 1, plan |-> p]
               ELSE session

\* ResolveLanding, its second half: the canonical decision stays, the record's
\* note replaces it, or a note from a file does.  Of the file only the note id
\* and the source are compared with the session: its revision may be any, known
\* or new, it may supersede any or none, and its entity need not exist.  The
\* conflict of no note has neither a record nor a note that can be committed.
ResolveLanding(t, n) ==
    /\ view[t].version # 0 /\ n \in view[t].plan.conflicts /\ landed.id = 0
    /\ LET p == view[t].plan IN
       \/ UpdateSession(t, Resolved(p, n, [m \in {} |-> None]))
       \/ \E r \in candidate.records :
            /\ r.note = n
            /\ UpdateSession(t, Resolved(p, n, [m \in {n} |-> FromRecord(r, p.source)]))
       \/ \E note \in Authored :
            /\ n \in NoteIds /\ note.src = p.source
            /\ UpdateSession(t, Resolved(p, n, [m \in {n} |-> note]))
    /\ view' = [view EXCEPT ![t] = NoSession]
    /\ UNCHANGED <<objects, ref, author, revs, candidate, merged, plan, landed>>

\* CommitLanding and FinalizeLanding: the session that was read is ready and
\* has not changed, and the ref is the one it was planned on.  What becomes of
\* its push is in Landing.
CommitLanding(t) ==
    /\ view[t].version # 0 /\ view[t].plan.conflicts = {} /\ landed.id = 0
    /\ view[t].version = session.version /\ view[t].plan.base = ref
    /\ objects' = Append(objects, Snapshot(view[t].plan))
    /\ landed' = [id |-> Len(objects) + 1, plan |-> view[t].plan, by |-> "client"]
    /\ UNCHANGED <<ref, author, revs, candidate, merged, plan, session, view>>

-----------------------------------------------------------------------------
Next == \/ \E n \in NoteIds, k \in Keys : AddPendingNote(n, k) \/ ReviewNote(n, k)
        \/ \E n \in NoteIds : ReviseNote(n)
        \/ \E s \in Sources : UpdateTo(s)
        \/ Commit
        \/ PublishCandidate \/ PublishForeign \/ PushElsewhere
        \/ \E s \in Sources : MergeChange(s)
        \/ PlanFinal \/ LandAutomatically \/ RecoverLanding
        \/ \E t \in Terminals : ReadSession(t) \/ CommitLanding(t)
        \/ \E t \in Terminals, n \in NoteIds \union {None} : ResolveLanding(t, n)

Spec == Init /\ [][Next]_vars

-----------------------------------------------------------------------------
(* Properties.                                                             *)

IsPlan(p) == /\ p.base \in DOMAIN objects /\ p.source = merged
             /\ IsNotes(p.notes) /\ p.conflicts \subseteq NoteIds \union {None}

TypeOK ==
    /\ IsHistory(objects)
    /\ ref \in DOMAIN objects /\ author.tip \in DOMAIN objects
    /\ author.source \in Sources /\ IsNotes(author.notes)
    /\ revs \in 0..MaxRevs /\ merged \in Sources \union {None}
    /\ candidate.base \in 0..Len(objects) /\ candidate.records \subseteq Records
    /\ plan # None => IsPlan(plan)
    /\ session.version \in Nat
    /\ session.version # 0 => IsPlan(session.plan)
    /\ \A t \in Terminals : view[t].version # 0 => IsPlan(view[t].plan)
    /\ landed.id # 0 => IsPlan(landed.plan) /\ landed.id \in DOMAIN objects

\* A record fits the snapshot it is applied to: it adds what is not there, or
\* starts from the revision that is.
Fits(r, notes) == IF r.op = "add" THEN r.note \notin DOMAIN notes
                  ELSE r.note \in DOMAIN notes /\ notes[r.note].rev = r.base

\* Nothing is lost on the way into the history: the snapshot that lands holds
\* the canonical revision of every note the candidate does not tell of, the
\* candidate's of every record that fits, and of the others the canonical one,
\* unless a person chose the candidate's or gave a note of their own.  That one
\* may leave the canonical revision out of the note's history: nothing in the
\* code asks for the link.
NothingIsLost ==
    landed.id # 0 =>
        LET base  == objects[landed.plan.base].notes
            notes == objects[landed.id].notes
            told  == {r.note : r \in candidate.records}
        IN  /\ DOMAIN base \subseteq DOMAIN notes
            /\ \A n \in DOMAIN base \ told : notes[n].rev = base[n].rev
            /\ \A r \in candidate.records :
                 IF Fits(r, base)
                 THEN r.note \in DOMAIN notes /\ notes[r.note].rev = r.rev
                 ELSE r.note \in DOMAIN base =>
                        \/ notes[r.note].rev = base[r.note].rev
                        \/ /\ landed.by = "client"
                           /\ \/ notes[r.note].rev = r.rev
                              \/ notes[r.note] \in Authored

\* The candidate that publish builds fits: planned on its base it has no
\* conflict and brings every note of the branch, new, revised, moved or
\* untouched, to the branch's revision, and to the branch's entity when the
\* merge commit, the published head or another one, declares that entity.
OwnCandidateLands ==
    plan # None /\ candidate.tip # 0 /\ plan.base = candidate.base =>
        LET tip == objects[candidate.tip] IN
        /\ plan.conflicts = {}
        /\ \A n \in DOMAIN tip.notes :
             /\ plan.notes[n].rev = tip.notes[n].rev
             /\ tip.notes[n].entity \in DOMAIN Tree[merged] =>
                  plan.notes[n].entity = tip.notes[n].entity

\* What the coordinator lands, readers accept: bindings at the merge commit,
\* no revision twice, revisions unchanged and superseded ones in the history.
AutomaticLandingLoads ==
    landed.id # 0 /\ landed.by = "coordinator" =>
        Loads(objects, DOMAIN objects, landed.id)

\* Terminals that resolve conflicts of one session at a time undo none of each
\* other's choices: a conflict that is resolved stays so, with its note.
ResolutionsAreKept ==
    [][session.version # 0 =>
         /\ session'.plan.conflicts \subseteq session.plan.conflicts
         /\ \A n \in DOMAIN session.plan.notes \ session.plan.conflicts :
              session'.plan.notes[n] = session.plan.notes[n]]_vars

=============================================================================
