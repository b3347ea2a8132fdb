----------------------- MODULE CandidateLandingProofs -----------------------
(***************************************************************************)
(* Proofs about what lands, for every history, candidate, source tree and  *)
(* number of terminals: no terminal undoes another one's choices in a      *)
(* recovery session, nothing is lost on the way into the history, the      *)
(* candidate that publish builds is accepted as it was meant, and what the *)
(* coordinator lands can be loaded.                                        *)
(*                                                                         *)
(* The first is an argument about versions: what a terminal has read of    *)
(* the version the session still has is the session itself, so a write     *)
(* that is let through starts from the last one.  The others are about the *)
(* plans: what PlanLanding computes is faithful to its base and to the     *)
(* candidate, each resolution keeps it so, and since snapshots are only    *)
(* added, what was faithful when it was planned is so when it lands.  The  *)
(* last is about chains of snapshots, the branch's and the canonical one:  *)
(* what readers accept of the tip they accept of the next snapshot, if     *)
(* each of its notes is the tip's, or supersedes it with an identifier     *)
(* that no earlier content has.                                            *)
(***************************************************************************)
EXTENDS CandidateLanding, SequenceTheorems, FiniteSetTheorems, WellFoundedInduction,
        TLAPS

IsPlanRecord(p) ==
    p = [base |-> p.base, source |-> p.source, notes |-> p.notes,
         conflicts |-> p.conflicts]
IsSession(s) ==
    /\ s = [version |-> s.version, plan |-> s.plan]
    /\ s.version \in Nat /\ IsPlanRecord(s.plan)

\* The inductive invariant.
ReadIsCurrent ==
    /\ IsSession(session)
    /\ view = [t \in Terminals |-> view[t]]
    /\ \A t \in Terminals :
         /\ IsSession(view[t])
         /\ view[t].version <= session.version
         /\ view[t].version = session.version /\ view[t].version # 0 =>
              view[t] = session

\* What a resolution makes of a plan: a plan, without new conflicts, with the
\* notes it had outside the one that it decides.
LEMMA ResolvedPlan ==
    ASSUME NEW p, IsPlanRecord(p), NEW n \in p.conflicts, NEW notes,
           DOMAIN notes \subseteq {n}
    PROVE  /\ IsPlanRecord(Resolved(p, n, notes))
           /\ Resolved(p, n, notes).conflicts \subseteq p.conflicts
           /\ \A m \in DOMAIN p.notes \ p.conflicts :
                Resolved(p, n, notes).notes[m] = p.notes[m]
<1>1. \A m \in DOMAIN p.notes \ p.conflicts : Overlay(p.notes, notes)[m] = p.notes[m]
  BY DEF Overlay
<1>2. /\ Resolved(p, n, notes).notes = Overlay(p.notes, notes)
      /\ Resolved(p, n, notes).conflicts = p.conflicts \ {n}
  BY DEF Resolved
<1>3. IsPlanRecord(Resolved(p, n, notes))
  BY DEF Resolved, IsPlanRecord
<1> QED  BY <1>1, <1>2, <1>3

\* What an update of the session may do: leave it, or write a resolution of
\* the plan it holds as the next version.
Continues(n) ==
    \/ session' = session
    \/ \E notes :
         /\ DOMAIN notes \subseteq {n} /\ n \in session.plan.conflicts
         /\ session' = [version |-> session.version + 1,
                        plan |-> Resolved(session.plan, n, notes)]

LEMMA UpdateContinues ==
    ASSUME ReadIsCurrent, NEW t \in Terminals, NEW n,
           view[t].version # 0, n \in view[t].plan.conflicts, NEW notes, DOMAIN notes \subseteq {n},
           UpdateSession(t, Resolved(view[t].plan, n, notes))
    PROVE  Continues(n)
<1>1. CASE session.version = view[t].version
  <2>1. view[t] = session
    BY <1>1 DEF ReadIsCurrent
  <2> QED  BY <1>1, <2>1 DEF UpdateSession, Continues
<1>2. CASE session.version # view[t].version
  BY <1>2 DEF UpdateSession, Continues
<1> QED  BY <1>1, <1>2

LEMMA ResolveContinues ==
    ASSUME ReadIsCurrent, NEW t \in Terminals, NEW n \in NoteIds \union {None},
           ResolveLanding(t, n)
    PROVE  Continues(n) /\ view' = [view EXCEPT ![t] = NoSession]
<1> DEFINE p == view[t].plan
           none == [m \in {} |-> None]
           chosen(x) == [m \in {n} |-> x]
<1>1. /\ view[t].version # 0 /\ n \in p.conflicts
      /\ \/ UpdateSession(t, Resolved(p, n, none))
         \/ \E x : UpdateSession(t, Resolved(p, n, chosen(x)))
      /\ view' = [view EXCEPT ![t] = NoSession]
  BY DEF ResolveLanding
<1>2. DOMAIN none \subseteq {n} /\ \A x : DOMAIN chosen(x) \subseteq {n}
  OBVIOUS
<1> HIDE DEF none, chosen
<1>3. CASE UpdateSession(t, Resolved(p, n, none))
  BY <1>1, <1>2, <1>3, UpdateContinues
<1>4. ASSUME NEW x, UpdateSession(t, Resolved(p, n, chosen(x)))
      PROVE  Continues(n)
  BY <1>1, <1>2, <1>4, UpdateContinues
<1> QED  BY <1>1, <1>3, <1>4

\* Every step but the start of a session, a read and a resolution leaves the
\* session and the views alone.
LEMMA StepCases ==
    ASSUME [Next]_vars
    PROVE  \/ UNCHANGED <<session, view>>
           \/ RecoverLanding
           \/ \E t \in Terminals : ReadSession(t)
           \/ \E t \in Terminals, n \in NoteIds \union {None} : ResolveLanding(t, n)
<1>1. CASE UNCHANGED vars
  BY <1>1 DEF vars
<1>2. ASSUME NEW n \in NoteIds, NEW k \in Keys,
             AddPendingNote(n, k) \/ ReviewNote(n, k)
      PROVE  UNCHANGED <<session, view>>
  BY <1>2 DEF AddPendingNote, ReviewNote, Written, Author
<1>3. ASSUME NEW n \in NoteIds, ReviseNote(n)  PROVE  UNCHANGED <<session, view>>
  BY <1>3 DEF ReviseNote, Written, Author
<1>4. ASSUME NEW s \in Sources, UpdateTo(s) \/ MergeChange(s)
      PROVE  UNCHANGED <<session, view>>
  BY <1>4 DEF UpdateTo, MergeChange
<1>5. ASSUME Commit \/ PublishCandidate \/ PublishForeign \/ PushElsewhere
                    \/ PlanFinal \/ LandAutomatically
      PROVE  UNCHANGED <<session, view>>
  BY <1>5 DEF Commit, PublishCandidate, PublishForeign, PushElsewhere, PlanFinal,
              LandAutomatically
<1>6. ASSUME NEW t \in Terminals, CommitLanding(t)
      PROVE  UNCHANGED <<session, view>>
  BY <1>6 DEF CommitLanding
<1> QED  BY <1>1, <1>2, <1>3, <1>4, <1>5, <1>6 DEF Next

\* A session starts with a plan: that of the candidate, with one more conflict
\* where the clone's index misses a language.
LEMMA Recovered ==
    ASSUME RecoverLanding
    PROVE  \E q, missing :
             /\ missing \subseteq {None} /\ IsPlanRecord(q)
             /\ q = LET p == PlanLanding(ref, merged, candidate.records) IN
                    [base |-> p.base, source |-> p.source, notes |-> p.notes,
                     conflicts |-> p.conflicts \union missing]
             /\ session' = [version |-> 1, plan |-> q]
             /\ session.version = 0 /\ view' = view
<1> DEFINE p == PlanLanding(ref, merged, candidate.records)
           missing == IF merged \in Unindexed THEN {None} ELSE {}
           q == [p EXCEPT !.conflicts = @ \union missing]
<1>1. p = [base |-> p.base, source |-> p.source, notes |-> p.notes,
           conflicts |-> p.conflicts]
  BY DEF PlanLanding
<1>2. /\ session' = [version |-> 1, plan |-> q]
      /\ session.version = 0 /\ view' = view /\ missing \subseteq {None}
  BY DEF RecoverLanding
<1> HIDE DEF p, missing
<1>3. q = [base |-> p.base, source |-> p.source, notes |-> p.notes,
           conflicts |-> p.conflicts \union missing]
  BY <1>1
<1> HIDE DEF q
<1>4. IsPlanRecord(q)
  BY <1>3 DEF IsPlanRecord
<1> QED
  BY <1>2, <1>3, <1>4 DEF p

LEMMA ReadIsCurrentInit == Init => ReadIsCurrent
<1> SUFFICES ASSUME Init  PROVE ReadIsCurrent
  OBVIOUS
<1>1. IsSession(NoSession) /\ NoSession.version = 0
  BY DEF IsSession, NoSession, IsPlanRecord
<1>2. session = NoSession /\ view = [t \in Terminals |-> NoSession]
  BY DEF Init
<1> HIDE DEF NoSession
<1>3. view = [t \in Terminals |-> view[t]] /\ \A t \in Terminals : view[t] = NoSession
  BY <1>2
<1> QED  BY <1>1, <1>2, <1>3 DEF ReadIsCurrent

LEMMA ReadIsCurrentStep == ReadIsCurrent /\ [Next]_vars => ReadIsCurrent'
<1> SUFFICES ASSUME ReadIsCurrent, [Next]_vars  PROVE ReadIsCurrent'
  OBVIOUS
<1>0. IsSession(NoSession) /\ NoSession.version = 0
  BY DEF IsSession, NoSession, IsPlanRecord
<1>1. CASE UNCHANGED <<session, view>>
  BY <1>1 DEF ReadIsCurrent, IsSession, IsPlanRecord
<1>2. CASE RecoverLanding
  <2>1. PICK q : /\ IsPlanRecord(q) /\ session' = [version |-> 1, plan |-> q]
                 /\ session.version = 0 /\ view' = view
    BY <1>2, Recovered
  <2>2. IsSession(session') /\ session'.version = 1
    BY <2>1 DEF IsSession
  <2> QED  BY <2>1, <2>2 DEF ReadIsCurrent, IsSession
<1>3. ASSUME NEW t \in Terminals, ReadSession(t)  PROVE ReadIsCurrent'
  <2>1. view' = [view EXCEPT ![t] = session] /\ session' = session
    BY <1>3 DEF ReadSession
  <2> QED  BY <2>1 DEF ReadIsCurrent, IsSession, IsPlanRecord
<1>4. ASSUME NEW t \in Terminals, NEW n \in NoteIds \union {None}, ResolveLanding(t, n)
      PROVE ReadIsCurrent'
  <2>1. Continues(n) /\ view' = [view EXCEPT ![t] = NoSession]
    BY <1>4, ResolveContinues
  <2>2. IsSession(session') /\ (session' = session \/ session'.version > session.version)
    <3>1. CASE session' = session
      BY <3>1 DEF ReadIsCurrent, IsSession, IsPlanRecord
    <3>2. ASSUME NEW notes, DOMAIN notes \subseteq {n}, n \in session.plan.conflicts,
                 session' = [version |-> session.version + 1,
                             plan |-> Resolved(session.plan, n, notes)]
          PROVE  IsSession(session') /\ session'.version > session.version
      <4>1. IsPlanRecord(Resolved(session.plan, n, notes))
        BY <3>2, ResolvedPlan DEF ReadIsCurrent, IsSession
      <4> QED  BY <3>2, <4>1 DEF IsSession, ReadIsCurrent
    <3> QED  BY <2>1, <3>1, <3>2 DEF Continues
  <2>3. \A u \in Terminals : view'[u] = view[u] \/ view'[u] = NoSession
    BY <2>1 DEF ReadIsCurrent
  <2>4. ASSUME NEW u \in Terminals
        PROVE  /\ IsSession(view'[u])
               /\ view'[u].version <= session'.version
               /\ view'[u].version = session'.version /\ view'[u].version # 0 =>
                    view'[u] = session'
    <3>1. CASE view'[u] = view[u] /\ session' = session
      BY <3>1 DEF ReadIsCurrent, IsSession, IsPlanRecord
    <3>2. CASE view'[u] = view[u] /\ session'.version > session.version
      BY <2>2, <3>2 DEF ReadIsCurrent, IsSession, IsPlanRecord
    <3>3. CASE view'[u] = NoSession
      BY <1>0, <2>2, <3>3 DEF IsSession
    <3> QED  BY <2>2, <2>3, <3>1, <3>2, <3>3
  <2> QED  BY <2>1, <2>2, <2>4 DEF ReadIsCurrent
<1> QED  BY <1>1, <1>2, <1>3, <1>4, StepCases

\* What a terminal read of the version the session still has is the session.
THEOREM SessionVersioning == Spec => []ReadIsCurrent
  BY ReadIsCurrentInit, ReadIsCurrentStep, PTL DEF Spec

\* ResolutionsAreKept: UpdateLandingSession lets no terminal undo what another
\* one resolved.
THEOREM ResolutionsStay == Spec => ResolutionsAreKept
<1> DEFINE Kept ==
        session.version # 0 =>
          /\ session'.plan.conflicts \subseteq session.plan.conflicts
          /\ \A n \in DOMAIN session.plan.notes \ session.plan.conflicts :
               session'.plan.notes[n] = session.plan.notes[n]
<1>1. ASSUME ReadIsCurrent, [Next]_vars  PROVE Kept
  <2>1. CASE UNCHANGED <<session, view>>
    BY <2>1
  <2>2. CASE RecoverLanding
    BY <2>2 DEF RecoverLanding
  <2>3. ASSUME NEW t \in Terminals, ReadSession(t)  PROVE Kept
    BY <2>3 DEF ReadSession
  <2>4. ASSUME NEW t \in Terminals, NEW n \in NoteIds \union {None}, ResolveLanding(t, n)
        PROVE  Kept
    <3>1. Continues(n)
      BY <1>1, <2>4, ResolveContinues
    <3>2. ASSUME NEW notes, DOMAIN notes \subseteq {n},
                 n \in session.plan.conflicts,
                 session' = [version |-> session.version + 1,
                             plan |-> Resolved(session.plan, n, notes)]
          PROVE  Kept
      <4>1. IsPlanRecord(session.plan)
        BY <1>1 DEF ReadIsCurrent, IsSession
      <4>2. session'.plan = Resolved(session.plan, n, notes)
        BY <3>2
      <4> QED  BY <3>2, <4>1, <4>2, ResolvedPlan
    <3> QED  BY <3>1, <3>2 DEF Continues
  <2> QED  BY <1>1, <2>1, <2>2, <2>3, <2>4, StepCases
<1>2. ReadIsCurrent /\ [Next]_vars => [Kept]_vars
  BY <1>1
<1> QED  BY <1>2, SessionVersioning, PTL DEF Spec, ResolutionsAreKept

-----------------------------------------------------------------------------
(* What lands: the inductive invariant.                                    *)

Told == {r.note : r \in candidate.records}

\* A plan keeps the canonical revision of every note that no record decides,
\* takes every record that fits, and of another one only what a person chose
\* or wrote.
Faithful(p, by) ==
    /\ IsPlanRecord(p) /\ IsPlan(p) /\ p.conflicts \subseteq Told \union {None}
    /\ LET base == objects[p.base].notes IN
       /\ DOMAIN base \subseteq DOMAIN p.notes
       /\ \A n \in DOMAIN base :
            n \in p.conflicts \/ n \notin Told => p.notes[n].rev = base[n].rev
       /\ \A r \in candidate.records :
            /\ Fits(r, base) => /\ r.note \in DOMAIN p.notes \ p.conflicts
                                /\ p.notes[r.note].rev = r.rev
            /\ ~Fits(r, base) /\ r.note \in DOMAIN base =>
                 \/ p.notes[r.note].rev = base[r.note].rev
                 \/ /\ by = "client"
                    /\ \/ p.notes[r.note].rev = r.rev
                       \/ p.notes[r.note] \in Authored

AuthorOK ==
    /\ author = [tip |-> author.tip, source |-> author.source, notes |-> author.notes]
    /\ author.tip \in DOMAIN objects /\ author.source \in Sources
    /\ IsNotes(author.notes)
    /\ DOMAIN objects[author.tip].notes \subseteq DOMAIN author.notes

Typed ==
    /\ IsHistory(objects) /\ ref \in DOMAIN objects /\ AuthorOK
    /\ revs \in 0..MaxRevs /\ merged \in Sources \union {None}

\* Planning starts with the merge.
Staged ==
    merged = None => /\ plan = None /\ session.version = 0 /\ landed.id = 0
                     /\ \A t \in Terminals : view[t].version = 0

\* A candidate of publish is the delta of two snapshots that stay.
CandidateOK ==
    /\ candidate.records \subseteq Records /\ ValidDelta(candidate.records)
    /\ candidate.base \in 0..Len(objects) /\ candidate.tip \in 0..Len(objects)
    /\ candidate.tip # 0 =>
         /\ candidate.base # 0
         /\ candidate.records = Delta(objects[candidate.base], objects[candidate.tip])

FinalPlanOK ==
    plan # None => /\ plan.base \in DOMAIN objects
                   /\ plan = PlanLanding(plan.base, merged, candidate.records)

SessionOK == session.version # 0 => Faithful(session.plan, "client")

ViewsOK == \A t \in Terminals : view[t].version # 0 => Faithful(view[t].plan, "client")

LandedOK ==
    landed.id # 0 => /\ Faithful(landed.plan, landed.by)
                     /\ landed.id \in DOMAIN objects
                     /\ objects[landed.id].notes = landed.plan.notes

PlansOK == FinalPlanOK /\ SessionOK /\ ViewsOK /\ LandedOK

IInv == Typed /\ Staged /\ CandidateOK /\ PlansOK

-----------------------------------------------------------------------------
(* Notes, bindings and histories.                                          *)

\* A note per note id, whatever is laid over it.
LEMMA OverlayNotes ==
    ASSUME NEW f, IsNotes(f), NEW g, IsNotes(g)
    PROVE  IsNotes(Overlay(f, g)) /\ DOMAIN f \subseteq DOMAIN Overlay(f, g)
  BY DEF IsNotes, Overlay

LEMMA SingleNote ==
    ASSUME NEW n \in NoteIds, NEW x \in Notes
    PROVE  IsNotes([m \in {n} |-> x])
  BY DEF IsNotes

\* Rebinding a note changes neither its revision nor what it superseded.
LEMMA ReboundNote ==
    ASSUME NEW x \in Notes, NEW k \in Keys, NEW state \in States, NEW s \in Sources
    PROVE  LET y == Rebound(x, k, state, s) IN
           /\ y \in Notes /\ y.rev = x.rev /\ y.sup = x.sup /\ y.entity = k
           /\ y.src = s
  BY DEF Rebound, Notes

\* Reconciling a note keeps its revision, and its entity where that exists,
\* and binds it at the given source.
LEMMA ReconciledNote ==
    ASSUME NEW x \in Notes, NEW previous, NEW s \in Sources
    PROVE  LET y == Reconcile(x, previous, Tree[s], s) IN
           /\ y \in Notes /\ y.rev = x.rev /\ y.sup = x.sup /\ y.src = s
           /\ x.entity \in DOMAIN Tree[s] => y.entity = x.entity
<1> DEFINE same == {k \in DOMAIN Tree[s] : Tree[s][k] \in previous}
           only == CHOOSE k \in same : TRUE
<1>1. /\ x.entity \in Keys /\ x.state \in States
      /\ "needs_review" \in States /\ "historical" \in States
  BY DEF Notes, States
<1>2. Cardinality(same) = 1 => only \in Keys
  <2>1. Cardinality(same) = 1 => same # {}
    BY FS_EmptySet
  <2>2. same \subseteq Keys
    BY CandidateLandingAssumption
  <2> QED
    BY <2>1, <2>2
<1>3. \E k \in Keys, state \in States :
        /\ Reconcile(x, previous, Tree[s], s) = Rebound(x, k, state, s)
        /\ x.entity \in DOMAIN Tree[s] => k = x.entity
  <2>1. CASE previous = {} \/ x.entity \in DOMAIN Tree[s]
    BY <1>1, <2>1 DEF Reconcile
  <2>2. CASE previous # {} /\ x.entity \notin DOMAIN Tree[s]
    <3> DEFINE onlyOne == Rebound(x, only, x.state, s)
               several == Rebound(x, x.entity, "needs_review", s)
               nothing == Rebound(x, x.entity, "historical", s)
    <3>1. Reconcile(x, previous, Tree[s], s) =
            CASE Cardinality(same) = 1 -> onlyOne
              [] Cardinality(same) > 1 -> several
              [] OTHER -> nothing
      BY <2>2 DEF Reconcile
    <3> HIDE DEF onlyOne, several, nothing, only, same
    <3>2. \/ Cardinality(same) = 1 /\ Reconcile(x, previous, Tree[s], s) = onlyOne
          \/ Reconcile(x, previous, Tree[s], s) \in {several, nothing}
      <4>1. CASE Cardinality(same) = 1
        BY <3>1, <4>1
      <4>2. CASE Cardinality(same) # 1
        BY <3>1, <4>2
      <4> QED
        BY <4>1, <4>2
    <3> QED
      BY <1>1, <1>2, <2>2, <3>2 DEF onlyOne, several, nothing
  <2> QED
    BY <2>1, <2>2
<1> QED
  BY <1>3, ReboundNote

\* bindCandidateNote decides the state and the source, and nothing else.
LEMMA BoundNote ==
    ASSUME NEW x \in Notes, NEW hash, NEW s \in Sources
    PROVE  LET y == Bind(x, hash, s) IN
           /\ y \in Notes /\ y.rev = x.rev /\ y.sup = x.sup /\ y.entity = x.entity
           /\ y.src = s
<1>1. PICK state \in States : Bind(x, hash, s) = Rebound(x, x.entity, state, s)
  BY DEF Bind, States
<1> QED
  BY <1>1, ReboundNote DEF Notes

LEMMA NoteOfRecord ==
    ASSUME NEW r \in Records, NEW s \in Sources
    PROVE  LET y == FromRecord(r, s) IN
           /\ y \in Notes /\ y.rev = r.rev /\ y.sup = r.sup /\ y.entity = r.entity
           /\ y.src = s
<1> DEFINE x == Entry(r.rev, r.sup, r.entity, "active", s)
<1>1. r.rev \in Nat /\ r.sup \in Nat /\ r.entity \in Keys
  BY DEF Records
<1>2. x \in Notes /\ x.rev = r.rev /\ x.sup = r.sup /\ x.entity = r.entity
  BY <1>1 DEF Entry, Notes, States
<1> HIDE DEF x
<1>3. FromRecord(r, s) = Bind(x, r.hash, s)
  BY DEF FromRecord, x
<1> QED
  BY <1>2, <1>3, BoundNote

\* A snapshot that is written goes to the end of the history.
LEMMA Appended ==
    ASSUME NEW objs, IsHistory(objs), NEW x, IsSnapshot(x),
           x.parents \in Seq(1..Len(objs))
    PROVE  /\ IsHistory(Append(objs, x)) /\ Len(Append(objs, x)) = Len(objs) + 1
           /\ Len(objs) \in Nat
           /\ \A i \in 1..Len(objs) : Append(objs, x)[i] = objs[i]
           /\ Append(objs, x)[Len(objs) + 1] = x
<1> DEFINE M == Members(objs) \union {x}
           a == Append(objs, x)
<1>1. /\ objs \in Seq(Members(objs)) /\ Len(objs) \in Nat
      /\ DOMAIN objs = 1..Len(objs)
  BY DEF IsHistory
<1>2. objs \in Seq(M)
  BY <1>1
<1>3. /\ a \in Seq(M) /\ Len(a) = Len(objs) + 1 /\ DOMAIN a = 1..(Len(objs) + 1)
      /\ \A i \in 1..Len(objs) : a[i] = objs[i]
      /\ a[Len(objs) + 1] = x
  BY <1>2
<1> HIDE DEF a
<1>4. Members(a) = M
  <2>1. Members(a) \subseteq M
    BY <1>3 DEF Members
  <2>2. ASSUME NEW i \in DOMAIN objs
        PROVE  objs[i] \in Members(a)
    <3>1. i \in DOMAIN a /\ a[i] = objs[i]
      BY <1>1, <1>3
    <3> QED
      BY <3>1 DEF Members
  <2>3. x \in Members(a)
    <3>1. Len(objs) + 1 \in DOMAIN a
      BY <1>1, <1>3
    <3> QED
      BY <1>3, <3>1 DEF Members
  <2> QED
    BY <2>1, <2>2, <2>3 DEF Members
<1>5. \A i \in DOMAIN a : IsSnapshot(a[i]) /\ a[i].parents \in Seq(1..(i - 1))
  <2> TAKE i \in DOMAIN a
  <2>1. i \in 1..Len(objs) \/ (i = Len(objs) + 1 /\ i - 1 = Len(objs))
    BY <1>1, <1>3
  <2>2. CASE i \in 1..Len(objs)
    <3>1. a[i] = objs[i] /\ i \in DOMAIN objs
      BY ONLY <1>1, <1>3, <2>2
    <3> QED
      BY ONLY <3>1, IsHistory(objs) DEF IsHistory
  <2>3. CASE i = Len(objs) + 1 /\ i - 1 = Len(objs)
    BY ONLY <1>3, <2>3, IsSnapshot(x), x.parents \in Seq(1..Len(objs))
  <2> QED
    BY ONLY <2>1, <2>2, <2>3
<1>6. IsHistory(a)
  BY <1>3, <1>4, <1>5 DEF IsHistory
<1> QED
  BY <1>1, <1>3, <1>6 DEF a

-----------------------------------------------------------------------------
(* What PlanLanding computes.                                              *)

\* The notes of the canonical version, bound at the merge commit.
CarriedNotes(base, s) ==
    LET o == objects[base] IN
    [n \in DOMAIN o.notes |->
        Reconcile(o.notes[n], HashAt(o.source, o.notes[n].entity), Tree[s], s)]

\* A plan takes what each record that is not refused decides, and carries the
\* rest.
Combines(p, notes, s, records) ==
    /\ IsPlanRecord(p) /\ p.source = s
    /\ p.conflicts \subseteq {r.note : r \in records}
    /\ \A r \in records : r.note \in p.conflicts <=> Refusals(r, notes, s) # {}
    /\ p.notes = [n \in DOMAIN p.notes |-> p.notes[n]]
    /\ DOMAIN p.notes = DOMAIN notes \union ({r.note : r \in records} \ p.conflicts)
    /\ \A r \in records :
         r.note \notin p.conflicts => p.notes[r.note] = Decided(r, notes, s)
    /\ \A n \in DOMAIN notes :
         n \in p.conflicts \/ n \notin {r.note : r \in records} => p.notes[n] = notes[n]

LEMMA PlanOf ==
    ASSUME NEW base, NEW s, NEW records, ValidDelta(records)
    PROVE  /\ Combines(PlanLanding(base, s, records), CarriedNotes(base, s), s, records)
           /\ PlanLanding(base, s, records).base = base
<1> DEFINE notes == CarriedNotes(base, s)
           refused == {r \in records : Refusals(r, notes, s) # {}}
           applied == records \ refused
           decided == [n \in {r.note : r \in applied} |->
                         Decided(CHOOSE r \in applied : r.note = n, notes, s)]
           p == PlanLanding(base, s, records)
<1>1. p = [base |-> base, source |-> s, notes |-> Overlay(notes, decided),
           conflicts |-> {r.note : r \in refused}]
  BY DEF PlanLanding, CarriedNotes
<1>2. \A r, q \in records : r.note = q.note => r = q
  BY DEF ValidDelta
<1>3. \A r \in applied : decided[r.note] = Decided(r, notes, s)
  <2> SUFFICES ASSUME NEW r \in applied
               PROVE  decided[r.note] = Decided(r, notes, s)
    OBVIOUS
  <2>1. (CHOOSE q \in applied : q.note = r.note) = r
    BY <1>2
  <2>2. r.note \in {q.note : q \in applied}
    OBVIOUS
  <2> HIDE DEF applied
  <2> QED
    BY <2>1, <2>2
<1>4. DOMAIN decided = {r.note : r \in applied}
  OBVIOUS
<1>5. /\ \A r \in records : Refusals(r, notes, s) # {} <=> r \in refused
      /\ applied = records \ refused /\ refused \subseteq records
  OBVIOUS
<1> HIDE DEF notes, refused, applied, decided, p
<1>6. /\ p.base = base /\ p.source = s /\ p.notes = Overlay(notes, decided)
      /\ p.conflicts = {r.note : r \in refused} /\ IsPlanRecord(p)
  BY <1>1 DEF IsPlanRecord
<1>7. \A r \in records : r.note \in p.conflicts <=> r \in refused
  BY <1>2, <1>5, <1>6
<1>8. /\ DOMAIN p.notes = DOMAIN notes \union DOMAIN decided
      /\ p.notes = [n \in DOMAIN p.notes |-> p.notes[n]]
      /\ \A n \in DOMAIN decided : p.notes[n] = decided[n]
      /\ \A n \in DOMAIN notes : n \notin DOMAIN decided => p.notes[n] = notes[n]
  BY <1>6 DEF Overlay
<1>9. DOMAIN decided = {r.note : r \in records} \ p.conflicts
  BY <1>2, <1>4, <1>5, <1>6, <1>7
<1>10. \A r \in records : r.note \notin p.conflicts => p.notes[r.note] = Decided(r, notes, s)
  BY <1>3, <1>4, <1>5, <1>7, <1>8
<1>11. \A n \in DOMAIN notes :
         n \in p.conflicts \/ n \notin {r.note : r \in records} => p.notes[n] = notes[n]
  BY <1>8, <1>9
<1>12. p.conflicts \subseteq {r.note : r \in records}
  BY <1>5, <1>6
<1> QED
  BY <1>5, <1>6, <1>7, <1>8, <1>9, <1>10, <1>11, <1>12 DEF p, notes, Combines

\* The carried notes are notes, with the revisions of the canonical version.
LEMMA CarriedAreNotes ==
    ASSUME IsHistory(objects), NEW b \in DOMAIN objects, NEW s \in Sources
    PROVE  /\ IsNotes(CarriedNotes(b, s))
           /\ DOMAIN CarriedNotes(b, s) = DOMAIN objects[b].notes
           /\ \A n \in DOMAIN objects[b].notes :
                LET x == objects[b].notes[n] IN
                /\ x \in Notes /\ CarriedNotes(b, s)[n].rev = x.rev
                /\ CarriedNotes(b, s)[n].sup = x.sup /\ CarriedNotes(b, s)[n].src = s
                /\ x.entity \in DOMAIN Tree[s] => CarriedNotes(b, s)[n].entity = x.entity
<1>1. IsNotes(objects[b].notes)
  BY DEF IsHistory, IsSnapshot
<1>2. ASSUME NEW n \in DOMAIN objects[b].notes
      PROVE  /\ objects[b].notes[n] \in Notes /\ CarriedNotes(b, s)[n] \in Notes
             /\ CarriedNotes(b, s)[n].rev = objects[b].notes[n].rev
             /\ CarriedNotes(b, s)[n].sup = objects[b].notes[n].sup
             /\ CarriedNotes(b, s)[n].src = s
             /\ objects[b].notes[n].entity \in DOMAIN Tree[s] =>
                  CarriedNotes(b, s)[n].entity = objects[b].notes[n].entity
  <2>1. objects[b].notes[n] \in Notes
    BY <1>1 DEF IsNotes
  <2>2. CarriedNotes(b, s)[n] =
          Reconcile(objects[b].notes[n],
                    HashAt(objects[b].source, objects[b].notes[n].entity), Tree[s], s)
    BY DEF CarriedNotes
  <2> QED
    BY <2>1, <2>2, ReconciledNote
<1>3. /\ DOMAIN CarriedNotes(b, s) = DOMAIN objects[b].notes
      /\ CarriedNotes(b, s) = [n \in DOMAIN CarriedNotes(b, s) |-> CarriedNotes(b, s)[n]]
  BY DEF CarriedNotes
<1>4. IsNotes(CarriedNotes(b, s))
  BY <1>1, <1>2, <1>3 DEF IsNotes
<1> QED
  BY <1>2, <1>3, <1>4

\* A record that is not refused decides a note of the record's entity, with
\* the record's revision, or the canonical one when it rebinds.
LEMMA DecidedNote ==
    ASSUME NEW r \in Records, NEW s \in Sources, NEW notes, IsNotes(notes),
           Refusals(r, notes, s) = {}
    PROVE  LET y == Decided(r, notes, s) IN
           /\ y \in Notes /\ y.entity = r.entity /\ y.src = s
           /\ r.op # "rebind" => /\ y = FromRecord(r, s) /\ y.rev = r.rev
                                 /\ y.sup = r.sup
           /\ r.op = "rebind" => /\ r.note \in DOMAIN notes
                                 /\ notes[r.note].rev = r.base /\ y.rev = r.base
                                 /\ y.sup = notes[r.note].sup
<1>1. CASE r.op # "rebind"
  BY <1>1, NoteOfRecord DEF Decided
<1>2. CASE r.op = "rebind"
  <2>1. r.note \in DOMAIN notes /\ notes[r.note].rev = r.base
    BY <1>2 DEF Refusals
  <2>2. PICK x \in Notes : x = notes[r.note]
    BY <2>1 DEF IsNotes
  <2> DEFINE z == [x EXCEPT !.entity = r.entity]
  <2>3. r.entity \in Keys
    BY DEF Records
  <2>4. z \in Notes /\ z.rev = x.rev /\ z.sup = x.sup /\ z.entity = r.entity
    BY <2>3 DEF Notes
  <2>5. Decided(r, notes, s) = Bind(z, r.hash, s)
    BY <1>2, <2>2 DEF Decided
  <2> HIDE DEF z
  <2>6. /\ Decided(r, notes, s) \in Notes /\ Decided(r, notes, s).rev = x.rev
        /\ Decided(r, notes, s).entity = r.entity
        /\ Decided(r, notes, s).sup = x.sup /\ Decided(r, notes, s).src = s
    BY <2>4, <2>5, BoundNote
  <2> QED
    BY <1>2, <2>1, <2>2, <2>6
<1> QED
  BY <1>1, <1>2

\* A plan holds notes.
LEMMA PlanHoldsNotes ==
    ASSUME IsHistory(objects), NEW b \in DOMAIN objects, NEW s \in Sources,
           NEW records \in SUBSET Records, ValidDelta(records)
    PROVE  IsNotes(PlanLanding(b, s, records).notes)
<1>0. PICK p, notes : /\ p = PlanLanding(b, s, records) /\ notes = CarriedNotes(b, s)
                      /\ IsNotes(notes) /\ Combines(p, notes, s, records)
  BY PlanOf, CarriedAreNotes
<1>1. /\ p.notes = [n \in DOMAIN p.notes |-> p.notes[n]]
      /\ DOMAIN p.notes = DOMAIN notes \union ({r.note : r \in records} \ p.conflicts)
  BY <1>0 DEF Combines
<1>2. ASSUME NEW r \in records, r.note \notin p.conflicts
      PROVE  p.notes[r.note] \in Notes
  <2>1. Refusals(r, notes, s) = {} /\ p.notes[r.note] = Decided(r, notes, s)
    BY <1>0, <1>2 DEF Combines
  <2> QED
    BY <1>0, <2>1, DecidedNote
<1>3. ASSUME NEW n \in DOMAIN notes, n \in p.conflicts \/ n \notin {r.note : r \in records}
      PROVE  p.notes[n] \in Notes
  BY <1>0, <1>3 DEF Combines, IsNotes
<1>4. \A r \in records : r.note \in NoteIds
  BY DEF Records
<1>5. DOMAIN p.notes \subseteq NoteIds
  BY <1>0, <1>1, <1>4 DEF IsNotes
<1>6. \A n \in DOMAIN p.notes : p.notes[n] \in Notes
  BY <1>1, <1>2, <1>3
<1> QED
  BY <1>0, <1>1, <1>5, <1>6 DEF IsNotes

\* A record that fits the canonical version is not refused, and brings its
\* revision; one that does not fit and is applied is already there.
LEMMA FittingRecord ==
    ASSUME IsHistory(objects), NEW b \in DOMAIN objects, NEW s \in Sources,
           NEW r \in Records, ValidRecord(r)
    PROVE  LET base == objects[b].notes
               notes == CarriedNotes(b, s)
           IN  /\ Fits(r, base) => /\ Refusals(r, notes, s) = {}
                                   /\ Decided(r, notes, s).rev = r.rev
               /\ ~Fits(r, base) /\ r.note \in DOMAIN base /\ Refusals(r, notes, s) = {} =>
                     Decided(r, notes, s).rev = base[r.note].rev
<1> DEFINE base == objects[b].notes
           notes == CarriedNotes(b, s)
<1>1. /\ IsNotes(notes) /\ DOMAIN notes = DOMAIN base
      /\ \A n \in DOMAIN base : notes[n].rev = base[n].rev
  BY CarriedAreNotes
<1>2. r.op \in {"add", "revise", "rebind"}
  BY DEF Records
<1>3. Fits(r, base) => Refusals(r, notes, s) = {}
  <2>1. CASE r.op = "add"
    BY <1>1, <2>1 DEF Fits, Refusals
  <2>2. CASE r.op = "revise"
    <3>1. r.base # r.rev
      BY <2>2 DEF ValidRecord
    <3> QED
      BY <1>1, <2>2, <3>1 DEF Fits, Refusals
  <2>3. CASE r.op = "rebind"
    BY <1>1, <2>3 DEF Fits, Refusals
  <2> QED
    BY <1>2, <2>1, <2>2, <2>3
<1>4. Refusals(r, notes, s) = {} =>
        /\ r.op # "rebind" => /\ Decided(r, notes, s) = FromRecord(r, s)
                              /\ Decided(r, notes, s).rev = r.rev
        /\ r.op = "rebind" => /\ r.note \in DOMAIN notes
                              /\ notes[r.note].rev = r.base
                              /\ Decided(r, notes, s).rev = r.base
  <2> HIDE DEF notes
  <2> QED
    BY <1>1, DecidedNote
<1>5. r.op = "rebind" => r.rev = r.base
  BY DEF ValidRecord
<1>6. ~Fits(r, base) /\ r.note \in DOMAIN base /\ Refusals(r, notes, s) = {} =>
        Decided(r, notes, s).rev = base[r.note].rev
  <2>1. CASE r.op = "add"
    <3>1. Refusals(r, notes, s) = {} /\ r.note \in DOMAIN notes =>
            notes[r.note] = FromRecord(r, s)
      BY <2>1 DEF Refusals
    <3> QED
      BY <1>1, <1>4, <2>1, <3>1
  <2>2. CASE r.op = "revise"
    <3>1. Refusals(r, notes, s) = {} /\ r.note \in DOMAIN notes /\ notes[r.note].rev # r.base =>
            notes[r.note] = FromRecord(r, s)
      BY <2>2 DEF Refusals
    <3> QED
      BY <1>1, <1>4, <2>2, <3>1 DEF Fits
  <2>3. CASE r.op = "rebind"
    BY <1>1, <1>4, <2>3
  <2> QED
    BY <1>2, <2>1, <2>2, <2>3
<1> QED
  BY <1>3, <1>4, <1>5, <1>6

\* What PlanLanding computes is faithful.
LEMMA PlanIsFaithful ==
    ASSUME IsHistory(objects), NEW b \in DOMAIN objects, merged \in Sources,
           candidate.records \subseteq Records, ValidDelta(candidate.records), NEW by
    PROVE  Faithful(PlanLanding(b, merged, candidate.records), by)
<1> DEFINE base == objects[b].notes
<1>0. PICK p, notes : /\ p = PlanLanding(b, merged, candidate.records) /\ p.base = b
                      /\ notes = CarriedNotes(b, merged)
                      /\ Combines(p, notes, merged, candidate.records)
  BY PlanOf
<1>1. IsNotes(p.notes)
  BY <1>0, PlanHoldsNotes
<1>2. /\ IsPlanRecord(p) /\ p.source = merged /\ p.conflicts \subseteq Told
      /\ DOMAIN p.notes = DOMAIN notes \union (Told \ p.conflicts)
      /\ \A n \in DOMAIN notes : n \in p.conflicts \/ n \notin Told => p.notes[n] = notes[n]
  BY <1>0 DEF Told, Combines
<1>3. Told \subseteq NoteIds
  BY DEF Told, Records
<1>4. /\ DOMAIN notes = DOMAIN base
      /\ \A n \in DOMAIN base : notes[n].rev = base[n].rev
  BY <1>0, CarriedAreNotes
<1>5. ASSUME NEW r \in candidate.records
      PROVE  /\ Fits(r, base) => /\ r.note \in DOMAIN p.notes \ p.conflicts
                                 /\ p.notes[r.note].rev = r.rev
             /\ ~Fits(r, base) /\ r.note \in DOMAIN base =>
                  p.notes[r.note].rev = base[r.note].rev
  <2>1. ValidRecord(r) /\ r \in Records /\ r.note \in Told
    BY DEF ValidDelta, Told
  <2>2. /\ r.note \in p.conflicts <=> Refusals(r, notes, merged) # {}
        /\ r.note \notin p.conflicts => p.notes[r.note] = Decided(r, notes, merged)
    BY <1>0 DEF Combines
  <2>3. /\ Fits(r, base) => /\ Refusals(r, notes, merged) = {}
                            /\ Decided(r, notes, merged).rev = r.rev
        /\ ~Fits(r, base) /\ r.note \in DOMAIN base /\ Refusals(r, notes, merged) = {} =>
              Decided(r, notes, merged).rev = base[r.note].rev
    BY <1>0, <2>1, FittingRecord
  <2> HIDE DEF base
  <2> QED
    BY <1>2, <1>4, <2>1, <2>2, <2>3
<1>6. Faithful(p, by)
  BY <1>0, <1>1, <1>2, <1>3, <1>4, <1>5 DEF Faithful, IsPlan
<1> QED
  BY <1>0, <1>6

-----------------------------------------------------------------------------
(* What stays of a plan.                                                   *)

\* Snapshots are only added to the history.
Grown == /\ IsHistory(objects') /\ Len(objects) \in Nat /\ Len(objects') \in Nat
         /\ Len(objects) <= Len(objects')
         /\ DOMAIN objects = 1..Len(objects) /\ DOMAIN objects' = 1..Len(objects')
         /\ \A i \in DOMAIN objects : objects'[i] = objects[i]

\* A plan that is faithful stays so, as its base does not change.
LEMMA StaysFaithful ==
    ASSUME Grown, UNCHANGED <<candidate, merged>>, NEW p, NEW by, Faithful(p, by)
    PROVE  Faithful(p, by)'
<1>1. p.base \in DOMAIN objects /\ p.base \in DOMAIN objects'
      /\ objects'[p.base] = objects[p.base]
  BY DEF Faithful, IsPlan, Grown
<1> QED
  BY <1>1 DEF Faithful, IsPlan, Told

\* What was planned on a version is what would be planned on it now.
LEMMA StaysPlanned ==
    ASSUME Grown, NEW b \in DOMAIN objects, NEW s, NEW records
    PROVE  PlanLanding(b, s, records)' = PlanLanding(b, s, records)
<1> DEFINE planned(o) ==
      LET notes == [n \in DOMAIN o.notes |->
                      Reconcile(o.notes[n], HashAt(o.source, o.notes[n].entity),
                                Tree[s], s)]
          refused == {r \in records : Refusals(r, notes, s) # {}}
          applied == records \ refused
          decided == [n \in {r.note : r \in applied} |->
                        Decided(CHOOSE r \in applied : r.note = n, notes, s)]
      IN  [base |-> b, source |-> s, notes |-> Overlay(notes, decided),
           conflicts |-> {r.note : r \in refused}]
<1>1. PlanLanding(b, s, records) = planned(objects[b])
  BY DEF PlanLanding
<1>2. PlanLanding(b, s, records)' = planned(objects'[b])
  BY DEF PlanLanding
<1>3. objects'[b] = objects[b]
  BY DEF Grown
<1> HIDE DEF planned
<1> QED
  BY <1>1, <1>2, <1>3

LEMMA PlansStay ==
    ASSUME PlansOK, Grown, UNCHANGED <<candidate, merged>>
    PROVE  /\ UNCHANGED plan => FinalPlanOK'
           /\ UNCHANGED session => SessionOK'
           /\ UNCHANGED view => ViewsOK'
           /\ UNCHANGED landed => LandedOK'
<1>1. ASSUME UNCHANGED plan
      PROVE  FinalPlanOK'
  <2>1. plan # None => /\ plan'.base \in DOMAIN objects'
                       /\ plan' = PlanLanding(plan.base, merged, candidate.records)'
    BY <1>1, StaysPlanned DEF PlansOK, FinalPlanOK, Grown
  <2> QED
    BY <1>1, <2>1 DEF FinalPlanOK
<1>2. ASSUME UNCHANGED session
      PROVE  SessionOK'
  <2>1. PICK p : p = session.plan
    OBVIOUS
  <2> QED
    BY <1>2, <2>1, StaysFaithful DEF PlansOK, SessionOK
<1>3. ASSUME UNCHANGED view
      PROVE  ViewsOK'
  <2>1. ASSUME NEW t \in Terminals, view[t].version # 0
        PROVE  Faithful(view[t].plan, "client")'
    <3>1. PICK p : p = view[t].plan
      OBVIOUS
    <3> QED
      BY <1>3, <2>1, <3>1, StaysFaithful DEF PlansOK, ViewsOK
  <2> QED
    BY <1>3, <2>1 DEF ViewsOK
<1>4. ASSUME UNCHANGED landed
      PROVE  LandedOK'
  <2>1. PICK p, by : p = landed.plan /\ by = landed.by
    OBVIOUS
  <2>2. landed.id # 0 => Faithful(p, by)'
    BY <2>1, StaysFaithful DEF PlansOK, LandedOK
  <2> QED
    BY <1>4, <2>1, <2>2 DEF PlansOK, LandedOK, Grown
<1> QED
  BY <1>1, <1>2, <1>3, <1>4

\* Before the merge there is no plan.
LEMMA NoPlans ==
    ASSUME Staged, merged = None, UNCHANGED <<plan, session, view, landed>>
    PROVE  PlansOK' /\ Staged'
  BY DEF Staged, PlansOK, FinalPlanOK, SessionOK, ViewsOK, LandedOK

LEMMA CandidateStays ==
    ASSUME CandidateOK, Grown, UNCHANGED candidate
    PROVE  CandidateOK'
<1>1. /\ candidate.base \in 0..Len(objects') /\ candidate.tip \in 0..Len(objects')
      /\ candidate.base # 0 => objects'[candidate.base] = objects[candidate.base]
      /\ candidate.tip # 0 => objects'[candidate.tip] = objects[candidate.tip]
  BY DEF CandidateOK, Grown
<1>2. candidate.tip # 0 =>
        Delta(objects[candidate.base], objects[candidate.tip])' =
          Delta(objects[candidate.base], objects[candidate.tip])
  BY <1>1 DEF CandidateOK
<1> QED
  BY <1>1, <1>2 DEF CandidateOK

\* A conflict is decided: the canonical decision stays, or a note of the
\* record's revision or one from a file replaces it.
LEMMA ResolvedIsFaithful ==
    ASSUME NEW p, Faithful(p, "client"), NEW n \in p.conflicts, NEW notes,
           IsNotes(notes), DOMAIN notes \subseteq {n},
           n \in DOMAIN notes =>
             \/ \E r \in candidate.records : r.note = n /\ notes[n].rev = r.rev
             \/ notes[n] \in Authored,
           candidate.records \subseteq Records, ValidDelta(candidate.records)
    PROVE  Faithful(Resolved(p, n, notes), "client")
<1> DEFINE q == Resolved(p, n, notes)
           base == objects[p.base].notes
<1>1. /\ q.base = p.base /\ q.source = p.source /\ q.conflicts = p.conflicts \ {n}
      /\ q.notes = Overlay(p.notes, notes)
  BY DEF Resolved
<1>2. IsPlanRecord(q)
  BY DEF Resolved, IsPlanRecord
<1>3. IsNotes(q.notes)
  BY <1>1, OverlayNotes DEF Faithful, IsPlan
<1>4. /\ DOMAIN q.notes = DOMAIN p.notes \union DOMAIN notes
      /\ \A m \in DOMAIN p.notes : m # n => q.notes[m] = p.notes[m]
      /\ n \in DOMAIN notes => q.notes[n] = notes[n]
      /\ n \notin DOMAIN notes /\ n \in DOMAIN p.notes => q.notes[n] = p.notes[n]
  BY <1>1 DEF Overlay
<1>5. n \in DOMAIN notes => n \in Told
  BY CandidateLandingAssumption DEF Faithful, IsNotes
<1> HIDE DEF q
<1>6. ASSUME NEW r \in candidate.records
      PROVE  /\ Fits(r, base) => /\ r.note \in DOMAIN q.notes \ q.conflicts
                                 /\ q.notes[r.note].rev = r.rev
             /\ ~Fits(r, base) /\ r.note \in DOMAIN base =>
                  \/ q.notes[r.note].rev = base[r.note].rev
                  \/ q.notes[r.note].rev = r.rev
                  \/ q.notes[r.note] \in Authored
  <2>1. /\ Fits(r, base) => /\ r.note \in DOMAIN p.notes \ p.conflicts
                            /\ p.notes[r.note].rev = r.rev
        /\ ~Fits(r, base) /\ r.note \in DOMAIN base =>
             \/ p.notes[r.note].rev = base[r.note].rev
             \/ p.notes[r.note].rev = r.rev
             \/ p.notes[r.note] \in Authored
        /\ DOMAIN base \subseteq DOMAIN p.notes
    BY DEF Faithful
  <2>2. CASE r.note # n
    BY <1>1, <1>4, <2>1, <2>2
  <2>3. CASE r.note = n
    <3>1. ~Fits(r, base)
      BY <2>1, <2>3
    <3>2. n \in DOMAIN base => n \in DOMAIN p.notes /\ p.notes[n].rev = base[n].rev
      BY <2>1 DEF Faithful
    <3>3. \A r2 \in candidate.records : r2.note = n => r2 = r
      BY <2>3 DEF ValidDelta
    <3>4. CASE n \in DOMAIN notes
      BY <1>4, <2>3, <3>1, <3>2, <3>3, <3>4
    <3>5. CASE n \notin DOMAIN notes
      BY <1>4, <2>3, <3>1, <3>2, <3>5
    <3> QED
      BY <3>4, <3>5
  <2> QED
    BY <2>2, <2>3
<1>7. /\ DOMAIN base \subseteq DOMAIN q.notes
      /\ \A m \in DOMAIN base : m \in q.conflicts \/ m \notin Told =>
           q.notes[m].rev = base[m].rev
  <2>1. /\ DOMAIN base \subseteq DOMAIN p.notes
        /\ \A m \in DOMAIN base : m \in p.conflicts \/ m \notin Told =>
             p.notes[m].rev = base[m].rev
    BY DEF Faithful
  <2> HIDE DEF base
  <2> QED
    BY <1>1, <1>4, <1>5, <2>1
<1>8. IsPlan(q) /\ q.conflicts \subseteq Told \union {None}
  BY <1>1, <1>3 DEF Faithful, IsPlan
<1> HIDE DEF base
<1>9. Faithful(q, "client")
  BY <1>1, <1>2, <1>6, <1>7, <1>8 DEF Faithful, base
<1> QED
  BY <1>9 DEF q

\* A conflict of no note takes nothing away.
LEMMA WidenedIsFaithful ==
    ASSUME NEW p, NEW by, Faithful(p, by), NEW missing, missing \subseteq {None},
           candidate.records \subseteq Records
    PROVE  Faithful([base |-> p.base, source |-> p.source, notes |-> p.notes,
                     conflicts |-> p.conflicts \union missing], by)
<1> DEFINE q == [base |-> p.base, source |-> p.source, notes |-> p.notes,
                 conflicts |-> p.conflicts \union missing]
<1>1. /\ q.base = p.base /\ q.source = p.source /\ q.notes = p.notes
      /\ q.conflicts = p.conflicts \union missing
  OBVIOUS
<1>2. IsPlanRecord(q)
  BY DEF IsPlanRecord
<1> HIDE DEF q
<1>3. \A r \in candidate.records : r.note \notin missing
  BY CandidateLandingAssumption DEF Records
<1>4. None \notin Told
  BY CandidateLandingAssumption DEF Told, Records
<1>5. IsPlan(q) /\ q.conflicts \subseteq Told \union {None}
  BY <1>1 DEF Faithful, IsPlan
<1>6. Faithful(q, by)
  BY <1>1, <1>2, <1>3, <1>4, <1>5 DEF Faithful
<1> QED
  BY <1>6 DEF q

-----------------------------------------------------------------------------
(* The delta of a branch.                                                  *)

\* What a record of the delta tells: a note that is new, has another revision,
\* or has moved.
TellsOf(r, base, tip) ==
    LET n == r.note
        note == tip.notes[n]
        hash == CHOOSE h \in Evidence(base, tip, note.entity) : TRUE
    IN  /\ n \in DOMAIN tip.notes
        /\ \/ /\ n \notin DOMAIN base.notes
              /\ r = Record("add", n, note.rev, 0, note.sup, note.entity, hash)
           \/ /\ n \in DOMAIN base.notes /\ note.rev # base.notes[n].rev
              /\ r = Record("revise", n, note.rev, base.notes[n].rev, note.sup,
                            note.entity, hash)
           \/ /\ n \in DOMAIN base.notes /\ note.rev = base.notes[n].rev
              /\ note.entity # base.notes[n].entity
              /\ r = Record("rebind", n, note.rev, note.rev, 0, note.entity, hash)

\* The delta has a record for every note that differs, and no other record.
LEMMA DeltaTells ==
    ASSUME NEW base, NEW tip
    PROVE  /\ \A r \in Delta(base, tip) : TellsOf(r, base, tip)
           /\ \A n \in DOMAIN tip.notes :
                \/ \E r \in Delta(base, tip) : r.note = n
                \/ /\ n \in DOMAIN base.notes
                   /\ tip.notes[n].rev = base.notes[n].rev
                   /\ tip.notes[n].entity = base.notes[n].entity
<1> DEFINE known(n) == n \in DOMAIN base.notes
           revised(n) == known(n) /\ tip.notes[n].rev # base.notes[n].rev
           told == Changed(base, tip)
           hash(n) == CHOOSE h \in Evidence(base, tip, tip.notes[n].entity) : TRUE
           add(n) == Record("add", n, tip.notes[n].rev, 0, tip.notes[n].sup,
                            tip.notes[n].entity, hash(n))
           revise(n) == Record("revise", n, tip.notes[n].rev, base.notes[n].rev,
                               tip.notes[n].sup, tip.notes[n].entity, hash(n))
           rebind(n) == Record("rebind", n, tip.notes[n].rev, tip.notes[n].rev, 0,
                               tip.notes[n].entity, hash(n))
           of(n) == CASE ~known(n) -> add(n) [] revised(n) -> revise(n)
                      [] OTHER -> rebind(n)
<1>0. told = {n \in DOMAIN tip.notes : known(n) =>
                  revised(n) \/ tip.notes[n].entity # base.notes[n].entity}
  BY DEF Changed
<1>1. Delta(base, tip) = {of(n) : n \in told}
  BY DEF Delta
<1> HIDE DEF told
<1>2. \A n : add(n).note = n /\ revise(n).note = n /\ rebind(n).note = n
  BY DEF Record
<1> HIDE DEF add, revise, rebind
<1>3. ASSUME NEW n \in told
      PROVE  /\ of(n).note = n
             /\ \/ ~known(n) /\ of(n) = add(n)
                \/ revised(n) /\ of(n) = revise(n)
                \/ known(n) /\ ~revised(n) /\ of(n) = rebind(n)
  BY <1>2
<1>4. ASSUME NEW n \in told
      PROVE  TellsOf(of(n), base, tip)
  <2>1. PICK r : r = of(n) /\ r.note = n
    BY <1>3
  <2>2. n \in DOMAIN tip.notes
    BY <1>0
  <2>3. CASE ~known(n) /\ r = add(n)
    BY <2>1, <2>2, <2>3 DEF TellsOf, add
  <2>4. CASE revised(n) /\ r = revise(n)
    BY <2>1, <2>2, <2>4 DEF TellsOf, revise
  <2>5. CASE known(n) /\ ~revised(n) /\ r = rebind(n)
    <3>1. tip.notes[n].rev = base.notes[n].rev /\ tip.notes[n].entity # base.notes[n].entity
      BY <1>0, <2>5
    <3> QED
      BY <2>1, <2>2, <2>5, <3>1 DEF TellsOf, rebind
  <2>6. TellsOf(r, base, tip)
    BY <1>3, <2>1, <2>3, <2>4, <2>5
  <2> QED
    BY <2>1, <2>6
<1> HIDE DEF of
<1> QED
  BY <1>0, <1>1, <1>3, <1>4

\* The records of a published delta are well formed.
LEMMA DeltaIsTyped ==
    ASSUME NEW base, IsSnapshot(base), NEW tip, IsSnapshot(tip),
           \A n \in Changed(base, tip) : Evidence(base, tip, tip.notes[n].entity) # {}
    PROVE  Delta(base, tip) \subseteq Records
<1> SUFFICES ASSUME NEW r \in Delta(base, tip)
             PROVE  r \in Records
  OBVIOUS
<1>1. TellsOf(r, base, tip)
  BY DeltaTells
<1> DEFINE n == r.note
           note == tip.notes[n]
           hash == CHOOSE h \in Evidence(base, tip, note.entity) : TRUE
           Hashes == UNION {{Tree[s][k] : k \in DOMAIN Tree[s]} : s \in Sources}
<1>2. n \in NoteIds /\ note \in Notes /\ n \in DOMAIN tip.notes
  BY <1>1 DEF TellsOf, IsSnapshot, IsNotes
<1>3. n \in DOMAIN base.notes => base.notes[n].rev \in Nat
  BY DEF IsSnapshot, IsNotes, Notes
<1>4. hash \in Hashes
  <2>1. base.source \in Sources /\ tip.source \in Sources
    BY DEF IsSnapshot
  <2>2. \A s \in Sources, k \in Keys : HashAt(s, k) \subseteq Hashes
    BY DEF HashAt
  <2>3. note.entity \in Keys
    BY <1>2 DEF Notes
  <2> HIDE DEF Hashes
  <2>4. Evidence(base, tip, note.entity) \subseteq Hashes
    BY <2>1, <2>2, <2>3 DEF Evidence
  <2>5. n \in Changed(base, tip)
    <3>1. /\ n \in DOMAIN tip.notes
          /\ n \in DOMAIN base.notes => \/ note.rev # base.notes[n].rev
                                        \/ note.entity # base.notes[n].entity
      BY <1>1 DEF TellsOf
    <3> QED
      BY <3>1 DEF Changed
  <2> QED
    BY <2>4, <2>5
<1>5. note.rev \in Nat /\ note.sup \in Nat /\ note.entity \in Keys
  BY <1>2 DEF Notes
<1> HIDE DEF hash, note
<1>6. \A op \in {"add", "revise", "rebind"}, b \in Nat, sup \in Nat :
        Record(op, n, note.rev, b, sup, note.entity, hash) \in Records
  BY <1>2, <1>4, <1>5 DEF Record, Records
<1>7. \/ r = Record("add", n, note.rev, 0, note.sup, note.entity, hash)
      \/ /\ n \in DOMAIN base.notes
         /\ r = Record("revise", n, note.rev, base.notes[n].rev, note.sup, note.entity, hash)
      \/ r = Record("rebind", n, note.rev, note.rev, 0, note.entity, hash)
  BY <1>1 DEF TellsOf, hash, note
<1> QED
  BY <1>3, <1>5, <1>6, <1>7

-----------------------------------------------------------------------------
(* The invariant, step by step.                                            *)

LEMMA NoGrowth ==
    ASSUME IsHistory(objects), UNCHANGED objects
    PROVE  Grown
<1>1. Len(objects) \in Nat /\ DOMAIN objects = 1..Len(objects)
  BY DEF IsHistory
<1> QED
  BY <1>1 DEF Grown

LEMMA InitIInv == Init => IInv
<1> SUFFICES ASSUME Init
             PROVE  IInv
  OBVIOUS
<1>1. PICK h \in Histories :
        /\ objects = h.objects /\ ref = Len(h.objects) /\ revs = h.revs
        /\ author = [tip |-> ref, source |-> objects[ref].source,
                     notes |-> objects[ref].notes]
  BY DEF Init
<1>2. IsHistory(objects) /\ objects # <<>> /\ revs \in 0..MaxRevs
  BY <1>1, CandidateLandingAssumption
<1>3. ref \in DOMAIN objects
  BY <1>1, <1>2 DEF IsHistory
<1>4. Typed
  BY <1>1, <1>2, <1>3 DEF Typed, AuthorOK, IsHistory, IsSnapshot, Init
<1>5. CandidateOK
  BY <1>2 DEF Init, NoDelta, CandidateOK, ValidDelta, IsHistory
<1>6. Staged /\ PlansOK
  BY DEF Init, NoSession, NotLanded, Staged, PlansOK, FinalPlanOK, SessionOK, ViewsOK,
         LandedOK
<1> QED
  BY <1>4, <1>5, <1>6 DEF IInv

\* The author's own steps touch nothing but the clone.
LEMMA AuthorKeeps ==
    ASSUME IInv, NEW notes, IsNotes(notes), DOMAIN author.notes \subseteq DOMAIN notes,
           Author(notes), revs' \in 0..MaxRevs
    PROVE  IInv'
<1>1. /\ merged = None /\ author' = [author EXCEPT !.notes = notes]
      /\ UNCHANGED <<objects, ref, candidate, merged, plan, session, view, landed>>
  BY DEF Author
<1>2. Typed'
  <2>1. /\ author'.tip = author.tip /\ author'.source = author.source
        /\ author'.notes = notes
        /\ author' = [tip |-> author'.tip, source |-> author'.source,
                      notes |-> author'.notes]
    BY <1>1 DEF IInv, Typed, AuthorOK
  <2> QED
    BY <1>1, <2>1 DEF IInv, Typed, AuthorOK
<1>3. PlansOK' /\ Staged'
  BY <1>1, NoPlans DEF IInv
<1>4. CandidateOK'
  BY <1>1, CandidateStays, NoGrowth DEF IInv, Typed
<1> QED
  BY <1>2, <1>3, <1>4 DEF IInv

LEMMA AddPendingNoteKeeps ==
    ASSUME IInv, NEW n \in NoteIds, NEW k \in Keys, AddPendingNote(n, k)
    PROVE  IInv'
<1> DEFINE x == Entry(revs + 1, 0, k, "active", author.source)
           notes == Overlay(author.notes, [m \in {n} |-> x])
<1>1. revs < MaxRevs /\ revs' = revs + 1 /\ Author(notes)
  BY DEF AddPendingNote, Written
<1>2. revs \in Nat /\ revs' \in 0..MaxRevs
  BY <1>1, CandidateLandingAssumption DEF IInv, Typed
<1>3. x \in Notes
  BY <1>2 DEF Entry, Notes, States, IInv, Typed, AuthorOK
<1> HIDE DEF x
<1>4. IsNotes(notes) /\ DOMAIN author.notes \subseteq DOMAIN notes
  BY <1>3, SingleNote, OverlayNotes DEF IInv, Typed, AuthorOK
<1> QED
  BY <1>1, <1>2, <1>4, AuthorKeeps

LEMMA ReviseNoteKeeps ==
    ASSUME IInv, NEW n \in NoteIds, ReviseNote(n)
    PROVE  IInv'
<1> DEFINE note == author.notes[n]
           x == Entry(revs + 1, note.rev, note.entity, "active", author.source)
           notes == Overlay(author.notes, [m \in {n} |-> x])
<1>1. revs < MaxRevs /\ revs' = revs + 1 /\ Author(notes)
  BY DEF ReviseNote, Written
<1>2. revs \in Nat /\ revs' \in 0..MaxRevs
  BY <1>1, CandidateLandingAssumption DEF IInv, Typed
<1>3. note.rev \in Nat /\ note.entity \in Keys
  <2>1. n \in DOMAIN author.notes /\ IsNotes(author.notes)
    BY DEF ReviseNote, IInv, Typed, AuthorOK
  <2>2. note \in Notes
    BY <2>1 DEF IsNotes
  <2> QED
    BY <2>2 DEF Notes
<1>4. x \in Notes
  BY <1>2, <1>3 DEF Entry, Notes, States, IInv, Typed, AuthorOK
<1> HIDE DEF x
<1>5. IsNotes(notes) /\ DOMAIN author.notes \subseteq DOMAIN notes
  BY <1>4, SingleNote, OverlayNotes DEF IInv, Typed, AuthorOK
<1> QED
  BY <1>1, <1>2, <1>5, AuthorKeeps

LEMMA ReviewNoteKeeps ==
    ASSUME IInv, NEW n \in NoteIds, NEW k \in Keys, ReviewNote(n, k)
    PROVE  IInv'
<1> DEFINE x == Rebound(author.notes[n], k, "active", author.source)
           notes == Overlay(author.notes, [m \in {n} |-> x])
<1>1. n \in DOMAIN author.notes /\ revs' = revs /\ Author(notes)
  BY DEF ReviewNote
<1>2. /\ revs' \in 0..MaxRevs /\ author.source \in Sources /\ IsNotes(author.notes)
      /\ author.notes[n] \in Notes
  BY <1>1 DEF IInv, Typed, AuthorOK, IsNotes
<1>3. x \in Notes
  BY <1>2, ReboundNote DEF States
<1> HIDE DEF x
<1>4. IsNotes(notes) /\ DOMAIN author.notes \subseteq DOMAIN notes
  BY <1>2, <1>3, SingleNote, OverlayNotes
<1> QED
  BY <1>1, <1>2, <1>4, AuthorKeeps

LEMMA UpdateToKeeps ==
    ASSUME IInv, NEW s \in Sources, UpdateTo(s)
    PROVE  IInv'
<1> DEFINE notes == [n \in DOMAIN author.notes |->
                       Reconcile(author.notes[n],
                                 HashAt(author.source, author.notes[n].entity), Tree[s], s)]
<1>1. /\ merged = None
      /\ author' = [author EXCEPT !.source = s, !.notes = notes]
      /\ UNCHANGED <<objects, ref, revs, candidate, merged, plan, session, view, landed>>
  BY DEF UpdateTo, IInv, Typed, AuthorOK
<1>2. IsNotes(author.notes)
  BY DEF IInv, Typed, AuthorOK
<1>3. ASSUME NEW n \in DOMAIN author.notes
      PROVE  notes[n] \in Notes
  <2>1. author.notes[n] \in Notes
    BY <1>2 DEF IsNotes
  <2> QED
    BY <2>1, ReconciledNote
<1>4. IsNotes(notes) /\ DOMAIN notes = DOMAIN author.notes
  BY <1>2, <1>3 DEF IsNotes
<1> HIDE DEF notes
<1>5. Typed'
  <2>1. /\ author'.tip = author.tip /\ author'.source = s /\ author'.notes = notes
        /\ author' = [tip |-> author'.tip, source |-> author'.source,
                      notes |-> author'.notes]
    BY <1>1 DEF IInv, Typed, AuthorOK
  <2> QED
    BY <1>1, <1>4, <2>1 DEF IInv, Typed, AuthorOK
<1>6. PlansOK' /\ Staged'
  BY <1>1, NoPlans DEF IInv
<1>7. CandidateOK'
  BY <1>1, CandidateStays, NoGrowth DEF IInv, Typed
<1> QED
  BY <1>5, <1>6, <1>7 DEF IInv

\* A snapshot that is written leaves the others as they were.
LEMMA AppendGrows ==
    ASSUME IsHistory(objects), NEW x, IsSnapshot(x), x.parents \in Seq(1..Len(objects)),
           objects' = Append(objects, x)
    PROVE  /\ Grown /\ Len(objects') = Len(objects) + 1
           /\ Len(objects) + 1 \in DOMAIN objects' /\ objects'[Len(objects) + 1] = x
<1>1. /\ IsHistory(objects') /\ Len(objects') = Len(objects) + 1 /\ Len(objects) \in Nat
      /\ \A i \in 1..Len(objects) : objects'[i] = objects[i]
      /\ objects'[Len(objects) + 1] = x
  BY Appended
<1>2. DOMAIN objects = 1..Len(objects) /\ DOMAIN objects' = 1..Len(objects')
  BY <1>1 DEF IsHistory
<1> QED
  BY <1>1, <1>2 DEF Grown

LEMMA CommitKeeps ==
    ASSUME IInv, Commit
    PROVE  IInv'
<1> DEFINE x == Object(<<author.tip>>, author.source, author.notes)
<1>1. /\ merged = None /\ objects' = Append(objects, x)
      /\ author' = [author EXCEPT !.tip = Len(objects) + 1]
      /\ UNCHANGED <<ref, revs, candidate, merged, plan, session, view, landed>>
  BY DEF Commit
<1>2. /\ author = [tip |-> author.tip, source |-> author.source, notes |-> author.notes]
      /\ author.tip \in 1..Len(objects) /\ author.source \in Sources
      /\ IsNotes(author.notes) /\ IsHistory(objects)
  BY DEF IInv, Typed, AuthorOK, IsHistory
<1>3. IsSnapshot(x) /\ x.parents \in Seq(1..Len(objects)) /\ x.notes = author.notes
  <2>1. x.parents = <<author.tip>> /\ x.source = author.source /\ x.notes = author.notes
    BY DEF Object
  <2>2. x = Object(x.parents, x.source, x.notes)
    BY <2>1
  <2> HIDE DEF x
  <2> QED
    BY <1>2, <2>1, <2>2 DEF IsSnapshot
<1> HIDE DEF x
<1>4. /\ Grown /\ Len(objects) + 1 \in DOMAIN objects'
      /\ objects'[Len(objects) + 1] = x
  BY <1>1, <1>2, <1>3, AppendGrows
<1>5. Typed'
  <2>1. /\ author'.tip = Len(objects) + 1 /\ author'.source = author.source
        /\ author'.notes = author.notes
        /\ author' = [tip |-> author'.tip, source |-> author'.source,
                      notes |-> author'.notes]
    BY <1>1, <1>2
  <2>2. ref \in DOMAIN objects'
    BY <1>4 DEF Grown, IInv, Typed
  <2>3. AuthorOK'
    BY <1>2, <1>3, <1>4, <2>1 DEF AuthorOK
  <2> QED
    BY <1>1, <1>4, <2>2, <2>3 DEF IInv, Typed, Grown
<1>6. PlansOK' /\ Staged'
  BY <1>1, NoPlans DEF IInv
<1>7. CandidateOK'
  BY <1>1, <1>4, CandidateStays DEF IInv
<1> QED
  BY <1>5, <1>6, <1>7 DEF IInv

LEMMA PublishCandidateKeeps ==
    ASSUME IInv, PublishCandidate
    PROVE  IInv'
<1> DEFINE base == objects[ref]
           tip == objects[author.tip]
<1>1. /\ merged = None /\ UNCHANGED <<objects, ref, author, revs, merged, plan, session,
                                      view, landed>>
      /\ \A n \in Changed(base, tip) : Evidence(base, tip, tip.notes[n].entity) # {}
      /\ ValidDelta(Delta(base, tip))
      /\ candidate' = [base |-> ref, tip |-> author.tip, records |-> Delta(base, tip)]
  BY DEF PublishCandidate
<1>2. /\ IsHistory(objects) /\ ref \in 1..Len(objects) /\ author.tip \in 1..Len(objects)
      /\ Len(objects) \in Nat
      /\ IsSnapshot(base) /\ IsSnapshot(tip)
  BY DEF IInv, Typed, AuthorOK, IsHistory
<1>3. Delta(base, tip) \subseteq Records
  <2>1. PICK b, o : b = base /\ o = tip
    OBVIOUS
  <2> QED
    BY <1>1, <1>2, <2>1, DeltaIsTyped
<1>4. CandidateOK'
  <2>1. /\ candidate'.base = ref /\ candidate'.tip = author.tip
        /\ candidate'.records = Delta(base, tip)
        /\ Delta(base, tip) = Delta(objects'[candidate'.base], objects'[candidate'.tip])
    BY <1>1
  <2>2. (candidate.tip # 0 =>
           /\ candidate.base # 0
           /\ candidate.records = Delta(objects[candidate.base], objects[candidate.tip]))'
    BY <1>1, <1>2, <2>1
  <2>3. ValidDelta(candidate.records)'
    BY <1>1, <2>1
  <2> HIDE DEF base, tip
  <2> QED
    BY <1>1, <1>2, <1>3, <2>1, <2>2, <2>3 DEF CandidateOK
<1>5. PlansOK' /\ Staged'
  BY <1>1, NoPlans DEF IInv
<1>6. Typed'
  BY <1>1 DEF IInv, Typed, AuthorOK
<1> QED
  BY <1>4, <1>5, <1>6 DEF IInv

LEMMA PublishForeignKeeps ==
    ASSUME IInv, PublishForeign
    PROVE  IInv'
<1>1. PICK records \in Foreign :
        /\ ValidDelta(records)
        /\ candidate' = [base |-> ref, tip |-> 0, records |-> records]
        /\ merged = None /\ UNCHANGED <<objects, ref, author, revs, merged, plan, session,
                                        view, landed>>
  BY DEF PublishForeign
<1>2. records \subseteq Records
  BY CandidateLandingAssumption
<1>3. ref \in 1..Len(objects) /\ Len(objects) \in Nat
  BY DEF IInv, Typed, IsHistory
<1>4. CandidateOK'
  <2>1. /\ candidate'.base = ref /\ candidate'.tip = 0 /\ candidate'.records = records
        /\ ValidDelta(candidate.records)'
    BY <1>1
  <2> QED
    BY <1>1, <1>2, <1>3, <2>1 DEF CandidateOK
<1>5. PlansOK' /\ Staged'
  BY <1>1, NoPlans DEF IInv
<1>6. Typed'
  BY <1>1 DEF IInv, Typed, AuthorOK
<1> QED
  BY <1>4, <1>5, <1>6 DEF IInv

LEMMA MergeChangeKeeps ==
    ASSUME IInv, NEW s \in Sources, MergeChange(s)
    PROVE  IInv'
<1>1. /\ merged = None /\ merged' = s
      /\ UNCHANGED <<objects, ref, author, revs, candidate, plan, session, view, landed>>
  BY DEF MergeChange
<1>2. PlansOK' /\ Staged'
  BY <1>1, NoPlans DEF IInv
<1>3. CandidateOK'
  BY <1>1, CandidateStays, NoGrowth DEF IInv, Typed
<1>4. Typed'
  BY <1>1 DEF IInv, Typed, AuthorOK
<1> QED
  BY <1>2, <1>3, <1>4 DEF IInv

LEMMA PushElsewhereKeeps ==
    ASSUME IInv, PushElsewhere
    PROVE  IInv'
<1>1. PICK n \in DOMAIN objects[ref].notes :
        /\ revs < MaxRevs /\ revs' = revs + 1
        /\ objects' = Append(objects,
             Object(<<ref>>, objects[ref].notes[n].src,
                    Overlay(objects[ref].notes, [m \in {n} |->
                      Entry(revs + 1, objects[ref].notes[n].rev,
                            objects[ref].notes[n].entity, "active",
                            objects[ref].notes[n].src)])))
        /\ ref' = Len(objects) + 1
        /\ UNCHANGED <<author, candidate, merged, plan, session, view, landed>>
  BY DEF PushElsewhere
<1> DEFINE old == objects[ref].notes
           note == old[n]
           x == Entry(revs + 1, note.rev, note.entity, "active", note.src)
           notes == Overlay(old, [m \in {n} |-> x])
           o == Object(<<ref>>, note.src, notes)
<1>2. /\ IsHistory(objects) /\ ref \in 1..Len(objects) /\ IsNotes(old)
      /\ Len(objects) \in Nat
  BY DEF IInv, Typed, IsHistory, IsSnapshot
<1>3. n \in NoteIds /\ note \in Notes
  BY <1>2 DEF IsNotes
<1>4. revs \in Nat /\ revs' \in 0..MaxRevs
  BY <1>1, CandidateLandingAssumption DEF IInv, Typed
<1>5. x \in Notes
  BY <1>3, <1>4 DEF Entry, Notes, States
<1> HIDE DEF x
<1>6. IsNotes(notes)
  BY <1>2, <1>3, <1>5, SingleNote, OverlayNotes
<1>7. objects' = Append(objects, o) /\ note.src \in Sources
  BY <1>1, <1>3 DEF x, Notes
<1> HIDE DEF notes
<1>8. IsSnapshot(o) /\ o.parents \in Seq(1..Len(objects))
  <2>1. o.parents = <<ref>> /\ o.source = note.src /\ o.notes = notes
    BY DEF Object
  <2>2. o = Object(o.parents, o.source, o.notes)
    BY <2>1
  <2> HIDE DEF o, note
  <2> QED
    BY <1>2, <1>6, <1>7, <2>1, <2>2 DEF IsSnapshot
<1> HIDE DEF o, note
<1>9. Grown /\ Len(objects) + 1 \in DOMAIN objects'
  BY <1>2, <1>7, <1>8, AppendGrows
<1>10. Typed'
  <2>1. AuthorOK'
    <3>1. AuthorOK /\ author' = author
      BY <1>1 DEF IInv, Typed
    <3> QED
      BY <1>9, <3>1 DEF AuthorOK, Grown
  <2> QED
    BY <1>1, <1>4, <1>9, <2>1 DEF IInv, Typed, Grown
<1>11. CandidateOK'
  BY <1>1, <1>9, CandidateStays DEF IInv
<1>12. PlansOK'
  BY <1>1, <1>9, PlansStay DEF IInv, PlansOK
<1>13. Staged'
  BY <1>1 DEF IInv, Staged
<1> QED
  BY <1>10, <1>11, <1>12, <1>13 DEF IInv

\* What a step leaves alone, when the history stays as it is.
LEMMA SameHistory ==
    ASSUME IInv, UNCHANGED <<objects, ref, author, candidate, merged>>,
           revs' \in 0..MaxRevs
    PROVE  /\ Typed' /\ CandidateOK' /\ Grown
           /\ UNCHANGED plan => FinalPlanOK'
           /\ UNCHANGED session => SessionOK'
           /\ UNCHANGED view => ViewsOK'
           /\ UNCHANGED landed => LandedOK'
<1>1. Grown
  BY NoGrowth DEF IInv, Typed
<1>2. Typed'
  BY DEF IInv, Typed, AuthorOK
<1> QED
  BY <1>1, <1>2, CandidateStays, PlansStay DEF IInv

LEMMA PlanFinalKeeps ==
    ASSUME IInv, PlanFinal
    PROVE  IInv'
<1>1. /\ merged # None /\ plan' = PlanLanding(ref, merged, candidate.records)
      /\ UNCHANGED <<objects, ref, author, revs, candidate, merged, session, view, landed>>
  BY DEF PlanFinal
<1>2. plan'.base = ref
  <2>1. PICK b, s, records : b = ref /\ s = merged /\ records = candidate.records
    OBVIOUS
  <2> QED
    BY <1>1, <2>1, PlanOf DEF IInv, CandidateOK
<1>3. /\ Typed' /\ CandidateOK' /\ SessionOK' /\ ViewsOK' /\ LandedOK'
  BY <1>1, SameHistory DEF IInv, Typed
<1>4. ref \in DOMAIN objects
  BY DEF IInv, Typed
<1>5. FinalPlanOK'
  <2>1. PlanLanding(ref, merged, candidate.records)' = PlanLanding(ref, merged, candidate.records)
    BY <1>1 DEF PlanLanding
  <2>2. PlanLanding(plan.base, merged, candidate.records)' = plan'
    <3>1. PICK b : b = plan'.base
      OBVIOUS
    <3>2. PlanLanding(b, merged, candidate.records)' = PlanLanding(b, merged, candidate.records)
      BY <1>1, <1>2, <1>4, <3>1, NoGrowth, StaysPlanned DEF IInv, Typed
    <3> QED
      BY <1>1, <1>2, <3>1, <3>2
  <2> QED
    BY <1>1, <1>2, <1>4, <2>2 DEF FinalPlanOK
<1>6. Staged'
  BY <1>1 DEF Staged
<1> QED
  BY <1>3, <1>5, <1>6 DEF IInv, PlansOK

\* The snapshot of a faithful plan lands.
LEMMA LandingKeeps ==
    ASSUME IInv, merged # None, NEW p, NEW by, Faithful(p, by),
           objects' = Append(objects, Snapshot(p)),
           landed' = [id |-> Len(objects) + 1, plan |-> p, by |-> by],
           ref' \in {ref, Len(objects) + 1},
           UNCHANGED <<author, revs, candidate, merged, plan, session, view>>
    PROVE  IInv'
<1> DEFINE o == Snapshot(p)
<1>1. /\ IsHistory(objects) /\ Len(objects) \in Nat /\ DOMAIN objects = 1..Len(objects)
      /\ merged \in Sources
  BY DEF IInv, Typed, IsHistory
<1>2. IsNotes(p.notes) /\ p.source = merged /\ p.base \in 1..Len(objects)
  BY <1>1 DEF Faithful, IsPlan
<1>3. IsSnapshot(o) /\ o.parents \in Seq(1..Len(objects)) /\ o.notes = p.notes
  <2>1. o.parents = <<p.base>> /\ o.source = p.source /\ o.notes = p.notes
    BY DEF Snapshot, Object
  <2>2. o = Object(o.parents, o.source, o.notes)
    BY <2>1 DEF Snapshot
  <2> HIDE DEF o
  <2> QED
    BY <1>1, <1>2, <2>1, <2>2 DEF IsSnapshot
<1> HIDE DEF o
<1>4. /\ Grown /\ Len(objects) + 1 \in DOMAIN objects'
      /\ objects'[Len(objects) + 1] = o
  <2>1. objects' = Append(objects, o)
    BY DEF o
  <2> QED
    BY <1>1, <1>3, <2>1, AppendGrows
<1>5. Typed'
  <2>1. AuthorOK'
    BY <1>4 DEF IInv, Typed, AuthorOK, Grown
  <2> QED
    BY <1>4, <2>1 DEF IInv, Typed, Grown
<1>6. CandidateOK'
  BY <1>4, CandidateStays DEF IInv
<1>7. FinalPlanOK' /\ SessionOK' /\ ViewsOK'
  BY <1>4, PlansStay DEF IInv
<1>8. LandedOK'
  <2>1. Faithful(p, by)'
    BY <1>4, StaysFaithful
  <2>2. landed'.plan = p /\ landed'.by = by /\ landed'.id = Len(objects) + 1
    OBVIOUS
  <2> QED
    BY <1>3, <1>4, <2>1, <2>2 DEF LandedOK
<1>9. Staged'
  BY DEF Staged
<1> QED
  BY <1>5, <1>6, <1>7, <1>8, <1>9 DEF IInv, PlansOK

LEMMA LandAutomaticallyKeeps ==
    ASSUME IInv, LandAutomatically
    PROVE  IInv'
<1>1. plan # None /\ merged # None
  BY DEF LandAutomatically, IInv, Staged
<1>2. UNCHANGED <<author, revs, candidate, merged, session, view>>
  BY DEF LandAutomatically
<1>3. CASE plan.base = ref
  <2>1. PICK p : p = plan
    OBVIOUS
  <2>2. Faithful(p, "coordinator")
    <3>1. PICK b : b = plan.base
      OBVIOUS
    <3>2. /\ p = PlanLanding(b, merged, candidate.records) /\ b \in DOMAIN objects
          /\ IsHistory(objects) /\ merged \in Sources
      BY <1>1, <2>1, <3>1 DEF IInv, PlansOK, FinalPlanOK, Typed
    <3> QED
      BY <3>2, PlanIsFaithful DEF IInv, CandidateOK
  <2>3. /\ objects' = Append(objects, Snapshot(p)) /\ ref' = Len(objects) + 1
        /\ landed' = [id |-> Len(objects) + 1, plan |-> p, by |-> "coordinator"]
        /\ UNCHANGED plan
    BY <1>3, <2>1 DEF LandAutomatically
  <2> QED
    BY <1>1, <1>2, <2>2, <2>3, LandingKeeps
<1>4. CASE plan.base # ref
  <2>1. plan' = None /\ UNCHANGED <<objects, ref, landed>>
    BY <1>4 DEF LandAutomatically
  <2>2. Typed' /\ CandidateOK' /\ SessionOK' /\ ViewsOK' /\ LandedOK'
    BY <1>2, <2>1, SameHistory DEF IInv, Typed
  <2>3. FinalPlanOK'
    BY <2>1 DEF FinalPlanOK
  <2>4. Staged'
    BY <1>1, <1>2 DEF Staged
  <2> QED
    BY <2>2, <2>3, <2>4 DEF IInv, PlansOK
<1> QED
  BY <1>3, <1>4

\* RecoverLanding plans again on the current version.
LEMMA RecoverLandingKeeps ==
    ASSUME IInv, RecoverLanding
    PROVE  IInv'
<1>0. PICK q, missing :
        /\ missing \subseteq {None} /\ IsPlanRecord(q)
        /\ q = LET p == PlanLanding(ref, merged, candidate.records) IN
               [base |-> p.base, source |-> p.source, notes |-> p.notes,
                conflicts |-> p.conflicts \union missing]
        /\ session' = [version |-> 1, plan |-> q]
  BY Recovered
<1>1. /\ plan # None /\ session' = [version |-> 1, plan |-> q]
      /\ UNCHANGED <<objects, ref, author, revs, candidate, merged, plan, view, landed>>
  BY <1>0 DEF RecoverLanding
<1>2. merged # None /\ merged \in Sources /\ ref \in DOMAIN objects /\ IsHistory(objects)
  BY <1>1 DEF IInv, Staged, Typed
<1>3. Faithful(q, "client")
  <2>1. PICK b : b = ref
    OBVIOUS
  <2>2. PICK p : p = PlanLanding(b, merged, candidate.records)
    OBVIOUS
  <2>3. Faithful(p, "client")
    BY <1>2, <2>1, <2>2, PlanIsFaithful DEF IInv, CandidateOK
  <2>4. q = [base |-> p.base, source |-> p.source, notes |-> p.notes,
             conflicts |-> p.conflicts \union missing]
    BY <1>0, <2>1, <2>2
  <2>5. candidate.records \subseteq Records
    BY DEF IInv, CandidateOK
  <2> QED
    BY <1>0, <2>3, <2>4, <2>5, WidenedIsFaithful
<1>4. Typed' /\ CandidateOK' /\ FinalPlanOK' /\ ViewsOK' /\ LandedOK' /\ Grown
  BY <1>1, SameHistory DEF IInv, Typed
<1>5. SessionOK'
  <2>1. PICK p : p = q
    OBVIOUS
  <2>2. Faithful(p, "client")'
    BY <1>1, <1>3, <1>4, <2>1, StaysFaithful
  <2>3. session'.plan = p
    BY <1>1, <2>1
  <2> QED
    BY <2>2, <2>3 DEF SessionOK
<1>6. Staged'
  BY <1>1, <1>2 DEF Staged
<1> QED
  BY <1>4, <1>5, <1>6 DEF IInv, PlansOK

LEMMA ReadSessionKeeps ==
    ASSUME IInv, ReadIsCurrent, NEW t \in Terminals, ReadSession(t)
    PROVE  IInv'
<1>1. /\ session.version # 0 /\ view' = [view EXCEPT ![t] = session]
      /\ UNCHANGED <<objects, ref, author, revs, candidate, merged, plan, session, landed>>
  BY DEF ReadSession
<1>2. \A u \in Terminals : view'[u] \in {view[u], session}
  BY <1>1 DEF ReadIsCurrent
<1>3. /\ Typed' /\ CandidateOK' /\ FinalPlanOK' /\ SessionOK' /\ LandedOK' /\ Grown
  BY <1>1, SameHistory DEF IInv, Typed
<1>4. ViewsOK'
  <2>1. ASSUME NEW u \in Terminals, view'[u].version # 0
        PROVE  Faithful(view[u].plan, "client")'
    <3>1. PICK p : p = view'[u].plan
      OBVIOUS
    <3>2. Faithful(p, "client")
      BY <1>2, <2>1, <3>1 DEF IInv, PlansOK, SessionOK, ViewsOK
    <3>3. Faithful(p, "client")'
      BY <1>1, <1>3, <3>2, StaysFaithful
    <3> QED
      BY <3>1, <3>3
  <2> QED
    BY <2>1 DEF ViewsOK
<1>5. Staged'
  BY <1>1 DEF IInv, Staged
<1> QED
  BY <1>3, <1>4, <1>5 DEF IInv, PlansOK

LEMMA CommitLandingKeeps ==
    ASSUME IInv, NEW t \in Terminals, CommitLanding(t)
    PROVE  IInv'
<1>1. PICK p : p = view[t].plan
  OBVIOUS
<1>2. /\ view[t].version # 0 /\ objects' = Append(objects, Snapshot(p))
      /\ landed' = [id |-> Len(objects) + 1, plan |-> p, by |-> "client"]
      /\ UNCHANGED <<ref, author, revs, candidate, merged, plan, session, view>>
  BY <1>1 DEF CommitLanding
<1>3. Faithful(p, "client") /\ merged # None
  BY <1>1, <1>2 DEF IInv, PlansOK, ViewsOK, Staged
<1> QED
  BY <1>2, <1>3, LandingKeeps

\* An update of the session is a resolution of the plan that was read.
LEMMA UpdateKeeps ==
    ASSUME IInv, NEW t \in Terminals, view[t].version # 0,
           NEW n \in view[t].plan.conflicts, NEW notes,
           IsNotes(notes), DOMAIN notes \subseteq {n},
           n \in DOMAIN notes =>
             \/ \E r \in candidate.records : r.note = n /\ notes[n].rev = r.rev
             \/ notes[n] \in Authored,
           UpdateSession(t, Resolved(view[t].plan, n, notes)),
           UNCHANGED <<objects, ref, author, candidate, merged>>,
           revs' \in 0..MaxRevs
    PROVE  SessionOK'
<1>1. PICK p : p = view[t].plan
  OBVIOUS
<1>2. PICK q : q = Resolved(p, n, notes)
  OBVIOUS
<1>3. Faithful(p, "client")
  BY <1>1 DEF IInv, PlansOK, ViewsOK
<1>4. Faithful(q, "client")
  BY <1>1, <1>2, <1>3, ResolvedIsFaithful DEF IInv, CandidateOK
<1>5. Grown /\ (UNCHANGED session => SessionOK')
  BY SameHistory
<1>6. Faithful(q, "client")'
  BY <1>4, <1>5, StaysFaithful
<1>7. CASE session.version = view[t].version
  <2>1. session'.plan = q
    BY <1>1, <1>2, <1>7 DEF UpdateSession
  <2> QED
    BY <1>6, <2>1 DEF SessionOK
<1>8. CASE session.version # view[t].version
  BY <1>5, <1>8 DEF UpdateSession
<1> QED
  BY <1>7, <1>8

LEMMA ResolveLandingKeeps ==
    ASSUME IInv, ReadIsCurrent, NEW t \in Terminals, NEW n \in NoteIds \union {None},
           ResolveLanding(t, n)
    PROVE  IInv'
<1> DEFINE p == view[t].plan
           none == [m \in {} |-> None]
           chosen(x) == [m \in {n} |-> x]
<1>1. /\ view[t].version # 0 /\ n \in p.conflicts
      /\ \/ UpdateSession(t, Resolved(p, n, none))
         \/ \E r \in candidate.records :
              /\ r.note = n
              /\ UpdateSession(t, Resolved(p, n, chosen(FromRecord(r, p.source))))
         \/ \E y \in Authored :
              n \in NoteIds /\ UpdateSession(t, Resolved(p, n, chosen(y)))
      /\ view' = [view EXCEPT ![t] = NoSession]
      /\ UNCHANGED <<objects, ref, author, revs, candidate, merged, plan, landed>>
  BY DEF ResolveLanding
<1>2. /\ Faithful(p, "client") /\ merged \in Sources
      /\ candidate.records \subseteq Records
  BY <1>1 DEF IInv, PlansOK, ViewsOK, Staged, Typed, CandidateOK
<1>3. p.source \in Sources
  BY <1>2 DEF Faithful, IsPlan
<1>4. IsNotes(none) /\ DOMAIN none \subseteq {n} /\ n \notin DOMAIN none
  BY DEF IsNotes
<1>5. ASSUME n \in NoteIds, NEW x \in Notes
      PROVE  /\ IsNotes(chosen(x)) /\ DOMAIN chosen(x) \subseteq {n}
             /\ chosen(x)[n] = x
  BY <1>5, SingleNote
<1>6. \A x : n \in DOMAIN chosen(x)
  OBVIOUS
<1>7. revs' \in 0..MaxRevs
  BY <1>1 DEF IInv, Typed
<1> HIDE DEF none, chosen
<1>10. SessionOK'
  <2>1. CASE UpdateSession(t, Resolved(p, n, none))
    BY <1>1, <1>4, <1>7, <2>1, UpdateKeeps
  <2>2. ASSUME NEW r \in candidate.records, r.note = n, NEW x, x = FromRecord(r, p.source),
               UpdateSession(t, Resolved(p, n, chosen(x)))
        PROVE  SessionOK'
    <3>1. r \in Records /\ n \in NoteIds
      BY <1>2, <2>2 DEF Records
    <3>2. x \in Notes /\ x.rev = r.rev
      BY <1>3, <2>2, <3>1, NoteOfRecord
    <3>3. /\ IsNotes(chosen(x)) /\ DOMAIN chosen(x) \subseteq {n}
          /\ chosen(x)[n].rev = r.rev
      BY <1>5, <3>1, <3>2
    <3> QED
      BY <1>1, <1>7, <2>2, <3>3, UpdateKeeps
  <2>3. ASSUME NEW y \in Authored, n \in NoteIds,
               UpdateSession(t, Resolved(p, n, chosen(y)))
        PROVE  SessionOK'
    <3>1. /\ IsNotes(chosen(y)) /\ DOMAIN chosen(y) \subseteq {n}
          /\ chosen(y)[n] \in Authored
      BY <1>5, <2>3, CandidateLandingAssumption
    <3> QED
      BY <1>1, <1>7, <2>3, <3>1, UpdateKeeps
  <2> QED
    BY <1>1, <2>1, <2>2, <2>3
<1> HIDE DEF p
<1>11. Typed' /\ CandidateOK' /\ Grown /\ FinalPlanOK' /\ LandedOK'
  BY <1>1, <1>7, SameHistory
<1>12. ViewsOK'
  <2>1. ASSUME NEW u \in Terminals, view'[u].version # 0
        PROVE  Faithful(view[u].plan, "client")'
    <3>1. view'[u] = view[u]
      BY <1>1, <2>1 DEF ReadIsCurrent, NoSession
    <3>2. PICK q : q = view[u].plan
      OBVIOUS
    <3>3. Faithful(q, "client")
      BY <2>1, <3>1, <3>2 DEF IInv, PlansOK, ViewsOK
    <3>4. Faithful(q, "client")'
      BY <1>1, <1>11, <3>3, StaysFaithful
    <3> QED
      BY <3>1, <3>2, <3>4
  <2> QED
    BY <2>1 DEF ViewsOK
<1>13. Staged'
  BY <1>1 DEF IInv, Staged
<1> QED
  BY <1>10, <1>11, <1>12, <1>13 DEF IInv, PlansOK

LEMMA NextKeeps == IInv /\ ReadIsCurrent /\ [Next]_vars => IInv'
<1> SUFFICES ASSUME IInv, ReadIsCurrent, [Next]_vars
             PROVE  IInv'
  OBVIOUS
<1>1. CASE UNCHANGED vars
  <2>1. UNCHANGED <<objects, ref, author, revs, candidate, merged, plan, session, view,
                    landed>>
    BY <1>1 DEF vars
  <2>2. Staged' /\ revs' \in 0..MaxRevs
    BY <2>1 DEF IInv, Staged, Typed
  <2> QED
    BY <2>1, <2>2, SameHistory DEF IInv, PlansOK
<1>2. ASSUME NEW n \in NoteIds, NEW k \in Keys, AddPendingNote(n, k) \/ ReviewNote(n, k)
      PROVE  IInv'
  BY <1>2, AddPendingNoteKeeps, ReviewNoteKeeps
<1>3. ASSUME NEW n \in NoteIds, ReviseNote(n)
      PROVE  IInv'
  BY <1>3, ReviseNoteKeeps
<1>4. ASSUME NEW s \in Sources, UpdateTo(s) \/ MergeChange(s)
      PROVE  IInv'
  BY <1>4, UpdateToKeeps, MergeChangeKeeps
<1>5. CASE Commit \/ PublishCandidate \/ PublishForeign \/ PushElsewhere
  BY <1>5, CommitKeeps, PublishCandidateKeeps, PublishForeignKeeps, PushElsewhereKeeps
<1>6. CASE PlanFinal \/ LandAutomatically \/ RecoverLanding
  BY <1>6, PlanFinalKeeps, LandAutomaticallyKeeps, RecoverLandingKeeps
<1>7. ASSUME NEW t \in Terminals, ReadSession(t) \/ CommitLanding(t)
      PROVE  IInv'
  BY <1>7, ReadSessionKeeps, CommitLandingKeeps
<1>8. ASSUME NEW t \in Terminals, NEW n \in NoteIds \union {None}, ResolveLanding(t, n)
      PROVE  IInv'
  BY <1>8, ResolveLandingKeeps
<1> QED
  BY <1>1, <1>2, <1>3, <1>4, <1>5, <1>6, <1>7, <1>8 DEF Next

\* In every reachable state the history is well formed, the candidate of the
\* author is the delta of two snapshots that stay, and each plan, of the
\* coordinator, of the session and of its readers, keeps what it must.
THEOREM Invariance == Spec => []IInv
  BY InitIInv, NextKeeps, SessionVersioning, PTL DEF Spec

\* TypeOK: snapshots, bindings, records and plans stay within their types,
\* whatever the planner reconciles, the author commits or a person writes.
THEOREM TypeCorrect == Spec => []TypeOK
<1>1. ASSUME IInv, ReadIsCurrent
      PROVE  TypeOK
  <2>1. plan # None => IsPlan(plan)
    <3>1. PICK p, b : p = plan /\ b = p.base
      OBVIOUS
    <3>2. p # None =>
            /\ p = PlanLanding(b, merged, candidate.records) /\ b \in DOMAIN objects
            /\ IsHistory(objects) /\ merged \in Sources
      BY <1>1, <3>1 DEF IInv, PlansOK, FinalPlanOK, Staged, Typed
    <3>3. p # None => Faithful(p, "client")
      BY <1>1, <3>2, PlanIsFaithful DEF IInv, CandidateOK
    <3> QED
      BY <3>1, <3>3 DEF Faithful
  <2>2. /\ session.version # 0 => IsPlan(session.plan)
        /\ \A t \in Terminals : view[t].version # 0 => IsPlan(view[t].plan)
        /\ landed.id # 0 => IsPlan(landed.plan) /\ landed.id \in DOMAIN objects
    BY <1>1 DEF IInv, PlansOK, SessionOK, ViewsOK, LandedOK, Faithful
  <2>3. /\ IsHistory(objects) /\ ref \in DOMAIN objects /\ author.tip \in DOMAIN objects
        /\ author.source \in Sources /\ IsNotes(author.notes)
        /\ revs \in 0..MaxRevs /\ merged \in Sources \union {None}
        /\ candidate.base \in 0..Len(objects) /\ candidate.records \subseteq Records
    BY <1>1 DEF IInv, Typed, AuthorOK, CandidateOK
  <2>4. session.version \in Nat
    BY <1>1 DEF ReadIsCurrent, IsSession
  <2> QED
    BY <2>1, <2>2, <2>3, <2>4 DEF TypeOK
<1> QED
  BY <1>1, Invariance, SessionVersioning, PTL

\* NothingIsLost: whoever lands a merged change, PlanLanding keeps each
\* canonical revision, applies each record that fits, and leaves the others to
\* a person, in whatever order the terminals resolved them.
THEOREM NothingGetsLost == Spec => []NothingIsLost
<1>1. IInv => NothingIsLost
  <2> SUFFICES ASSUME IInv, landed.id # 0
               PROVE  NothingIsLost
    BY DEF NothingIsLost
  <2>1. PICK p, by : p = landed.plan /\ by = landed.by
    OBVIOUS
  <2>2. Faithful(p, by) /\ objects[landed.id].notes = p.notes
    BY <2>1 DEF IInv, PlansOK, LandedOK
  <2> QED
    BY <2>1, <2>2 DEF Faithful, Told, NothingIsLost
<1> QED
  BY <1>1, Invariance, PTL

\* OwnCandidateLands: what buildCandidateContextDelta tells of the branch,
\* applyCandidateRecord accepts on the version it was built from, every record
\* of it, and the plan has the branch's revisions and, where the merge commit
\* declares them, the branch's entities.
THEOREM OwnCandidateIsAccepted == Spec => []OwnCandidateLands
<1>1. ASSUME IInv, plan # None, candidate.tip # 0, plan.base = candidate.base
      PROVE  LET tip == objects[candidate.tip] IN
             /\ plan.conflicts = {}
             /\ \A n \in DOMAIN tip.notes :
                  /\ plan.notes[n].rev = tip.notes[n].rev
                  /\ tip.notes[n].entity \in DOMAIN Tree[merged] =>
                       plan.notes[n].entity = tip.notes[n].entity
  <2>1. PICK b, s, records, base, tip :
          /\ b = plan.base /\ s = merged /\ records = candidate.records
          /\ base = objects[b] /\ tip = objects[candidate.tip]
    OBVIOUS
  <2>2. /\ IsHistory(objects) /\ b \in DOMAIN objects /\ s \in Sources
        /\ records = Delta(base, tip) /\ records \subseteq Records /\ ValidDelta(records)
        /\ plan = PlanLanding(b, s, records)
    BY <1>1, <2>1 DEF IInv, Typed, Staged, CandidateOK, PlansOK, FinalPlanOK
  <2>3. PICK p, notes : /\ p = plan /\ notes = CarriedNotes(b, s)
                        /\ Combines(p, notes, s, records)
    BY <2>2, PlanOf
  <2>4. /\ IsNotes(notes) /\ DOMAIN notes = DOMAIN base.notes
        /\ \A n \in DOMAIN base.notes :
             /\ notes[n].rev = base.notes[n].rev
             /\ base.notes[n].entity \in DOMAIN Tree[s] =>
                  notes[n].entity = base.notes[n].entity
    <3>1. base = objects[b] /\ notes = CarriedNotes(b, s)
      BY ONLY <2>1, <2>3
    <3> QED
      BY ONLY <2>2, <3>1, CarriedAreNotes
  <2>5. ASSUME NEW r \in records
        PROVE  /\ r.note \in DOMAIN tip.notes /\ Refusals(r, notes, s) = {}
               /\ Decided(r, notes, s).rev = tip.notes[r.note].rev
               /\ Decided(r, notes, s).entity = tip.notes[r.note].entity
    <3>1. TellsOf(r, base, tip)
      BY <2>2, DeltaTells
    <3>2. /\ r.note \in DOMAIN tip.notes /\ r.rev = tip.notes[r.note].rev
          /\ r.entity = tip.notes[r.note].entity
          /\ Fits(r, base.notes)
          /\ r.op = "rebind" => r.base = r.rev
      BY <3>1 DEF TellsOf, Record, Fits
    <3>3. r \in Records /\ ValidRecord(r)
      BY <2>2 DEF ValidDelta
    <3>4. Refusals(r, notes, s) = {}
      BY <2>1, <2>2, <2>3, <3>2, <3>3, FittingRecord
    <3>5. /\ Decided(r, notes, s).entity = r.entity
          /\ Decided(r, notes, s).rev = r.rev
      BY <2>2, <2>4, <3>2, <3>3, <3>4, DecidedNote
    <3> QED
      BY <3>2, <3>4, <3>5
  <2>6. p.conflicts = {}
    BY <2>3, <2>5 DEF Combines
  <2>7. ASSUME NEW n \in DOMAIN tip.notes
        PROVE  /\ p.notes[n].rev = tip.notes[n].rev
               /\ tip.notes[n].entity \in DOMAIN Tree[s] =>
                    p.notes[n].entity = tip.notes[n].entity
    <3>1. CASE \E r \in records : r.note = n
      <4>1. PICK r \in records : r.note = n
        BY <3>1
      <4>2. p.notes[n] = Decided(r, notes, s)
        BY <2>3, <2>6, <4>1 DEF Combines
      <4> QED
        BY <2>5, <4>1, <4>2
    <3>2. CASE ~\E r \in records : r.note = n
      <4>1. /\ n \in DOMAIN base.notes
            /\ tip.notes[n].rev = base.notes[n].rev
            /\ tip.notes[n].entity = base.notes[n].entity
        BY <2>2, <3>2, DeltaTells
      <4>2. p.notes[n] = notes[n]
        BY <2>3, <2>4, <3>2, <4>1 DEF Combines
      <4> QED
        BY <2>4, <4>1, <4>2
    <3> QED
      BY <3>1, <3>2
  <2> QED
    BY <2>1, <2>3, <2>6, <2>7
<1>2. IInv => OwnCandidateLands
  BY <1>1 DEF OwnCandidateLands
<1> QED
  BY <1>2, Invariance, PTL


-----------------------------------------------------------------------------
(* Chains: the ancestry of a snapshot, in the order it is loaded.          *)

\* What passes from all smaller numbers to the next one holds up to the bound.
LEMMA UpTo ==
    ASSUME NEW m \in Nat, NEW S,
           \A k \in 1..m : (\A j \in 1..(k - 1) : j \in S) => k \in S
    PROVE  \A k \in 1..m : k \in S
<1> SUFFICES ASSUME NEW k \in 1..m, k \notin S
             PROVE  FALSE
  OBVIOUS
<1> DEFINE T == {j \in 1..m : j \notin S}
           R == {ss \in Nat \X Nat : ss[1] < ss[2]}
<1>1. /\ T \in SUBSET Nat /\ T # {} /\ \A j \in T : j \in 1..m
      /\ \A j \in 1..m : j \in T <=> j \notin S
  OBVIOUS
<1>2. IsWellFoundedOn(R, Nat) /\ \A x, y \in Nat : <<x, y>> \in R <=> x < y
  BY NatLessThanWellFounded DEF OpToRel
<1> HIDE DEF T, R
<1>3. PICK x \in T : \A y \in T : <<y, x>> \notin R
  BY <1>1, <1>2, WFMin
<1>4. x \in 1..m
  BY <1>1
<1>5. ASSUME NEW j \in 1..(x - 1)
      PROVE  j \in S
  <2>1. j \in 1..m /\ j \in Nat /\ x \in Nat /\ j < x
    BY <1>4
  <2> QED
    BY <1>1, <1>2, <1>3, <2>1
<1> QED
  BY <1>1, <1>4, <1>5

\* A chain that satisfies its definition up to m.
Defines(objs, m, f) == f = [i \in 1..m |-> ChainOf(objs, f, i)]

\* The chain of a snapshot only depends on those of its parents.
LEMMA ChainOfParents ==
    ASSUME NEW objs, IsHistory(objs), NEW i \in DOMAIN objs, NEW f, NEW g,
           \A j \in 1..(i - 1) : f[j] = g[j]
    PROVE  ChainOf(objs, f, i) = ChainOf(objs, g, i)
<1>1. PICK ps : ps = objs[i].parents
  OBVIOUS
<1>2. ps \in Seq(1..(i - 1)) /\ Len(ps) \in Nat
  BY <1>1 DEF IsHistory
<1>3. \A k \in 1..Len(ps) : f[ps[k]] = g[ps[k]]
  <2> TAKE k \in 1..Len(ps)
  <2>1. ps[k] \in 1..(i - 1)
    BY ONLY <1>2, ElementOfSeq
  <2> QED
    BY <2>1
<1>4. CASE Len(ps) = 0
  BY <1>1, <1>4 DEF ChainOf
<1>5. CASE Len(ps) = 1
  <2>1. f[ps[1]] = g[ps[1]]
    BY <1>3, <1>5
  <2> QED
    BY <1>1, <1>5, <2>1 DEF ChainOf
<1>6. CASE Len(ps) # 0 /\ Len(ps) # 1
  <2>1. 1 \in 1..Len(ps) /\ 2 \in 1..Len(ps)
    <3>1. PICK m \in Nat : m = Len(ps)
      BY <1>2
    <3>2. m >= 2
      BY <1>6, <3>1
    <3> QED
      BY <3>1, <3>2
  <2>2. f[ps[1]] = g[ps[1]] /\ f[ps[2]] = g[ps[2]]
    BY <1>3, <2>1
  <2> QED
    BY <1>1, <1>6, <2>2 DEF ChainOf
<1> QED
  BY <1>4, <1>5, <1>6

LEMMA ChainsExist ==
    ASSUME NEW objs, IsHistory(objs)
    PROVE  \E f : Defines(objs, Len(objs), f)
<1>1. Len(objs) \in Nat /\ DOMAIN objs = 1..Len(objs)
  BY DEF IsHistory
<1> DEFINE S == {k \in 1..(Len(objs) + 1) : \E f : Defines(objs, k - 1, f)}
<1>2. ASSUME NEW k \in 1..(Len(objs) + 1), \A j \in 1..(k - 1) : j \in S
      PROVE  k \in S
  <2>1. CASE k = 1
    <3>1. Defines(objs, 0, [i \in 1..0 |-> 0])
      BY DEF Defines
    <3> QED
      BY <1>1, <2>1, <3>1
  <2>2. CASE k > 1
    <3>1. k - 1 \in 1..(k - 1)
      BY <1>1, <2>2
    <3>2. k - 1 \in S
      <4> HIDE DEF S
      <4> QED
        BY <1>2, <3>1
    <3>3. PICK f : Defines(objs, k - 2, f)
      <4>1. \E f : Defines(objs, k - 1 - 1, f)
        BY <3>2
      <4>2. k - 1 - 1 = k - 2
        BY <1>1
      <4> QED
        BY ONLY <4>1, <4>2
    <3> DEFINE g == [i \in 1..(k - 1) |-> IF i = k - 1 THEN ChainOf(objs, f, k - 1)
                                                       ELSE f[i]]
    <3>4. ASSUME NEW i \in 1..(k - 2)
          PROVE  g[i] = f[i] /\ f[i] = ChainOf(objs, f, i)
      <4>1. f = [j \in 1..(k - 2) |-> ChainOf(objs, f, j)]
        BY ONLY <3>3 DEF Defines
      <4>2. f[i] = ChainOf(objs, f, i)
        BY ONLY <4>1, i \in 1..(k - 2)
      <4>3. i \in 1..(k - 1) /\ i # k - 1
        BY <1>1, <2>2
      <4>4. g[i] = f[i]
        BY ONLY <4>3
      <4> QED
        BY ONLY <4>2, <4>4
    <3>5. g[k - 1] = ChainOf(objs, f, k - 1) /\ g = [i \in 1..(k - 1) |-> g[i]]
      BY <1>1, <2>2
    <3> HIDE DEF g
    <3>6. ASSUME NEW i \in 1..(k - 1)
          PROVE  g[i] = ChainOf(objs, g, i)
      <4>1. i \in DOMAIN objs
        BY <1>1, <2>2
      <4>2. \A j \in 1..(i - 1) : g[j] = f[j]
        BY <1>1, <2>2, <3>4
      <4>3. ChainOf(objs, g, i) = ChainOf(objs, f, i)
        BY ONLY IsHistory(objs), <4>1, <4>2, ChainOfParents
      <4>4. i = k - 1 \/ i \in 1..(k - 2)
        BY <1>1, <2>2
      <4> QED
        BY ONLY <3>4, <3>5, <4>3, <4>4
    <3>7. Defines(objs, k - 1, g)
      BY <3>5, <3>6 DEF Defines
    <3> QED
      BY <3>7
  <2> QED
    BY <1>1, <2>1, <2>2
<1>3. PICK m \in Nat : m = Len(objs) + 1
  BY <1>1
<1> HIDE DEF S
<1>4. \A k \in 1..m : k \in S
  <2>1. \A k \in 1..m : (\A j \in 1..(k - 1) : j \in S) => k \in S
    BY <1>2, <1>3
  <2> QED
    BY ONLY m \in Nat, <2>1, UpTo
<1>5. Len(objs) + 1 \in S
  BY <1>1, <1>3, <1>4
<1> QED
  BY <1>1, <1>5 DEF S

\* Every snapshot of a history has the chain its definition says.
LEMMA ChainsAreDefined ==
    ASSUME NEW objs, IsHistory(objs)
    PROVE  \A i \in DOMAIN objs : Chains(objs)[i] = ChainOf(objs, Chains(objs), i)
<1>1. DOMAIN objs = 1..Len(objs)
  BY DEF IsHistory
<1> DEFINE P(f) == f = [i \in DOMAIN objs |-> ChainOf(objs, f, i)]
<1>2. \E f : P(f)
  BY <1>1, ChainsExist DEF Defines
<1>3. Chains(objs) = CHOOSE f : P(f)
  BY DEF Chains
<1>4. P(Chains(objs))
  BY <1>2, <1>3
<1> QED
  BY <1>4

\* The first k members of a sequence, without the ones seen before.
Keep(s, seen, f, k) ==
    IF k = 0 THEN <<>>
    ELSE IF s[k] \in seen THEN f[k - 1] ELSE Append(f[k - 1], s[k])
Filters(s, seen, m, f) == f = [k \in 0..m |-> Keep(s, seen, f, k)]

LEMMA FiltersExist ==
    ASSUME NEW s, NEW seen, NEW m \in Nat
    PROVE  \E f : Filters(s, seen, m, f)
<1> DEFINE S == {k \in 1..(m + 1) : \E f : Filters(s, seen, k - 1, f)}
<1>1. ASSUME NEW k \in 1..(m + 1), \A j \in 1..(k - 1) : j \in S
      PROVE  k \in S
  <2>1. CASE k = 1
    <3> DEFINE g == [j \in 0..0 |-> <<>>]
    <3>1. g = [j \in 0..0 |-> Keep(s, seen, g, j)]
      BY DEF Keep
    <3>2. Filters(s, seen, 0, g)
      BY <3>1 DEF Filters
    <3> QED
      BY <2>1, <3>2
  <2>2. CASE k > 1
    <3>1. k - 1 \in 1..(k - 1)
      BY <2>2
    <3>2. k - 1 \in S
      <4> HIDE DEF S
      <4> QED
        BY <1>1, <3>1
    <3>3. PICK f : Filters(s, seen, k - 2, f)
      <4>1. \E f : Filters(s, seen, k - 1 - 1, f)
        BY <3>2
      <4>2. k - 1 - 1 = k - 2
        OBVIOUS
      <4> QED
        BY ONLY <4>1, <4>2
    <3> DEFINE g == [i \in 0..(k - 1) |-> IF i = k - 1 THEN Keep(s, seen, f, k - 1)
                                                        ELSE f[i]]
    <3>4. ASSUME NEW i \in 0..(k - 2)
          PROVE  g[i] = f[i] /\ f[i] = Keep(s, seen, f, i)
      <4>1. f = [j \in 0..(k - 2) |-> Keep(s, seen, f, j)]
        BY ONLY <3>3 DEF Filters
      <4>2. f[i] = Keep(s, seen, f, i)
        BY ONLY <4>1, i \in 0..(k - 2)
      <4>3. i \in 0..(k - 1) /\ i # k - 1
        BY <2>2
      <4>4. g[i] = f[i]
        BY ONLY <4>3
      <4> QED
        BY ONLY <4>2, <4>4
    <3>5. g[k - 1] = Keep(s, seen, f, k - 1) /\ g = [i \in 0..(k - 1) |-> g[i]]
      BY <2>2
    <3> HIDE DEF g
    <3>6. ASSUME NEW i \in 0..(k - 1)
          PROVE  g[i] = Keep(s, seen, g, i)
      <4>1. i # 0 => g[i - 1] = f[i - 1]
        BY <2>2, <3>4
      <4>2. Keep(s, seen, g, i) = Keep(s, seen, f, i)
        BY <4>1 DEF Keep
      <4>3. i = k - 1 \/ i \in 0..(k - 2)
        BY <2>2
      <4> QED
        BY ONLY <3>4, <3>5, <4>2, <4>3
    <3>7. Filters(s, seen, k - 1, g)
      BY <3>5, <3>6 DEF Filters
    <3> QED
      BY <3>7
  <2> QED
    BY <2>1, <2>2
<1>2. PICK n \in Nat : n = m + 1
  OBVIOUS
<1> HIDE DEF S
<1>3. \A k \in 1..n : (\A j \in 1..(k - 1) : j \in S) => k \in S
  BY <1>1, <1>2
<1>4. \A k \in 1..n : k \in S
  BY ONLY n \in Nat, <1>3, UpTo
<1>5. m + 1 \in S
  BY <1>2, <1>4
<1> QED
  BY <1>5 DEF S

\* What is left of a sequence is one.
LEMMA WithoutIsSeq ==
    ASSUME NEW S, NEW s \in Seq(S), NEW seen
    PROVE  Without(s, seen) \in Seq(S)
<1>1. Len(s) \in Nat /\ \A k \in 1..Len(s) : s[k] \in S
  BY ElementOfSeq
<1> DEFINE P(g) == g = [k \in 0..Len(s) |->
                          IF k = 0 THEN <<>>
                          ELSE IF s[k] \in seen THEN g[k - 1]
                               ELSE Append(g[k - 1], s[k])]
<1>2. \A g : P(g) <=> Filters(s, seen, Len(s), g)
  BY DEF Filters, Keep
<1>3. Without(s, seen) = (CHOOSE h : P(h))[Len(s)]
  BY DEF Without
<1> HIDE DEF P
<1>4. PICK g : Filters(s, seen, Len(s), g) /\ Without(s, seen) = g[Len(s)]
  <2>1. \E g : P(g)
    BY <1>1, <1>2, FiltersExist
  <2> QED
    BY <1>2, <1>3, <2>1
<1>5. \A k \in 0..Len(s) : g[k] = Keep(s, seen, g, k)
  BY <1>4 DEF Filters
<1> DEFINE T == {k \in 1..(Len(s) + 1) : g[k - 1] \in Seq(S)}
<1>6. ASSUME NEW k \in 1..(Len(s) + 1), \A j \in 1..(k - 1) : j \in T
      PROVE  k \in T
  <2>1. CASE k = 1
    <3>1. g[0] = <<>>
      BY <1>1, <1>5 DEF Keep
    <3>2. <<>> \in Seq(S)
      BY ONLY EmptySeq
    <3>3. g[k - 1] \in Seq(S)
      <4>1. k - 1 = 0
        BY <2>1
      <4> QED
        BY ONLY <3>1, <3>2, <4>1
    <3> QED
      BY <3>3
  <2>2. CASE k > 1
    <3>1. PICK m \in 1..Len(s) : m = k - 1
      BY <1>1, <2>2
    <3>2. m \in T
      <4>1. m \in 1..(k - 1)
        BY <1>1, <3>1
      <4> HIDE DEF T
      <4> QED
        BY ONLY <1>6, <4>1
    <3>3. PICK w \in Seq(S) : w = g[m - 1]
      BY <3>2
    <3>4. m # 0 /\ m \in 0..Len(s)
      BY <1>1
    <3>5. g[m] = w \/ g[m] = Append(w, s[m])
      BY <1>5, <3>3, <3>4 DEF Keep
    <3>6. PICK e \in S : e = s[m]
      BY <1>1
    <3>7. Append(w, e) \in Seq(S)
      BY ONLY w \in Seq(S), e \in S, AppendProperties
    <3>8. g[k - 1] \in Seq(S)
      BY ONLY w \in Seq(S), <3>1, <3>5, <3>6, <3>7
    <3> QED
      BY <3>8
  <2> QED
    BY <1>1, <2>1, <2>2
<1>7. PICK n \in Nat : n = Len(s) + 1
  BY <1>1
<1>8. Len(s) + 1 \in T
  <2> HIDE DEF T
  <2>1. \A k \in 1..n : (\A j \in 1..(k - 1) : j \in T) => k \in T
    BY <1>6, <1>7
  <2>2. \A k \in 1..n : k \in T
    BY ONLY n \in Nat, <2>1, UpTo
  <2> QED
    BY <1>1, <1>7, <2>2
<1> QED
  BY <1>1, <1>4, <1>8

\* A chain ends with its snapshot, after earlier ones.
EndsChain(objs, i) == \E s \in Seq(1..(i - 1)) : Chain(objs, i) = Append(s, i)

LEMMA ChainsEnd ==
    ASSUME NEW objs, IsHistory(objs)
    PROVE  \A i \in DOMAIN objs : EndsChain(objs, i)
<1>1. Len(objs) \in Nat /\ DOMAIN objs = 1..Len(objs)
  BY DEF IsHistory
<1> DEFINE S == {i \in 1..Len(objs) : EndsChain(objs, i)}
<1>2. ASSUME NEW i \in 1..Len(objs), \A j \in 1..(i - 1) : j \in S
      PROVE  i \in S
  <2>1. PICK c, ps : c = Chains(objs) /\ ps = objs[i].parents
    OBVIOUS
  <2> HIDE DEF S
  <2>2. i \in DOMAIN objs /\ i \in Nat
    BY <1>1
  <2>3. c[i] = ChainOf(objs, c, i)
    BY <2>1, <2>2, ChainsAreDefined
  <2>4. ps \in Seq(1..(i - 1)) /\ Len(ps) \in Nat
    BY <2>1, <2>2 DEF IsHistory
  <2>5. ASSUME NEW k \in 1..Len(ps)
        PROVE  c[ps[k]] \in Seq(1..(i - 1))
    <3>1. PICK j \in 1..(i - 1) : j = ps[k]
      BY ONLY <2>4, ElementOfSeq
    <3>2. EndsChain(objs, j)
      BY <1>2 DEF S
    <3>3. PICK s \in Seq(1..(j - 1)) : c[j] = Append(s, j)
      BY <2>1, <3>2 DEF EndsChain, Chain
    <3>4. 1..(j - 1) \subseteq 1..(i - 1)
      BY <2>2
    <3>5. s \in Seq(1..(i - 1))
      BY ONLY s \in Seq(1..(j - 1)), <3>4, SeqMonotonic
    <3> QED
      BY ONLY <3>1, <3>3, <3>5, j \in 1..(i - 1), AppendProperties
  <2>6. \E s \in Seq(1..(i - 1)) : c[i] = Append(s, i)
    <3>1. CASE Len(ps) = 0
      <4>1. c[i] = Append(<<>>, i)
        BY <2>1, <2>3, <3>1 DEF ChainOf
      <4>2. <<>> \in Seq(1..(i - 1))
        BY ONLY EmptySeq
      <4> QED
        BY ONLY <4>1, <4>2
    <3>2. CASE Len(ps) = 1
      <4>1. ChainOf(objs, c, i) = Append(c[ps[1]], i)
        BY ONLY <2>1, <3>2 DEF ChainOf
      <4>2. 1 \in 1..Len(ps)
        BY ONLY <3>2
      <4>3. c[ps[1]] \in Seq(1..(i - 1))
        BY ONLY <2>5, <4>2
      <4> QED
        BY ONLY <2>3, <4>1, <4>3
    <3>3. CASE Len(ps) # 0 /\ Len(ps) # 1
      <4>1. 1 \in 1..Len(ps) /\ 2 \in 1..Len(ps)
        <5>1. PICK m \in Nat : m = Len(ps)
          BY <2>4
        <5>2. m >= 2
          BY <3>3, <5>1
        <5> QED
          BY <5>1, <5>2
      <4>2. PICK first, second : first = c[ps[1]] /\ second = c[ps[2]]
        OBVIOUS
      <4>3. PICK w : w = Without(second, Members(first))
        OBVIOUS
      <4>4. ChainOf(objs, c, i) = Append(first \o w, i)
        BY ONLY <2>1, <3>3, <4>2, <4>3 DEF ChainOf
      <4>5. first \in Seq(1..(i - 1)) /\ w \in Seq(1..(i - 1))
        BY <2>5, <4>1, <4>2, <4>3, WithoutIsSeq
      <4>6. first \o w \in Seq(1..(i - 1))
        BY ONLY <4>5, ConcatProperties
      <4> QED
        BY ONLY <2>3, <4>4, <4>6
    <3> QED
      BY ONLY <3>1, <3>2, <3>3
  <2>7. EndsChain(objs, i)
    BY ONLY <2>1, <2>6 DEF EndsChain, Chain
  <2> QED
    BY <2>7 DEF S
<1> HIDE DEF S
<1>3. PICK m \in Nat : m = Len(objs)
  BY <1>1
<1>4. \A i \in 1..m : (\A j \in 1..(i - 1) : j \in S) => i \in S
  BY <1>2, <1>3
<1>5. \A i \in 1..m : i \in S
  BY ONLY m \in Nat, <1>4, UpTo
<1> QED
  BY <1>1, <1>3, <1>5 DEF S

\* A history that only gets longer.
Extends(objs, more) ==
    /\ IsHistory(objs) /\ IsHistory(more)
    /\ DOMAIN objs = 1..Len(objs) /\ DOMAIN more = 1..Len(more)
    /\ Len(objs) \in Nat /\ Len(more) \in Nat /\ Len(objs) <= Len(more)
    /\ \A i \in DOMAIN objs : more[i] = objs[i]

\* The snapshots it had keep their chains.
LEMMA ChainsStay ==
    ASSUME NEW objs, NEW more, Extends(objs, more)
    PROVE  \A i \in DOMAIN objs : Chain(more, i) = Chain(objs, i)
<1>1. PICK c, d : c = Chains(objs) /\ d = Chains(more)
  OBVIOUS
<1>2. PICK m \in Nat : m = Len(objs) /\ DOMAIN objs = 1..m
  <2>1. Len(objs) \in Nat /\ DOMAIN objs = 1..Len(objs)
    BY ONLY Extends(objs, more) DEF Extends
  <2> QED
    BY ONLY <2>1
<1> DEFINE S == {i \in 1..m : d[i] = c[i]}
<1>3. ASSUME NEW i \in 1..m, \A j \in 1..(i - 1) : j \in S
      PROVE  i \in S
  <2>1. \A j \in 1..(i - 1) : d[j] = c[j]
    BY <1>3
  <2>2. i \in DOMAIN objs /\ i \in DOMAIN more /\ more[i] = objs[i]
    BY <1>2 DEF Extends
  <2>3. IsHistory(objs) /\ IsHistory(more)
    BY DEF Extends
  <2>4. c[i] = ChainOf(objs, c, i)
    BY ONLY <1>1, <2>2, <2>3, ChainsAreDefined
  <2>5. d[i] = ChainOf(more, d, i)
    BY ONLY <1>1, <2>2, <2>3, ChainsAreDefined
  <2>6. ChainOf(more, d, i) = ChainOf(objs, d, i)
    BY ONLY <2>2 DEF ChainOf
  <2>7. ChainOf(objs, d, i) = ChainOf(objs, c, i)
    BY ONLY <2>1, <2>2, <2>3, ChainOfParents
  <2> QED
    BY ONLY i \in 1..m, <2>4, <2>5, <2>6, <2>7
<1>4. \A i \in 1..m : i \in S
  <2> HIDE DEF S
  <2>1. \A i \in 1..m : (\A j \in 1..(i - 1) : j \in S) => i \in S
    BY <1>3
  <2> QED
    BY ONLY m \in Nat, <2>1, UpTo
<1> QED
  BY ONLY <1>1, <1>2, <1>4 DEF Chain

\* The chain of a snapshot on one parent is the parent's, and the snapshot.
LEMMA ChainOfOne ==
    ASSUME NEW objs, IsHistory(objs), NEW i \in DOMAIN objs, NEW p,
           objs[i].parents = <<p>>
    PROVE  Chain(objs, i) = Append(Chain(objs, p), i)
<1>1. PICK c : c = Chains(objs)
  OBVIOUS
<1>2. c[i] = ChainOf(objs, c, i)
  BY ONLY <1>1, IsHistory(objs), i \in DOMAIN objs, ChainsAreDefined
<1>3. PICK ps : ps = objs[i].parents /\ ps = <<p>>
  OBVIOUS
<1>4. Len(ps) = 1 /\ ps[1] = p
  BY ONLY <1>3
<1>5. ChainOf(objs, c, i) = Append(c[ps[1]], i)
  BY ONLY <1>3, <1>4 DEF ChainOf
<1> QED
  BY ONLY <1>1, <1>2, <1>4, <1>5 DEF Chain

\* A chain has a last place, its snapshot's, and earlier snapshots before it.
IsChain(c, k, i) ==
    /\ k \in Nat /\ DOMAIN c = 1..(k + 1) /\ Len(c) = k + 1 /\ c[k + 1] = i
    /\ c \in Seq(1..i) /\ \A j \in 1..(k + 1) : c[j] \in 1..i

LEMMA ChainShape ==
    ASSUME NEW objs, IsHistory(objs), NEW i \in DOMAIN objs
    PROVE  \E k : IsChain(Chain(objs, i), k, i)
<1>1. i \in Nat /\ i >= 1
  BY DEF IsHistory
<1>2. PICK s \in Seq(1..(i - 1)) : Chain(objs, i) = Append(s, i)
  BY ONLY IsHistory(objs), i \in DOMAIN objs, ChainsEnd DEF EndsChain
<1>3. 1..(i - 1) \subseteq 1..i /\ i \in 1..i
  BY <1>1
<1>4. s \in Seq(1..i)
  BY ONLY s \in Seq(1..(i - 1)), <1>3, SeqMonotonic
<1>5. PICK k \in Nat : k = Len(s)
  BY <1>2
<1>6. PICK c : c = Append(s, i)
  OBVIOUS
<1>7. c \in Seq(1..i) /\ Len(c) = k + 1 /\ c[k + 1] = i
  BY ONLY <1>3, <1>4, <1>5, <1>6, AppendProperties
<1>8. DOMAIN c = 1..(k + 1)
  BY ONLY <1>7, LenProperties
<1>9. \A j \in 1..(k + 1) : c[j] \in 1..i
  BY ONLY <1>7, ElementOfSeq
<1> QED
  BY ONLY <1>2, <1>5, <1>6, <1>7, <1>8, <1>9 DEF IsChain

-----------------------------------------------------------------------------
(* Loading: what readers accept stays so, and so is what continues it.     *)

\* The links of some notes at one place of a chain, and those of the snapshot there.
NotesLinked(objs, c, k, notes) ==
    \A n \in DOMAIN notes :
      /\ notes[n].sup # 0 =>
           \E j \in 1..(k - 1) :
              n \in DOMAIN objs[c[j]].notes /\ objs[c[j]].notes[n].rev = notes[n].sup
      /\ \A j \in 1..(k - 1) : \A m \in DOMAIN objs[c[j]].notes :
           objs[c[j]].notes[m].rev = notes[n].rev =>
             m = n /\ objs[c[j]].notes[m].sup = notes[n].sup
LinkedAt(objs, c, k) == NotesLinked(objs, c, k, objs[c[k]].notes)

LEMMA LinksByPlace ==
    ASSUME NEW objs, NEW c
    PROVE  RevisionLinks(objs, c) <=> \A k \in DOMAIN c : LinkedAt(objs, c, k)
  BY DEF RevisionLinks, LinkedAt, NotesLinked

\* Only the snapshots up to the place matter.
LEMMA SameLinks ==
    ASSUME NEW objs, NEW c, NEW more, NEW d, NEW k \in Nat,
           \A j \in 1..k : more[d[j]] = objs[c[j]],
           k >= 1, LinkedAt(objs, c, k)
    PROVE  LinkedAt(more, d, k)
<1>1. more[d[k]] = objs[c[k]] /\ \A j \in 1..(k - 1) : more[d[j]] = objs[c[j]]
  OBVIOUS
<1>2. PICK notes : notes = more[d[k]].notes /\ notes = objs[c[k]].notes
  BY ONLY <1>1
<1>3. ASSUME NEW n \in DOMAIN notes
      PROVE  /\ notes[n].sup # 0 =>
                  \E j \in 1..(k - 1) : /\ n \in DOMAIN objs[c[j]].notes
                                        /\ objs[c[j]].notes[n].rev = notes[n].sup
             /\ \A j \in 1..(k - 1) : \A m \in DOMAIN objs[c[j]].notes :
                  objs[c[j]].notes[m].rev = notes[n].rev =>
                    m = n /\ objs[c[j]].notes[m].sup = notes[n].sup
  <2>1. NotesLinked(objs, c, k, notes)
    BY ONLY <1>2, LinkedAt(objs, c, k) DEF LinkedAt
  <2> QED
    BY ONLY <2>1, n \in DOMAIN notes DEF NotesLinked
<1>4. ASSUME NEW n \in DOMAIN notes, notes[n].sup # 0
      PROVE  \E j \in 1..(k - 1) : /\ n \in DOMAIN more[d[j]].notes
                                   /\ more[d[j]].notes[n].rev = notes[n].sup
  BY ONLY <1>1, <1>3, <1>4
<1>5. ASSUME NEW n \in DOMAIN notes, NEW j \in 1..(k - 1),
             NEW m \in DOMAIN more[d[j]].notes,
             more[d[j]].notes[m].rev = notes[n].rev
      PROVE  m = n /\ more[d[j]].notes[m].sup = notes[n].sup
  BY ONLY <1>1, <1>3, <1>5
<1>6. \A n \in DOMAIN notes :
        /\ notes[n].sup # 0 =>
             \E j \in 1..(k - 1) : /\ n \in DOMAIN more[d[j]].notes
                                   /\ more[d[j]].notes[n].rev = notes[n].sup
        /\ \A j \in 1..(k - 1) : \A m \in DOMAIN more[d[j]].notes :
             more[d[j]].notes[m].rev = notes[n].rev =>
               m = n /\ more[d[j]].notes[m].sup = notes[n].sup
  BY ONLY <1>4, <1>5
<1>7. notes = more[d[k]].notes
  BY ONLY <1>2
<1> QED
  <2>1. NotesLinked(more, d, k, notes)
    BY ONLY <1>6 DEF NotesLinked
  <2> QED
    BY ONLY <1>7, <2>1 DEF LinkedAt

\* A superseded revision occurs earlier.
LEMMA LinkOf ==
    ASSUME NEW objs, NEW c, NEW k, LinkedAt(objs, c, k), NEW notes,
           notes = objs[c[k]].notes, NEW n \in DOMAIN notes, notes[n].sup # 0
    PROVE  \E j \in 1..(k - 1) : /\ n \in DOMAIN objs[c[j]].notes
                                 /\ objs[c[j]].notes[n].rev = notes[n].sup
<1>1. NotesLinked(objs, c, k, notes)
  BY ONLY notes = objs[c[k]].notes, LinkedAt(objs, c, k) DEF LinkedAt
<1> QED
  BY ONLY <1>1, n \in DOMAIN notes, notes[n].sup # 0 DEF NotesLinked

\* What a reader checks, place by place.
LoadsAt(objs, have, c, k) ==
    c[k] \in have /\ ValidContextObject(objs[c[k]]) /\ LinkedAt(objs, c, k)

LEMMA LoadsByPlace ==
    ASSUME NEW objs, NEW have, NEW i
    PROVE  LET c == Chain(objs, i) IN
           Loads(objs, have, i) <=> \A k \in DOMAIN c : LoadsAt(objs, have, c, k)
<1>1. PICK c : c = Chain(objs, i)
  OBVIOUS
<1>2. Loads(objs, have, i) <=>
        /\ Members(c) \subseteq have
        /\ \A x \in Members(c) : ValidContextObject(objs[x])
        /\ RevisionLinks(objs, c)
  BY ONLY <1>1 DEF Loads
<1>3. /\ Members(c) \subseteq have <=> \A k \in DOMAIN c : c[k] \in have
      /\ (\A x \in Members(c) : ValidContextObject(objs[x]))
           <=> \A k \in DOMAIN c : ValidContextObject(objs[c[k]])
  BY ONLY TRUE DEF Members
<1>4. Loads(objs, have, i) <=> \A k \in DOMAIN c : LoadsAt(objs, have, c, k)
  BY ONLY <1>2, <1>3, LinksByPlace DEF LoadsAt
<1> QED
  BY ONLY <1>1, <1>4

LEMMA LoadsStay ==
    ASSUME NEW objs, NEW more, Extends(objs, more), NEW i \in DOMAIN objs,
           Loads(objs, DOMAIN objs, i)
    PROVE  Loads(more, DOMAIN more, i)
<1>1. PICK c, k : c = Chain(objs, i) /\ IsChain(c, k, i)
  BY ONLY Extends(objs, more), i \in DOMAIN objs, ChainShape DEF Extends
<1>2. Chain(more, i) = c
  BY ONLY <1>1, Extends(objs, more), i \in DOMAIN objs, ChainsStay
<1>3. \A j \in 1..(k + 1) : c[j] \in DOMAIN more /\ more[c[j]] = objs[c[j]]
  BY <1>1 DEF Extends, IsChain
<1>4. ASSUME NEW j \in DOMAIN c
      PROVE  LoadsAt(more, DOMAIN more, c, j)
  <2>1. j \in Nat /\ j >= 1 /\ j <= k + 1 /\ k \in Nat
    BY <1>1 DEF IsChain
  <2>2. LoadsAt(objs, DOMAIN objs, c, j)
    BY ONLY <1>1, Loads(objs, DOMAIN objs, i), j \in DOMAIN c, LoadsByPlace
  <2>3. c[j] \in DOMAIN more /\ more[c[j]] = objs[c[j]]
    BY <1>3, <2>1
  <2>4. \A l \in 1..j : more[c[l]] = objs[c[l]]
    BY ONLY <1>3, <2>1
  <2>5. LinkedAt(more, c, j)
    BY ONLY <2>1, <2>2, <2>4, SameLinks DEF LoadsAt
  <2> QED
    BY ONLY <2>2, <2>3, <2>5 DEF LoadsAt
<1> QED
  BY ONLY <1>2, <1>4, LoadsByPlace

\* A note of a new snapshot supersedes the revision of its parent, or is the
\* parent's.
Links(x, base) ==
    \A n \in DOMAIN x :
      x[n].sup # 0 =>
        /\ n \in DOMAIN base
        /\ \/ base[n].rev = x[n].sup
           \/ base[n].rev = x[n].rev /\ base[n].sup = x[n].sup

\* One revision, one note and one superseded revision.
LEMMA BookAgrees ==
    ASSUME NEW objs, Consistent(Book(objs)), NEW i \in DOMAIN objs, NEW j \in DOMAIN objs,
           NEW n \in DOMAIN objs[i].notes, NEW m \in DOMAIN objs[j].notes,
           objs[j].notes[m].rev = objs[i].notes[n].rev
    PROVE  m = n /\ objs[j].notes[m].sup = objs[i].notes[n].sup
<1>1. PICK x, y : /\ x = <<objs[i].notes[n].rev, n, objs[i].notes[n].sup>>
                  /\ y = <<objs[j].notes[m].rev, m, objs[j].notes[m].sup>>
  OBVIOUS
<1>2. x \in Book(objs) /\ y \in Book(objs)
  BY <1>1 DEF Book, Says
<1>3. x[1] = y[1]
  BY <1>1
<1>4. x = y
  BY ONLY <1>2, <1>3, Consistent(Book(objs)) DEF Consistent
<1> QED
  BY ONLY <1>1, <1>4

LEMMA LoadsNext ==
    ASSUME NEW objs, NEW more, Extends(objs, more), NEW p \in DOMAIN objs,
           Loads(objs, DOMAIN objs, p), NEW i \in DOMAIN more,
           more[i].parents = <<p>>, ValidContextObject(more[i]),
           Links(more[i].notes, objs[p].notes), Consistent(Book(more))
    PROVE  Loads(more, DOMAIN more, i)
<1>1. PICK c, k : c = Chain(objs, p) /\ IsChain(c, k, p)
  BY ONLY Extends(objs, more), p \in DOMAIN objs, ChainShape DEF Extends
<1>2. PICK d, e : d = Chain(more, i) /\ IsChain(d, e, i)
  BY ONLY Extends(objs, more), i \in DOMAIN more, ChainShape DEF Extends
<1>3. d = Append(c, i)
  <2>1. Chain(more, i) = Append(Chain(more, p), i)
    BY ONLY Extends(objs, more), i \in DOMAIN more, more[i].parents = <<p>>, ChainOfOne
       DEF Extends
  <2>2. Chain(more, p) = c
    BY ONLY <1>1, Extends(objs, more), p \in DOMAIN objs, ChainsStay
  <2> QED
    BY ONLY <1>2, <2>1, <2>2
<1>4. /\ k \in Nat /\ Len(c) = k + 1 /\ c[k + 1] = p /\ c \in Seq(1..p)
      /\ \A j \in 1..(k + 1) : c[j] \in 1..p
  BY ONLY <1>1 DEF IsChain
<1>5. /\ Len(d) = k + 2 /\ d[k + 2] = i /\ \A j \in 1..(k + 1) : d[j] = c[j]
  <2>1. c \in Seq(1..p \union {i})
    BY ONLY <1>4, SeqMonotonic
  <2>2. i \in 1..p \union {i}
    OBVIOUS
  <2>3. /\ Len(d) = Len(c) + 1 /\ d[Len(c) + 1] = i
        /\ \A j \in 1..Len(c) : d[j] = c[j]
    BY ONLY <1>3, <2>1, <2>2, AppendProperties
  <2>4. Len(c) + 1 = k + 2
    BY ONLY <1>4
  <2> QED
    BY ONLY <1>4, <2>3, <2>4
<1>6. DOMAIN d = 1..(k + 2) /\ \A j \in 1..(k + 2) : d[j] \in DOMAIN more
  <2>1. /\ e \in Nat /\ DOMAIN d = 1..(e + 1) /\ Len(d) = e + 1
        /\ \A j \in 1..(e + 1) : d[j] \in 1..i
    BY ONLY <1>2 DEF IsChain
  <2>2. e + 1 = k + 2
    BY <1>5, <2>1
  <2>3. 1..i \subseteq DOMAIN more
    BY DEF Extends
  <2> QED
    BY ONLY <2>1, <2>2, <2>3
<1>7. \A j \in 1..(k + 1) : /\ d[j] = c[j] /\ c[j] \in DOMAIN objs
                            /\ more[d[j]] = objs[c[j]]
  BY <1>4, <1>5 DEF Extends
<1>8. ASSUME NEW j \in 1..(k + 1)
      PROVE  LoadsAt(more, DOMAIN more, d, j)
  <2>1. j \in Nat /\ j >= 1 /\ j \in DOMAIN c
    BY <1>1, <1>4 DEF IsChain
  <2>2. LoadsAt(objs, DOMAIN objs, c, j)
    BY ONLY <1>1, Loads(objs, DOMAIN objs, p), <2>1, LoadsByPlace
  <2>3. \A l \in 1..j : more[d[l]] = objs[c[l]]
    BY ONLY <1>4, <1>7, j \in 1..(k + 1)
  <2>4. LinkedAt(more, d, j)
    BY ONLY <2>1, <2>2, <2>3, SameLinks DEF LoadsAt
  <2>5. d[j] \in DOMAIN more /\ more[d[j]] = objs[c[j]]
    BY ONLY <1>4, <1>6, <1>7, j \in 1..(k + 1)
  <2> QED
    BY ONLY <2>2, <2>4, <2>5 DEF LoadsAt
<1>9. PICK l \in Nat : l = k + 2
  BY <1>4
<1>10. LoadsAt(more, DOMAIN more, d, l)
  <2>1. PICK notes, base : notes = more[i].notes /\ base = objs[p].notes
    OBVIOUS
  <2>2. d[l] = i /\ l - 1 = k + 1 /\ k + 1 \in 1..(l - 1)
    BY ONLY <1>4, <1>5, <1>9
  <2>3. more[d[k + 1]] = objs[p] /\ objs[c[k + 1]] = objs[p]
    BY ONLY <1>4, <1>7
  <2>4. ASSUME NEW n \in DOMAIN notes, notes[n].sup # 0
        PROVE  \E j \in 1..(l - 1) : /\ n \in DOMAIN more[d[j]].notes
                                     /\ more[d[j]].notes[n].rev = notes[n].sup
    <3>1. /\ n \in DOMAIN base
          /\ \/ base[n].rev = notes[n].sup
             \/ base[n].sup = notes[n].sup
      BY ONLY <2>1, n \in DOMAIN notes, notes[n].sup # 0,
              Links(more[i].notes, objs[p].notes) DEF Links
    <3>2. CASE base[n].rev = notes[n].sup
      BY ONLY <2>1, <2>2, <2>3, <3>1, <3>2
    <3>3. CASE base[n].sup = notes[n].sup
      <4>1. PICK q \in Nat : q = k + 1
        BY ONLY <1>4
      <4>2. q \in DOMAIN c
        BY ONLY <1>1, <1>4, <4>1 DEF IsChain
      <4>3. LoadsAt(objs, DOMAIN objs, c, q)
        BY ONLY <1>1, <4>2, Loads(objs, DOMAIN objs, p), LoadsByPlace
      <4>4. /\ LinkedAt(objs, c, q) /\ base = objs[c[q]].notes
            /\ n \in DOMAIN base /\ base[n].sup # 0
        BY ONLY <2>1, <2>3, <3>1, <3>3, <4>1, <4>3, notes[n].sup # 0 DEF LoadsAt
      <4>5. PICK j \in 1..(q - 1) : /\ n \in DOMAIN objs[c[j]].notes
                                   /\ objs[c[j]].notes[n].rev = base[n].sup
        BY ONLY <4>4, LinkOf
      <4>6. j \in 1..(k + 1) /\ j \in 1..(l - 1)
        BY ONLY <1>4, <2>2, <4>1, j \in 1..(q - 1)
      <4> QED
        BY ONLY <1>7, <3>3, <4>5, <4>6
    <3> QED
      BY ONLY <3>1, <3>2, <3>3
  <2>5. ASSUME NEW n \in DOMAIN notes, NEW j \in 1..(l - 1),
               NEW m \in DOMAIN more[d[j]].notes,
               more[d[j]].notes[m].rev = notes[n].rev
        PROVE  m = n /\ more[d[j]].notes[m].sup = notes[n].sup
    <3>1. PICK x : x = d[j] /\ x \in DOMAIN more
      BY ONLY <1>4, <1>6, <1>9, j \in 1..(l - 1)
    <3> QED
      BY ONLY <2>1, <2>5, <3>1, i \in DOMAIN more, Consistent(Book(more)), BookAgrees
  <2>6. LinkedAt(more, d, l)
    <3>1. NotesLinked(more, d, l, notes)
      BY ONLY <2>4, <2>5 DEF NotesLinked
    <3>2. notes = more[d[l]].notes
      BY ONLY <2>1, <2>2
    <3> QED
      BY ONLY <3>1, <3>2 DEF LinkedAt
  <2> QED
    BY ONLY <2>2, <2>6, i \in DOMAIN more, ValidContextObject(more[i]) DEF LoadsAt
<1>11. \A j \in DOMAIN d : LoadsAt(more, DOMAIN more, d, j)
  <2>1. \A j \in DOMAIN d : j \in 1..(k + 1) \/ j = l
    BY ONLY <1>4, <1>6, <1>9
  <2> QED
    BY ONLY <1>8, <1>10, <2>1
<1> QED
  BY ONLY <1>2, <1>11, LoadsByPlace

-----------------------------------------------------------------------------
(* Revisions: what is said of one is said of it everywhere.                *)

\* What the snapshots and the author's clone say.
Facts == Book(objects) \union Says(author.notes)

\* One note per revision, and what was not in the history to begin with has an
\* identifier that was drawn since.
Keeps(h) ==
    /\ h.revs <= revs
    /\ \A x \in Facts : x \in Book(h.objects) \/ x[1] \in (h.revs + 1)..revs
    /\ Consistent(Facts)

\* The candidate was published by another client, or tells of a snapshot.
Accounted ==
    candidate.records \in Foreign \/ Claims(candidate.records) \subseteq Book(objects)

\* The inductive invariant: until something lands, readers accept the
\* canonical tip, and no two contents have one identifier.
Loadable ==
    landed.id = 0 => /\ Loads(objects, DOMAIN objects, ref)
                     /\ \E h \in Histories : Keeps(h)
                     /\ Accounted

\* A step writes no revision, or one.
Grows ==
    /\ revs \in 0..MaxRevs /\ revs' \in 0..MaxRevs
    /\ \/ revs' >= revs /\ Facts' \subseteq Facts
       \/ \E n, sup : revs' = revs + 1 /\ Facts' \subseteq Facts \union {<<revs + 1, n, sup>>}

LEMMA HistoryRevisions ==
    ASSUME NEW h \in Histories
    PROVE  /\ h.revs \in Nat /\ h.revs <= MaxRevs /\ MaxRevs \in Nat
           /\ \A x \in Book(h.objects) : x[1] \notin (h.revs + 1)..MaxRevs
<1>1. h.revs \in 0..MaxRevs /\ MaxRevs \in Nat
  BY CandidateLandingAssumption
<1>2. \A x \in Book(h.objects) \union Claims({}) : x[1] \notin (h.revs + 1)..MaxRevs
  BY RevisionsAssumption
<1> QED
  BY <1>1, <1>2

LEMMA KeepsGrow ==
    ASSUME NEW h \in Histories, Keeps(h), Grows
    PROVE  Keeps(h)'
<1>1. /\ h.revs \in Nat /\ MaxRevs \in Nat
      /\ \A x \in Book(h.objects) : x[1] \notin (h.revs + 1)..MaxRevs
  BY HistoryRevisions
<1>2. PICK k \in Nat, l \in Nat : k = revs /\ l = revs' /\ k <= MaxRevs /\ l <= MaxRevs
  BY <1>1 DEF Grows
<1>3. PICK F, G : F = Facts /\ G = Facts'
  OBVIOUS
<1>4. PICK old : old = Book(h.objects)
  OBVIOUS
<1>5. /\ h.revs <= k /\ Consistent(F)
      /\ \A x \in F : x \in old \/ x[1] \in (h.revs + 1)..k
  BY ONLY <1>2, <1>3, <1>4, Keeps(h) DEF Keeps
<1>6. \/ l >= k /\ G \subseteq F
      \/ \E n, sup : l = k + 1 /\ G \subseteq F \union {<<k + 1, n, sup>>}
  BY ONLY <1>2, <1>3, Grows DEF Grows
<1>7. /\ h.revs <= l /\ Consistent(G)
      /\ \A x \in G : x \in old \/ x[1] \in (h.revs + 1)..l
  <2>1. CASE l >= k /\ G \subseteq F
    <3>1. Consistent(G)
      BY ONLY <1>5, <2>1 DEF Consistent
    <3>2. h.revs <= l /\ \A y \in (h.revs + 1)..k : y \in (h.revs + 1)..l
      BY <1>1, <1>2, <1>5, <2>1
    <3> QED
      BY ONLY <1>5, <2>1, <3>1, <3>2
  <2>2. ASSUME NEW n, NEW sup, l = k + 1, G \subseteq F \union {<<k + 1, n, sup>>}
        PROVE  /\ h.revs <= l /\ Consistent(G)
               /\ \A x \in G : x \in old \/ x[1] \in (h.revs + 1)..l
    <3>1. /\ h.revs <= l /\ k + 1 \in (h.revs + 1)..l /\ k + 1 \in (h.revs + 1)..MaxRevs
          /\ k + 1 \notin (h.revs + 1)..k
          /\ \A y \in (h.revs + 1)..k : y \in (h.revs + 1)..l
      BY <1>1, <1>2, <1>5, <2>2
    <3>2. PICK new : new = <<k + 1, n, sup>>
      OBVIOUS
    <3>3. new[1] = k + 1
      BY <3>2
    <3>4. \A x \in F : x[1] # new[1]
      BY ONLY <1>1, <1>4, <1>5, <3>1, <3>3
    <3>5. \A x \in G : x \in F \/ x = new
      BY ONLY <2>2, <3>2
    <3>6. Consistent(G)
      BY ONLY <1>5, <3>4, <3>5 DEF Consistent
    <3>7. \A x \in G : x \in old \/ x[1] \in (h.revs + 1)..l
      BY ONLY <1>5, <3>1, <3>3, <3>5
    <3> QED
      BY ONLY <3>1, <3>6, <3>7
  <2> QED
    BY ONLY <1>6, <2>1, <2>2
<1> QED
  BY ONLY <1>2, <1>3, <1>4, <1>7 DEF Keeps

\* What is said of a note that is laid over the others.
LEMMA SaysOver ==
    ASSUME NEW f, NEW n, NEW x
    PROVE  Says(Overlay(f, [m \in {n} |-> x])) \subseteq
             Says(f) \union {<<x.rev, n, x.sup>>}
<1>1. PICK g : g = Overlay(f, [m \in {n} |-> x])
  OBVIOUS
<1>2. \A m \in DOMAIN g : \/ m = n /\ g[m] = x
                          \/ m \in DOMAIN f /\ g[m] = f[m]
  BY <1>1 DEF Overlay
<1> QED
  BY ONLY <1>1, <1>2 DEF Says

\* A snapshot at the end adds what its notes say.
LEMMA BookOfNext ==
    ASSUME NEW objs, NEW more, Extends(objs, more), Len(more) = Len(objs) + 1
    PROVE  Book(more) = Book(objs) \union Says(more[Len(objs) + 1].notes)
<1>1. PICK k \in Nat : k = Len(objs) /\ DOMAIN objs = 1..k /\ DOMAIN more = 1..(k + 1)
  <2>1. /\ Len(objs) \in Nat /\ DOMAIN objs = 1..Len(objs)
        /\ DOMAIN more = 1..(Len(objs) + 1)
    BY ONLY Extends(objs, more), Len(more) = Len(objs) + 1 DEF Extends
  <2> QED
    BY ONLY <2>1
<1>2. \A i \in 1..k : more[i] = objs[i]
  BY ONLY <1>1, Extends(objs, more) DEF Extends
<1>3. \A i : i \in 1..(k + 1) <=> i \in 1..k \/ i = k + 1
  BY <1>1
<1> QED
  BY ONLY <1>1, <1>2, <1>3 DEF Book

\* A snapshot whose notes are bound at its source is valid: its revisions are
\* told apart by what is known of them.
LEMMA ValidByBook ==
    ASSUME NEW objs, Consistent(Book(objs)), NEW i \in DOMAIN objs,
           \A n \in DOMAIN objs[i].notes : objs[i].notes[n].src = objs[i].source
    PROVE  ValidContextObject(objs[i])
<1>1. ASSUME NEW n \in DOMAIN objs[i].notes, NEW m \in DOMAIN objs[i].notes,
             objs[i].notes[n].rev = objs[i].notes[m].rev
      PROVE  n = m
  BY <1>1, BookAgrees
<1> QED
  BY <1>1 DEF ValidContextObject

-----------------------------------------------------------------------------
(* Steps: until something lands the tip loads.                             *)

LEMMA GrownExtends ==
    ASSUME IsHistory(objects), Grown
    PROVE  Extends(objects, objects') /\ Book(objects) \subseteq Book(objects')
<1>1. Extends(objects, objects')
  BY DEF Grown, Extends
<1>2. \A i \in DOMAIN objects : i \in DOMAIN objects' /\ objects'[i] = objects[i]
  BY DEF Grown
<1>3. Book(objects) \subseteq Book(objects')
  BY ONLY <1>2 DEF Book
<1> QED
  BY <1>1, <1>3

LEMMA AccountedStays ==
    ASSUME IsHistory(objects), Grown, UNCHANGED candidate, Accounted
    PROVE  Accounted'
<1>1. Book(objects) \subseteq Book(objects')
  BY GrownExtends
<1> QED
  BY <1>1 DEF Accounted

\* The tip stays where it is.
LEMMA SameTip ==
    ASSUME IInv, Loadable, Grows, Grown, UNCHANGED <<ref, landed>>, Accounted => Accounted'
    PROVE  Loadable'
<1> SUFFICES ASSUME landed.id = 0
             PROVE  Loadable'
  BY DEF Loadable
<1>1. /\ Loads(objects, DOMAIN objects, ref) /\ Accounted
      /\ \E h \in Histories : Keeps(h)
  BY DEF Loadable
<1>2. IsHistory(objects) /\ ref \in DOMAIN objects
  BY DEF IInv, Typed
<1>3. PICK a, b, i : a = objects /\ b = objects' /\ i = ref
  OBVIOUS
<1>4. Extends(a, b)
  BY <1>2, <1>3, GrownExtends
<1>5. Loads(b, DOMAIN b, i)
  BY ONLY <1>1, <1>2, <1>3, <1>4, LoadsStay
<1>6. Loads(objects, DOMAIN objects, ref)'
  BY ONLY <1>3, <1>5, UNCHANGED <<ref, landed>>
<1>7. PICK h \in Histories : Keeps(h)
  BY <1>1
<1>8. Keeps(h)'
  BY <1>7, KeepsGrow
<1> QED
  BY <1>1, <1>6, <1>8 DEF Loadable

\* The author's own steps.
LEMMA AuthorLoads ==
    ASSUME IInv, Loadable, UNCHANGED <<objects, ref, candidate, landed>>,
           revs' \in 0..MaxRevs,
           \/ revs' >= revs /\ Says(author'.notes) \subseteq Says(author.notes)
           \/ \E n, sup : /\ revs' = revs + 1
                          /\ Says(author'.notes) \subseteq
                               Says(author.notes) \union {<<revs + 1, n, sup>>}
    PROVE  Loadable'
<1>1. revs \in 0..MaxRevs /\ IsHistory(objects)
  BY DEF IInv, Typed
<1>2. PICK B, F, G : /\ B = Book(objects) /\ F = Says(author.notes)
                     /\ G = Says(author'.notes)
  OBVIOUS
<1>3. Facts = B \union F /\ Facts' = B \union G
  BY <1>2 DEF Facts
<1>4. \/ revs' >= revs /\ G \subseteq F
      \/ \E n, sup : revs' = revs + 1 /\ G \subseteq F \union {<<revs + 1, n, sup>>}
  BY ONLY <1>2, \/ revs' >= revs /\ Says(author'.notes) \subseteq Says(author.notes)
                \/ \E n, sup : /\ revs' = revs + 1
                               /\ Says(author'.notes) \subseteq
                                    Says(author.notes) \union {<<revs + 1, n, sup>>}
<1>5. \/ revs' >= revs /\ Facts' \subseteq Facts
      \/ \E n, sup : revs' = revs + 1 /\ Facts' \subseteq Facts \union {<<revs + 1, n, sup>>}
  BY ONLY <1>3, <1>4
<1>6. Grows
  BY ONLY <1>1, <1>5, revs' \in 0..MaxRevs DEF Grows
<1>7. Grown
  BY <1>1, NoGrowth
<1>8. Accounted => Accounted'
  BY <1>1, <1>7, AccountedStays
<1> QED
  BY <1>6, <1>7, <1>8, SameTip

LEMMA AddPendingNoteLoads ==
    ASSUME IInv, Loadable, NEW n \in NoteIds, NEW k \in Keys,
           AddPendingNote(n, k) \/ ReviseNote(n)
    PROVE  Loadable'
<1>1. PICK sup, x : /\ x.rev = revs + 1 /\ x.sup = sup
                    /\ Written(n, x)
  <2>1. CASE AddPendingNote(n, k)
    <3>1. Written(n, Entry(revs + 1, 0, k, "active", author.source))
      BY <2>1 DEF AddPendingNote
    <3> QED
      BY <3>1 DEF Entry
  <2>2. CASE ReviseNote(n)
    <3>1. Written(n, Entry(revs + 1, author.notes[n].rev, author.notes[n].entity,
                           "active", author.source))
      BY <2>2 DEF ReviseNote
    <3> QED
      BY <3>1 DEF Entry
  <2> QED
    BY <2>1, <2>2
<1>2. /\ revs < MaxRevs /\ revs' = revs + 1
      /\ Author(Overlay(author.notes, [m \in {n} |-> x]))
  BY <1>1 DEF Written
<1>3. /\ author' = [author EXCEPT !.notes = Overlay(author.notes, [m \in {n} |-> x])]
      /\ UNCHANGED <<objects, ref, candidate, landed>>
  BY <1>2 DEF Author
<1>4. /\ author'.notes = Overlay(author.notes, [m \in {n} |-> x])
      /\ revs' \in 0..MaxRevs
  BY <1>2, <1>3, CandidateLandingAssumption DEF IInv, Typed, AuthorOK
<1>5. Says(author'.notes) \subseteq Says(author.notes) \union {<<revs + 1, n, sup>>}
  BY ONLY <1>1, <1>4, SaysOver
<1> QED
  BY <1>2, <1>3, <1>4, <1>5, AuthorLoads

LEMMA ReviewNoteLoads ==
    ASSUME IInv, Loadable, NEW n \in NoteIds, NEW k \in Keys, ReviewNote(n, k)
    PROVE  Loadable'
<1>1. PICK x : x = Rebound(author.notes[n], k, "active", author.source)
  OBVIOUS
<1>2. /\ n \in DOMAIN author.notes /\ revs' = revs
      /\ author' = [author EXCEPT !.notes = Overlay(author.notes, [m \in {n} |-> x])]
      /\ UNCHANGED <<objects, ref, candidate, landed>>
  BY <1>1 DEF ReviewNote, Author
<1>3. /\ author'.notes = Overlay(author.notes, [m \in {n} |-> x])
      /\ revs' \in 0..MaxRevs /\ revs' >= revs
      /\ author.notes[n] \in Notes /\ author.source \in Sources
  BY <1>2 DEF IInv, Typed, AuthorOK, IsNotes
<1>4. x.rev = author.notes[n].rev /\ x.sup = author.notes[n].sup
  BY <1>1, <1>3, ReboundNote DEF States
<1>5. Says(author'.notes) \subseteq Says(author.notes) \union {<<x.rev, n, x.sup>>}
  BY ONLY <1>3, SaysOver
<1>6. <<x.rev, n, x.sup>> \in Says(author.notes)
  BY ONLY <1>2, <1>4 DEF Says
<1>7. Says(author'.notes) \subseteq Says(author.notes)
  BY ONLY <1>5, <1>6
<1> QED
  BY <1>2, <1>3, <1>7, AuthorLoads

LEMMA UpdateToLoads ==
    ASSUME IInv, Loadable, NEW s \in Sources, UpdateTo(s)
    PROVE  Loadable'
<1>1. PICK old, new : old = author.notes /\ new = author'.notes
  OBVIOUS
<1>2. /\ new = [n \in DOMAIN old |-> Reconcile(old[n], HashAt(author.source, old[n].entity),
                                               Tree[s], s)]
      /\ UNCHANGED <<objects, ref, revs, candidate, landed>>
  BY <1>1 DEF UpdateTo, IInv, Typed, AuthorOK
<1>3. IsNotes(old) /\ revs' \in 0..MaxRevs /\ revs' >= revs
  BY <1>1, <1>2 DEF IInv, Typed, AuthorOK
<1>4. ASSUME NEW n \in DOMAIN new
      PROVE  n \in DOMAIN old /\ new[n].rev = old[n].rev /\ new[n].sup = old[n].sup
  <2>1. n \in DOMAIN old /\ old[n] \in Notes
    BY <1>2, <1>3 DEF IsNotes
  <2>2. new[n] = Reconcile(old[n], HashAt(author.source, old[n].entity), Tree[s], s)
    BY <1>2
  <2> QED
    BY <2>1, <2>2, ReconciledNote
<1>5. Says(new) \subseteq Says(old)
  BY ONLY <1>4 DEF Says
<1> QED
  BY <1>1, <1>2, <1>3, <1>5, AuthorLoads

\* A tip that loads is valid itself.
LEMMA TipIsValid ==
    ASSUME NEW objs, IsHistory(objs), NEW i \in DOMAIN objs, Loads(objs, DOMAIN objs, i)
    PROVE  ValidContextObject(objs[i])
<1>1. PICK c, k : c = Chain(objs, i) /\ IsChain(c, k, i)
  BY ONLY IsHistory(objs), i \in DOMAIN objs, ChainShape
<1>2. k + 1 \in DOMAIN c /\ c[k + 1] = i
  BY ONLY <1>1 DEF IsChain
<1>3. LoadsAt(objs, DOMAIN objs, c, k + 1)
  BY ONLY <1>1, <1>2, Loads(objs, DOMAIN objs, i), LoadsByPlace
<1> QED
  BY ONLY <1>2, <1>3 DEF LoadsAt

\* A snapshot on one parent.
LEMMA SnapshotOnOne ==
    ASSUME NEW k \in Nat, NEW p \in 1..k, NEW s \in Sources, NEW notes, IsNotes(notes),
           NEW o, o = Object(<<p>>, s, notes)
    PROVE  /\ IsSnapshot(o) /\ o.parents \in Seq(1..k)
           /\ o.parents = <<p>> /\ o.source = s /\ o.notes = notes
<1>1. o.parents = <<p>> /\ o.source = s /\ o.notes = notes
  BY DEF Object
<1>2. o = Object(o.parents, o.source, o.notes)
  BY ONLY <1>1, o = Object(<<p>>, s, notes)
<1>3. IsSnapshot(o)
  BY ONLY <1>1, <1>2, s \in Sources, IsNotes(notes) DEF IsSnapshot
<1>4. <<p>> \in Seq(1..k)
  OBVIOUS
<1> QED
  BY ONLY <1>1, <1>3, <1>4

\* A snapshot of the branch says what its author's clone says.
LEMMA CommitLoads ==
    ASSUME IInv, Loadable, Commit
    PROVE  Loadable'
<1>1. PICK x : x = Object(<<author.tip>>, author.source, author.notes)
  OBVIOUS
<1>2. /\ objects' = Append(objects, x) /\ author'.notes = author.notes
      /\ UNCHANGED <<ref, revs, candidate, landed>>
  BY <1>1 DEF Commit, IInv, Typed, AuthorOK
<1>3. /\ IsHistory(objects) /\ Len(objects) \in Nat /\ revs \in 0..MaxRevs
      /\ author.tip \in 1..Len(objects) /\ author.source \in Sources
      /\ IsNotes(author.notes)
  BY DEF IInv, Typed, AuthorOK, IsHistory
<1>4. x.notes = author.notes
  BY ONLY <1>1, <1>3, SnapshotOnOne
<1>5. IsSnapshot(x) /\ x.parents \in Seq(1..Len(objects))
  BY ONLY <1>1, <1>3, SnapshotOnOne
<1>6. /\ Grown /\ Len(objects') = Len(objects) + 1
      /\ objects'[Len(objects) + 1] = x
  BY ONLY <1>2, <1>3, <1>5, AppendGrows
<1>7. Facts' \subseteq Facts
  <2>1. PICK a, b : a = objects /\ b = objects' /\ Extends(a, b)
    BY <1>3, <1>6, GrownExtends
  <2>2. Book(b) = Book(a) \union Says(b[Len(a) + 1].notes)
    BY ONLY <1>6, <2>1, BookOfNext
  <2>3. Book(objects') = Book(objects) \union Says(author.notes)
    BY ONLY <1>4, <1>6, <2>1, <2>2
  <2> QED
    BY ONLY <1>2, <2>3 DEF Facts
<1>8. Grows
  BY <1>2, <1>3, <1>7 DEF Grows
<1>9. Accounted => Accounted'
  BY <1>2, <1>3, <1>6, AccountedStays
<1> QED
  BY <1>2, <1>6, <1>8, <1>9, SameTip

\* The author's delta claims what the branch's snapshot says.
LEMMA PublishLoads ==
    ASSUME IInv, Loadable, PublishCandidate \/ PublishForeign
    PROVE  Loadable'
<1>1. UNCHANGED <<objects, ref, author, revs, landed>>
  BY DEF PublishCandidate, PublishForeign
<1>2. /\ IsHistory(objects) /\ revs \in 0..MaxRevs /\ author.tip \in DOMAIN objects
      /\ revs' >= revs
  BY <1>1 DEF IInv, Typed, AuthorOK
<1>3. Grows
  BY <1>1, <1>2 DEF Grows, Facts
<1>4. Accounted'
  <2>1. CASE PublishForeign
    BY <2>1 DEF PublishForeign, Accounted
  <2>2. CASE PublishCandidate
    <3>1. PICK base, tip, records :
            base = objects[ref] /\ tip = objects[author.tip] /\ records = Delta(base, tip)
      OBVIOUS
    <3>2. candidate'.records = records
      BY <2>2, <3>1 DEF PublishCandidate
    <3>3. ASSUME NEW r \in records, r.op # "rebind"
          PROVE  <<r.rev, r.note, r.sup>> \in Says(tip.notes)
      <4>1. TellsOf(r, base, tip)
        BY ONLY <3>1, r \in records, DeltaTells
      <4>2. /\ r.note \in DOMAIN tip.notes
            /\ r.rev = tip.notes[r.note].rev /\ r.sup = tip.notes[r.note].sup
        BY ONLY <3>3, <4>1 DEF TellsOf, Record
      <4> QED
        BY ONLY <4>2 DEF Says
    <3>4. Claims(records) \subseteq Says(tip.notes)
      BY ONLY <3>3 DEF Claims
    <3>5. Says(tip.notes) \subseteq Book(objects)
      BY ONLY <1>2, <3>1 DEF Book
    <3>6. Claims(candidate'.records) \subseteq Book(objects')
      BY ONLY <1>1, <3>2, <3>4, <3>5
    <3> QED
      BY ONLY <3>6 DEF Accounted
  <2> QED
    BY <2>1, <2>2
<1>5. Grown
  BY <1>1, <1>2, NoGrowth
<1> QED
  BY <1>1, <1>3, <1>4, <1>5, SameTip

\* Steps that write no note where it is read.
LEMMA QuietLoads ==
    ASSUME IInv, Loadable, UNCHANGED <<objects, ref, author, candidate, landed>>,
           revs' \in 0..MaxRevs, revs' >= revs
    PROVE  Loadable'
  BY AuthorLoads

\* A revision of the canonical note supersedes it.
LEMMA PushElsewhereLoads ==
    ASSUME IInv, Loadable, PushElsewhere
    PROVE  Loadable'
<1> SUFFICES ASSUME landed.id = 0
             PROVE  Loadable'
  BY DEF Loadable, PushElsewhere
<1>1. /\ IsHistory(objects) /\ ref \in DOMAIN objects /\ Len(objects) \in Nat
      /\ DOMAIN objects = 1..Len(objects) /\ revs \in 0..MaxRevs
  BY DEF IInv, Typed, IsHistory
<1>2. PICK base, n, note, x, notes, o :
        /\ base = objects[ref].notes /\ n \in DOMAIN base /\ note = base[n]
        /\ x = Entry(revs + 1, note.rev, note.entity, "active", note.src)
        /\ notes = Overlay(base, [m \in {n} |-> x])
        /\ o = Object(<<ref>>, note.src, notes)
        /\ objects' = Append(objects, o) /\ ref' = Len(objects) + 1
        /\ revs < MaxRevs /\ revs' = revs + 1
  BY DEF PushElsewhere
<1>3. UNCHANGED <<author, candidate, landed>>
  BY DEF PushElsewhere
<1>4. IsNotes(base) /\ n \in NoteIds /\ note \in Notes
  <2>1. IsSnapshot(objects[ref])
    BY ONLY <1>1 DEF IsHistory
  <2>2. IsNotes(base)
    BY ONLY <1>2, <2>1 DEF IsSnapshot
  <2> QED
    BY ONLY <1>2, <2>2 DEF IsNotes
<1>5. revs \in Nat /\ revs' \in 0..MaxRevs
  BY <1>1, <1>2, CandidateLandingAssumption
<1>6. /\ note.src \in Sources /\ note.rev \in Nat /\ x \in Notes
      /\ x.rev = revs + 1 /\ x.sup = note.rev /\ x.src = note.src
  <2>1. x = Entry(revs + 1, note.rev, note.entity, "active", note.src)
    BY ONLY <1>2
  <2>2. note.src \in Sources /\ note.rev \in Nat /\ note.entity \in Keys
    BY ONLY <1>4 DEF Notes
  <2>3. revs + 1 \in Nat
    BY ONLY <1>5
  <2> QED
    BY ONLY <2>1, <2>2, <2>3 DEF Entry, Notes, States
<1>7. IsNotes(notes)
  <2>1. IsNotes([m \in {n} |-> x])
    BY ONLY <1>4, <1>6, SingleNote
  <2> QED
    BY ONLY <1>2, <1>4, <2>1, OverlayNotes
<1>8. ref \in 1..Len(objects) /\ o = Object(<<ref>>, note.src, notes)
  BY ONLY <1>1, <1>2
<1>9. /\ IsSnapshot(o) /\ o.parents \in Seq(1..Len(objects))
      /\ o.parents = <<ref>> /\ o.source = note.src /\ o.notes = notes
  BY ONLY <1>1, <1>6, <1>7, <1>8, SnapshotOnOne
<1>10. /\ Grown /\ Len(objects') = Len(objects) + 1
       /\ Len(objects) + 1 \in DOMAIN objects' /\ objects'[Len(objects) + 1] = o
  <2>1. objects' = Append(objects, o)
    BY ONLY <1>2
  <2> QED
    BY ONLY <1>1, <1>9, <2>1, AppendGrows
<1>11. PICK a, b, i, p : /\ a = objects /\ b = objects' /\ i = Len(objects) + 1 /\ p = ref
                         /\ Extends(a, b)
  BY <1>1, <1>10, GrownExtends
<1>12. Loads(a, DOMAIN a, p) /\ Accounted
  BY <1>11 DEF Loadable
<1>13. PICK h \in Histories : Keeps(h)
  BY DEF Loadable
<1>14. Book(b) \subseteq Book(a) \union {<<revs + 1, n, note.rev>>}
  <2>1. Book(b) = Book(a) \union Says(notes)
    BY ONLY <1>9, <1>10, <1>11, BookOfNext
  <2>2. Says(notes) \subseteq Says(base) \union {<<revs + 1, n, note.rev>>}
    <3>1. PICK g : g = Overlay(base, [m \in {n} |-> x]) /\ g = notes
      BY ONLY <1>2
    <3>2. Says(g) \subseteq Says(base) \union {<<x.rev, n, x.sup>>}
      BY ONLY <3>1, SaysOver
    <3> QED
      BY ONLY <1>6, <3>1, <3>2
  <2>3. Says(base) \subseteq Book(a)
    BY ONLY <1>1, <1>2, <1>11 DEF Book
  <2> QED
    BY ONLY <2>1, <2>2, <2>3
<1>15. Grows
  <2>1. Facts' \subseteq Facts \union {<<revs + 1, n, note.rev>>}
    BY ONLY <1>3, <1>11, <1>14 DEF Facts
  <2> QED
    BY ONLY <1>1, <1>2, <1>5, <2>1 DEF Grows
<1>16. Keeps(h)'
  BY <1>13, <1>15, KeepsGrow
<1>17. Consistent(Book(b))
  <2>1. Consistent(Facts')
    BY ONLY <1>16 DEF Keeps
  <2>2. Book(b) \subseteq Facts'
    BY ONLY <1>11 DEF Facts
  <2> QED
    BY ONLY <2>1, <2>2 DEF Consistent
<1>18. \A m \in DOMAIN notes : \/ m = n /\ notes[m] = x
                               \/ m \in DOMAIN base /\ notes[m] = base[m]
  BY ONLY <1>2 DEF Overlay
<1>19. i \in DOMAIN b /\ b[i] = o /\ p \in DOMAIN a
  BY ONLY <1>1, <1>10, <1>11
<1>20. ValidContextObject(o)
  <2>1. Loads(objects, DOMAIN objects, ref)
    BY ONLY <1>11, <1>12
  <2>2. \A m \in DOMAIN base : base[m].src = objects[ref].source
    <3>1. ValidContextObject(objects[ref])
      BY ONLY <1>1, <2>1, TipIsValid
    <3> QED
      BY ONLY <1>2, <3>1 DEF ValidContextObject
  <2>3. ASSUME NEW m \in DOMAIN notes
        PROVE  notes[m].src = note.src
    <3>1. note.src = objects[ref].source
      BY ONLY <1>2, <2>2
    <3>2. x.src = note.src
      BY ONLY <1>6
    <3> QED
      BY ONLY <1>18, <2>2, <3>1, <3>2, m \in DOMAIN notes
  <2>4. \A m \in DOMAIN b[i].notes : b[i].notes[m].src = b[i].source
    BY ONLY <1>9, <1>19, <2>3
  <2> QED
    BY ONLY <1>17, <1>19, <2>4, ValidByBook
<1>21. Links(notes, base)
  <2>1. ASSUME NEW m \in DOMAIN notes, notes[m].sup # 0
        PROVE  /\ m \in DOMAIN base
               /\ \/ base[m].rev = notes[m].sup
                  \/ base[m].rev = notes[m].rev /\ base[m].sup = notes[m].sup
    BY ONLY <1>2, <1>6, <1>18
  <2> QED
    BY ONLY <2>1 DEF Links
<1>22. Loads(b, DOMAIN b, i)
  <2>1. a[p].notes = base
    BY ONLY <1>2, <1>11
  <2>2. /\ b[i].parents = <<p>> /\ ValidContextObject(b[i])
        /\ Links(b[i].notes, a[p].notes)
    BY ONLY <1>9, <1>11, <1>19, <1>20, <1>21, <2>1
  <2> QED
    BY ONLY <1>11, <1>12, <1>17, <1>19, <2>2, LoadsNext
<1>23. Loads(objects, DOMAIN objects, ref)'
  BY ONLY <1>2, <1>11, <1>22
<1>24. Accounted'
  BY <1>1, <1>3, <1>10, <1>12, AccountedStays
<1> QED
  BY <1>16, <1>23, <1>24 DEF Loadable

-----------------------------------------------------------------------------
(* What the coordinator lands.                                             *)

\* The candidate's records contradict nothing that the history says.
LEMMA ClaimsAgree ==
    ASSUME NEW h \in Histories, Keeps(h), revs \in 0..MaxRevs, Accounted
    PROVE  Consistent(Book(objects) \union Claims(candidate.records))
<1>1. PICK B, C, F : /\ B = Book(objects) /\ C = Claims(candidate.records) /\ F = Facts
                     /\ B \subseteq F
  BY DEF Facts
<1>2. PICK old : old = Book(h.objects)
  OBVIOUS
<1>3. /\ Consistent(F)
      /\ \A x \in F : x \in old \/ x[1] \in (h.revs + 1)..revs
  BY ONLY <1>1, <1>2, Keeps(h) DEF Keeps
<1>4. CASE C \subseteq B
  <2>1. Consistent(B \union C)
    BY ONLY <1>1, <1>3, <1>4 DEF Consistent
  <2> QED
    BY ONLY <1>1, <2>1
<1>5. CASE candidate.records \in Foreign
  <2>1. /\ Consistent(old \union C)
        /\ \A x \in old \union C : x[1] \notin (h.revs + 1)..MaxRevs
    BY ONLY <1>1, <1>2, <1>5, h \in Histories, RevisionsAssumption
  <2>2. \A y \in (h.revs + 1)..revs : y \in (h.revs + 1)..MaxRevs
    <3>1. h.revs \in Nat /\ MaxRevs \in Nat
      BY HistoryRevisions
    <3> QED
      BY <3>1
  <2>3. \A x \in B : x \in old \/ x[1] \in (h.revs + 1)..MaxRevs
    BY ONLY <1>1, <1>3, <2>2
  <2>4. ASSUME NEW x \in B \union C, NEW y \in B \union C, x[1] = y[1]
        PROVE  x = y
    <3>1. CASE x \in B /\ y \in B
      BY ONLY <1>1, <1>3, <2>4, <3>1 DEF Consistent
    <3>2. CASE x \in old \union C /\ y \in old \union C
      BY ONLY <2>1, <2>4, <3>2 DEF Consistent
    <3>3. CASE (x \in B \ old /\ y \in C) \/ (y \in B \ old /\ x \in C)
      BY ONLY <2>1, <2>3, <2>4, <3>3
    <3> QED
      BY ONLY <3>1, <3>2, <3>3, x \in B \union C, y \in B \union C
  <2>5. Consistent(B \union C)
    BY ONLY <2>4 DEF Consistent
  <2> QED
    BY ONLY <1>1, <2>5
<1>6. C \subseteq B \/ candidate.records \in Foreign
  BY ONLY <1>1, Accounted DEF Accounted
<1> QED
  BY ONLY <1>4, <1>5, <1>6

\* A note of a plan is the canonical one, or says what a record claims.
Grounded(n, x, base, records) ==
    \/ n \in DOMAIN base /\ x.rev = base[n].rev /\ x.sup = base[n].sup
    \/ /\ <<x.rev, n, x.sup>> \in Claims(records)
       /\ x.sup # 0 => n \in DOMAIN base /\ base[n].rev = x.sup

\* A record that is not refused decides such a note.
LEMMA DecidedIsGrounded ==
    ASSUME IsHistory(objects), NEW b \in DOMAIN objects, NEW s \in Sources,
           NEW records, NEW r \in records, r \in Records, ValidRecord(r),
           NEW notes, notes = CarriedNotes(b, s), Refusals(r, notes, s) = {}
    PROVE  LET x == Decided(r, notes, s) IN
           x.src = s /\ Grounded(r.note, x, objects[b].notes, records)
<1>1. PICK base, n, x : base = objects[b].notes /\ n = r.note /\ x = Decided(r, notes, s)
  OBVIOUS
<1>2. /\ IsNotes(notes) /\ DOMAIN notes = DOMAIN base
      /\ \A m \in DOMAIN base : notes[m].rev = base[m].rev /\ notes[m].sup = base[m].sup
  BY ONLY <1>1, IsHistory(objects), b \in DOMAIN objects, s \in Sources,
          notes = CarriedNotes(b, s), CarriedAreNotes
<1>3. /\ x.src = s
      /\ r.op # "rebind" => x = FromRecord(r, s) /\ x.rev = r.rev /\ x.sup = r.sup
      /\ r.op = "rebind" => /\ n \in DOMAIN notes /\ notes[n].rev = r.base
                            /\ x.rev = r.base /\ x.sup = notes[n].sup
  BY ONLY <1>1, <1>2, r \in Records, s \in Sources, Refusals(r, notes, s) = {}, DecidedNote
<1>4. r.op \in {"add", "revise", "rebind"}
  BY DEF Records
<1>5. CASE n \in DOMAIN notes /\ x.rev = notes[n].rev /\ x.sup = notes[n].sup
  <2>1. Grounded(n, x, base, records)
    BY ONLY <1>2, <1>5 DEF Grounded
  <2> QED
    BY ONLY <1>1, <1>3, <2>1
<1>6. CASE r.op = "rebind"
  BY ONLY <1>3, <1>5, <1>6
<1>7. CASE r.op # "rebind" /\ n \in DOMAIN notes /\ notes[n] = FromRecord(r, s)
  BY ONLY <1>3, <1>5, <1>7
<1>8. CASE r.op # "rebind" /\ ~(n \in DOMAIN notes /\ notes[n] = FromRecord(r, s))
  <2>1. <<x.rev, n, x.sup>> \in Claims(records)
    <3>1. x.rev = r.rev /\ x.sup = r.sup /\ n = r.note
      BY ONLY <1>1, <1>3, <1>8
    <3> QED
      BY ONLY <1>8, <3>1, r \in records DEF Claims
  <2>2. CASE r.op = "add"
    <3>1. x.sup = 0
      BY ONLY <1>3, <2>2, ValidRecord(r) DEF ValidRecord
    <3>2. Grounded(n, x, base, records)
      BY ONLY <2>1, <3>1 DEF Grounded
    <3> QED
      BY ONLY <1>1, <1>3, <3>2
  <2>3. CASE r.op = "revise"
    <3>1. x.sup = r.base
      BY ONLY <1>3, <2>3, ValidRecord(r) DEF ValidRecord
    <3>2. n \in DOMAIN notes /\ notes[n].rev = r.base
      BY ONLY <1>1, <1>8, <2>3, Refusals(r, notes, s) = {} DEF Refusals
    <3>3. Grounded(n, x, base, records)
      BY ONLY <1>2, <2>1, <3>1, <3>2 DEF Grounded
    <3> QED
      BY ONLY <1>1, <1>3, <3>3
  <2> QED
    BY ONLY <1>4, <1>8, <2>2, <2>3
<1> QED
  BY ONLY <1>6, <1>7, <1>8

\* So is every note of a plan without conflicts.
LEMMA PlanIsGrounded ==
    ASSUME IsHistory(objects), NEW b \in DOMAIN objects, NEW s \in Sources,
           NEW records \in SUBSET Records, ValidDelta(records),
           NEW p, p = PlanLanding(b, s, records), p.conflicts = {}
    PROVE  \A n \in DOMAIN p.notes :
             p.notes[n].src = s /\ Grounded(n, p.notes[n], objects[b].notes, records)
<1>1. PICK notes : notes = CarriedNotes(b, s) /\ Combines(p, notes, s, records)
  BY PlanOf
<1>2. TAKE n \in DOMAIN p.notes
<1>3. /\ DOMAIN p.notes = DOMAIN notes \union {r.note : r \in records}
      /\ \A r \in records : /\ Refusals(r, notes, s) = {}
                            /\ p.notes[r.note] = Decided(r, notes, s)
      /\ \A m \in DOMAIN notes : m \notin {r.note : r \in records} => p.notes[m] = notes[m]
  BY ONLY <1>1, p.conflicts = {} DEF Combines
<1>4. CASE \E r \in records : r.note = n
  <2>1. PICK r \in records : r.note = n
    BY <1>4
  <2>2. r \in Records /\ ValidRecord(r)
    BY DEF ValidDelta
  <2>3. PICK x : x = Decided(r, notes, s) /\ x = p.notes[n]
    BY ONLY <1>3, <2>1
  <2>4. x.src = s /\ Grounded(r.note, x, objects[b].notes, records)
    <3>1. notes = CarriedNotes(b, s) /\ Refusals(r, notes, s) = {}
      BY ONLY <1>1, <1>3
    <3>2. /\ Decided(r, notes, s).src = s
          /\ Grounded(r.note, Decided(r, notes, s), objects[b].notes, records)
      BY ONLY <2>2, <3>1, IsHistory(objects), b \in DOMAIN objects, s \in Sources,
              r \in records, DecidedIsGrounded
    <3> QED
      BY ONLY <2>3, <3>2
  <2> QED
    BY ONLY <2>1, <2>3, <2>4
<1>5. CASE ~\E r \in records : r.note = n
  <2>1. n \in DOMAIN notes /\ p.notes[n] = notes[n]
    BY ONLY <1>3, <1>5, n \in DOMAIN p.notes
  <2>2. PICK base : base = objects[b].notes
    OBVIOUS
  <2>3. /\ n \in DOMAIN base /\ notes[n].src = s
        /\ notes[n].rev = base[n].rev /\ notes[n].sup = base[n].sup
    BY ONLY <1>1, <2>1, <2>2, IsHistory(objects), b \in DOMAIN objects, s \in Sources,
            CarriedAreNotes
  <2> QED
    BY ONLY <2>1, <2>2, <2>3 DEF Grounded
<1> QED
  BY ONLY <1>4, <1>5

\* The plan that the coordinator lands continues what readers accept.
LEMMA LandingLoads ==
    ASSUME IInv, Loadable, LandAutomatically, plan.base = ref
    PROVE  /\ landed'.id # 0
           /\ Loads(objects, DOMAIN objects, landed.id)'
<1>1. PICK p, s, records, o : /\ p = plan /\ s = merged /\ records = candidate.records
                              /\ o = Snapshot(p)
  OBVIOUS
<1>2. /\ p # None /\ landed.id = 0 /\ p.conflicts = {} /\ objects' = Append(objects, o)
      /\ landed' = [id |-> Len(objects) + 1, plan |-> p, by |-> "coordinator"]
  BY <1>1 DEF LandAutomatically
<1>3. /\ IsHistory(objects) /\ ref \in DOMAIN objects /\ Len(objects) \in Nat
      /\ DOMAIN objects = 1..Len(objects) /\ revs \in 0..MaxRevs /\ s \in Sources
  BY <1>1, <1>2 DEF IInv, Typed, IsHistory, Staged
<1>4. records \in SUBSET Records /\ ValidDelta(records)
  BY <1>1 DEF IInv, CandidateOK
<1>5. p = PlanLanding(ref, s, records)
  BY <1>1, <1>2 DEF IInv, PlansOK, FinalPlanOK
<1>6. IsNotes(p.notes) /\ p.source = s /\ p.base = ref
  <2>1. IsNotes(p.notes)
    BY ONLY <1>3, <1>4, <1>5, PlanHoldsNotes
  <2>2. /\ Combines(p, CarriedNotes(ref, s), s, records) /\ p.base = ref
    BY ONLY <1>4, <1>5, PlanOf
  <2> QED
    BY ONLY <2>1, <2>2 DEF Combines
<1>7. /\ IsSnapshot(o) /\ o.parents \in Seq(1..Len(objects))
      /\ o.parents = <<ref>> /\ o.source = s /\ o.notes = p.notes
  <2>1. o = Object(<<ref>>, s, p.notes) /\ ref \in 1..Len(objects)
    BY ONLY <1>1, <1>3, <1>6 DEF Snapshot
  <2> QED
    BY ONLY <1>3, <1>6, <2>1, SnapshotOnOne
<1>8. /\ Grown /\ Len(objects') = Len(objects) + 1
      /\ Len(objects) + 1 \in DOMAIN objects' /\ objects'[Len(objects) + 1] = o
  <2>1. objects' = Append(objects, o)
    BY ONLY <1>2
  <2> QED
    BY ONLY <1>3, <1>7, <2>1, AppendGrows
<1>9. PICK a, b, i, v : /\ a = objects /\ b = objects' /\ i = Len(objects) + 1 /\ v = ref
                        /\ Extends(a, b)
  BY <1>3, <1>8, GrownExtends
<1>10. Loads(a, DOMAIN a, v) /\ Accounted
  BY <1>2, <1>9 DEF Loadable
<1>11. PICK h \in Histories : Keeps(h)
  BY <1>2 DEF Loadable
<1>12. PICK base : base = objects[ref].notes
  OBVIOUS
<1>13. \A n \in DOMAIN p.notes : p.notes[n].src = s /\ Grounded(n, p.notes[n], base, records)
  BY ONLY <1>2, <1>3, <1>4, <1>5, <1>12, PlanIsGrounded
<1>14. Says(p.notes) \subseteq Book(objects) \union Claims(records)
  <2>1. ASSUME NEW n \in DOMAIN p.notes
        PROVE  <<p.notes[n].rev, n, p.notes[n].sup>> \in Says(base) \union Claims(records)
    <3>1. PICK x : x = p.notes[n] /\ Grounded(n, x, base, records)
      BY ONLY <1>13, n \in DOMAIN p.notes
    <3>2. <<x.rev, n, x.sup>> \in Says(base) \union Claims(records)
      BY ONLY <3>1 DEF Grounded, Says
    <3> QED
      BY ONLY <3>1, <3>2
  <2>2. Says(base) \subseteq Book(objects)
    BY ONLY <1>3, <1>12 DEF Book
  <2>3. Says(p.notes) \subseteq Says(base) \union Claims(records)
    BY ONLY <2>1 DEF Says
  <2> QED
    BY ONLY <2>2, <2>3
<1>15. Consistent(Book(b))
  <2>1. Book(b) = Book(a) \union Says(p.notes)
    BY ONLY <1>7, <1>8, <1>9, BookOfNext
  <2>2. Consistent(Book(a) \union Claims(records))
    BY ONLY <1>1, <1>3, <1>9, <1>10, <1>11, ClaimsAgree
  <2>3. Book(b) \subseteq Book(a) \union Claims(records)
    BY ONLY <1>9, <1>14, <2>1
  <2> QED
    BY ONLY <2>2, <2>3 DEF Consistent
<1>16. i \in DOMAIN b /\ b[i] = o /\ v \in DOMAIN a
  BY ONLY <1>3, <1>8, <1>9
<1>17. ValidContextObject(b[i])
  <2>1. \A n \in DOMAIN b[i].notes : b[i].notes[n].src = b[i].source
    BY ONLY <1>7, <1>13, <1>16
  <2> QED
    BY ONLY <1>15, <1>16, <2>1, ValidByBook
<1>18. Links(p.notes, base)
  <2>1. ASSUME NEW n \in DOMAIN p.notes, p.notes[n].sup # 0
        PROVE  /\ n \in DOMAIN base
               /\ \/ base[n].rev = p.notes[n].sup
                  \/ base[n].rev = p.notes[n].rev /\ base[n].sup = p.notes[n].sup
    <3>1. Grounded(n, p.notes[n], base, records)
      BY ONLY <1>13, n \in DOMAIN p.notes
    <3> QED
      BY ONLY <2>1, <3>1 DEF Grounded
  <2> QED
    BY ONLY <2>1 DEF Links
<1>19. Loads(b, DOMAIN b, i)
  <2>1. a[v].notes = base /\ b[i].parents = <<v>> /\ b[i].notes = p.notes
    BY ONLY <1>7, <1>9, <1>12, <1>16
  <2>2. Links(b[i].notes, a[v].notes)
    BY ONLY <1>18, <2>1
  <2> QED
    BY ONLY <1>9, <1>10, <1>15, <1>16, <1>17, <2>1, <2>2, LoadsNext
<1>20. landed'.id = i /\ i # 0
  BY <1>2, <1>3, <1>9
<1> QED
  BY ONLY <1>9, <1>19, <1>20

\* Only a landing changes what has landed.
LEMMA LandingSteps ==
    ASSUME [Next]_vars
    PROVE  \/ UNCHANGED landed
           \/ LandAutomatically /\ plan.base = ref
           \/ \E t \in Terminals : CommitLanding(t)
<1>1. CASE UNCHANGED vars
  BY <1>1 DEF vars
<1>2. ASSUME NEW n \in NoteIds, NEW k \in Keys,
             AddPendingNote(n, k) \/ ReviewNote(n, k)
      PROVE  UNCHANGED landed
  BY <1>2 DEF AddPendingNote, ReviewNote, Written, Author
<1>3. ASSUME NEW n \in NoteIds, ReviseNote(n)  PROVE  UNCHANGED landed
  BY <1>3 DEF ReviseNote, Written, Author
<1>4. ASSUME NEW s \in Sources, UpdateTo(s) \/ MergeChange(s)
      PROVE  UNCHANGED landed
  BY <1>4 DEF UpdateTo, MergeChange
<1>5. ASSUME Commit \/ PublishCandidate \/ PublishForeign \/ PushElsewhere
                    \/ PlanFinal \/ RecoverLanding
      PROVE  UNCHANGED landed
  BY <1>5 DEF Commit, PublishCandidate, PublishForeign, PushElsewhere, PlanFinal,
              RecoverLanding
<1>6. ASSUME LandAutomatically
      PROVE  UNCHANGED landed \/ plan.base = ref
  BY <1>6 DEF LandAutomatically
<1>7. ASSUME NEW t \in Terminals, ReadSession(t)
      PROVE  UNCHANGED landed
  BY <1>7 DEF ReadSession
<1>8. ASSUME NEW t \in Terminals, NEW n \in NoteIds \union {None}, ResolveLanding(t, n)
      PROVE  UNCHANGED landed
  BY <1>8 DEF ResolveLanding
<1> QED
  BY <1>1, <1>2, <1>3, <1>4, <1>5, <1>6, <1>7, <1>8 DEF Next

\* Nothing follows a landing.
LEMMA AfterLanding ==
    ASSUME IInv, [Next]_vars, landed.id # 0
    PROVE  UNCHANGED <<objects, landed>>
<1>1. merged # None
  BY DEF IInv, Staged
<1>2. UNCHANGED landed
  BY LandingSteps DEF LandAutomatically, CommitLanding
<1>3. CASE UNCHANGED vars
  BY <1>3 DEF vars
<1>4. ASSUME NEW n \in NoteIds, NEW k \in Keys,
             AddPendingNote(n, k) \/ ReviewNote(n, k)
      PROVE  FALSE
  BY <1>1, <1>4 DEF AddPendingNote, ReviewNote, Written, Author
<1>5. ASSUME NEW n \in NoteIds, ReviseNote(n)
      PROVE  FALSE
  BY <1>1, <1>5 DEF ReviseNote, Written, Author
<1>6. ASSUME NEW s \in Sources, UpdateTo(s) \/ MergeChange(s)
      PROVE  FALSE
  BY <1>1, <1>6 DEF UpdateTo, MergeChange
<1>7. ASSUME Commit \/ PublishCandidate \/ PublishForeign \/ PushElsewhere
      PROVE  FALSE
  BY <1>1, <1>7 DEF Commit, PublishCandidate, PublishForeign, PushElsewhere
<1>8. ASSUME PlanFinal \/ LandAutomatically \/ RecoverLanding
      PROVE  FALSE
  BY <1>8 DEF PlanFinal, LandAutomatically, RecoverLanding
<1>9. ASSUME NEW t \in Terminals, ReadSession(t) \/ CommitLanding(t)
      PROVE  FALSE
  BY <1>9 DEF ReadSession, CommitLanding
<1>10. ASSUME NEW t \in Terminals, NEW n \in NoteIds \union {None}, ResolveLanding(t, n)
       PROVE  FALSE
  BY <1>10 DEF ResolveLanding
<1> QED
  BY <1>2, <1>3, <1>4, <1>5, <1>6, <1>7, <1>8, <1>9, <1>10 DEF Next

LEMMA InitLoads == Init => Loadable /\ AutomaticLandingLoads
<1> SUFFICES ASSUME Init
             PROVE  Loadable /\ AutomaticLandingLoads
  OBVIOUS
<1>1. PICK h \in Histories :
        /\ objects = h.objects /\ ref = Len(h.objects) /\ revs = h.revs
        /\ author = [tip |-> ref, source |-> objects[ref].source,
                     notes |-> objects[ref].notes]
  BY DEF Init
<1>2. landed.id = 0 /\ candidate.records = {}
  BY DEF Init, NotLanded, NoDelta
<1>3. Loads(objects, DOMAIN objects, ref)
  BY <1>1, RevisionsAssumption
<1>4. ref \in DOMAIN objects
  BY <1>1, InitIInv DEF IInv, Typed
<1>5. Facts = Book(objects)
  <2>1. author.notes = objects[ref].notes
    BY ONLY <1>1
  <2>2. Says(author.notes) \subseteq Book(objects)
    BY ONLY <1>4, <2>1 DEF Book
  <2> QED
    BY ONLY <2>2 DEF Facts
<1>6. Keeps(h)
  <2>1. Consistent(Book(h.objects) \union Claims({}))
    BY RevisionsAssumption
  <2>2. Consistent(Book(h.objects))
    BY ONLY <2>1 DEF Consistent
  <2>3. h.revs <= revs
    BY <1>1, HistoryRevisions
  <2> QED
    BY ONLY <1>1, <1>5, <2>2, <2>3 DEF Keeps
<1>7. Accounted
  <2>1. Claims({}) = {}
    BY DEF Claims
  <2> QED
    BY ONLY <1>2, <2>1 DEF Accounted
<1> QED
  BY <1>2, <1>3, <1>6, <1>7 DEF Loadable, AutomaticLandingLoads

LEMMA LoadableStep ==
    ASSUME IInv, IInv', Loadable, [Next]_vars
    PROVE  Loadable'
<1>1. revs' \in 0..MaxRevs /\ revs \in 0..MaxRevs
  BY DEF IInv, Typed
<1>2. ASSUME UNCHANGED <<objects, ref, author, candidate, landed>>, revs' >= revs
      PROVE  Loadable'
  BY <1>1, <1>2, QuietLoads
<1>3. revs >= revs /\ revs + 1 >= revs
  BY <1>1
<1>4. CASE UNCHANGED vars
  BY <1>2, <1>3, <1>4 DEF vars
<1>5. ASSUME NEW n \in NoteIds, NEW k \in Keys, AddPendingNote(n, k) \/ ReviewNote(n, k)
      PROVE  Loadable'
  BY <1>5, AddPendingNoteLoads, ReviewNoteLoads
<1>6. ASSUME NEW n \in NoteIds, ReviseNote(n)
      PROVE  Loadable'
  <2>1. n \in DOMAIN author.notes /\ IsNotes(author.notes)
    BY <1>6 DEF ReviseNote, IInv, Typed, AuthorOK
  <2>2. author.notes[n].entity \in Keys
    BY <2>1 DEF IsNotes, Notes
  <2> QED
    BY <1>6, <2>2, AddPendingNoteLoads
<1>7. ASSUME NEW s \in Sources, UpdateTo(s)
      PROVE  Loadable'
  BY <1>7, UpdateToLoads
<1>8. ASSUME NEW s \in Sources, MergeChange(s)
      PROVE  Loadable'
  BY <1>2, <1>3, <1>8 DEF MergeChange
<1>9. CASE Commit
  BY <1>9, CommitLoads
<1>10. CASE PublishCandidate \/ PublishForeign
  BY <1>10, PublishLoads
<1>11. CASE PushElsewhere
  BY <1>11, PushElsewhereLoads
<1>12. CASE PlanFinal \/ RecoverLanding
  BY <1>2, <1>3, <1>12 DEF PlanFinal, RecoverLanding
<1>13. CASE LandAutomatically
  <2>1. CASE plan.base = ref
    BY <1>13, <2>1, LandingLoads DEF Loadable
  <2>2. CASE plan.base # ref
    BY <1>2, <1>3, <1>13, <2>2 DEF LandAutomatically
  <2> QED
    BY <2>1, <2>2
<1>14. ASSUME NEW t \in Terminals, ReadSession(t)
       PROVE  Loadable'
  BY <1>2, <1>3, <1>14 DEF ReadSession
<1>15. ASSUME NEW t \in Terminals, CommitLanding(t)
       PROVE  Loadable'
  <2>1. landed'.id = Len(objects) + 1 /\ Len(objects) \in Nat
    BY <1>15 DEF CommitLanding, IInv, Typed, IsHistory
  <2>2. landed'.id # 0
    BY <2>1
  <2> QED
    BY <2>2 DEF Loadable
<1>16. ASSUME NEW t \in Terminals, NEW n \in NoteIds \union {None}, ResolveLanding(t, n)
       PROVE  Loadable'
  BY <1>2, <1>3, <1>16 DEF ResolveLanding
<1> QED
  BY <1>4, <1>5, <1>6, <1>7, <1>8, <1>9, <1>10, <1>11, <1>12, <1>13, <1>14, <1>15, <1>16
     DEF Next

\* AutomaticLandingLoads: the snapshot of an unblocked plan of the coordinator
\* passes the checks of loadObjectGraph, whatever the candidate it was planned
\* from, the branch, and the pushes to the canonical ref before it; revision
\* identifiers that are never drawn twice are the one thing it rests on.
THEOREM CoordinatorLandsWhatLoads == Spec => []AutomaticLandingLoads
<1>1. Init => Loadable /\ AutomaticLandingLoads
  BY InitLoads
<1>2. ASSUME IInv, IInv', Loadable, AutomaticLandingLoads, [Next]_vars
      PROVE  Loadable' /\ AutomaticLandingLoads'
  <2>1. Loadable'
    BY <1>2, LoadableStep
  <2>2. CASE landed.id # 0
    <3>1. UNCHANGED <<objects, landed>>
      BY <1>2, <2>2, AfterLanding
    <3>2. Loads(objects, DOMAIN objects, landed.id)' <=> Loads(objects, DOMAIN objects, landed.id)
      BY ONLY <3>1
    <3> QED
      BY <1>2, <2>1, <3>1, <3>2 DEF AutomaticLandingLoads
  <2>3. CASE landed.id = 0
    <3>1. CASE UNCHANGED landed
      BY <2>1, <2>3, <3>1 DEF AutomaticLandingLoads
    <3>2. CASE LandAutomatically /\ plan.base = ref
      BY <1>2, <2>1, <3>2, LandingLoads DEF AutomaticLandingLoads
    <3>3. ASSUME NEW t \in Terminals, CommitLanding(t)
          PROVE  AutomaticLandingLoads'
      <4>1. landed'.by = "client"
        BY <3>3 DEF CommitLanding
      <4> QED
        BY <4>1 DEF AutomaticLandingLoads
    <3> QED
      BY <1>2, <2>1, <3>1, <3>2, <3>3, LandingSteps
  <2> QED
    BY <2>2, <2>3
<1>3. Spec => [](Loadable /\ AutomaticLandingLoads)
  <2>1. IInv /\ IInv' /\ (Loadable /\ AutomaticLandingLoads) /\ [Next]_vars
          => (Loadable /\ AutomaticLandingLoads)'
    BY <1>2
  <2> QED
    BY <1>1, <2>1, Invariance, PTL DEF Spec
<1> QED
  BY <1>3, PTL
=============================================================================
