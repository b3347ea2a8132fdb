----------------------------- MODULE LocalStore -----------------------------
(***************************************************************************)
(* One clone of a repository: its SQLite projection, its object directory  *)
(* and the commands that work on them, while Git's HEAD moves, another     *)
(* process of the same worktree drafts notes, other clones push to the     *)
(* shared remote, and commands die half-way.                               *)
(*                                                                         *)
(* A command that is one transaction is one action.  Commit, merge commit, *)
(* push and pull read, leave the transaction and write later: `writer' and *)
(* `sync' hold what such a command has read.  Update reads only HEAD before *)
(* its transaction; as HEAD may move back and forth at any time, updating  *)
(* at the current HEAD reaches what a late update reaches.                 *)
(* One branch, one language; identifiers are numbers handed out in order.  *)
(***************************************************************************)
EXTENDS ContextObjects, Functions, FiniteSetsExt

CONSTANTS Drafts,       \* candidate notes
          DraftOf,      \* [Drafts -> [entity, hash]]
          Envelopes,    \* Seq of [merged, notes]: the provider's updates
          NoSource,     \* no working set; the merge source of an open change
          None,         \* no command under way, no session
          Worlds        \* [actors, sources, objects, revs, notes]: who acts, bounds

ASSUME LocalStoreAssumption ==
    /\ NoSource \notin Sources
    /\ \A w \in Worlds : /\ w.objects \in Nat /\ w.revs \in Nat /\ w.notes \in Nat
                         /\ w.sources \subseteq Sources
    /\ \A s \in Sources : DOMAIN Tree[s] \subseteq Keys
    /\ IsFiniteSet(Drafts) /\ \A d \in Drafts : DraftOf[d].entity \in Keys
    /\ Envelopes \in Seq([merged : Sources, notes : SUBSET Drafts])

VARIABLES
    world,      \* the one of Worlds this behaviour takes place in
    objects,    \* every object written by any clone
    stored,     \* the ones in this clone's object directory
    head,       \* Git HEAD of the worktree
    ws,         \* the working set: its source and base commit
    coverage,   \* the language's coverage row: source and state
    pending,    \* pending_notes
    ref,        \* context_refs of the branch: tip and version, 0 if none
    commits,    \* context_commits with their committed_notes
    search,     \* search_index: active revisions per fresh entity
    candidate,  \* the imported envelope: its number and its notes' outcomes
    session,    \* a merge session that is not committed
    writer, sync,
    remote,     \* the shared remote's ref
    tracking,   \* remote_refs
    revs,       \* number of revisions written so far
    confirmed,  \* revision -> hashes a person wrote or confirmed it for
    lost        \* the projection file was lost once

projection == <<ws, coverage, pending, ref, commits, search, candidate, session>>
commands   == <<writer, sync>>
ghosts     == <<revs, confirmed, lost>>
vars == <<world, objects, stored, head, projection, commands, remote, tracking,
          ghosts>>

Empty == <<>>
NoRef == [tip |-> 0, version |-> 0]
NoSet == [source |-> NoSource, base |-> 0]
NoCandidate == [version |-> 0, notes |-> Empty]

Init == /\ world \in Worlds /\ objects = <<>> /\ stored = {} /\ head \in world.sources
        /\ ws = NoSet /\ pending = Empty /\ ref = NoRef /\ commits = {}
        /\ coverage = [source |-> NoSource, state |-> "failed"]
        /\ search = Empty /\ candidate = NoCandidate /\ session = None
        /\ writer = None /\ sync = None
        /\ remote = NoRef /\ tracking = NoRef
        /\ revs = 0 /\ confirmed = [r \in 1..world.revs |-> {}] /\ lost = FALSE

-----------------------------------------------------------------------------
(* Reading the projection.                                                 *)

CommittedNotes(commit) == IF commit = 0 THEN Empty ELSE objects[commit].notes

\* listFreshEntities: only a language indexed at that source counts.
FreshEntities(cov, source) ==
    IF cov.source = source /\ cov.state = "indexed" THEN Tree[source] ELSE Empty

CoverageComplete == coverage.source = ws.source /\ coverage.state = "indexed"

\* requireWorkingSet, for a command whose key is the current HEAD.
InWorkingSet == ws.source = head

Effective(tip, pend) == Overlay(CommittedNotes(tip), pend)

\* rebuildSearch, the last statement of every transaction below.
SearchOf(cov, source, tip, pend) ==
    LET notes == Effective(tip, pend) IN
    [k \in DOMAIN FreshEntities(cov, source) |->
        {notes[n].rev : n \in {n \in DOMAIN notes :
             notes[n].state = "active" /\ notes[n].entity = k}}]

Readable(tip) == IF tip = 0 THEN TRUE ELSE Loads(objects, stored, tip)

UsedIds == DOMAIN pending \union UNION {DOMAIN objects[i].notes : i \in DOMAIN objects}
FreshIds == IF Cardinality(UsedIds) < world.notes THEN NoteIds \ UsedIds ELSE {}

-----------------------------------------------------------------------------
(* Drafting notes: one transaction each, by the CLI or the MCP server.     *)

\* upsertPendingNote, and the revision it was written or confirmed as.
\* Seeded fault: the search index is left as it is.
DraftUnindexed(n, note) ==
    /\ pending' = Overlay(pending, [m \in {n} |-> note])
    /\ UNCHANGED <<world, objects, stored, head, ws, coverage, ref, commits, candidate,
                   search, session, commands, remote, tracking, lost>>
Draft(n, note) ==
    /\ pending' = Overlay(pending, [m \in {n} |-> note])
    /\ search' = SearchOf(coverage, ws.source, ref.tip, pending')
    /\ UNCHANGED <<world, objects, stored, head, ws, coverage, ref, commits, candidate,
                   session, commands, remote, tracking, lost>>

Confirm(rev, entity) ==
    confirmed' = [confirmed EXCEPT ![rev] = @ \union HashAt(ws.source, entity)]

AddPendingNote(n, k) ==
    /\ InWorkingSet /\ n \in FreshIds
    /\ k \in DOMAIN FreshEntities(coverage, ws.source)
    /\ revs < world.revs /\ revs' = revs + 1
    /\ Draft(n, Entry(revs + 1, 0, k, "active", ws.source))
    /\ Confirm(revs + 1, k)

ReviseNote(n) ==
    /\ InWorkingSet /\ n \in DOMAIN CommittedNotes(ws.base)
    /\ LET parent  == CommittedNotes(ws.base)[n]
           current == Overlay(CommittedNotes(ws.base), pending)[n]
       IN  /\ n \in DOMAIN pending => current.rev = parent.rev
           /\ current.state \in {"active", "needs_review"}
           /\ current.entity \in DOMAIN FreshEntities(coverage, ws.source)
           /\ revs < world.revs /\ revs' = revs + 1
           /\ Draft(n, Entry(revs + 1, current.rev, current.entity,
                             "active", ws.source))
           /\ Confirm(revs + 1, current.entity)

ReviewNote(n, k) ==
    /\ InWorkingSet /\ n \in DOMAIN Effective(ws.base, pending)
    /\ LET current == Effective(ws.base, pending)[n] IN
       /\ current.state = "needs_review"
       /\ k \in DOMAIN FreshEntities(coverage, ws.source)
       /\ Draft(n, Rebound(current, k, "active", ws.source))
       /\ Confirm(current.rev, k)
    /\ UNCHANGED revs

-----------------------------------------------------------------------------
(* Indexing.                                                               *)

MoveHead(s) == /\ "git" \in world.actors /\ s # head /\ head' = s
               /\ UNCHANGED <<world, objects, stored, projection, commands, remote,
                              tracking, ghosts>>

\* ensureWorkingSet: pending changes hold the working set where it is.
WorkingSetAt(source) ==
    IF ws.source = source THEN ws ELSE [source |-> source, base |-> ref.tip]

\* reconcileActiveBindings over the active notes without a pending row.
\* Seeded fault: an entity that still exists is taken for unchanged.
ReconciledByKey(cov, source) ==
    LET notes == CommittedNotes(ref.tip)
        fresh == FreshEntities(cov, source)
        after(n) == Rebound(notes[n], notes[n].entity,
                            IF notes[n].entity \in DOMAIN fresh
                            THEN "active" ELSE "historical", source)
        moved == {n \in DOMAIN notes \ DOMAIN pending :
                     notes[n].state = "active" /\ after(n) # notes[n]}
    IN  [n \in moved |-> after(n)]
ReconciledNotes(cov, source) ==
    LET notes == CommittedNotes(ref.tip)
        after(n) == Reconcile(notes[n],
                              HashAt(objects[ref.tip].source, notes[n].entity),
                              FreshEntities(cov, source), source)
        moved == {n \in DOMAIN notes \ DOMAIN pending :
                     notes[n].state = "active" /\ after(n) # notes[n]}
    IN  [n \in moved |-> after(n)]

\* Update: the tree was indexed, or its pack failed or is missing.
ApplyIndexUpdate(state) ==
    /\ state = "indexed" \/ "pack" \in world.actors
    /\ ws.source = head \/ pending = Empty
    /\ Readable(ref.tip)
    /\ ws' = WorkingSetAt(head)
    /\ coverage' = [source |-> head, state |-> state]
    /\ pending' = Overlay(pending, ReconciledNotes(coverage', head))
    /\ search' = SearchOf(coverage', head, ref.tip, pending')
    /\ UNCHANGED <<world, objects, stored, head, ref, commits, candidate, session,
                   commands, remote, tracking, ghosts>>

-----------------------------------------------------------------------------
(* Commit and merge.                                                       *)

\* CommitSnapshot, the coverage check and the reading of the parent.
StartCommit ==
    /\ writer = None /\ InWorkingSet /\ CoverageComplete
    /\ pending # Empty /\ Readable(ws.base)
    /\ writer' = [kind |-> "commit", source |-> ws.source, id |-> 0,
                  parents |-> IF ws.base = 0 THEN <<>> ELSE <<ws.base>>,
                  notes |-> Effective(ws.base, pending),
                  drafted |-> DOMAIN pending]
    /\ UNCHANGED <<world, objects, stored, head, projection, sync, remote,
                   tracking, ghosts>>

\* WriteObject between two looks at HEAD.  An object has a time of its own,
\* except that a session's merge has the time the session was started.
WriteObject ==
    /\ writer # None /\ writer.id = 0 /\ head = writer.source
    /\ LET o == Object(writer.parents, writer.source, writer.notes)
           again == {i \in stored : writer.kind = "merge" /\ objects[i] = o}
       IN  \/ /\ again = {} /\ Len(objects) < world.objects
              /\ objects' = Append(objects, o)
              /\ stored' = stored \union {Len(objects) + 1}
              /\ writer' = [writer EXCEPT !.id = Len(objects) + 1]
           \/ /\ again # {}
              /\ writer' = [writer EXCEPT !.id = CHOOSE i \in again : TRUE]
              /\ UNCHANGED <<world, objects, stored>>
    /\ UNCHANGED <<world, head, projection, sync, remote, tracking, ghosts>>

\* The rows both finalizing transactions write.
\* Seeded fault: the working set keeps its old base.
AdvanceRefOnly(id) ==
    /\ commits' = commits \union {id}
    /\ ref' = [tip |-> id, version |-> ref.version + 1]
    /\ pending' = Empty /\ ws' = ws
    /\ search' = SearchOf(coverage, ws.source, id, Empty)
    /\ writer' = None
Advance(id) ==
    /\ commits' = commits \union {id}
    /\ ref' = [tip |-> id, version |-> ref.version + 1]
    /\ ws' = [ws EXCEPT !.base = id]
    /\ pending' = Empty
    /\ search' = SearchOf(coverage, ws.source, id, Empty)
    /\ writer' = None

\* samePendingSnapshot: the pending rows are the ones that were read.
\* Seeded fault: only the note ids are compared.
SamePendingIds == DOMAIN pending = writer.drafted
SamePending == /\ DOMAIN pending = writer.drafted
               /\ \A n \in DOMAIN pending : pending[n] = writer.notes[n]

FinalizeCommit ==
    /\ writer # None /\ writer.kind = "commit" /\ writer.id # 0
    /\ ws.source = writer.source
    /\ ws.base = (IF writer.parents = <<>> THEN 0 ELSE writer.parents[1])
    /\ pending # Empty /\ SamePending
    /\ ref.tip = ws.base
    /\ Advance(writer.id)
    /\ UNCHANGED <<world, objects, stored, head, coverage, candidate, session,
                   sync, remote, tracking, ghosts>>

\* A failed check or the death of the process; what it wrote stays.
StopWriter ==
    /\ writer # None /\ writer' = None
    /\ UNCHANGED <<world, objects, stored, head, projection, sync, remote,
                   tracking, ghosts>>

\* StartMerge of the local tip with another snapshot of the same source; a
\* new session replaces one that was given up.
StartMerge(other) ==
    /\ InWorkingSet /\ pending = Empty
    /\ ref.tip # 0 /\ other # ref.tip
    /\ objects[ref.tip].source = head /\ objects[other].source = head
    /\ Loads(objects, stored, ref.tip) /\ Loads(objects, stored, other)
    /\ CommonAncestors(objects, ref.tip, other) # {}
    /\ LET base == FindMergeBase(objects, ref.tip, other)
           B == objects[base].notes
           L == objects[ref.tip].notes
           R == objects[other].notes
       IN  /\ objects[base].source = head
           /\ session' = [local |-> ref.tip, remote |-> other, base |-> base,
                          source |-> head, records |-> Automatic(B, L, R),
                          open |-> Undecided(B, L, R)]
    /\ UNCHANGED <<world, objects, stored, head, ws, coverage, pending, ref, commits,
                   search, candidate, commands, remote, tracking, ghosts>>

\* ResolveMergeConflict: each conflict once, with one side or a new revision.
Resolved(n, record) ==
    /\ session' = [session EXCEPT
                     !.records = Overlay(@, [m \in {n} |-> record]),
                     !.open = @ \ {n}]
    /\ UNCHANGED <<world, objects, stored, head, ws, coverage, pending, ref, commits,
                   search, candidate, commands, remote, tracking, lost>>

ResolveMerge(n) ==
    /\ session # None /\ session.source = head /\ n \in session.open
    /\ \E side \in {session.local, session.remote} :
         /\ n \in DOMAIN objects[side].notes
         /\ Resolved(n, objects[side].notes[n])
    /\ UNCHANGED <<revs, confirmed>>

\* authoredMergeRecord: the revision succeeds the one of the merge base; the
\* entity is what the caller names.
AuthorMerge(n, k) ==
    /\ session # None /\ session.source = head /\ n \in session.open
    /\ revs < world.revs /\ revs' = revs + 1
    /\ LET base == objects[session.base].notes IN
       Resolved(n, Entry(revs + 1, IF n \in DOMAIN base THEN base[n].rev ELSE 0,
                         k, "active", session.source))
    /\ confirmed' = [confirmed EXCEPT
                       ![revs + 1] = HashAt(session.source, k)]

\* CommitMerge until it writes the object.
StartMergeCommit ==
    /\ writer = None /\ session # None /\ session.open = {}
    /\ InWorkingSet /\ session.source = head
    /\ ref.tip = session.local /\ pending = Empty
    /\ Loads(objects, stored, session.local)
    /\ Loads(objects, stored, session.remote)
    /\ \A n \in DOMAIN session.records : session.records[n].src = session.source
    /\ writer' = [kind |-> "merge", source |-> head, id |-> 0,
                  parents |-> <<session.local, session.remote>>,
                  notes |-> session.records, drafted |-> {}]
    /\ UNCHANGED <<world, objects, stored, head, projection, sync, remote,
                   tracking, ghosts>>

FinalizeMerge ==
    /\ writer # None /\ writer.kind = "merge" /\ writer.id # 0
    /\ session # None /\ session.open = {}
    /\ writer.parents = <<session.local, session.remote>>
    /\ ws.source = writer.source /\ session.source = writer.source
    /\ pending = Empty
    /\ ref.tip = session.local /\ objects[ref.tip].source = ws.source
    /\ Advance(writer.id)
    /\ session' = None
    /\ UNCHANGED <<world, objects, stored, head, coverage, candidate, sync,
                   remote, tracking, ghosts>>

-----------------------------------------------------------------------------
(* The remote.                                                             *)

\* RecordRemoteRef: the tracking ref never moves back.
Track(r) == tracking' = IF r.version > tracking.version THEN r ELSE tracking

\* PushRemote until it has published the chain of its tip.
StartPush ==
    /\ sync = None /\ InWorkingSet /\ ref.tip # 0
    /\ remote.tip # ref.tip
    /\ Loads(objects, stored, ref.tip)
    /\ IsAncestor(objects, ref.tip, remote.tip)
    /\ sync' = [kind |-> "push", source |-> head, local |-> ref, remote |-> remote]
    /\ UNCHANGED <<world, objects, stored, head, projection, writer, remote,
                   tracking, ghosts>>

\* The compare-and-swap of the remote ref.
\* Seeded fault: the ref is set whatever it is by now.
FinishPushBlindly ==
    /\ sync # None /\ sync.kind = "push"
    /\ remote' = [tip |-> sync.local.tip, version |-> remote.version + 1]
    /\ Track(remote')
    /\ sync' = None
    /\ UNCHANGED <<world, objects, stored, head, projection, writer, ghosts>>
FinishPush ==
    /\ sync # None /\ sync.kind = "push"
    /\ remote = sync.remote
    /\ remote' = [tip |-> sync.local.tip, version |-> remote.version + 1]
    /\ Track(remote')
    /\ sync' = None
    /\ UNCHANGED <<world, objects, stored, head, projection, writer, ghosts>>

\* fetchRemote: the objects and the tracking ref, then what pull checks.
Fetch ==
    /\ sync = None /\ InWorkingSet /\ remote.tip # 0
    /\ Loads(objects, DOMAIN objects, remote.tip)
    /\ stored' = stored \union History(objects, remote.tip)
    /\ Track(remote)
    /\ sync' = [kind |-> "pull", source |-> head, local |-> ref, remote |-> remote]
    /\ UNCHANGED <<world, objects, head, projection, writer, remote, ghosts>>

\* FastForward, and PrepareLandingRecovery, which accepts a canonical tip of
\* another source; the row of the working set keeps its own source.
FastForward(recovery) ==
    /\ sync # None /\ sync.kind = "pull" /\ sync.remote.tip # sync.local.tip
    /\ recovery \/ objects[sync.remote.tip].source = sync.source
    /\ Loads(objects, stored, sync.remote.tip)
    /\ IsAncestor(objects, sync.remote.tip, sync.local.tip)
    /\ ws.source = sync.source /\ ref = sync.local /\ pending = Empty
    /\ commits' = commits \union History(objects, sync.remote.tip)
    /\ ref' = [tip |-> sync.remote.tip, version |-> ref.version + 1]
    /\ ws' = [ws EXCEPT !.base = sync.remote.tip]
    /\ search' = SearchOf(coverage, ws.source, sync.remote.tip, Empty)
    /\ sync' = None
    /\ UNCHANGED <<world, objects, stored, head, coverage, pending, candidate, session,
                   writer, remote, tracking, ghosts>>

StopSync ==
    /\ sync # None /\ sync' = None
    /\ UNCHANGED <<world, objects, stored, head, projection, writer, remote,
                   tracking, ghosts>>

\* Another clone commits on top of the remote tip, at a source of its own,
\* and pushes: a note added or revised, the others carried over.
OtherPush(n, k, source) ==
    /\ "clone" \in world.actors
    /\ Len(objects) < world.objects /\ revs < world.revs /\ revs' = revs + 1
    /\ k \in DOMAIN Tree[source]
    /\ LET before == CommittedNotes(remote.tip)
           old    == objects[remote.tip].source
           carry  == [m \in DOMAIN before |->
                        IF before[m].state = "active"
                        THEN Reconcile(before[m], HashAt(old, before[m].entity),
                                       Tree[source], source)
                        ELSE before[m]]
           sup    == IF n \in DOMAIN before THEN before[n].rev ELSE 0
           notes  == Overlay(carry, [m \in {n} |->
                        Entry(revs + 1, sup, k, "active", source)])
           o      == Object(IF remote.tip = 0 THEN <<>> ELSE <<remote.tip>>,
                            source, notes)
       IN  /\ n \in FreshIds \/ (n \in DOMAIN before /\ carry[n].entity = k
                                 /\ carry[n].state # "historical")
           /\ ValidContextObject(o)
           /\ objects' = Append(objects, o)
    /\ remote' = [tip |-> Len(objects) + 1, version |-> remote.version + 1]
    /\ confirmed' = [confirmed EXCEPT ![revs + 1] = HashAt(source, k)]
    /\ UNCHANGED <<world, stored, head, projection, commands, tracking, lost>>

-----------------------------------------------------------------------------
(* Candidates.                                                             *)

\* ImportCandidate: an older update is refused, the same one is a no-op, a
\* newer one replaces drafts only and never an outcome.
ImportCandidate(v) ==
    /\ "provider" \in world.actors /\ v > candidate.version
    /\ LET settled == {d \in DOMAIN candidate.notes :
                          candidate.notes[d] # "draft"}
       IN  candidate' = [version |-> v,
                         notes |-> Overlay([d \in Envelopes[v].notes |-> "draft"],
                                           Restrict(candidate.notes, settled))]
    /\ UNCHANGED <<world, objects, stored, head, ws, coverage, pending, ref, commits,
                   search, session, commands, remote, tracking, ghosts>>

\* PromoteCandidate: every draft gets its outcome in one transaction; the
\* ones whose entity is indexed become pending notes with new identifiers.
PromoteCandidate ==
    /\ InWorkingSet /\ candidate.version # 0
    /\ Envelopes[candidate.version].merged = ws.source
    /\ LET drafts == {d \in DOMAIN candidate.notes : candidate.notes[d] = "draft"}
           fresh == FreshEntities(coverage, ws.source)
           kept == {d \in drafts : DraftOf[d].entity \in DOMAIN fresh}
           Same(d) == fresh[DraftOf[d].entity] = DraftOf[d].hash
       IN  /\ drafts # {}
           /\ revs + Cardinality(kept) <= world.revs
           /\ \E id \in Injection(kept, FreshIds),
                 rev \in Injection(kept, (revs + 1)..(revs + Cardinality(kept))) :
                /\ pending' = Overlay(pending,
                     [n \in Range(id) |->
                        LET d == CHOOSE d \in kept : id[d] = n IN
                        Entry(rev[d], 0, DraftOf[d].entity,
                              IF Same(d) THEN "active" ELSE "needs_review",
                              ws.source)])
                /\ confirmed' = [r \in DOMAIN confirmed |->
                     IF \E d \in kept : rev[d] = r
                     THEN {DraftOf[CHOOSE d \in kept : rev[d] = r].hash}
                     ELSE confirmed[r]]
           /\ candidate' = [candidate EXCEPT !.notes = [d \in DOMAIN @ |->
                CASE d \in kept -> "promoted"
                  [] d \in drafts \ kept -> "historical"
                  [] OTHER -> @[d]]]
           /\ revs' = revs + Cardinality(kept)
           /\ search' = IF kept = {} THEN search
                        ELSE SearchOf(coverage, ws.source, ref.tip, pending')
    /\ UNCHANGED <<world, objects, stored, head, ws, coverage, ref, commits, session,
                   commands, remote, tracking, lost>>

-----------------------------------------------------------------------------
(* Losing the projection and restoring it.                                 *)

LoseProjection ==
    /\ "loss" \in world.actors /\ ~lost /\ lost' = TRUE
    /\ ws' = NoSet /\ pending' = Empty /\ ref' = NoRef /\ commits' = {}
    /\ coverage' = [source |-> NoSource, state |-> "failed"]
    /\ search' = Empty /\ candidate' = NoCandidate /\ session' = None
    /\ tracking' = NoRef
    /\ UNCHANGED <<world, objects, stored, head, commands, remote, revs, confirmed>>

\* Rebuild from an object of the current source, into an empty projection.
Rebuild(tip) ==
    /\ ws = NoSet /\ commits = {} /\ coverage.source = NoSource
    /\ Loads(objects, stored, tip) /\ objects[tip].source = head
    /\ LET chain == Chain(objects, tip) IN
       /\ ref' = [tip |-> tip, version |-> Len(chain)]
       /\ commits' = Members(chain)
    /\ ws' = [source |-> head, base |-> tip]
    /\ coverage' = [source |-> head, state |-> "indexed"]
    /\ search' = SearchOf(coverage', head, tip, Empty)
    /\ UNCHANGED <<world, objects, stored, head, pending, candidate, session, commands,
                   remote, tracking, ghosts>>

-----------------------------------------------------------------------------

Next ==
    \/ \E n \in NoteIds, k \in Keys :
          AddPendingNote(n, k) \/ ReviewNote(n, k) \/ AuthorMerge(n, k)
    \/ \E n \in NoteIds : ReviseNote(n) \/ ResolveMerge(n)
    \/ \E n \in NoteIds, k \in Keys, s \in world.sources : OtherPush(n, k, s)
    \/ \E s \in world.sources : MoveHead(s)
    \/ \E state \in {"indexed", "failed"} : ApplyIndexUpdate(state)
    \/ StartCommit \/ WriteObject \/ FinalizeCommit \/ StopWriter
    \/ \E i \in stored : StartMerge(i) \/ Rebuild(i)
    \/ StartMergeCommit \/ FinalizeMerge
    \/ StartPush \/ FinishPush \/ Fetch \/ StopSync
    \/ \E recovery \in BOOLEAN : FastForward(recovery)
    \/ \E v \in DOMAIN Envelopes : ImportCandidate(v)
    \/ PromoteCandidate
    \/ LoseProjection

Spec == Init /\ [][Next]_vars

-----------------------------------------------------------------------------
(* Properties.                                                             *)

NoteMaps == UNION {[D -> Notes] : D \in SUBSET NoteIds}
RefRow == [tip : 0..world.objects, version : Nat]

\* Every row and every object has the shape its code gives it.
TypeOK ==
    /\ \A i \in DOMAIN objects : /\ objects[i].source \in Sources
                                 /\ Members(objects[i].parents) \subseteq 1..(i - 1)
    /\ stored \subseteq DOMAIN objects /\ commits \subseteq DOMAIN objects
    /\ head \in Sources
    /\ ws.source \in Sources \union {NoSource} /\ ws.base \in 0..world.objects
    /\ DOMAIN pending \subseteq NoteIds
    /\ \A n \in DOMAIN pending : pending[n] \in Notes
    /\ ref \in RefRow /\ remote \in RefRow /\ tracking \in RefRow
    /\ candidate.version \in 0..Len(Envelopes)
    /\ revs \in 0..world.revs

\* Whatever the ref names can be restored after a crash at any point: its
\* whole ancestry is in the object directory with no revision link broken, it
\* has its rows, and the working set continues it.
CommittedIsRestorable ==
    /\ ref.tip # 0 =>
         /\ History(objects, ref.tip) \subseteq stored
         /\ ref.tip \in commits
         /\ RevisionLinks(objects, Chain(objects, ref.tip))
    /\ ws.base = ref.tip

\* A pending change leaves the table only into the new tip of the ref or by
\* being succeeded by a revision of it, never with a commit or merge that had
\* not read it; losing the file is the exception.
PendingIsNeverLost ==
    [][lost' = lost =>
         \A n \in DOMAIN pending :
            \/ /\ n \in DOMAIN pending'
               /\ \/ pending'[n].rev = pending[n].rev
                  \/ pending'[n].sup = pending[n].rev
            \/ /\ ref'.tip # ref.tip
               /\ objects'[ref'.tip].notes[n] = pending[n]]_vars

\* Refs only move forward: a commit, merge, pull or push never drops history
\* that its ref, local or remote, already had.
RefsOnlyAdvance ==
    [][/\ lost' = lost /\ ref.tip \notin {0, ref'.tip} =>
            ref.tip \in History(objects', ref'.tip)
       /\ remote.tip \notin {0, remote'.tip} =>
            remote.tip \in History(objects', remote'.tip)]_vars

\* An active note is shown for code a person wrote or confirmed it for: along
\* every chain of updates, moves, commits, merges and pulls, the entity it is
\* bound to has a hash the revision was written or confirmed for.
ActiveMeansConfirmed ==
    LET notes == Effective(ref.tip, pending) IN
    \A n \in DOMAIN notes :
       notes[n].state = "active" =>
          HashAt(notes[n].src, notes[n].entity) \subseteq confirmed[notes[n].rev]

\* The search index is never stale: it holds the active notes of the entities
\* that are fresh for the working set, after every transaction.
SearchIsCurrent ==
    ws.source # NoSource =>
       search = SearchOf(coverage, ws.source, ref.tip, pending)

\* docs/architecture.md: an object that was committed passes the validation
\* every later command starts with.
CommittedIsReadable == ref.tip # 0 => Loads(objects, stored, ref.tip)
=============================================================================
