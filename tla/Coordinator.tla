---------------------------- MODULE Coordinator -----------------------------
(***************************************************************************)
(* The coordinator processes around the job queue: each run acquires the   *)
(* single heartbeat slot, claims jobs with its workers while it believes   *)
(* that it holds the slot, and gives the slot up when it stops.  A run     *)
(* that is paused longer than its heartbeat is replaced and goes on        *)
(* claiming until its next refresh fails, so two runs may overlap; a run   *)
(* whose shutdown grace expires releases the slot with jobs in hand.       *)
(* A process that is started again is another member of Coordinators: its  *)
(* instance id, which prefixes the worker ids, is new.                     *)
(***************************************************************************)
EXTENDS JobQueue

CONSTANTS Coordinators,
          CoordinatorOf,  \* [Workers -> Coordinators]
          Survivor,       \* the run that is neither stopped nor paused
          NoCoordinator

ASSUME CoordinatorAssumption ==
    /\ Survivor \in Coordinators /\ NoCoordinator \notin Coordinators
    /\ CoordinatorOf \in [Workers -> Coordinators]

VARIABLES slot,   \* the row of runner_heartbeats: whose, and not yet expired
          phase   \* of each run: new, running, stopping or gone

coordVars == <<job, claim, slot, phase>>

NoHeartbeat == [holder |-> NoCoordinator, live |-> FALSE]

CoordInit == /\ Init
             /\ slot = NoHeartbeat
             /\ phase = [c \in Coordinators |-> "new"]

-----------------------------------------------------------------------------
(* The heartbeat.                                                          *)

\* An expired row is deleted, a live one of anybody refuses the start.
AcquireCoordinator(c) ==
    /\ phase[c] = "new" /\ ~slot.live
    /\ slot' = [holder |-> c, live |-> TRUE]
    /\ phase' = [phase EXCEPT ![c] = "running"]
    /\ UNCHANGED <<job, claim>>

\* expires_at passes: the run was paused, or could not reach the database.
HeartbeatExpires ==
    /\ slot.live /\ slot.holder # Survivor
    /\ slot' = [slot EXCEPT !.live = FALSE]
    /\ UNCHANGED <<job, claim, phase>>

\* A refresh that succeeds changes nothing that is modelled; one that finds
\* another row, an expired one or no database cancels the run, and so does
\* SIGTERM.  Only the first two can happen to Survivor.
RefreshFails(c) ==
    /\ phase[c] = "running"
    /\ c = Survivor => slot # [holder |-> c, live |-> TRUE]
    /\ phase' = [phase EXCEPT ![c] = "stopping"]
    /\ UNCHANGED <<job, claim, slot>>

\* Run returns: its workers have returned, or the shutdown grace expired.
\* Its own row goes; jobs in hand are not touched.
\* Seeded fault: the row of the slot goes, whosever it is.
ReleaseAnybody(c) ==
    /\ phase[c] = "stopping"
    /\ phase' = [phase EXCEPT ![c] = "gone"]
    /\ slot' = NoHeartbeat
    /\ UNCHANGED <<job, claim>>
ReleaseCoordinator(c) ==
    /\ phase[c] = "stopping"
    /\ phase' = [phase EXCEPT ![c] = "gone"]
    /\ slot' = IF slot.holder = c THEN NoHeartbeat ELSE slot
    /\ UNCHANGED <<job, claim>>

\* The process is killed; the row stays until it expires.
Killed(c) ==
    /\ phase[c] \in {"running", "stopping"} /\ c # Survivor
    /\ phase' = [phase EXCEPT ![c] = "gone"]
    /\ UNCHANGED <<job, claim, slot>>

-----------------------------------------------------------------------------
(* Its workers.                                                            *)

\* runWorker: the loop ends with the context.
Claim(w) == /\ phase[CoordinatorOf[w]] = "running"
            /\ ClaimJobKinds(w) /\ UNCHANGED <<slot, phase>>

\* A job in hand goes on after the context is done, and between the end of
\* Run and the end of the process.
Work(w) == Execute(w) /\ UNCHANGED <<slot, phase>>

\* abandonCancelledClaim: only when the context is done.
HandBack(w) == /\ phase[CoordinatorOf[w]] # "running"
               /\ AbandonClaim(w) /\ UNCHANGED <<slot, phase>>

Dies(w) == Crash(w) /\ UNCHANGED <<slot, phase>>

Table(j) == (Enqueue(j) \/ Lapse(j)) /\ UNCHANGED <<slot, phase>>

CoordNext ==
    \/ \E c \in Coordinators : \/ AcquireCoordinator(c) \/ RefreshFails(c)
                               \/ ReleaseCoordinator(c) \/ Killed(c)
    \/ HeartbeatExpires
    \/ \E w \in Workers : Claim(w) \/ Work(w) \/ HandBack(w) \/ Dies(w)
    \/ \E j \in Jobs : Table(j)

CoordSpec == CoordInit /\ [][CoordNext]_coordVars

\* Every process is started again and again, its workers poll and end their
\* jobs, a stopped run returns, leases and heartbeats run out.
CoordFairness ==
    /\ \A c \in Coordinators : /\ WF_coordVars(AcquireCoordinator(c))
                               /\ WF_coordVars(ReleaseCoordinator(c))
    /\ WF_coordVars(HeartbeatExpires)
    /\ \A w \in Workers : WF_coordVars(Claim(w)) /\ WF_coordVars(Work(w))
    /\ \A j \in Jobs : WF_coordVars(Lapse(j) /\ UNCHANGED <<slot, phase>>)

CoordFairSpec == CoordSpec /\ CoordFairness

-----------------------------------------------------------------------------
(* Properties.                                                             *)

CoordTypeOK ==
    /\ TypeOK
    /\ slot \in [holder : Coordinators \union {NoCoordinator}, live : BOOLEAN]
    /\ phase \in [Coordinators -> {"new", "running", "stopping", "gone"}]

\* The run that nothing stops or pauses is not put out by the others: however
\* late a run that it replaced refreshes, releases its slot or starts again,
\* the slot stays with Survivor and no refresh of it fails.  EveryJobEnds
\* rests on it.
SurvivorKeepsSlot ==
    /\ phase[Survivor] \in {"new", "running"}
    /\ phase[Survivor] = "running" => slot = [holder |-> Survivor, live |-> TRUE]
=============================================================================
