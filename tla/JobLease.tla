------------------------------ MODULE JobLease ------------------------------
(***************************************************************************)
(* The durable coordinator job as one database row, and the updates that   *)
(* every transaction on it is made of (internal/remote/server/             *)
(* coordinator_store.go).  The operators are pure: a module that runs a    *)
(* state machine over jobs EXTENDS this one and applies them.              *)
(*                                                                         *)
(* Time is abstracted to what the transactions compare: "live" says that   *)
(* lease_until is still in the future by the database clock.               *)
(* next_attempt_at only delays a claim, so a retryable job may be claimed  *)
(* at any moment.                                                          *)
(***************************************************************************)
EXTENDS Integers

CONSTANTS Workers,      \* lease owners: the worker goroutines of coordinators
          NoWorker,     \* the empty lease_owner
          MaxAttempts,  \* max_attempts of the row
          MaxAbandons   \* BOUND on graceful shutdowns that hand back one job

ASSUME JobLeaseAssumption ==
    /\ NoWorker \notin Workers
    /\ MaxAttempts \in Nat \ {0}
    /\ MaxAbandons \in Nat

Terminal == {"done", "failed", "incompatible"}
Waiting  == {"pending", "retryable"}

\* The row: coordinatorJobRecord without its payload and result, with a
\* state for the row that was never inserted.
JobRow == [state    : {"absent", "running"} \union Waiting \union Terminal,
           attempts : 0..MaxAttempts,
           owner    : Workers \union {NoWorker},
           fence    : Nat,
           live     : BOOLEAN]

NoJob  == [state |-> "absent", attempts |-> 0, owner |-> NoWorker,
           fence |-> 0, live |-> FALSE]
NewJob == [state |-> "pending", attempts |-> 0, owner |-> NoWorker,
           fence |-> 0, live |-> FALSE]

\* Seeded faults of the claim query: one attempt too many; a lapsed lease is
\* not taken over; a live lease is.
ClaimableOnceMore(j) ==
    /\ j.attempts <= MaxAttempts
    /\ \/ j.state \in Waiting
       \/ j.state = "running" /\ ~j.live
ClaimableWaiting(j) == j.attempts < MaxAttempts /\ j.state \in Waiting
ClaimableLive(j)    == j.attempts < MaxAttempts
                       /\ j.state \in Waiting \union {"running"}
\* The WHERE clause of the claim query.
Claimable(j) ==
    /\ j.attempts < MaxAttempts
    /\ \/ j.state \in Waiting
       \/ j.state = "running" /\ ~j.live

\* Seeded fault: the sweep does not look at the state.
ExhaustedAnyState(j) == ~j.live /\ j.attempts >= MaxAttempts
\* The WHERE clause of recoverExpiredExhaustedJobsTx.
Exhausted(j) == j.state = "running" /\ ~j.live /\ j.attempts >= MaxAttempts

\* Seeded fault: the token is not renewed.
LeasedSameToken(j, w) ==
    [state |-> "running", attempts |-> j.attempts + 1, owner |-> w,
     fence |-> j.fence, live |-> TRUE]
\* The UPDATE of ClaimJob and ClaimJobKinds.
Leased(j, w) ==
    [state |-> "running", attempts |-> j.attempts + 1, owner |-> w,
     fence |-> j.fence + 1, live |-> TRUE]

\* Seeded fault: the claim is not compared with the row.
HoldsUnfenced(j, w, f) == j.state = "running"
\* The predicate every claim-fenced UPDATE carries; the second form is
\* validateActiveClaimTx, which also compares lease_until.
Holds(j, w, f)  == j.state = "running" /\ j.owner = w /\ j.fence = f
Active(j, w, f) == Holds(j, w, f) /\ j.live

Released(j, state) ==
    [state |-> state, attempts |-> j.attempts, owner |-> NoWorker,
     fence |-> j.fence, live |-> FALSE]

Completed(j) == Released(j, "done")
Rejected(j)  == Released(j, "incompatible")
\* Seeded fault: off by one.
FailedOnceLate(j) ==
    Released(j, IF j.attempts > MaxAttempts THEN "failed" ELSE "retryable")
FailedOnce(j) ==
    Released(j, IF j.attempts >= MaxAttempts THEN "failed" ELSE "retryable")
Abandoned(j) ==
    [state |-> "retryable",
     attempts |-> IF j.attempts > 0 THEN j.attempts - 1 ELSE 0,
     owner |-> NoWorker, fence |-> j.fence, live |-> FALSE]
GaveUp(j)    == Released(j, "failed")

\* lease_until passes; the row itself does not change.
Lapsed(j) == [state |-> j.state, attempts |-> j.attempts, owner |-> j.owner,
              fence |-> j.fence, live |-> FALSE]

\* A claim adds one to both counters and an abandon takes one attempt back,
\* so the difference counts the graceful shutdowns the row has seen.
MayAbandon(j) == j.fence - j.attempts < MaxAbandons
=============================================================================
