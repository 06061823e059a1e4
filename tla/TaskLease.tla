------------------------------ MODULE TaskLease ------------------------------
(* Task leases of the execution service (apps/api/src/execution/service.ts):    *)
(* runs start and finish, claimLease grants time-limited leases in a            *)
(* transaction that locks the task row, renewLease and releaseLease are single  *)
(* guarded UPDATEs.  Claims and renewals read the clock and the run before      *)
(* their transaction, so every request is split where it waits.                 *)
EXTENDS Naturals, PathScope

CONSTANTS
    Runs,        \* rows of agent_runs
    Tasks,       \* rows of tasks
    TaskOf,      \* the task a run executes, fixed by startRun
    Modifying,   \* runs started with modifiesCode
    Leases,      \* rows of task_leases; bounds how many are ever inserted
    Users,
    Handlers,    \* claimLease requests the API is serving at once
    Renewers,    \* renewLease requests the API is serving at once
    Terms,       \* what claims ask for: access, exclusivity and path scope
    Ttls,        \* ttlSeconds that claims and renewals ask for
    RenewDelay,  \* bound: time between renewLease reading the clock and its UPDATE
    MaxTime      \* bound on the clock

ASSUME LeaseAssumption ==
    /\ TaskOf \in [Runs -> Tasks]
    /\ Modifying \subseteq Runs
    /\ Terms \subseteq [write : BOOLEAN, exclusive : BOOLEAN, scope : SUBSET Paths]
    /\ \A t \in Terms : t.exclusive => t.write
    /\ RenewDelay \in Nat
    /\ MaxTime \in Nat
    /\ Ttls \subseteq {n \in Nat : n > RenewDelay}

VARIABLES
    now,      \* the wall clock of the single API process
    run,      \* agent_runs.status
    lease,    \* task_leases
    claim,    \* claimLease calls in progress
    renewal   \* renewLease calls in progress

vars == <<now, run, lease, claim, renewal>>

NoLease == [run |-> "none"]
Lease == [run : Runs, owner : Users, terms : Terms, expires : Nat, released : BOOLEAN]

Idle == [phase |-> "idle"]
Claim == [phase : {"checked", "swept", "selected"}, run : Runs, user : Users, terms : Terms,
          ttl : Ttls, at : Nat, swept : SUBSET Leases, active : SUBSET Leases]
Renewal == [phase : {"renewing"}, lease : Leases, user : Users, ttl : Ttls, at : Nat]

TypeOK ==
    /\ now \in Nat
    /\ run \in [Runs -> {"absent", "running", "ended"}]
    /\ lease \in [Leases -> Lease \cup {NoLease}]
    /\ claim \in [Handlers -> Claim \cup {Idle}]
    /\ renewal \in [Renewers -> Renewal \cup {Idle}]

Init ==
    /\ now = 0
    /\ run = [r \in Runs |-> "absent"]
    /\ lease = [l \in Leases |-> NoLease]
    /\ claim = [h \in Handlers |-> Idle]
    /\ renewal = [h \in Renewers |-> Idle]

------------------------------------------------------------------------------
Unreleased(l) == lease[l] # NoLease /\ ~lease[l].released

OfTask(t) == {l \in Leases : Unreleased(l) /\ TaskOf[lease[l].run] = t}

ClaimTask(h) == TaskOf[claim[h].run]

(* The row lock on the task is held from the sweep to the end of a claim's      *)
(* transaction; the rows it swept stay locked as long.                          *)
InTransaction(h) == claim[h].phase \in {"swept", "selected"}
TaskNeverLocked(t) == FALSE  \* mutant: no FOR UPDATE on the task
TaskLocked(t) == \E h \in Handlers : InTransaction(h) /\ ClaimTask(h) = t
RowLocked(l) == \E h \in Handlers : InTransaction(h) /\ l \in claim[h].swept

ExpiredSoon(h) ==  \* mutant: sweeps by the new lease's expiry, not the time read
    {l \in OfTask(ClaimTask(h)) : lease[l].expires <= claim[h].at + claim[h].ttl}
Expired(h) == {l \in OfTask(ClaimTask(h)) : lease[l].expires <= claim[h].at}

Active(h) == {l \in OfTask(ClaimTask(h)) \ claim[h].swept : lease[l].expires > claim[h].at}

SameRun(h) == {l \in claim[h].active : lease[l].run = claim[h].run}

OverlapWarnings(h) ==
    {l \in claim[h].active : /\ claim[h].terms.write
                             /\ lease[l].terms.write
                             /\ PathsOverlap(claim[h].terms.scope, lease[l].terms.scope)}

Swept(h) == [l \in Leases |-> IF l \in claim[h].swept
                              THEN [lease[l] EXCEPT !.released = TRUE]
                              ELSE lease[l]]

------------------------------------------------------------------------------
StartRun(r) ==
    /\ run[r] = "absent"
    /\ run' = [run EXCEPT ![r] = "running"]
    /\ UNCHANGED <<now, lease, claim, renewal>>

(* finishRun: the guarded status UPDATE and the release of the run's leases     *)
(* commit together; its UPDATE of the leases waits for rows a claim has swept.  *)
FinishRun(r) ==
    /\ run[r] = "running"
    /\ \A l \in Leases : Unreleased(l) /\ lease[l].run = r => ~RowLocked(l)
    /\ run' = [run EXCEPT ![r] = "ended"]
    /\ lease' = [l \in Leases |-> IF Unreleased(l) /\ lease[l].run = r
                                  THEN [lease[l] EXCEPT !.released = TRUE]
                                  ELSE lease[l]]
    /\ UNCHANGED <<now, claim, renewal>>

(* claimLease up to its transaction: reads the run's status and the clock.      *)
ClaimCheck(h, u, r, terms, ttl) ==
    /\ claim[h] = Idle
    /\ run[r] = "running"
    /\ r \in Modifying => terms.write
    /\ claim' = [claim EXCEPT ![h] = [phase |-> "checked", run |-> r, user |-> u,
                     terms |-> terms, ttl |-> ttl, at |-> now, swept |-> {}, active |-> {}]]
    /\ UNCHANGED <<now, run, lease, renewal>>

(* SELECT ... FOR UPDATE on the task, then the UPDATE that releases what had    *)
(* expired at the time read before; not visible to others until the commit.     *)
ClaimSweep(h) ==
    /\ claim[h].phase = "checked"
    /\ ~TaskLocked(ClaimTask(h))
    /\ claim' = [claim EXCEPT ![h].phase = "swept",
                     ![h].swept = Expired(h)]
    /\ UNCHANGED <<now, run, lease, renewal>>

(* SELECT of the leases that were live at the time read before.                 *)
ClaimSelect(h) ==
    /\ claim[h].phase = "swept"
    /\ claim' = [claim EXCEPT ![h].phase = "selected", ![h].active = Active(h)]
    /\ UNCHANGED <<now, run, lease, renewal>>

(* The run already holds a lease on these terms: the sweep commits.             *)
ClaimReplay(h) ==
    /\ claim[h].phase = "selected"
    /\ \E l \in SameRun(h) : lease[l].terms = claim[h].terms
    /\ lease' = Swept(h)
    /\ claim' = [claim EXCEPT ![h] = Idle]
    /\ UNCHANGED <<now, run, renewal>>

(* 409: other terms for the same run, or an exclusive claim that overlaps.  The *)
(* transaction rolls back, the sweep with it.                                   *)
ClaimReject(h) ==
    /\ claim[h].phase = "selected"
    /\ \/ \E l \in SameRun(h) : lease[l].terms # claim[h].terms
       \/ SameRun(h) = {} /\ claim[h].terms.exclusive /\ OverlapWarnings(h) # {}
    /\ claim' = [claim EXCEPT ![h] = Idle]
    /\ UNCHANGED <<now, run, lease, renewal>>

ClaimGrant(h) ==
    /\ claim[h].phase = "selected"
    /\ SameRun(h) = {}
    /\ claim[h].terms.exclusive => OverlapWarnings(h) = {}
    /\ \E l \in Leases :
          /\ lease[l] = NoLease
          /\ lease' = [Swept(h) EXCEPT ![l] =
                          [run |-> claim[h].run, owner |-> claim[h].user,
                           terms |-> claim[h].terms, released |-> FALSE,
                           expires |-> claim[h].at + claim[h].ttl]]
    /\ claim' = [claim EXCEPT ![h] = Idle]
    /\ UNCHANGED <<now, run, renewal>>

RenewRequest(h, u, l, ttl) ==
    /\ renewal[h] = Idle
    /\ lease[l] # NoLease
    /\ renewal' = [renewal EXCEPT ![h] = [phase |-> "renewing", lease |-> l,
                       user |-> u, ttl |-> ttl, at |-> now]]
    /\ UNCHANGED <<now, run, lease, claim>>

RenewableReleased(h) ==  \* mutant: the UPDATE does not require an unreleased lease
    LET l == renewal[h].lease IN
        lease[l].owner = renewal[h].user /\ lease[l].expires > renewal[h].at

Renewable(h) ==
    LET l == renewal[h].lease IN
        /\ Unreleased(l)
        /\ lease[l].owner = renewal[h].user
        /\ lease[l].expires > renewal[h].at

(* The UPDATE ... WHERE owner, unreleased, unexpired; 409 when no row matches.  *)
RenewUpdate(h) ==
    /\ renewal[h].phase = "renewing"
    /\ LET l == renewal[h].lease IN
          /\ ~RowLocked(l)
          /\ IF Renewable(h)
             THEN lease' = [lease EXCEPT ![l].expires = renewal[h].at + renewal[h].ttl]
             ELSE UNCHANGED lease
    /\ renewal' = [renewal EXCEPT ![h] = Idle]
    /\ UNCHANGED <<now, run, claim>>

ReleaseLease(u, l) ==
    /\ Unreleased(l)
    /\ lease[l].owner = u
    /\ ~RowLocked(l)
    /\ lease' = [lease EXCEPT ![l].released = TRUE]
    /\ UNCHANGED <<now, run, claim, renewal>>

(* The API process stops: open transactions roll back and their locks go.       *)
Crash ==
    /\ claim' = [h \in Handlers |-> Idle]
    /\ renewal' = [h \in Renewers |-> Idle]
    /\ UNCHANGED <<now, run, lease>>

Tick ==
    /\ now < MaxTime
    /\ \A h \in Renewers : renewal[h] # Idle => now < renewal[h].at + RenewDelay
    /\ now' = now + 1
    /\ UNCHANGED <<run, lease, claim, renewal>>

Next ==
    \/ \E r \in Runs : StartRun(r) \/ FinishRun(r)
    \/ \E h \in Handlers, u \in Users, r \in Runs, terms \in Terms, ttl \in Ttls :
          ClaimCheck(h, u, r, terms, ttl)
    \/ \E h \in Handlers : \/ ClaimSweep(h) \/ ClaimSelect(h) \/ ClaimReplay(h)
                           \/ ClaimReject(h) \/ ClaimGrant(h)
    \/ \E h \in Renewers, u \in Users, l \in Leases, ttl \in Ttls :
          RenewRequest(h, u, l, ttl)
    \/ \E h \in Renewers : RenewUpdate(h)
    \/ \E u \in Users, l \in Leases : ReleaseLease(u, l)
    \/ Crash
    \/ Tick

Spec == Init /\ [][Next]_vars

------------------------------------------------------------------------------
(* A run holds at most one lease that has not been released, whatever claims,   *)
(* renewals and sweeps were in flight: "This run already holds a lease with a   *)
(* different scope" (claimLease) relies on the sweep and the active set seeing  *)
(* every unreleased row.                                                        *)
OneLeasePerRun ==
    \A k, l \in Leases :
        Unreleased(k) /\ Unreleased(l) /\ lease[k].run = lease[l].run => k = l

(* No path is ever writable under two exclusive leases of one task at once:     *)
(* what "Exclusive task lease overlaps active modifying work" (claimLease)      *)
(* protects, stated over the paths the scopes cover and not over pathsOverlap.  *)
ExclusiveWriters ==
    \A k, l \in Leases :
        /\ Unreleased(k) /\ lease[k].terms.exclusive
        /\ Unreleased(l) /\ lease[l].terms.exclusive
        /\ TaskOf[lease[k].run] = TaskOf[lease[l].run]
        /\ k # l
        => \A f \in Paths : ~(Covers(lease[k].terms.scope, f) /\ Covers(lease[l].terms.scope, f))

(* A lease that the clock still shows live when a step begins is only ended by  *)
(* its owner's release or by the end of its run: no claim of another run sweeps *)
(* it, although the sweep uses a clock read before the transaction and a        *)
(* renewal may race with it.                                                    *)
LiveLeaseKept ==
    [][\A l \in Leases :
          Unreleased(l) /\ lease[l].expires > now /\ lease'[l].released
             => \/ run[lease[l].run] = "running" /\ run'[lease[l].run] = "ended"
                \/ \E u \in Users : ReleaseLease(u, l)]_vars

(* A released lease is never revived, and a lease never changes hands: an       *)
(* UPDATE of renewLease that waited behind a sweep must find nothing to renew.  *)
ReleaseIsFinal ==
    [][\A l \in Leases : lease[l] # NoLease =>
          /\ lease[l].released => lease'[l] = lease[l]
          /\ [lease'[l] EXCEPT !.expires = 0, !.released = TRUE]
               = [lease[l] EXCEPT !.expires = 0, !.released = TRUE]]_vars

(* "Only a running execution attempt may hold a task lease."                    *)
(* (apps/api/src/execution/service.ts, claimLease)                              *)
HolderIsRunning ==
    \A l \in Leases : Unreleased(l) => run[lease[l].run] = "running"
==============================================================================
