--------------------------- MODULE TaskLeaseProofs ---------------------------
(* What TLAPS proves of TaskLease for every set of runs, tasks, leases, users,  *)
(* requests, paths and terms: types, one lease per run, exclusive writers, and  *)
(* what a step may never do to a lease that is live or released.                *)
EXTENDS TaskLease, TLAPS

(* While a claim's transaction is open, every unreleased lease of its task is   *)
(* either in the set it swept or expires after the time the claim read: the     *)
(* rows it swept are locked, and no renewal can move an expiry back past it.    *)
(* Once the active set is selected it lacks none of them: only this claim may   *)
(* insert a lease of the task.                                                  *)
SweepInv ==
    \A h \in Handlers : InTransaction(h) =>
        /\ claim[h].swept \subseteq OfTask(ClaimTask(h))
        /\ \A l \in OfTask(ClaimTask(h)) \ claim[h].swept :
              /\ lease[l].expires > claim[h].at
              /\ claim[h].phase = "selected" => l \in claim[h].active

(* The task row lock admits one claim transaction at a time.                    *)
LockInv ==
    \A g, h \in Handlers :
        InTransaction(g) /\ InTransaction(h) /\ ClaimTask(g) = ClaimTask(h)
           => g = h

(* Times read before a transaction are past; a renewal's is at most RenewDelay  *)
(* old.                                                                         *)
ClockInv ==
    /\ \A h \in Handlers : claim[h] # Idle => claim[h].at <= now
    /\ \A w \in Renewers : renewal[w] # Idle =>
          renewal[w].at <= now /\ now <= renewal[w].at + RenewDelay

IInv == TypeOK /\ SweepInv /\ LockInv /\ ClockInv

(* Two scopes that both cover a path overlap by pathsOverlap.                   *)
LEMMA OverlapSound ==
    ASSUME NEW left \in SUBSET Paths, NEW right \in SUBSET Paths, NEW f \in Paths,
           Covers(left, f), Covers(right, f)
    PROVE  PathsOverlap(left, right)
BY PathsAssumption DEF Covers, PathsOverlap, SamePlace

LEMMA ClaimShape ==
    ASSUME TypeOK, NEW h \in Handlers, claim[h].phase # "idle"
    PROVE  claim[h] \in Claim
BY DEF TypeOK, Idle

LEMMA LeaseShape ==
    ASSUME TypeOK, NEW l \in Leases, lease[l] # NoLease
    PROVE  lease[l] \in Lease
BY DEF TypeOK

(* Committing a sweep keeps every row a lease or absent.                        *)
LEMMA SweptType ==
    ASSUME TypeOK, NEW h \in Handlers
    PROVE  Swept(h) \in [Leases -> Lease \cup {NoLease}]
BY DEF TypeOK, Swept, Lease, NoLease

LEMMA TypeStep == TypeOK /\ [Next]_vars => TypeOK'
<1> SUFFICES ASSUME TypeOK, [Next]_vars PROVE TypeOK'
  OBVIOUS
<1> USE LeaseAssumption DEF TypeOK
<1>1. ASSUME NEW r \in Runs, StartRun(r) PROVE TypeOK'
  BY <1>1 DEF StartRun
<1>2. ASSUME NEW r \in Runs, FinishRun(r) PROVE TypeOK'
  <2>1. \A l \in Leases : lease'[l] \in Lease \cup {NoLease}
    BY <1>2 DEF FinishRun, Unreleased, Lease
  <2> QED
    BY <1>2, <2>1 DEF FinishRun
<1>3. ASSUME NEW h \in Handlers, NEW u \in Users, NEW r \in Runs, NEW terms \in Terms,
             NEW ttl \in Ttls, ClaimCheck(h, u, r, terms, ttl) PROVE TypeOK'
  BY <1>3 DEF ClaimCheck, Claim
<1>4. ASSUME NEW h \in Handlers, ClaimSweep(h) PROVE TypeOK'
  <2>1. claim[h] \in Claim
    BY <1>4, ClaimShape DEF ClaimSweep
  <2>2. [claim[h] EXCEPT !.phase = "swept", !.swept = Expired(h)] \in Claim
    BY <2>1 DEF Claim, OfTask, Expired
  <2> QED
    BY <1>4, <2>2 DEF ClaimSweep
<1>14. ASSUME NEW h \in Handlers, ClaimSelect(h) PROVE TypeOK'
  <2>1. claim[h] \in Claim
    BY <1>14, ClaimShape DEF ClaimSelect
  <2>2. [claim[h] EXCEPT !.phase = "selected", !.active = Active(h)] \in Claim
    BY <2>1 DEF Claim, OfTask, Active
  <2> QED
    BY <1>14, <2>2 DEF ClaimSelect
<1>5. ASSUME NEW h \in Handlers, ClaimReplay(h) PROVE TypeOK'
  BY <1>5, SweptType DEF ClaimReplay
<1>6. ASSUME NEW h \in Handlers, ClaimReject(h) PROVE TypeOK'
  BY <1>6 DEF ClaimReject
<1>7. ASSUME NEW h \in Handlers, ClaimGrant(h) PROVE TypeOK'
  <2>1. claim[h] \in Claim
    BY <1>7, ClaimShape DEF ClaimGrant
  <2>2. [run |-> claim[h].run, owner |-> claim[h].user, terms |-> claim[h].terms,
         released |-> FALSE, expires |-> claim[h].at + claim[h].ttl] \in Lease
    <3>1. claim[h].at \in Nat /\ claim[h].ttl \in Nat
      BY <2>1 DEF Claim
    <3> QED
      BY <2>1, <3>1 DEF Claim, Lease
  <2>3. PICK l \in Leases : lease' = [Swept(h) EXCEPT ![l] =
            [run |-> claim[h].run, owner |-> claim[h].user, terms |-> claim[h].terms,
             released |-> FALSE, expires |-> claim[h].at + claim[h].ttl]]
    BY <1>7 DEF ClaimGrant
  <2>4. lease' \in [Leases -> Lease \cup {NoLease}]
    BY <2>2, <2>3, SweptType
  <2> QED
    BY <1>7, <2>4 DEF ClaimGrant
<1>8. ASSUME NEW h \in Renewers, NEW u \in Users, NEW l \in Leases, NEW ttl \in Ttls,
             RenewRequest(h, u, l, ttl) PROVE TypeOK'
  BY <1>8 DEF RenewRequest, Renewal
<1>9. ASSUME NEW h \in Renewers, RenewUpdate(h) PROVE TypeOK'
  BY <1>9 DEF RenewUpdate, Renewal, Idle, Lease, NoLease
<1>10. ASSUME NEW u \in Users, NEW l \in Leases, ReleaseLease(u, l) PROVE TypeOK'
  BY <1>10 DEF ReleaseLease, Unreleased, Lease, NoLease
<1>11. CASE Crash
  BY <1>11 DEF Crash
<1>12. CASE Tick
  BY <1>12 DEF Tick
<1>13. CASE UNCHANGED vars
  BY <1>13 DEF vars
<1> QED
  BY <1>1, <1>2, <1>3, <1>4, <1>5, <1>6, <1>7, <1>8, <1>9, <1>10, <1>11, <1>12, <1>13,
     <1>14
     DEF Next

(* Every state of TaskLease is well typed: rows keep their shape across sweeps  *)
(* that commit or roll back, renewals and crashes.                              *)
THEOREM TypeCorrect == Spec => []TypeOK
<1>1. Init => TypeOK
  BY DEF Init, TypeOK
<1> QED
  BY <1>1, TypeStep, PTL DEF Spec

------------------------------------------------------------------------------
(* The steps that leave leases and the claims' sweeps alone.                    *)
LEMMA SweepFrame ==
    ASSUME SweepInv, LockInv, lease' = lease, claim' = claim
    PROVE  SweepInv' /\ LockInv'
BY DEF SweepInv, LockInv, OfTask, Unreleased, ClaimTask, InTransaction

LEMMA LockStep == TypeOK /\ LockInv /\ [Next]_vars => LockInv'
<1> SUFFICES ASSUME TypeOK, LockInv, [Next]_vars PROVE LockInv'
  OBVIOUS
<1> USE DEF LockInv, ClaimTask, InTransaction
<1>1. ASSUME NEW h \in Handlers, ClaimSweep(h) PROVE LockInv'
  <2>1. \A g \in Handlers \ {h} : claim'[g] = claim[g]
    BY <1>1 DEF ClaimSweep, TypeOK
  <2>2. claim'[h].run = claim[h].run
    BY <1>1, ClaimShape DEF ClaimSweep, TypeOK, Claim
  <2>3. \A g \in Handlers : InTransaction(g) => ClaimTask(g) # ClaimTask(h)
    BY <1>1 DEF ClaimSweep, TaskLocked
  <2> QED
    BY <2>1, <2>2, <2>3
<1>6. ASSUME NEW h \in Handlers, ClaimSelect(h) PROVE LockInv'
  <2>1. \A g \in Handlers \ {h} : claim'[g] = claim[g]
    BY <1>6 DEF ClaimSelect, TypeOK
  <2>2. claim'[h].run = claim[h].run /\ InTransaction(h)
    BY <1>6, ClaimShape DEF ClaimSelect, TypeOK, Claim
  <2> QED
    BY <2>1, <2>2
<1>2. ASSUME NEW h \in Handlers, claim' = [claim EXCEPT ![h] = Idle] PROVE LockInv'
  BY <1>2 DEF TypeOK, Idle
<1>3. ASSUME NEW h \in Handlers, NEW u \in Users, NEW r \in Runs, NEW terms \in Terms,
             NEW ttl \in Ttls, ClaimCheck(h, u, r, terms, ttl) PROVE LockInv'
  BY <1>3 DEF ClaimCheck, TypeOK
<1>4. CASE Crash
  BY <1>4 DEF Crash, Idle
<1>5. CASE UNCHANGED claim
  BY <1>5
<1> QED
  BY <1>1, <1>2, <1>3, <1>4, <1>5, <1>6
     DEF Next, vars, StartRun, FinishRun, ClaimReplay, ClaimReject, ClaimGrant, RenewRequest,
         RenewUpdate, ReleaseLease, Tick

LEMMA ClockStep == TypeOK /\ ClockInv /\ [Next]_vars => ClockInv'
<1> SUFFICES ASSUME TypeOK, ClockInv, [Next]_vars PROVE ClockInv'
  OBVIOUS
<1> USE LeaseAssumption DEF ClockInv
<1>1. ASSUME NEW h \in Handlers, NEW u \in Users, NEW r \in Runs, NEW terms \in Terms,
             NEW ttl \in Ttls, ClaimCheck(h, u, r, terms, ttl) PROVE ClockInv'
  BY <1>1 DEF ClaimCheck, TypeOK
<1>2. ASSUME NEW h \in Handlers, ClaimSweep(h) PROVE ClockInv'
  <2>1. claim[h] # Idle /\ claim'[h].at = claim[h].at
    BY <1>2, ClaimShape DEF ClaimSweep, TypeOK, Claim, Idle
  <2> QED
    BY <1>2, <2>1 DEF ClaimSweep, TypeOK
<1>9. ASSUME NEW h \in Handlers, ClaimSelect(h) PROVE ClockInv'
  <2>1. claim[h] # Idle /\ claim'[h].at = claim[h].at
    BY <1>9, ClaimShape DEF ClaimSelect, TypeOK, Claim, Idle
  <2> QED
    BY <1>9, <2>1 DEF ClaimSelect, TypeOK
<1>3. ASSUME NEW h \in Handlers, claim' = [claim EXCEPT ![h] = Idle],
             UNCHANGED <<now, renewal>> PROVE ClockInv'
  BY <1>3 DEF TypeOK
<1>4. ASSUME NEW w \in Renewers, NEW u \in Users, NEW l \in Leases, NEW ttl \in Ttls,
             RenewRequest(w, u, l, ttl) PROVE ClockInv'
  BY <1>4 DEF RenewRequest, TypeOK
<1>5. ASSUME NEW w \in Renewers, RenewUpdate(w) PROVE ClockInv'
  BY <1>5 DEF RenewUpdate, TypeOK
<1>6. CASE Crash
  BY <1>6 DEF Crash
<1>7. CASE Tick
  <2>1. \A h \in Handlers : claim[h] # Idle => claim[h].at \in Nat
    BY DEF TypeOK, Claim
  <2>2. \A w \in Renewers : renewal[w] # Idle => renewal[w].at \in Nat
    BY DEF TypeOK, Renewal
  <2> QED
    BY <1>7, <2>1, <2>2 DEF Tick, TypeOK
<1>8. CASE UNCHANGED <<now, claim, renewal>>
  BY <1>8
<1> QED
  BY <1>1, <1>2, <1>3, <1>4, <1>5, <1>6, <1>7, <1>8, <1>9
     DEF Next, vars, StartRun, FinishRun, ClaimReplay, ClaimReject, ClaimGrant, ReleaseLease

(* A lease that is not row-locked may be released or renewed under an open      *)
(* claim.                                                                       *)
LEMMA SweepStep == IInv /\ [Next]_vars => SweepInv'
<1> SUFFICES ASSUME IInv, [Next]_vars PROVE SweepInv'
  OBVIOUS
<1> USE DEF IInv, SweepInv, ClaimTask, InTransaction
<1>1. ASSUME NEW r \in Runs, FinishRun(r) PROVE SweepInv'
  <2> SUFFICES ASSUME NEW h \in Handlers, InTransaction(h)'
               PROVE  /\ claim'[h].swept \subseteq OfTask(ClaimTask(h))'
                      /\ \A l \in OfTask(ClaimTask(h))' \ claim'[h].swept :
                            /\ lease'[l].expires > claim'[h].at
                            /\ claim'[h].phase = "selected" => l \in claim'[h].active
    OBVIOUS
  <2>1. claim' = claim
    BY <1>1 DEF FinishRun
  <2>2. \A l \in claim[h].swept : lease'[l] = lease[l]
    BY <1>1, <2>1 DEF FinishRun, RowLocked, OfTask, TypeOK
  <2>3. \A l \in Leases : Unreleased(l)' => lease'[l] = lease[l]
    BY <1>1, LeaseShape DEF FinishRun, Unreleased, TypeOK, Lease
  <2> QED
    BY <2>1, <2>2, <2>3 DEF OfTask, Unreleased
<1>2. ASSUME NEW h \in Handlers, NEW u \in Users, NEW r \in Runs, NEW terms \in Terms,
             NEW ttl \in Ttls, ClaimCheck(h, u, r, terms, ttl) PROVE SweepInv'
  BY <1>2 DEF ClaimCheck, TypeOK, OfTask, Unreleased
<1>3. ASSUME NEW g \in Handlers, ClaimSweep(g) PROVE SweepInv'
  <2>1. claim[g] \in Claim
    BY <1>3, ClaimShape DEF ClaimSweep
  <2>2. /\ claim'[g].run = claim[g].run /\ claim'[g].at = claim[g].at
        /\ claim'[g].swept = {l \in OfTask(ClaimTask(g)) : lease[l].expires <= claim[g].at}
        /\ claim'[g].phase = "swept"
    BY <1>3, <2>1 DEF ClaimSweep, Expired, TypeOK, Claim
  <2>3. \A h \in Handlers \ {g} : claim'[h] = claim[h]
    BY <1>3 DEF ClaimSweep, TypeOK
  <2>4. \A l \in OfTask(ClaimTask(g)) : lease[l].expires \in Nat
    BY LeaseShape DEF OfTask, Unreleased, Lease
  <2>5. claim[g].at \in Nat
    BY <2>1 DEF Claim
  <2>6. lease' = lease
    BY <1>3 DEF ClaimSweep
  <2>7. \A t : OfTask(t)' = OfTask(t)
    BY <2>6 DEF OfTask, Unreleased
  <2>8. \A l \in OfTask(ClaimTask(g)) \ claim'[g].swept : lease[l].expires > claim[g].at
    BY <2>2, <2>4, <2>5
  <2> QED
    BY <2>2, <2>3, <2>6, <2>7, <2>8
<1>14. ASSUME NEW g \in Handlers, ClaimSelect(g) PROVE SweepInv'
  <2>1. claim[g] \in Claim
    BY <1>14, ClaimShape DEF ClaimSelect
  <2>2. /\ claim'[g].run = claim[g].run /\ claim'[g].at = claim[g].at
        /\ claim'[g].swept = claim[g].swept /\ claim'[g].active = Active(g)
    BY <1>14, <2>1 DEF ClaimSelect, TypeOK, Claim
  <2>3. \A h \in Handlers \ {g} : claim'[h] = claim[h]
    BY <1>14 DEF ClaimSelect, TypeOK
  <2>4. lease' = lease /\ \A t : OfTask(t)' = OfTask(t)
    BY <1>14 DEF ClaimSelect, OfTask, Unreleased
  <2>5. OfTask(ClaimTask(g)) \ claim[g].swept \subseteq Active(g)
    BY <1>14 DEF ClaimSelect, Active
  <2> QED
    BY <1>14, <2>2, <2>3, <2>4, <2>5 DEF ClaimSelect
<1>4. ASSUME NEW g \in Handlers, ClaimReject(g) PROVE SweepInv'
  BY <1>4 DEF ClaimReject, TypeOK, OfTask, Unreleased, Idle
<1>5. ASSUME NEW w \in Renewers, NEW u \in Users, NEW l \in Leases, NEW ttl \in Ttls,
             RenewRequest(w, u, l, ttl) PROVE SweepInv'
  BY <1>5, SweepFrame DEF RenewRequest
<1>6. CASE Crash
  BY <1>6 DEF Crash, Idle
<1>7. CASE UNCHANGED <<lease, claim>>
  BY <1>7, SweepFrame
<1>8. ASSUME NEW g \in Handlers, InTransaction(g),
             claim' = [claim EXCEPT ![g] = Idle],
             \A k \in Leases : Unreleased(k) /\ k \notin claim[g].swept => lease'[k] = lease[k],
             \A k \in Leases : Unreleased(k)' => lease'[k] = lease[k]
                                                 \/ lease'[k].run = claim[g].run
      PROVE SweepInv'
  <2> SUFFICES ASSUME NEW h \in Handlers, InTransaction(h)'
               PROVE  /\ claim'[h].swept \subseteq OfTask(ClaimTask(h))'
                      /\ \A l \in OfTask(ClaimTask(h))' \ claim'[h].swept :
                            /\ lease'[l].expires > claim'[h].at
                            /\ claim'[h].phase = "selected" => l \in claim'[h].active
    OBVIOUS
  <2>1. h # g /\ claim'[h] = claim[h]
    BY <1>8 DEF TypeOK, Idle
  <2>2. ClaimTask(h) # ClaimTask(g)
    BY <1>8, <2>1 DEF LockInv
  <2>3. \A k \in claim[h].swept : lease'[k] = lease[k]
    BY <1>8, <2>1, <2>2 DEF OfTask
  <2>4. OfTask(ClaimTask(h))' \subseteq OfTask(ClaimTask(h))
    BY <1>8, <2>1, <2>2 DEF OfTask, Unreleased
  <2>5. \A k \in OfTask(ClaimTask(h))' : lease'[k] = lease[k]
    BY <1>8, <2>1, <2>2 DEF OfTask
  <2> QED
    BY <2>1, <2>3, <2>4, <2>5 DEF OfTask, Unreleased
<1>9. ASSUME NEW g \in Handlers, ClaimReplay(g) PROVE SweepInv'
  <2>1. \A k \in Leases : k \notin claim[g].swept => lease'[k] = lease[k]
    BY <1>9 DEF ClaimReplay, Swept
  <2>2. \A k \in claim[g].swept : ~Unreleased(k)'
    BY <1>9, LeaseShape DEF ClaimReplay, Swept, OfTask, Unreleased, Lease
  <2> QED
    BY <1>8, <1>9, <2>1, <2>2 DEF ClaimReplay
<1>10. ASSUME NEW g \in Handlers, ClaimGrant(g) PROVE SweepInv'
  <2>1. PICK l \in Leases :
          /\ lease[l] = NoLease
          /\ lease' = [Swept(g) EXCEPT ![l] =
                [run |-> claim[g].run, owner |-> claim[g].user, terms |-> claim[g].terms,
                 released |-> FALSE, expires |-> claim[g].at + claim[g].ttl]]
    BY <1>10 DEF ClaimGrant
  <2>2. lease'[l].run = claim[g].run
    BY <2>1 DEF Swept
  <2>3. \A k \in Leases \ {l} : k \notin claim[g].swept => lease'[k] = lease[k]
    BY <2>1 DEF Swept
  <2>4. \A k \in claim[g].swept : k # l
    BY <1>10, <2>1 DEF ClaimGrant, OfTask, Unreleased
  <2>5. \A k \in claim[g].swept : ~Unreleased(k)'
    BY <1>10, <2>1, <2>4, LeaseShape DEF ClaimGrant, Swept, OfTask, Unreleased, Lease
  <2>6. ~Unreleased(l)
    BY <2>1 DEF Unreleased
  <2> QED
    BY <1>8, <1>10, <2>2, <2>3, <2>5, <2>6 DEF ClaimGrant
<1>11. ASSUME NEW k \in Leases, ~RowLocked(k), claim' = claim,
              \A j \in Leases \ {k} : lease'[j] = lease[j],
              Unreleased(k)' => /\ Unreleased(k)
                                /\ lease'[k].run = lease[k].run
                                /\ \A h \in Handlers : InTransaction(h) =>
                                      lease'[k].expires > claim[h].at
              PROVE SweepInv'
  <2>1. \A h \in Handlers : InTransaction(h) => k \notin claim[h].swept
    BY <1>11 DEF RowLocked
  <2>2. \A t : OfTask(t)' \subseteq OfTask(t) /\ OfTask(t) \ {k} \subseteq OfTask(t)'
    BY <1>11 DEF OfTask, Unreleased
  <2>3. \A t : \A j \in OfTask(t)' \ {k} : lease'[j].expires = lease[j].expires
    BY <1>11 DEF OfTask
  <2>4. k \in Leases /\ \A t : k \in OfTask(t)' => Unreleased(k)'
    BY DEF OfTask
  <2> QED
    BY <1>11, <2>1, <2>2, <2>3, <2>4
<1>12. ASSUME NEW u \in Users, NEW l \in Leases, ReleaseLease(u, l) PROVE SweepInv'
  <2>1. ~Unreleased(l)'
    BY <1>12, LeaseShape DEF ReleaseLease, Unreleased, TypeOK, Lease
  <2> QED
    BY <1>11, <1>12, <2>1 DEF ReleaseLease
<1>13. ASSUME NEW w \in Renewers, RenewUpdate(w) PROVE SweepInv'
  <2> DEFINE l == renewal[w].lease
  <2>1. renewal[w] \in Renewal /\ renewal[w] # Idle /\ l \in Leases
    BY <1>13 DEF RenewUpdate, TypeOK, Renewal, Idle
  <2>2. CASE UNCHANGED lease
    BY <1>13, <2>2, SweepFrame DEF RenewUpdate
  <2>3. CASE lease # lease'
    <3>1. /\ ~RowLocked(l) /\ Unreleased(l) /\ lease[l].expires > renewal[w].at
          /\ lease' = [lease EXCEPT ![l].expires = renewal[w].at + renewal[w].ttl]
      BY <1>13, <2>3 DEF RenewUpdate, Renewable
    <3>2. renewal[w].at + renewal[w].ttl > now
      <4>1. renewal[w].ttl \in Nat /\ renewal[w].ttl > RenewDelay
        BY <2>1, LeaseAssumption DEF Renewal
      <4>2. renewal[w].at \in Nat /\ now <= renewal[w].at + RenewDelay /\ now \in Nat
        BY <2>1 DEF ClockInv, Renewal, TypeOK
      <4> QED
        BY <4>1, <4>2, LeaseAssumption
    <3>3. \A h \in Handlers : InTransaction(h) =>
             claim[h].at \in Nat /\ claim[h].at <= now
      BY ClaimShape DEF ClockInv, Claim, Idle
    <3>4. lease[l] \in Lease
      BY <2>1, <3>1, LeaseShape DEF Unreleased
    <3>5. /\ lease'[l].expires = renewal[w].at + renewal[w].ttl
          /\ lease'[l].run = lease[l].run
      BY <2>1, <3>1, <3>4 DEF TypeOK, Lease
    <3>6. \A h \in Handlers : InTransaction(h) => lease'[l].expires > claim[h].at
      <4>1. renewal[w].at + renewal[w].ttl \in Nat /\ now \in Nat
        <5>1. renewal[w].at \in Nat /\ renewal[w].ttl \in Nat
          BY <2>1, LeaseAssumption DEF Renewal
        <5> QED
          BY <5>1 DEF TypeOK
      <4> QED
        BY <3>2, <3>3, <3>5, <4>1
    <3>7. \A j \in Leases \ {l} : lease'[j] = lease[j]
      BY <3>1 DEF TypeOK
    <3>8. claim' = claim
      BY <1>13 DEF RenewUpdate
    <3> QED
      BY <1>11, <2>1, <3>1, <3>5, <3>6, <3>7, <3>8
  <2> QED
    BY <2>2, <2>3
<1> QED
  BY <1>1, <1>2, <1>3, <1>4, <1>5, <1>6, <1>7, <1>9, <1>10, <1>12, <1>13,
     <1>14
     DEF Next, vars, StartRun, Tick

(* The strengthening is inductive.                                              *)
LEMMA Inductive == Spec => []IInv
<1>1. Init => IInv
  BY DEF Init, IInv, TypeOK, SweepInv, LockInv, ClockInv, Idle, InTransaction
<1>2. IInv /\ [Next]_vars => IInv'
  BY TypeStep, SweepStep, LockStep, ClockStep DEF IInv
<1> QED
  BY <1>1, <1>2, PTL DEF Spec

(* What a granting claim knows: every other lease of its task that is still     *)
(* unreleased after the grant is in the active set it inspected.                *)
LEMMA GrantStep ==
    ASSUME IInv, NEW h \in Handlers, ClaimGrant(h)
    PROVE  \E l \in Leases :
              /\ lease'[l].run = claim[h].run
              /\ lease'[l].terms = claim[h].terms
              /\ \A k \in Leases \ {l} : Unreleased(k)' =>
                    /\ Unreleased(k)
                    /\ lease'[k] = lease[k]
                    /\ TaskOf[lease[k].run] = ClaimTask(h) => k \in claim[h].active
<1>1. PICK l \in Leases :
        /\ lease[l] = NoLease
        /\ lease' = [Swept(h) EXCEPT ![l] =
              [run |-> claim[h].run, owner |-> claim[h].user, terms |-> claim[h].terms,
               released |-> FALSE, expires |-> claim[h].at + claim[h].ttl]]
  BY DEF ClaimGrant
<1>2. lease'[l].run = claim[h].run /\ lease'[l].terms = claim[h].terms
  BY <1>1 DEF Swept
<1>3. ASSUME NEW k \in Leases \ {l}, Unreleased(k)'
      PROVE  /\ Unreleased(k)
             /\ lease'[k] = lease[k]
             /\ TaskOf[lease[k].run] = ClaimTask(h) => k \in claim[h].active
  <2>1. lease'[k] = Swept(h)[k]
    BY <1>1 DEF Swept
  <2>2. k \notin claim[h].swept
    <3>1. SUFFICES ASSUME k \in claim[h].swept PROVE FALSE
      OBVIOUS
    <3>2. Unreleased(k) /\ lease'[k] = [lease[k] EXCEPT !.released = TRUE]
      BY <2>1, <3>1 DEF Swept, IInv, SweepInv, OfTask, ClaimGrant, InTransaction
    <3>3. lease'[k].released
      BY <3>2, LeaseShape DEF IInv, Unreleased, Lease
    <3> QED
      BY <1>3, <3>3 DEF Unreleased
  <2>3. lease'[k] = lease[k] /\ Unreleased(k)
    BY <1>3, <2>1, <2>2 DEF Swept, Unreleased
  <2> QED
    BY <2>2, <2>3 DEF IInv, SweepInv, OfTask, ClaimGrant, InTransaction
<1> QED
  BY <1>2, <1>3

------------------------------------------------------------------------------
(* Every step but a grant keeps the leases that stay unreleased as they are, up *)
(* to their expiry.                                                             *)
LEMMA LeaseStep ==
    ASSUME IInv, [Next]_vars, \A h \in Handlers : ~ClaimGrant(h)
    PROVE  \A k \in Leases : Unreleased(k)' =>
              /\ Unreleased(k)
              /\ lease'[k].run = lease[k].run
              /\ lease'[k].terms = lease[k].terms
<1> DEFINE Kept == \A k \in Leases : Unreleased(k)' =>
              /\ Unreleased(k)
              /\ lease'[k].run = lease[k].run
              /\ lease'[k].terms = lease[k].terms
<1> USE LeaseShape DEF Unreleased, IInv, Lease
<1>1. CASE lease' = lease
  BY <1>1
<1>2. ASSUME NEW r \in Runs, FinishRun(r) PROVE Kept
  BY <1>2 DEF FinishRun
<1>3. ASSUME NEW h \in Handlers, ClaimReplay(h) PROVE Kept
  BY <1>3 DEF ClaimReplay, Swept, SweepInv, OfTask, InTransaction
<1>4. ASSUME NEW w \in Renewers, RenewUpdate(w) PROVE Kept
  BY <1>4 DEF RenewUpdate, Renewable, TypeOK
<1>5. ASSUME NEW u \in Users, NEW l \in Leases, ReleaseLease(u, l) PROVE Kept
  BY <1>5 DEF ReleaseLease, TypeOK
<1> QED
  BY <1>1, <1>2, <1>3, <1>4, <1>5
     DEF Next, vars, StartRun, ClaimCheck, ClaimSweep, ClaimSelect, ClaimReject, RenewRequest,
         Crash, Tick

(* At most one unreleased lease per run, for any number of concurrent claims,   *)
(* renewals, releases, finishing runs and crashes.                              *)
THEOREM OneLease == Spec => []OneLeasePerRun
<1>1. Init => OneLeasePerRun
  BY DEF Init, OneLeasePerRun, Unreleased
<1>2. IInv /\ OneLeasePerRun /\ [Next]_vars => OneLeasePerRun'
  <2> SUFFICES ASSUME IInv, OneLeasePerRun, [Next]_vars PROVE OneLeasePerRun'
    OBVIOUS
  <2> USE DEF OneLeasePerRun
  <2>1. CASE \A k \in Leases : Unreleased(k)' => Unreleased(k) /\ lease'[k].run = lease[k].run
    BY <2>1
  <2>2. ASSUME NEW h \in Handlers, ClaimGrant(h) PROVE OneLeasePerRun'
    <3>1. PICK l \in Leases :
            /\ lease'[l].run = claim[h].run
            /\ \A k \in Leases \ {l} : Unreleased(k)' =>
                  /\ Unreleased(k)
                  /\ lease'[k] = lease[k]
                  /\ TaskOf[lease[k].run] = ClaimTask(h) => k \in claim[h].active
      BY <2>2, GrantStep
    <3>2. \A k \in Leases \ {l} : Unreleased(k)' => lease'[k].run # claim[h].run
      BY <2>2, <3>1 DEF ClaimGrant, SameRun, ClaimTask
    <3> QED
      BY <3>1, <3>2
  <2> QED
    BY <2>1, <2>2, LeaseStep
<1> QED
  BY <1>1, <1>2, Inductive, PTL DEF Spec

(* Overlap of scopes instead of coverage of paths: what the code compares.      *)
ExclusiveScopes ==
    \A k, l \in Leases :
        /\ Unreleased(k) /\ lease[k].terms.exclusive
        /\ Unreleased(l) /\ lease[l].terms.exclusive
        /\ TaskOf[lease[k].run] = TaskOf[lease[l].run]
        /\ k # l
        => ~PathsOverlap(lease[k].terms.scope, lease[l].terms.scope)

LEMMA OverlapSymmetric ==
    ASSUME NEW left, NEW right, PathsOverlap(left, right)
    PROVE  PathsOverlap(right, left)
BY DEF PathsOverlap, SamePlace

(* No path of a task is covered by two unreleased exclusive leases.             *)
THEOREM Exclusive == Spec => []ExclusiveWriters
<1>1. Init => ExclusiveScopes
  BY DEF Init, ExclusiveScopes, Unreleased
<1>2. IInv /\ ExclusiveScopes /\ [Next]_vars => ExclusiveScopes'
  <2> SUFFICES ASSUME IInv, ExclusiveScopes, [Next]_vars PROVE ExclusiveScopes'
    OBVIOUS
  <2> USE DEF ExclusiveScopes
  <2>1. CASE \A k \in Leases : Unreleased(k)' => /\ Unreleased(k)
                                                 /\ lease'[k].run = lease[k].run
                                                 /\ lease'[k].terms = lease[k].terms
    BY <2>1
  <2>2. ASSUME NEW h \in Handlers, ClaimGrant(h) PROVE ExclusiveScopes'
    <3>1. PICK l \in Leases :
            /\ lease'[l].run = claim[h].run
            /\ lease'[l].terms = claim[h].terms
            /\ \A k \in Leases \ {l} : Unreleased(k)' =>
                  /\ Unreleased(k)
                  /\ lease'[k] = lease[k]
                  /\ TaskOf[lease[k].run] = ClaimTask(h) => k \in claim[h].active
      BY <2>2, GrantStep
    <3>2. claim[h].terms.exclusive => claim[h].terms.write
      BY <2>2, ClaimShape, LeaseAssumption DEF ClaimGrant, Claim, IInv
    <3>3. \A k \in Leases : Unreleased(k) /\ lease[k].terms.exclusive => lease[k].terms.write
      BY LeaseShape, LeaseAssumption DEF Unreleased, Lease, IInv
    <3>4. ASSUME NEW k \in Leases \ {l}, Unreleased(k)', lease'[k].terms.exclusive,
                 lease'[l].terms.exclusive, TaskOf[lease'[k].run] = TaskOf[lease'[l].run]
          PROVE  ~PathsOverlap(lease'[l].terms.scope, lease'[k].terms.scope)
      <4>1. k \in claim[h].active
        BY <3>1, <3>4 DEF ClaimTask
      <4>2. OverlapWarnings(h) = {}
        BY <2>2, <3>1, <3>4 DEF ClaimGrant
      <4> QED
        BY <3>1, <3>2, <3>3, <3>4, <4>1, <4>2 DEF OverlapWarnings
    <3> QED
      BY <3>1, <3>4, OverlapSymmetric
  <2> QED
    BY <2>1, <2>2, LeaseStep
<1>3. IInv /\ ExclusiveScopes => ExclusiveWriters
  <2> SUFFICES ASSUME IInv, ExclusiveScopes,
                      NEW k \in Leases, NEW l \in Leases, NEW f \in Paths,
                      Unreleased(k), lease[k].terms.exclusive,
                      Unreleased(l), lease[l].terms.exclusive,
                      TaskOf[lease[k].run] = TaskOf[lease[l].run], k # l,
                      Covers(lease[k].terms.scope, f), Covers(lease[l].terms.scope, f)
               PROVE  FALSE
    BY DEF ExclusiveWriters
  <2>1. lease[k].terms.scope \in SUBSET Paths /\ lease[l].terms.scope \in SUBSET Paths
    BY LeaseShape, LeaseAssumption DEF IInv, Unreleased, Lease
  <2>2. PathsOverlap(lease[k].terms.scope, lease[l].terms.scope)
    BY <2>1, OverlapSound
  <2> QED
    BY <2>2 DEF ExclusiveScopes
<1> QED
  BY <1>1, <1>2, <1>3, Inductive, PTL DEF Spec

------------------------------------------------------------------------------
(* What a claim swept had expired at the time the claim read.                   *)
SweptExpired ==
    \A h \in Handlers : InTransaction(h) =>
        \A l \in claim[h].swept : lease[l].expires <= claim[h].at

(* Why a step may release the row l: its run ends, its owner releases it, or    *)
(* the claim that swept it commits.                                             *)
ReleasedBy(l) ==
    \/ run[lease[l].run] = "running" /\ run'[lease[l].run] = "ended"
    \/ \E u \in Users : ReleaseLease(u, l)
    \/ \E h \in Handlers : InTransaction(h) /\ l \in claim[h].swept

(* All that a step does to a row that exists: nothing, a release, or a renewal  *)
(* of an unreleased lease.                                                      *)
RowChange(l) ==
    \/ lease'[l] = lease[l]
    \/ /\ Unreleased(l) /\ ReleasedBy(l)
       /\ lease'[l] = [lease[l] EXCEPT !.released = TRUE]
    \/ /\ Unreleased(l)
       /\ \E t \in Nat : lease'[l] = [lease[l] EXCEPT !.expires = t]

(* The steps that write leases.                                                 *)
LEMMA LeaseWriters ==
    ASSUME [Next]_vars
    PROVE  \/ lease' = lease
           \/ \E r \in Runs : FinishRun(r)
           \/ \E h \in Handlers : ClaimReplay(h) \/ ClaimGrant(h)
           \/ \E w \in Renewers : RenewUpdate(w)
           \/ \E u \in Users, k \in Leases : ReleaseLease(u, k)
BY DEF Next, vars, StartRun, ClaimCheck, ClaimSweep, ClaimSelect, ClaimReject, RenewRequest,
       Crash, Tick

LEMMA RowStep ==
    ASSUME IInv, [Next]_vars, NEW l \in Leases, lease[l] # NoLease
    PROVE  RowChange(l)
<1> USE DEF RowChange, IInv
<1>1. CASE lease' = lease
  BY <1>1
<1>2. ASSUME NEW r \in Runs, FinishRun(r) PROVE RowChange(l)
  BY <1>2 DEF FinishRun, ReleasedBy, TypeOK
<1>3. ASSUME NEW h \in Handlers, InTransaction(h), lease'[l] = Swept(h)[l]
      PROVE  RowChange(l)
  BY <1>3 DEF Swept, ReleasedBy, SweepInv, OfTask
<1>4. ASSUME NEW h \in Handlers, ClaimReplay(h) PROVE RowChange(l)
  BY <1>3, <1>4 DEF ClaimReplay, InTransaction
<1>5. ASSUME NEW h \in Handlers, ClaimGrant(h) PROVE RowChange(l)
  <2>1. lease'[l] = Swept(h)[l]
    BY <1>5 DEF ClaimGrant, Swept
  <2> QED
    BY <1>3, <1>5, <2>1 DEF ClaimGrant, InTransaction
<1>6. ASSUME NEW w \in Renewers, RenewUpdate(w) PROVE RowChange(l)
  <2>1. renewal[w] \in Renewal
    BY <1>6 DEF RenewUpdate, TypeOK, Idle
  <2>2. renewal[w].at \in Nat /\ renewal[w].ttl \in Nat
    BY <2>1, LeaseAssumption DEF Renewal
  <2>3. renewal[w].at + renewal[w].ttl \in Nat
    BY <2>2
  <2> QED
    BY <1>6, <2>3 DEF RenewUpdate, Renewable, TypeOK
<1>7. ASSUME NEW u \in Users, NEW k \in Leases, ReleaseLease(u, k) PROVE RowChange(l)
  <2>1. CASE k = l
    BY <1>7, <2>1 DEF ReleaseLease, ReleasedBy, TypeOK
  <2>2. CASE k # l
    BY <1>7, <2>2 DEF ReleaseLease
  <2> QED
    BY <2>1, <2>2
<1> QED
  BY <1>1, <1>2, <1>4, <1>5, <1>6, <1>7, LeaseWriters

(* A row a claim has swept is locked: it stays as it is until that claim ends.  *)
LEMMA SweptRowsStay ==
    ASSUME IInv, [Next]_vars, NEW h \in Handlers, InTransaction(h), claim'[h] = claim[h],
           NEW l \in claim[h].swept
    PROVE  lease'[l] = lease[l]
<1>1. l \in OfTask(ClaimTask(h)) /\ RowLocked(l)
  BY DEF IInv, SweepInv, RowLocked
<1>2. l \in Leases /\ Unreleased(l)
  BY <1>1 DEF OfTask
<1>3. CASE lease' = lease
  BY <1>3
<1>4. ASSUME NEW r \in Runs, FinishRun(r) PROVE lease'[l] = lease[l]
  BY <1>1, <1>2, <1>4 DEF FinishRun
<1>5. ASSUME NEW g \in Handlers, InTransaction(g), claim'[g] = Idle,
             lease'[l] = Swept(g)[l]
      PROVE  lease'[l] = lease[l]
  <2>1. g # h /\ claim[h].phase # "idle"
    BY <1>5 DEF InTransaction, Idle
  <2>2. l \notin claim[g].swept
    BY <1>1, <1>5, <2>1 DEF IInv, LockInv, SweepInv, OfTask
  <2> QED
    BY <1>2, <1>5, <2>2 DEF Swept
<1>6. ASSUME NEW g \in Handlers, ClaimReplay(g) PROVE lease'[l] = lease[l]
  BY <1>5, <1>6 DEF IInv, ClaimReplay, InTransaction, TypeOK
<1>7. ASSUME NEW g \in Handlers, ClaimGrant(g) PROVE lease'[l] = lease[l]
  <2>1. lease'[l] = Swept(g)[l]
    BY <1>2, <1>7 DEF ClaimGrant, Swept, Unreleased
  <2>2. claim'[g] = Idle
    BY <1>7 DEF IInv, ClaimGrant, TypeOK
  <2> QED
    BY <1>5, <1>7, <2>1, <2>2 DEF ClaimGrant, InTransaction
<1>8. ASSUME NEW w \in Renewers, RenewUpdate(w) PROVE lease'[l] = lease[l]
  BY <1>1, <1>2, <1>8 DEF RenewUpdate, IInv, TypeOK
<1>9. ASSUME NEW u \in Users, NEW k \in Leases, ReleaseLease(u, k) PROVE lease'[l] = lease[l]
  BY <1>1, <1>2, <1>9 DEF ReleaseLease
<1> QED
  BY <1>3, <1>4, <1>6, <1>7, <1>8, <1>9, LeaseWriters

LEMMA SweptExpiredStep == IInv /\ SweptExpired /\ [Next]_vars => SweptExpired'
<1> SUFFICES ASSUME IInv, SweptExpired, [Next]_vars,
                    NEW h \in Handlers, InTransaction(h)', NEW l \in claim'[h].swept
             PROVE  lease'[l].expires <= claim'[h].at
  BY DEF SweptExpired
<1> USE DEF IInv
<1>1. CASE claim'[h] = claim[h]
  BY <1>1, SweptRowsStay DEF SweptExpired, InTransaction
<1>2. CASE ClaimSweep(h)
  <2>1. claim[h] \in Claim
    BY <1>2, ClaimShape DEF ClaimSweep
  <2>2. /\ lease' = lease
        /\ claim'[h].swept = Expired(h) /\ claim'[h].at = claim[h].at
    BY <1>2, <2>1 DEF ClaimSweep, TypeOK, Claim
  <2> QED
    BY <2>2 DEF Expired
<1>3. CASE ClaimSelect(h)
  <2>1. claim[h] \in Claim
    BY <1>3, ClaimShape DEF ClaimSelect
  <2>2. /\ lease' = lease /\ InTransaction(h)
        /\ claim'[h].swept = claim[h].swept /\ claim'[h].at = claim[h].at
    BY <1>3, <2>1 DEF ClaimSelect, TypeOK, Claim, InTransaction
  <2> QED
    BY <2>2 DEF SweptExpired
<1>4. CASE claim'[h] = Idle
  BY <1>4 DEF InTransaction, Idle
<1>5. ASSUME NEW u \in Users, NEW r \in Runs, NEW terms \in Terms, NEW ttl \in Ttls,
             ClaimCheck(h, u, r, terms, ttl)
      PROVE  FALSE
  BY <1>5 DEF ClaimCheck, TypeOK, InTransaction
<1>6. \/ claim'[h] = claim[h] \/ ClaimSweep(h) \/ ClaimSelect(h) \/ claim'[h] = Idle
      \/ \E u \in Users, r \in Runs, terms \in Terms, ttl \in Ttls :
            ClaimCheck(h, u, r, terms, ttl)
  <2>1. ASSUME NEW g \in Handlers, g # h,
               \/ ClaimSweep(g) \/ ClaimSelect(g) \/ ClaimReplay(g) \/ ClaimReject(g)
               \/ ClaimGrant(g)
               \/ \E u \in Users, r \in Runs, terms \in Terms, ttl \in Ttls :
                     ClaimCheck(g, u, r, terms, ttl)
        PROVE  claim'[h] = claim[h]
    BY <2>1
       DEF ClaimSweep, ClaimSelect, ClaimReplay, ClaimReject, ClaimGrant, ClaimCheck, TypeOK
  <2>2. ClaimReplay(h) \/ ClaimReject(h) \/ ClaimGrant(h) => claim'[h] = Idle
    BY DEF ClaimReplay, ClaimReject, ClaimGrant, TypeOK
  <2> QED
    BY <2>1, <2>2
       DEF Next, vars, StartRun, FinishRun, RenewRequest, RenewUpdate, ReleaseLease, Crash, Tick
<1> QED
  BY <1>1, <1>2, <1>3, <1>4, <1>5, <1>6

LEMMA SweptHadExpired == Spec => []SweptExpired
<1>1. Init => SweptExpired
  BY DEF Init, SweptExpired, InTransaction, Idle
<1> QED
  BY <1>1, SweptExpiredStep, Inductive, PTL DEF Spec

(* A lease that is live when a step begins is released by its owner or with its *)
(* run, never by another claim's sweep: what a sweep releases had expired when  *)
(* the claim read the clock, and no renewal could move the locked row since.    *)
THEOREM LiveKept == Spec => LiveLeaseKept
<1>1. IInv /\ SweptExpired /\ [Next]_vars =>
         \A l \in Leases :
            Unreleased(l) /\ lease[l].expires > now /\ lease'[l].released
               => \/ run[lease[l].run] = "running" /\ run'[lease[l].run] = "ended"
                  \/ \E u \in Users : ReleaseLease(u, l)
  <2> SUFFICES ASSUME IInv, SweptExpired, [Next]_vars, NEW l \in Leases,
                      Unreleased(l), lease[l].expires > now, lease'[l].released
               PROVE  \/ run[lease[l].run] = "running" /\ run'[lease[l].run] = "ended"
                      \/ \E u \in Users : ReleaseLease(u, l)
    OBVIOUS
  <2>1. lease[l] \in Lease /\ lease[l] # NoLease /\ ~lease[l].released
    BY LeaseShape DEF IInv, Unreleased
  <2>2. lease'[l].released => ReleasedBy(l)
    BY <2>1, RowStep DEF RowChange, Lease
  <2>3. ASSUME NEW h \in Handlers, InTransaction(h), l \in claim[h].swept PROVE FALSE
    <3>1. claim[h] # Idle /\ claim[h] \in Claim
      BY <2>3, ClaimShape DEF IInv, InTransaction, Idle
    <3>2. lease[l].expires <= claim[h].at /\ claim[h].at <= now
      BY <2>3, <3>1 DEF SweptExpired, IInv, ClockInv
    <3>3. lease[l].expires \in Nat /\ claim[h].at \in Nat /\ now \in Nat
      BY <2>1, <3>1 DEF Lease, Claim, IInv, TypeOK
    <3> QED
      BY <3>2, <3>3
  <2> QED
    BY <2>2, <2>3 DEF ReleasedBy
<1> QED
  BY <1>1, Inductive, SweptHadExpired, PTL DEF Spec, LiveLeaseKept

(* A released row never changes again, and no row changes run, owner or terms.  *)
THEOREM ReleaseFinal == Spec => ReleaseIsFinal
<1>1. IInv /\ [Next]_vars =>
         \A l \in Leases : lease[l] # NoLease =>
            /\ lease[l].released => lease'[l] = lease[l]
            /\ [lease'[l] EXCEPT !.expires = 0, !.released = TRUE]
                 = [lease[l] EXCEPT !.expires = 0, !.released = TRUE]
  <2> SUFFICES ASSUME IInv, [Next]_vars, NEW l \in Leases, lease[l] # NoLease
               PROVE  /\ lease[l].released => lease'[l] = lease[l]
                      /\ [lease'[l] EXCEPT !.expires = 0, !.released = TRUE]
                           = [lease[l] EXCEPT !.expires = 0, !.released = TRUE]
    OBVIOUS
  <2>1. lease[l] \in Lease
    BY LeaseShape DEF IInv
  <2>2. \A t \in Nat : [[lease[l] EXCEPT !.expires = t] EXCEPT !.expires = 0, !.released = TRUE]
                        = [lease[l] EXCEPT !.expires = 0, !.released = TRUE]
    BY <2>1 DEF Lease
  <2>3. [[lease[l] EXCEPT !.released = TRUE] EXCEPT !.expires = 0, !.released = TRUE]
           = [lease[l] EXCEPT !.expires = 0, !.released = TRUE]
    BY <2>1 DEF Lease
  <2> QED
    BY <2>2, <2>3, RowStep DEF RowChange, Unreleased
<1> QED
  BY <1>1, Inductive, PTL DEF Spec, ReleaseIsFinal
==============================================================================
