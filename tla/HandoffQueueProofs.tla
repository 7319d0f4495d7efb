-------------------------- MODULE HandoffQueueProofs --------------------------
(***************************************************************************)
(* The ground truth of closed handoffs, for any number of handoffs,        *)
(* connections and patches in flight. The invariant says what a patch that *)
(* waits for its row may rely on when the row is free: its stamp is its    *)
(* own, and each outcome belongs to the request and tenant of its handoff. *)
(***************************************************************************)
EXTENDS HandoffQueue, TLAPS

\* A patch was accepted before it began, and its stamp has been dealt.
Waiting(p) ==
    patch[p] # None =>
        Accepted(patch[p].status, patch[p].final) /\ patch[p].at <= clock

\* An outcome is stored under the request and the tenant of its handoff.
Belongs(o) ==
    /\ o.request = RequestOf[o.handoff] /\ o.tenant = TenantOf[o.request]
    /\ o.at <= clock

\* No two transactions have the same stamp.
StampsDiffer ==
    \A p \in Patchers : patch[p] # None =>
        /\ \A q \in Patchers \ {p} : patch[q] # None => patch[p].at # patch[q].at
        /\ \A o \in outcomes : o.at # patch[p].at

\* A request with outcomes has one of them that is the latest.
HasLatest == \A o \in outcomes : LatestReviewer(o.request) # {}

ClosedHasOutcome ==
    \A h \in Handoffs : status[h] = "closed" => \E o \in outcomes : o.handoff = h

QueueInv ==
    /\ TypeOK
    /\ \A p \in Patchers : Waiting(p)
    /\ \A o \in outcomes : Belongs(o)
    /\ StampsDiffer /\ HasLatest /\ ClosedHasOutcome

\* What a patch that captures an outcome stores.
OutcomeOf(x) == [handoff |-> x.handoff, request |-> RequestOf[x.handoff],
                 tenant |-> x.tenant, final |-> x.final, at |-> x.at]

\* The rows that ROW_NUMBER ranks.
ReviewerRows(r) == {o \in outcomes : o.request = r /\ o.tenant = TenantOf[r]}

-----------------------------------------------------------------------------
\* The queue starts empty.
LEMMA QueueInvInit == Init => QueueInv
BY QueueAssumption
DEF Init, QueueInv, TypeOK, Waiting, StampsDiffer, HasLatest, ClosedHasOutcome,
    QueueAssumption, HandoffQueueStatus

\* A patch begins: its stamp is later than every other.
LEMMA BeginKeeps ==
    ASSUME QueueInv, NEW p \in Patchers, Begin(p)
    PROVE  QueueInv'
<1>1. PICK h \in Handoffs, t \in Tenants, s \in HandoffQueueStatus,
           final \in Decisions \cup {None} :
           /\ Accepted(s, final)
           /\ patch' = [patch EXCEPT ![p] =
                 [handoff |-> h, tenant |-> t, status |-> s, final |-> final,
                  at |-> clock + 1]]
    BY DEF Begin
<1> DEFINE x == [handoff |-> h, tenant |-> t, status |-> s, final |-> final,
                 at |-> clock + 1]
<1>2. /\ clock < MaxEvents /\ clock' = clock + 1 /\ clock \in 0..MaxEvents
      /\ UNCHANGED <<status, outcomes, feedback>> /\ MaxEvents \in Nat
    BY QueueAssumption DEF Begin, QueueInv, TypeOK, QueueAssumption
<1>3. /\ x \in Patch /\ clock' \in 0..MaxEvents
    BY <1>1, <1>2 DEF Patch, Stamps
<1>4. /\ patch'[p] = x /\ x.status = s /\ x.final = final /\ x.at = clock + 1
      /\ \A q \in Patchers \ {p} : patch'[q] = patch[q]
    BY <1>1 DEF QueueInv, TypeOK
<1> HIDE DEF x
<1>5. TypeOK'
    BY <1>1, <1>2, <1>3 DEF QueueInv, TypeOK, x
<1>6. \A q \in Patchers : patch[q] # None => patch[q].at \in Nat /\ patch[q].at <= clock
    BY DEF QueueInv, TypeOK, Waiting, Patch, Stamps
<1>7. \A o \in outcomes : o.at \in Nat /\ o.at <= clock
    BY DEF QueueInv, TypeOK, Belongs, Outcome, Stamps
<1>8. \A q \in Patchers : Waiting(q)'
    <2> SUFFICES ASSUME NEW q \in Patchers PROVE Waiting(q)'
        OBVIOUS
    <2>1. CASE q = p
        BY <1>1, <1>2, <1>4, <2>1 DEF Waiting, Accepted
    <2>2. CASE q # p
        BY <1>2, <1>4, <1>6, <2>2 DEF QueueInv, Waiting, Accepted
    <2> QED
        BY <2>1, <2>2
<1>9. \A o \in outcomes' : Belongs(o)'
    BY <1>2, <1>7 DEF QueueInv, Belongs
<1>10. StampsDiffer'
    <2>1. \A q \in Patchers \ {p} : patch'[q] # None => patch'[q].at # x.at
        BY <1>2, <1>4, <1>6
    <2>2. \A o \in outcomes' : o.at # x.at
        BY <1>2, <1>4, <1>7
    <2> QED
        BY <1>2, <1>4, <2>1, <2>2 DEF QueueInv, StampsDiffer
<1>11. HasLatest' /\ ClosedHasOutcome'
    BY <1>2 DEF QueueInv, HasLatest, ClosedHasOutcome, LatestReviewer, Latest
<1> QED
    BY <1>5, <1>8, <1>9, <1>10, <1>11 DEF QueueInv

\* Ranking one more row: it comes first, or changes nothing.
LEMMA LatestAdded ==
    ASSUME NEW rows, NEW n, n.at \in Nat, \A o \in rows : o.at \in Nat
    PROVE  /\ (\A o \in rows : o.at < n.at) => Latest(rows \cup {n}) = {n}
           /\ (\E o \in rows : n.at < o.at) => Latest(rows \cup {n}) = Latest(rows)
           /\ Latest(rows) # {} => Latest(rows \cup {n}) # {}
<1>1. ASSUME \A o \in rows : o.at < n.at
      PROVE  Latest(rows \cup {n}) = {n}
    <2>1. n \in Latest(rows \cup {n})
        BY <1>1 DEF Latest
    <2>2. \A o \in rows : o # n => o \notin Latest(rows \cup {n})
        BY <1>1 DEF Latest
    <2>3. n \notin rows
        BY <1>1
    <2> QED
        BY <2>1, <2>2, <2>3 DEF Latest
<1>2. ASSUME NEW later \in rows, n.at < later.at
      PROVE  Latest(rows \cup {n}) = Latest(rows)
    <2>1. ASSUME NEW o \in Latest(rows) PROVE o \in Latest(rows \cup {n})
        <3>1. o \in rows /\ later.at <= o.at /\ \A y \in rows : y.at <= o.at
            BY <2>1 DEF Latest
        <3>2. n.at <= o.at
            BY <1>2, <3>1
        <3> QED
            BY <3>1, <3>2 DEF Latest
    <2>2. ASSUME NEW o \in Latest(rows \cup {n}) PROVE o \in Latest(rows)
        BY <1>2, <2>2 DEF Latest
    <2> QED
        BY <2>1, <2>2
<1>3. ASSUME NEW first \in Latest(rows)
      PROVE  Latest(rows \cup {n}) # {}
    <2>1. /\ first \in rows /\ \A y \in rows : y.at <= first.at
          /\ first.at \in Nat
        BY <1>3 DEF Latest
    <2>2. CASE n.at <= first.at
        BY <2>1, <2>2 DEF Latest
    <2>3. CASE first.at < n.at
        <3>1. \A y \in rows : y.at <= n.at
            BY <1>3, <2>1, <2>3
        <3> QED
            BY <3>1 DEF Latest
    <2> QED
        BY <2>1, <2>2, <2>3
<1> QED
    BY <1>1, <1>2, <1>3

\* The rows and stamps a step may rely on.
LEMMA RowsKnown ==
    ASSUME QueueInv
    PROVE  /\ \A o \in outcomes : o \in Outcome /\ o.at \in Nat /\ o.at <= clock
           /\ \A r \in Requests : LatestReviewer(r) = Latest(ReviewerRows(r))
           /\ \A r \in Requests : ReviewerRows(r) = {o \in outcomes : o.request = r}
           /\ clock \in Nat
BY DEF QueueInv, TypeOK, Belongs, Outcome, Stamps, LatestReviewer, ReviewerRows

\* The patch that Apply commits.
LEMMA AppliedPatch ==
    ASSUME QueueInv, NEW p \in Patchers, Apply(p)
    PROVE  LET x == patch[p] IN
           /\ x \in Patch /\ x # None /\ x.at \in Nat /\ x.at <= clock
           /\ x.handoff \in Handoffs /\ RequestOf[x.handoff] \in Requests
           /\ x.tenant = TenantOf[RequestOf[x.handoff]] /\ x.tenant \in Tenants
           /\ Accepted(x.status, x.final)
           /\ Captures(x) => OutcomeOf(x) \in Outcome
           /\ \A o \in outcomes : o.at # x.at
           /\ \A q \in Patchers \ {p} : patch[q] # None => patch[q].at # x.at
           /\ outcomes' = IF Captures(x) THEN outcomes \cup {OutcomeOf(x)} ELSE outcomes
<1> DEFINE x == patch[p]
<1>1. x # None /\ x \in Patch
    BY DEF Apply, QueueInv, TypeOK
<1>2. /\ x.handoff \in Handoffs /\ x.tenant \in Tenants /\ x.at \in Nat
      /\ x.at \in Stamps /\ x.final \in Decisions \cup {None}
    BY <1>1 DEF Patch, Stamps
<1>3. /\ RequestOf[x.handoff] \in Requests
      /\ x.tenant = TenantOf[RequestOf[x.handoff]]
    BY <1>2, QueueAssumption DEF QueueAssumption, Apply, Found
<1>4. Accepted(x.status, x.final) /\ x.at <= clock
    BY <1>1 DEF QueueInv, Waiting
<1>5. /\ \A o \in outcomes : o.at # x.at
      /\ \A q \in Patchers \ {p} : patch[q] # None => patch[q].at # x.at
    BY <1>1 DEF QueueInv, StampsDiffer
<1>6. Captures(x) => OutcomeOf(x) \in Outcome
    BY <1>2, <1>3 DEF Captures, OutcomeOf, Outcome
<1>7. outcomes' = IF Captures(x) THEN outcomes \cup {OutcomeOf(x)} ELSE outcomes
    BY DEF Apply, OutcomeOf
<1> QED
    BY <1>1, <1>2, <1>3, <1>4, <1>5, <1>6, <1>7

\* The rows of each request after a patch has been committed.
LEMMA RowsAfter ==
    ASSUME QueueInv, NEW p \in Patchers, Apply(p), NEW r \in Requests
    PROVE  LET x == patch[p] IN
           /\ LatestReviewer(r)' = Latest(ReviewerRows(r)')
           /\ ReviewerRows(r)' = IF Captures(x) /\ RequestOf[x.handoff] = r
                                 THEN ReviewerRows(r) \cup {OutcomeOf(x)}
                                 ELSE ReviewerRows(r)
<1>1. LatestReviewer(r)' = Latest(ReviewerRows(r)')
    BY DEF LatestReviewer, ReviewerRows, Latest
<1>2. /\ OutcomeOf(patch[p]).request = RequestOf[patch[p].handoff]
      /\ OutcomeOf(patch[p]).tenant = patch[p].tenant
    BY DEF OutcomeOf
<1>3. ReviewerRows(r)' = IF Captures(patch[p]) /\ RequestOf[patch[p].handoff] = r
                         THEN ReviewerRows(r) \cup {OutcomeOf(patch[p])}
                         ELSE ReviewerRows(r)
    <2>1. CASE Captures(patch[p]) /\ RequestOf[patch[p].handoff] = r
        BY <1>2, <2>1, AppliedPatch DEF ReviewerRows
    <2>2. CASE Captures(patch[p]) /\ RequestOf[patch[p].handoff] # r
        BY <1>2, <2>2, AppliedPatch DEF ReviewerRows
    <2>3. CASE ~Captures(patch[p])
        BY <2>3, AppliedPatch DEF ReviewerRows
    <2> QED
        BY <2>1, <2>2, <2>3
<1> QED
    BY <1>1, <1>3

\* A patch commits.
LEMMA ApplyKeeps ==
    ASSUME QueueInv, NEW p \in Patchers, Apply(p)
    PROVE  QueueInv'
<1> DEFINE x == patch[p]
           n == OutcomeOf(x)
<1>1. /\ status' = [status EXCEPT ![x.handoff] = x.status]
      /\ patch' = [patch EXCEPT ![p] = None] /\ clock' = clock
    BY DEF Apply
<1>2. /\ x \in Patch /\ x # None /\ x.at \in Nat /\ x.at <= clock
      /\ x.handoff \in Handoffs /\ RequestOf[x.handoff] \in Requests
      /\ x.tenant = TenantOf[RequestOf[x.handoff]] /\ x.tenant \in Tenants
      /\ Accepted(x.status, x.final)
      /\ Captures(x) => n \in Outcome
      /\ \A o \in outcomes : o.at # x.at
      /\ \A q \in Patchers \ {p} : patch[q] # None => patch[q].at # x.at
      /\ outcomes' = IF Captures(x) THEN outcomes \cup {n} ELSE outcomes
    BY AppliedPatch
<1>3. /\ n.handoff = x.handoff /\ n.request = RequestOf[x.handoff]
      /\ n.tenant = x.tenant /\ n.at = x.at
    BY DEF OutcomeOf
<1>4. TypeOK'
    <2>1. status' \in [Handoffs -> HandoffQueueStatus]
        BY <1>1, <1>2 DEF QueueInv, TypeOK, Patch
    <2>2. outcomes' \subseteq Outcome
        BY <1>2 DEF QueueInv, TypeOK
    <2>3. feedback' \subseteq Feedback
        <3>1. x.at \in Stamps /\ (Captures(x) => x.final \in Decisions)
            BY <1>2 DEF Patch, Captures
        <3> QED
            BY <1>2, <3>1 DEF Apply, QueueInv, TypeOK, Feedback, MirroredRequest
    <2>4. patch' \in [Patchers -> Patch \cup {None}] /\ clock' \in 0..MaxEvents
        BY <1>1 DEF QueueInv, TypeOK
    <2> QED
        BY <2>1, <2>2, <2>3, <2>4 DEF TypeOK
<1>5. \A q \in Patchers : Waiting(q)'
    BY <1>1 DEF QueueInv, TypeOK, Waiting, Accepted
<1>6. \A o \in outcomes' : Belongs(o)'
    BY <1>1, <1>2, <1>3 DEF QueueInv, Belongs
<1>7. StampsDiffer'
    <2>1. /\ patch'[p] = None
          /\ \A q \in Patchers \ {p} : patch'[q] = patch[q]
          /\ \A o \in outcomes' : o \in outcomes \/ o.at = x.at
        BY <1>1, <1>2, <1>3 DEF QueueInv, TypeOK
    <2> HIDE DEF x, n
    <2> QED
        BY <1>2, <2>1 DEF QueueInv, StampsDiffer
<1>8. HasLatest'
    <2> SUFFICES ASSUME NEW o \in outcomes' PROVE LatestReviewer(o.request)' # {}
        BY DEF HasLatest
    <2> DEFINE r == o.request
               rows == ReviewerRows(r)
    <2>1. r \in Requests
        BY <1>4 DEF TypeOK, Outcome
    <2>2. \A y \in rows : y.at \in Nat
        BY RowsKnown DEF ReviewerRows
    <2>3. LatestReviewer(r)' = Latest(ReviewerRows(r)')
        BY <2>1, RowsAfter
    <2>4. rows = {} \/ Latest(rows) # {}
        BY <2>1, RowsKnown DEF QueueInv, HasLatest
    <2>5. CASE ReviewerRows(r)' = rows \cup {n}
        <3>1. Latest({n}) = {n}
            BY <1>2, <1>3 DEF Latest
        <3> HIDE DEF n, rows
        <3> QED
            BY <1>2, <1>3, <2>2, <2>3, <2>4, <2>5, <3>1, LatestAdded
    <2>6. CASE ReviewerRows(r)' = rows /\ ~(Captures(x) /\ RequestOf[x.handoff] = r)
        <3>1. o \in outcomes
            BY <1>2, <1>3, <2>6
        <3> QED
            BY <2>1, <2>3, <2>6, <3>1, RowsKnown DEF QueueInv, HasLatest
    <2> QED
        BY <2>1, <2>5, <2>6, RowsAfter
<1>9. ClosedHasOutcome'
    <2> SUFFICES ASSUME NEW h \in Handoffs, status'[h] = "closed"
                 PROVE  \E o \in outcomes' : o.handoff = h
        BY DEF ClosedHasOutcome
    <2>1. CASE h = x.handoff
        <3>1. x.status = "closed"
            BY <1>1, <1>2, <2>1 DEF QueueInv, TypeOK
        <3>2. Captures(x)
            BY <1>2, <3>1 DEF Accepted, Captures
        <3> QED
            BY <1>2, <1>3, <2>1, <3>2
    <2>2. CASE h # x.handoff
        BY <1>1, <1>2, <2>2 DEF QueueInv, TypeOK, ClosedHasOutcome
    <2> QED
        BY <2>1, <2>2
<1> QED
    BY <1>4, <1>5, <1>6, <1>7, <1>8, <1>9 DEF QueueInv

\* Every step keeps the invariant.
LEMMA QueueInvStep == QueueInv /\ [Next]_vars => QueueInv'
<1> SUFFICES ASSUME QueueInv, [Next]_vars PROVE QueueInv'
    OBVIOUS
<1>1. CASE UNCHANGED vars
    BY <1>1 DEF vars, QueueInv, TypeOK, Waiting, Belongs, StampsDiffer, HasLatest,
        ClosedHasOutcome, LatestReviewer, Latest, Accepted
<1>2. ASSUME NEW p \in Patchers, Begin(p) PROVE QueueInv'
    BY <1>2, BeginKeeps
<1>3. ASSUME NEW p \in Patchers, Apply(p) PROVE QueueInv'
    BY <1>3, ApplyKeeps
<1>4. ASSUME NEW p \in Patchers, Abandon(p) PROVE QueueInv'
    <2>1. /\ patch' = [patch EXCEPT ![p] = None]
          /\ UNCHANGED <<status, outcomes, feedback, clock>>
        BY <1>4 DEF Abandon
    <2>2. TypeOK' /\ (\A q \in Patchers : Waiting(q)') /\ StampsDiffer'
        BY <2>1 DEF QueueInv, TypeOK, Waiting, StampsDiffer, Accepted
    <2>3. (\A o \in outcomes' : Belongs(o)') /\ HasLatest' /\ ClosedHasOutcome'
        BY <2>1 DEF QueueInv, Belongs, HasLatest, ClosedHasOutcome, LatestReviewer, Latest
    <2> QED
        BY <2>2, <2>3 DEF QueueInv
<1>5. CASE GiveFeedback
    <2>1. /\ clock' = clock + 1 /\ clock < MaxEvents /\ UNCHANGED <<status, outcomes, patch>>
          /\ clock \in 0..MaxEvents /\ MaxEvents \in Nat
        BY <1>5, QueueAssumption DEF GiveFeedback, QueueInv, TypeOK, QueueAssumption
    <2>2. TypeOK'
        <3>1. clock' \in 0..MaxEvents /\ clock + 1 \in Stamps
            BY <2>1 DEF Stamps
        <3>2. feedback' \subseteq Feedback
            BY <1>5, <3>1, QueueAssumption
            DEF GiveFeedback, QueueInv, TypeOK, Feedback, FeedbackRequest, QueueAssumption
        <3> QED
            BY <2>1, <3>1, <3>2 DEF QueueInv, TypeOK
    <2>3. \A p \in Patchers : Waiting(p)'
        BY <2>1 DEF QueueInv, TypeOK, Waiting, Patch, Stamps, Accepted
    <2>4. \A o \in outcomes' : Belongs(o)'
        BY <2>1, RowsKnown DEF QueueInv, Belongs
    <2>5. StampsDiffer' /\ HasLatest' /\ ClosedHasOutcome'
        BY <2>1 DEF QueueInv, StampsDiffer, HasLatest, ClosedHasOutcome,
            LatestReviewer, Latest
    <2> QED
        BY <2>2, <2>3, <2>4, <2>5 DEF QueueInv
<1> QED
    BY <1>1, <1>2, <1>3, <1>4, <1>5 DEF Next

\* The invariant of HandoffQueue.
THEOREM QueueInvariant == Spec => []QueueInv
BY QueueInvInit, QueueInvStep, PTL DEF Spec

\* Each mirrored event tells of an outcome, and the other way round: both are
\* stored by the patch that captures it.
THEOREM OutcomesAreMirrored == Spec => []OutcomesMirrored
<1> DEFINE Told(o) == [r |-> o.request, t |-> o.tenant, d |-> o.final, at |-> o.at]
           Claimed(f) == [r |-> f.request, t |-> f.tenant, d |-> f.decision, at |-> f.at]
           Reviews == {e \in feedback : e.source = "reviewer"}
<1>1. OutcomesMirrored <=> {Told(o) : o \in outcomes} = {Claimed(f) : f \in Reviews}
    BY DEF OutcomesMirrored
<1>2. Init => OutcomesMirrored
    BY <1>1 DEF Init
<1>3. ASSUME OutcomesMirrored, [Next]_vars PROVE OutcomesMirrored'
    <2>1. ASSUME NEW p \in Patchers, Apply(p), Captures(patch[p])
          PROVE  OutcomesMirrored'
        <3> DEFINE x == patch[p]
                   o == [handoff |-> x.handoff, request |-> RequestOf[x.handoff],
                         tenant |-> x.tenant, final |-> x.final, at |-> x.at]
                   f == [request |-> MirroredRequest(x), tenant |-> x.tenant,
                         decision |-> x.final, at |-> x.at, source |-> "reviewer"]
        <3>1. outcomes' = outcomes \cup {o} /\ feedback' = feedback \cup {f}
            BY <2>1 DEF Apply
        <3>2. Told(o) = Claimed(f) /\ f.source = "reviewer"
            BY DEF MirroredRequest
        <3> HIDE DEF o, f
        <3>3. Reviews' = Reviews \cup {f}
            BY <3>1, <3>2
        <3>4. {Told(y) : y \in outcomes'} = {Told(y) : y \in outcomes} \cup {Told(o)}
            BY <3>1
        <3>5. {Claimed(y) : y \in Reviews'} = {Claimed(y) : y \in Reviews} \cup {Claimed(f)}
            BY <3>3
        <3> QED
            BY <1>1, <1>3, <3>2, <3>4, <3>5 DEF OutcomesMirrored
    <2>2. ASSUME NEW p \in Patchers, Apply(p), ~Captures(patch[p])
          PROVE  OutcomesMirrored'
        BY <1>3, <2>2 DEF Apply, OutcomesMirrored
    <2>3. CASE GiveFeedback
        <3>1. outcomes' = outcomes /\ Reviews' = Reviews
            BY <2>3 DEF GiveFeedback
        <3> QED
            BY <1>3, <3>1 DEF OutcomesMirrored
    <2>4. CASE UNCHANGED <<outcomes, feedback>>
        BY <1>3, <2>4 DEF OutcomesMirrored
    <2> QED
        BY <1>3, <2>1, <2>2, <2>3, <2>4 DEF Next, Begin, Abandon, vars
<1> QED
    BY <1>2, <1>3, PTL DEF Spec

\* A closed handoff has an outcome of its own, and so its request has ground
\* truth, whatever patches, reopenings and feedback have come in between.
THEOREM ClosedHandoffsHaveGroundTruth == Spec => []ClosedHasGroundTruth
<1>1. QueueInv => ClosedHasGroundTruth
    <2> SUFFICES ASSUME QueueInv, NEW h \in Handoffs, status[h] = "closed"
                 PROVE  /\ \E o \in outcomes : o.handoff = h
                        /\ GroundTruth(RequestOf[h]) # {}
        BY DEF ClosedHasGroundTruth
    <2>1. PICK o \in outcomes : o.handoff = h
        BY DEF QueueInv, ClosedHasOutcome
    <2>2. LatestReviewer(RequestOf[h]) # {}
        BY <2>1 DEF QueueInv, Belongs, HasLatest
    <2> QED
        BY <2>1, <2>2 DEF GroundTruth
<1> QED
    BY <1>1, QueueInvariant, PTL

\* The ground truth that the commit of a patch leaves.
LEMMA PatchDecides ==
    ASSUME QueueInv, NEW p \in Patchers, NEW r \in Requests,
           Apply(p), RequestOf[patch[p].handoff] = r
    PROVE  IF /\ Captures(patch[p])
              /\ \A o \in outcomes : o.request = r => o.at < patch[p].at
           THEN GroundTruth(r)' = {patch[p].final}
           ELSE GroundTruth(r)' = GroundTruth(r)
<1> DEFINE x == patch[p]
           n == OutcomeOf(x)
           rows == ReviewerRows(r)
<1>1. /\ LatestReviewer(r) = Latest(rows) /\ rows = {o \in outcomes : o.request = r}
      /\ LatestReviewer(r)' = Latest(ReviewerRows(r)')
      /\ ReviewerRows(r)' = IF Captures(x) THEN rows \cup {n} ELSE rows
    BY RowsKnown, RowsAfter
<1>2. /\ x.at \in Nat /\ \A o \in outcomes : o.at # x.at
      /\ \A o \in rows : o.at \in Nat
    BY AppliedPatch, RowsKnown DEF ReviewerRows
<1>3. n.at = x.at /\ n.final = x.final
    BY DEF OutcomeOf
<1>4. GroundTruth(r)' = IF LatestReviewer(r)' # {}
                        THEN {o.final : o \in LatestReviewer(r)'}
                        ELSE {f.decision : f \in LatestFeedback(r)'} \ {None}
    BY DEF GroundTruth
<1> HIDE DEF n, rows
<1>5. CASE Captures(x) /\ \A o \in outcomes : o.request = r => o.at < x.at
    <2>1. \A o \in rows : o.at < n.at
        BY <1>1, <1>3, <1>5
    <2>2. LatestReviewer(r)' = {n}
        BY <1>1, <1>2, <1>3, <1>5, <2>1, LatestAdded
    <2> QED
        BY <1>3, <1>4, <1>5, <2>2
<1>6. CASE Captures(x) /\ ~ \A o \in outcomes : o.request = r => o.at < x.at
    <2>1. PICK later \in rows : n.at < later.at
        <3>1. PICK o \in rows : ~(o.at < x.at)
            BY <1>1, <1>6
        <3>2. o.at \in Nat /\ o.at # x.at
            BY <1>1, <1>2, <3>1
        <3> QED
            BY <1>2, <1>3, <3>1, <3>2
    <2>2. LatestReviewer(r)' = LatestReviewer(r)
        BY <1>1, <1>2, <1>3, <1>6, <2>1, LatestAdded
    <2>3. LatestReviewer(r) # {}
        BY <1>1, <2>1 DEF QueueInv, HasLatest
    <2> QED
        BY <1>4, <1>6, <2>2, <2>3 DEF GroundTruth
<1>7. CASE ~Captures(x)
    <2>1. LatestReviewer(r)' = LatestReviewer(r)
        BY <1>1, <1>7
    <2>2. LatestFeedback(r)' = LatestFeedback(r)
        BY <1>7 DEF Apply, LatestFeedback, Latest
    <2> QED
        BY <1>4, <1>7, <2>1, <2>2 DEF GroundTruth
<1> QED
    BY <1>5, <1>6, <1>7

\* The patch that began last decides, for every interleaving of the patches.
THEOREM TheLatestPatchDecides == Spec => LatestPatchDecides
<1>1. QueueInv /\ [Next]_vars =>
        [\A p \in Patchers, r \in Requests :
            Apply(p) /\ RequestOf[patch[p].handoff] = r =>
               IF /\ Captures(patch[p])
                  /\ \A o \in outcomes : o.request = r => o.at < patch[p].at
               THEN GroundTruth(r)' = {patch[p].final}
               ELSE GroundTruth(r)' = GroundTruth(r)]_vars
    BY PatchDecides
<1> QED
    BY <1>1, QueueInvariant, PTL DEF Spec, LatestPatchDecides

=============================================================================
