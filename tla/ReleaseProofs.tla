---------------------------- MODULE ReleaseProofs ----------------------------
(***************************************************************************)
(* What a release rests on, for any calendar, any windows of the gate and  *)
(* any number of overlapping runs of the promotion script: the gate reads  *)
(* while the script commits and midnight passes, so the invariant says     *)
(* what the gate has read and that nothing it has read about can change    *)
(* any more: the days are over. That the log the gate reads ends at the    *)
(* row it read is true of runs that follow one another, and proved of them.*)
(***************************************************************************)
EXTENDS ReleaseGates, CanaryRolloutProofs, FiniteSetTheorems

\* What ReleaseEarned says of a verdict: of a log and the days up to its end.
Earned(log, past, by, end) ==
    /\ \A stage \in REQUIRED_CANARY_STAGES :
          \E e \in log : e.to = stage /\ Supports(e.window)
    /\ \E e \in log : e.to < e.from
    /\ \A d \in Trailing(end, QualityDays) :
          /\ "canary" \in by[d]
          /\ Supports(past[d].canary)
          /\ past[d].drift # "alert" /\ ~past[d].slo

\* Evidence names the variants that served, and there is none of today.
EvidenceInv ==
    /\ today \in 1..MaxDays /\ day \in [Days -> Day]
    /\ served \in [Days -> SUBSET {"primary", "canary"}]
    /\ \A d \in Days :
          /\ d >= today => day[d] = NoDay
          /\ day[d].canary # NoWindow => "canary" \in served[d]
          /\ day[d].rows # <<>> => "primary" \in served[d]

\* The gate's run: what it has read is of days that are over and of the log.
GateInv ==
    /\ gate \in [pc : {"idle", "row", "overnight", "live"}, end : Nat,
                 percent : 0..100, began : SUBSET Event, log : SUBSET Event,
                 live : BOOLEAN]
    /\ gate.pc # "idle" => gate.end < today
    /\ gate.log \subseteq events
    /\ gate.pc = "live" /\ gate.live =>
          gate.percent = 100 /\ Earned(gate.log, day, served, gate.end)

\* What was released keeps what it was released on.
VerdictInv ==
    /\ verdict \in [passed : BOOLEAN, end : Nat, began : SUBSET Event,
                    log : SUBSET Event]
    /\ verdict.passed =>
          /\ verdict.end < today
          /\ Earned(verdict.log, day, served, verdict.end)
          /\ \E d \in GateWindow(verdict.end) : "primary" \in served[d]

ReleaseInv == EvidenceInv /\ GateInv /\ VerdictInv

\* What the rollout contributes, whatever runs overlap.
RolloutKnown == IInv /\ PromotionsSupported

\* The log ends at the row, and the row the gate read was the end of the log
\* at that time.
StoodInv ==
    /\ gate.pc # "idle" => EndsAt(gate.began, gate.percent)
    /\ verdict.passed => EndsAt(verdict.began, 100)

-----------------------------------------------------------------------------
\* The gates and the calendar leave the rollout as it is: its theorems hold here.
LEMMA StepsImplementRollout == [ReleaseNext]_releaseVars => [Next]_vars
BY DEF ReleaseNext, releaseVars, EndDay, RunReads, RunCommits, GateBegins,
    GateValidates, GateDecides, GateFails, Next

\* A release procedure contains the canary rollout it is about.
THEOREM ReleaseImplementsRollout == ReleaseSpec => Spec
<1>1. ReleaseInit => Init
    BY DEF ReleaseInit
<1> QED
    BY <1>1, StepsImplementRollout, PTL DEF ReleaseSpec, Spec

\* The rollout's invariants hold in a release procedure.
LEMMA RolloutStays == ReleaseSpec => []RolloutKnown
BY ReleaseImplementsRollout, RolloutInvariant, PromotionsAreSupported,
   PTL DEF RolloutKnown

\* Events are only added to the log.
LEMMA LogGrows ==
    ASSUME [Next]_vars
    PROVE  events \subseteq events'
BY DEF Next, Commit, Tick, ReadConfig, LookupStep, ServeCached, BeginFetch,
    Answer, EndFetch, Forget, script, vars

\* The least of the numbers of a set: finite sets have no infinite descent.
LEMMA Least ==
    ASSUME NEW S \in SUBSET Nat, S # {}
    PROVE  \E m \in S : \A n \in S : m <= n
<1> DEFINE T == {0..n : n \in S}
<1>1. T \subseteq FiniteSubsetsOf(Nat) /\ T # {}
    <2>1. \A n \in S : IsFiniteSet(0..n) /\ 0..n \in SUBSET Nat
        BY FS_Interval
    <2> QED
        BY <2>1 DEF FiniteSubsetsOf
<1>2. PICK x \in T : \A y \in T : ~(<<y, x>> \in StrictSubsetOrdering(Nat))
    <2>1. IsWellFoundedOn(StrictSubsetOrdering(Nat), FiniteSubsetsOf(Nat))
        BY FS_StrictSubsetOrderingWellFounded
    <2> HIDE DEF T
    <2> QED
        BY <1>1, <2>1, WFMin
<1>3. PICK m \in S : x = 0..m
    BY <1>2
<1>4. ASSUME NEW n \in S, n < m PROVE FALSE
    <2>1. m \in 0..m /\ m \notin 0..n
        BY <1>4
    <2>2. 0..n \subseteq 0..m /\ 0..n # 0..m
        BY <1>4, <2>1
    <2>3. 0..n \in T /\ 0..n \in SUBSET Nat /\ 0..m \in SUBSET Nat
        OBVIOUS
    <2> QED
        BY <1>2, <1>3, <2>2, <2>3 DEF StrictSubsetOrdering
<1> QED
    BY <1>4

\* Max of the numbers up to H is one of them.
LEMMA Greatest ==
    ASSUME NEW H \in Nat, NEW S \in SUBSET (0..H), S # {}
    PROVE  Max(S) \in S
<1> DEFINE T == {n \in Nat : H - n \in S}
<1>1. PICK z \in S : H - z \in T
    <2>1. PICK z \in S : z \in 0..H
        OBVIOUS
    <2>2. H - z \in Nat /\ H - (H - z) = z
        BY <2>1
    <2> QED
        BY <2>2
<1>2. PICK m \in T : \A n \in T : m <= n
    BY <1>1, Least
<1>3. ASSUME NEW n \in S PROVE H - m >= n
    <2>1. n \in 0..H
        OBVIOUS
    <2>2. H - n \in Nat /\ H - (H - n) = n
        BY <2>1
    <2>3. m <= H - n /\ m \in Nat
        BY <1>2, <2>2
    <2> QED
        BY <2>1, <2>3
<1>4. \E x \in S : \A y \in S : x >= y
    BY <1>2, <1>3
<1> QED
    BY <1>4 DEF Max

\* The gate's windows lie in the calendar.
LEMMA WindowsInCalendar ==
    ASSUME NEW end \in Nat, end < MaxDays
    PROVE  /\ \A d \in Trailing(end, QualityDays) : d \in Days /\ d <= end
           /\ \A d \in GateWindow(end) : d \in Days /\ d <= end
<1>1. /\ WindowDays \in Nat \ {0} /\ BaselineDays \in Nat /\ HistoryDays \in Nat
      /\ QualityDays \in Nat \ {0} /\ QualityDays <= WindowDays /\ MaxDays \in Nat
    BY ReleaseAssumption DEF ReleaseAssumption
<1>2. ASSUME NEW n \in {QualityDays, WindowDays}, NEW d \in Trailing(end, n)
      PROVE  d \in Days /\ d <= end
    <2>1. d \in Int /\ end - n + 1 <= d /\ d <= end
        BY <1>1, <1>2 DEF Trailing
    <2>2. n \in Nat /\ n <= WindowDays
        BY <1>1
    <2>3. 1 - WindowDays - BaselineDays - HistoryDays <= d /\ d <= MaxDays
        BY <1>1, <2>1, <2>2
    <2> QED
        BY <1>1, <2>1, <2>3 DEF Days
<1> QED
    BY <1>2 DEF GateWindow

\* What a step may not touch keeps a release earned.
LEMMA EarnedStays ==
    ASSUME NEW end \in Nat, end < today, EvidenceInv,
           NEW log, Earned(log, day, served, end),
           \A d \in Days : d < today =>
               day'[d] = day[d] /\ served[d] \subseteq served'[d]
    PROVE  Earned(log, day', served', end)
<1>1. today \in Nat /\ MaxDays \in Nat /\ end < MaxDays
    BY ReleaseAssumption DEF EvidenceInv, ReleaseAssumption
<1>2. \A d \in Trailing(end, QualityDays) : d \in Days /\ d <= end /\ d \in Int
    BY <1>1, WindowsInCalendar DEF Days, Trailing
<1>3. \A d \in Trailing(end, QualityDays) :
          day'[d] = day[d] /\ served[d] \subseteq served'[d]
    BY <1>1, <1>2
<1> QED
    BY <1>3 DEF Earned

\* What a step has to leave alone, for the gate and the verdict to stay.
EvidenceStays ==
    /\ today <= today'
    /\ \A d \in Days : d < today => day'[d] = day[d] /\ served[d] \subseteq served'[d]

\* A gate that does not move, but for a log it reads at midnight, keeps its part.
LEMMA GateStays ==
    ASSUME IInv, [Next]_vars, ReleaseInv, EvidenceStays, today' \in Nat,
           \/ gate' = gate
           \/ gate.pc = "row" /\ gate' = [gate EXCEPT !.pc = "overnight", !.log = events]
    PROVE  GateInv'
<1>1. events \subseteq events' /\ events \subseteq Event
    BY LogGrows DEF IInv, TypeOK
<1>2. today \in Nat /\ today <= today'
    BY ReleaseAssumption DEF ReleaseInv, EvidenceInv, EvidenceStays, ReleaseAssumption
<1>3. gate.pc # "idle" => gate.end < today'
    BY <1>2 DEF ReleaseInv, GateInv
<1>4. CASE gate' = gate
    <2>1. gate.pc = "live" /\ gate.live => Earned(gate.log, day', served', gate.end)
        BY EarnedStays DEF ReleaseInv, GateInv, EvidenceStays
    <2> QED
        BY <1>1, <1>3, <1>4, <2>1 DEF ReleaseInv, GateInv
<1>5. CASE gate.pc = "row" /\ gate' = [gate EXCEPT !.pc = "overnight", !.log = events]
    <2>1. gate' = [pc |-> "overnight", end |-> gate.end, percent |-> gate.percent,
                   began |-> gate.began, log |-> events, live |-> gate.live]
        BY <1>5 DEF ReleaseInv, GateInv
    <2> QED
        BY <1>1, <1>3, <1>5, <2>1 DEF ReleaseInv, GateInv
<1> QED
    BY <1>4, <1>5

\* A verdict stays earned.
LEMMA VerdictStays ==
    ASSUME ReleaseInv, EvidenceStays, today' \in Nat, verdict' = verdict
    PROVE  VerdictInv'
<1>1. today \in Nat /\ today <= today' /\ MaxDays \in Nat /\ today <= MaxDays
    BY ReleaseAssumption DEF ReleaseInv, EvidenceInv, EvidenceStays, ReleaseAssumption
<1>2. ASSUME verdict.passed
      PROVE  /\ verdict.end < today'
             /\ Earned(verdict.log, day', served', verdict.end)
             /\ \E d \in GateWindow(verdict.end) : "primary" \in served'[d]
    <2>1. /\ verdict.end \in Nat /\ verdict.end < today
          /\ Earned(verdict.log, day, served, verdict.end)
        BY <1>2 DEF ReleaseInv, VerdictInv
    <2>2. Earned(verdict.log, day', served', verdict.end)
        BY <2>1, EarnedStays DEF ReleaseInv, EvidenceStays
    <2>3. PICK d \in GateWindow(verdict.end) : "primary" \in served[d]
        BY <1>2 DEF ReleaseInv, VerdictInv
    <2>4. d \in Days /\ d <= verdict.end /\ d \in Int
        BY <1>1, <2>1, WindowsInCalendar DEF Days
    <2>5. served[d] \subseteq served'[d]
        BY <1>1, <2>1, <2>4 DEF EvidenceStays
    <2> QED
        BY <1>1, <2>1, <2>2, <2>3, <2>5
<1>3. GateWindow(verdict.end)' = GateWindow(verdict.end)
    BY DEF GateWindow, Trailing
<1> QED
    BY <1>2, <1>3 DEF ReleaseInv, VerdictInv

-----------------------------------------------------------------------------
\* A day without canary or primary answers leaves no rows of theirs.
LEMMA LeftIsDay ==
    ASSUME NEW kind \in Day, NEW variants
    PROVE  /\ Left(kind, variants) \in Day
           /\ Left(kind, variants).canary # NoWindow => "canary" \in variants
           /\ Left(kind, variants).rows # <<>> => "primary" \in variants
<1> DEFINE canary == IF "canary" \in variants THEN kind.canary ELSE NoWindow
           assisted == IF "primary" \in variants THEN kind.assisted ELSE 0
           rows == IF "primary" \in variants THEN kind.rows ELSE <<>>
<1>1. /\ canary \in Window /\ assisted \in Nat /\ rows \in Seq(Labelled)
    BY DEF Day, NoWindow, Window, Measures
<1>2. /\ canary # NoWindow => "canary" \in variants
      /\ rows # <<>> => "primary" \in variants
    OBVIOUS
<1>3. Left(kind, variants) =
          [kind EXCEPT !.canary = canary, !.assisted = assisted, !.rows = rows]
    BY DEF Left
<1> HIDE DEF canary, assisted, rows
<1>4. Left(kind, variants) \in Day
    BY <1>1, <1>3 DEF Day
<1>5. Left(kind, variants).canary = canary /\ Left(kind, variants).rows = rows
    BY <1>3 DEF Day
<1> QED
    BY <1>2, <1>4, <1>5

\* The variants at a percentage are those two.
LEMMA ServingTypes ==
    ASSUME NEW p
    PROVE  Serving(p) \in SUBSET {"primary", "canary"}
BY DEF Serving

\* Where the calendar stands.
LEMMA Calendar ==
    ASSUME EvidenceInv
    PROVE  /\ today \in Nat /\ today \in Days /\ today <= MaxDays /\ MaxDays \in Nat
           /\ today - 1 \in Nat
           /\ today < MaxDays => today + 1 \in Days
           /\ \A d \in Days : d \in Int
<1>1. /\ MaxDays \in Nat /\ WindowDays \in Nat /\ BaselineDays \in Nat
      /\ HistoryDays \in Nat /\ today \in 1..MaxDays
    BY ReleaseAssumption DEF ReleaseAssumption, EvidenceInv
<1> QED
    BY <1>1 DEF Days

\* Midnight closes a day and opens the next.
LEMMA EndDayKeeps ==
    ASSUME IInv, [Next]_vars, ReleaseInv, EndDay
    PROVE  ReleaseInv'
<1>1. PICK kind \in DayKinds[today] :
          day' = [day EXCEPT ![today] = Left(kind, served[today])]
    BY DEF EndDay
<1>2. /\ EvidenceInv /\ today < MaxDays /\ today' = today + 1
      /\ served' = [served EXCEPT ![today + 1] = Serving(percent)]
    BY DEF EndDay, ReleaseInv
<1>3. /\ today \in Nat /\ today \in Days /\ today + 1 \in Days /\ MaxDays \in Nat
      /\ \A d \in Days : d \in Int
    BY <1>2, Calendar
<1>4. kind \in Day
    BY <1>1, <1>2, <1>3, ReleaseAssumption DEF ReleaseAssumption, EvidenceInv
<1>5. /\ Left(kind, served[today]) \in Day
      /\ Left(kind, served[today]).canary # NoWindow => "canary" \in served[today]
      /\ Left(kind, served[today]).rows # <<>> => "primary" \in served[today]
    BY <1>4, LeftIsDay
<1>6. /\ day'[today] = Left(kind, served[today]) /\ served'[today] = served[today]
      /\ \A d \in Days \ {today} : day'[d] = day[d]
      /\ \A d \in Days \ {today + 1} : served'[d] = served[d]
    BY <1>1, <1>2, <1>3 DEF EvidenceInv
<1>7. /\ day' \in [Days -> Day] /\ served' \in [Days -> SUBSET {"primary", "canary"}]
      /\ today' \in 1..MaxDays
    BY <1>1, <1>2, <1>3, <1>5, ServingTypes DEF EvidenceInv
<1>8. EvidenceInv'
    <2> SUFFICES ASSUME NEW d \in Days
                 PROVE  /\ d >= today' => day'[d] = NoDay
                        /\ day'[d].canary # NoWindow => "canary" \in served'[d]
                        /\ day'[d].rows # <<>> => "primary" \in served'[d]
        BY <1>7 DEF EvidenceInv, Days
    <2>1. CASE d = today
        BY <1>2, <1>3, <1>5, <1>6, <2>1
    <2>2. CASE d = today + 1
        <3>1. day'[d] = NoDay
            BY <1>2, <1>3, <1>6, <2>2 DEF EvidenceInv
        <3> QED
            BY <3>1 DEF NoDay
    <2>3. CASE d # today /\ d # today + 1
        BY <1>2, <1>3, <1>6, <2>3 DEF EvidenceInv
    <2> QED
        BY <2>1, <2>2, <2>3
<1>9. EvidenceStays /\ today' \in Nat
    <2>1. ASSUME NEW d \in Days, d < today
          PROVE  day'[d] = day[d] /\ served'[d] = served[d]
        <3>1. d \in Int /\ d # today /\ d # today + 1
            BY <1>3, <2>1
        <3> QED
            BY <1>6, <3>1
    <2>2. today <= today' /\ today' \in Nat
        BY <1>2, <1>3
    <2> QED
        BY <2>1, <2>2 DEF EvidenceStays
<1>10. GateInv'
    BY <1>9, GateStays DEF EndDay
<1>11. VerdictInv'
    BY <1>9, VerdictStays DEF EndDay
<1> QED
    BY <1>8, <1>10, <1>11 DEF ReleaseInv

\* A step that leaves the calendar alone leaves its evidence alone.
LEMMA QuietEvidence ==
    ASSUME EvidenceInv, UNCHANGED evidence
    PROVE  EvidenceInv' /\ EvidenceStays /\ today' \in Nat
<1>1. EvidenceInv'
    BY DEF EvidenceInv, evidence, Days
<1>2. today \in Nat
    BY Calendar
<1> QED
    BY <1>1, <1>2 DEF EvidenceStays, evidence

\* A run of the promotion script: from a commit on, the canary may have served.
LEMMA RunsKeep ==
    ASSUME IInv, [Next]_vars, ReleaseInv, NEW r \in Runs, RunReads(r) \/ RunCommits(r)
    PROVE  ReleaseInv'
<1>1. CASE RunReads(r)
    <2>1. UNCHANGED <<evidence, gate, verdict>>
        BY <1>1 DEF RunReads
    <2> QED
        BY <2>1, QuietEvidence, GateStays, VerdictStays DEF ReleaseInv
<1>2. CASE RunCommits(r)
    <2>1. /\ served' = [served EXCEPT ![today] = served[today] \cup Serving(percent')]
          /\ UNCHANGED <<today, day, gate, verdict>> /\ EvidenceInv
        BY <1>2 DEF RunCommits, ReleaseInv
    <2>2. today \in Days /\ today \in Nat
        BY <2>1, Calendar
    <2>3. /\ \A d \in Days : served[d] \subseteq served'[d]
          /\ served' \in [Days -> SUBSET {"primary", "canary"}]
        BY <2>1, <2>2, ServingTypes DEF EvidenceInv
    <2>4. EvidenceInv'
        BY <2>1, <2>3 DEF EvidenceInv, Days
    <2>5. EvidenceStays /\ today' \in Nat
        BY <2>1, <2>2, <2>3 DEF EvidenceStays
    <2> QED
        BY <2>1, <2>4, <2>5, GateStays, VerdictStays DEF ReleaseInv
<1> QED
    BY <1>1, <1>2

\* The gate begins: it has read the row, and nothing else yet.
LEMMA GateBeginsKeeps ==
    ASSUME RolloutKnown, [Next]_vars, ReleaseInv, GateBegins
    PROVE  ReleaseInv'
<1>1. /\ gate' = [pc |-> "row", end |-> today - 1, percent |-> percent,
                  began |-> events, log |-> {}, live |-> FALSE]
      /\ UNCHANGED <<vars, evidence, verdict>>
    BY DEF GateBegins
<1>2. EvidenceInv' /\ VerdictInv' /\ IInv
    BY <1>1, QuietEvidence, VerdictStays DEF ReleaseInv, RolloutKnown
<1>3. /\ today - 1 \in Nat /\ today \in Nat /\ percent \in 0..100
      /\ events \in SUBSET Event
    BY <1>2, Calendar DEF ReleaseInv, IInv, TypeOK
<1>4. events' = events /\ today' = today
    BY <1>1 DEF vars, evidence
<1>5. GateInv'
    BY <1>1, <1>3, <1>4 DEF GateInv
<1> QED
    BY <1>2, <1>5 DEF ReleaseInv

\* The trailing stable days are days that passed.
LEMMA StableDaysPassed ==
    ASSUME NEW end \in Nat, TrailingStableDays(end) >= QualityDays
    PROVE  \A d \in Trailing(end, QualityDays) : DayPasses(d)
<1> DEFINE S == {n \in 0..HistoryDays : \A d \in Trailing(end, n) : DayPasses(d)}
<1>1. HistoryDays \in Nat /\ QualityDays \in Nat
    BY ReleaseAssumption DEF ReleaseAssumption
<1>2. 0 \in S
    BY <1>1 DEF Trailing
<1>3. TrailingStableDays(end) = Max(S)
    BY DEF TrailingStableDays
<1>4. Max(S) \in S
    <2>1. S \in SUBSET (0..HistoryDays) /\ S # {}
        BY <1>2
    <2> HIDE DEF S
    <2> QED
        BY <1>1, <2>1, Greatest
<1>5. PICK m \in 0..HistoryDays :
          m >= QualityDays /\ \A d \in Trailing(end, m) : DayPasses(d)
    BY <1>3, <1>4
<1>6. \A d \in Trailing(end, QualityDays) : d \in Trailing(end, m)
    BY <1>1, <1>5 DEF Trailing
<1> QED
    BY <1>5, <1>6

\* A validation that passes has seen what a release is earned with.
LEMMA ValidatedIsEarned ==
    ASSUME RolloutKnown, EvidenceInv, NEW end \in Nat, end < today,
           NEW log, log \subseteq events, NEW at, LiveRolloutPassed(at, end, log)
    PROVE  at = 100 /\ Earned(log, day, served, end)
<1>1. at = 100 /\ StagesPromoted(log) /\ RollbackDrilled(log)
    BY DEF LiveRolloutPassed, CanaryChecked
<1>2. ASSUME NEW stage \in REQUIRED_CANARY_STAGES
      PROVE  \E e \in log : e.to = stage /\ Supports(e.window)
    <2>1. PICK pick \in [REQUIRED_CANARY_STAGES -> log] :
              \A s \in REQUIRED_CANARY_STAGES :
                  pick[s].to = s /\ pick[s].to > pick[s].from
        BY <1>1 DEF StagesPromoted
    <2>2. pick[stage] \in log /\ pick[stage] \in events
        BY <2>1
    <2> QED
        BY <2>1, <2>2 DEF RolloutKnown, PromotionsSupported
<1>3. \E e \in log : e.to < e.from
    BY <1>1 DEF RollbackDrilled
<1>4. ASSUME NEW d \in Trailing(end, QualityDays)
      PROVE  /\ "canary" \in served[d]
             /\ Supports(day[d].canary)
             /\ day[d].drift # "alert" /\ ~day[d].slo
    <2>1. today \in Nat /\ MaxDays \in Nat /\ today <= MaxDays
        BY Calendar
    <2>2. d \in Days
        BY <1>4, <2>1, WindowsInCalendar
    <2>3. BlockingReasons(day[d].canary) = {}
        BY <1>4, StableDaysPassed DEF LiveRolloutPassed, DayPasses
    <2>4. Supports(day[d].canary)
        BY <2>3, BlockingOrSupport
    <2>5. day[d].canary # NoWindow
        BY <2>4 DEF Supports, NoWindow
    <2>6. day[d].drift # "alert" /\ ~day[d].slo
        BY <1>4 DEF LiveRolloutPassed, DriftPassed, SloPassed
    <2> QED
        BY <2>2, <2>4, <2>5, <2>6 DEF EvidenceInv
<1> QED
    BY <1>1, <1>2, <1>3, <1>4 DEF Earned

\* The gate validates the live rollout.
LEMMA GateValidatesKeeps ==
    ASSUME RolloutKnown, [Next]_vars, ReleaseInv, GateValidates
    PROVE  ReleaseInv'
<1> DEFINE log == IF gate.pc = "row" THEN events ELSE gate.log
           live == LiveRolloutPassed(gate.percent, gate.end, log)
<1>1. /\ gate.pc \in {"row", "overnight"}
      /\ gate' = [gate EXCEPT !.pc = "live", !.log = log, !.live = live]
      /\ UNCHANGED <<vars, evidence, verdict>>
    BY DEF GateValidates
<1>2. EvidenceInv' /\ VerdictInv' /\ IInv /\ EvidenceInv
    BY <1>1, QuietEvidence, VerdictStays DEF ReleaseInv, RolloutKnown
<1>3. /\ log \subseteq events /\ log \in SUBSET Event
      /\ gate.end \in Nat /\ gate.end < today
      /\ gate.percent \in 0..100 /\ gate.began \in SUBSET Event
    BY <1>1, <1>2 DEF ReleaseInv, GateInv, IInv, TypeOK
<1>4. live => gate.percent = 100 /\ Earned(log, day, served, gate.end)
    BY <1>2, <1>3, ValidatedIsEarned
<1>5. live \in BOOLEAN
    BY DEF LiveRolloutPassed
<1>6. events' = events /\ today' = today /\ day' = day /\ served' = served
    BY <1>1 DEF vars, evidence
<1> HIDE DEF log, live
<1>7. gate' = [pc |-> "live", end |-> gate.end, percent |-> gate.percent,
               began |-> gate.began, log |-> log, live |-> live]
    BY <1>1 DEF ReleaseInv, GateInv
<1>8. GateInv'
    BY <1>3, <1>4, <1>5, <1>6, <1>7 DEF GateInv
<1> QED
    BY <1>2, <1>8 DEF ReleaseInv

\* Every KPI that passes has data: a route accuracy needs an answer of the primary.
LEMMA PassNeedsPrimary ==
    ASSUME EvidenceInv, NEW end \in Nat, end < today, BusinessPassed(end)
    PROVE  \E d \in GateWindow(end) : "primary" \in served[d]
<1> DEFINE D == GateWindow(end)
           B == Baseline(end)
           k == "top1_route_accuracy_pct"
<1>1. k \in DOMAIN TARGETS
    BY DEF TARGETS
<1>2. KpiStatus(TARGETS[k], KPIs(day, D, B, WeekDays)[k]) = "pass"
    BY <1>1 DEF BusinessPassed, Scorecard
<1>3. KPIs(day, D, B, WeekDays)[k] = RouteAccuracy(day, D)
    BY DEF KPIs
<1>4. RouteAccuracy(day, D)[2] # 0
    BY <1>2, <1>3 DEF KpiStatus
<1>5. Rows(day, D) # {}
    <2>1. SUFFICES ASSUME Rows(day, D) = {} PROVE FALSE
        OBVIOUS
    <2>2. CountRows(day, D, LAMBDA r : r.correct # "unknown") = 0
        BY <2>1, FS_EmptySet DEF CountRows
    <2> QED
        BY <1>4, <2>2 DEF RouteAccuracy, Ratio, Null
<1>6. PICK d \in D : \E i \in 1..Len(day[d].rows) : TRUE
    BY <1>5 DEF Rows
<1>7. d \in Days
    BY <1>6, Calendar, WindowsInCalendar
<1>8. day[d].rows # <<>>
    <2>1. day[d].rows \in Seq(Labelled)
        BY <1>7 DEF EvidenceInv, Day
    <2> QED
        BY <1>6, <2>1
<1> QED
    BY <1>6, <1>7, <1>8 DEF EvidenceInv

\* The gate decides: what it lets pass it has seen.
LEMMA GateDecidesKeeps ==
    ASSUME RolloutKnown, [Next]_vars, ReleaseInv, GateDecides
    PROVE  ReleaseInv'
<1>1. /\ gate.pc = "live" /\ gate' = Rest /\ UNCHANGED <<vars, evidence>>
      /\ \/ verdict' = verdict
         \/ /\ gate.live /\ BusinessPassed(gate.end)
            /\ verdict' = [passed |-> TRUE, end |-> gate.end, began |-> gate.began,
                           log |-> gate.log]
    BY DEF GateDecides
<1>2. EvidenceInv' /\ EvidenceStays /\ today' \in Nat /\ IInv /\ EvidenceInv
    BY <1>1, QuietEvidence DEF ReleaseInv, RolloutKnown
<1>3. GateInv'
    BY <1>1 DEF GateInv, Rest
<1>4. VerdictInv'
    <2>1. CASE verdict' = verdict
        BY <1>2, <2>1, VerdictStays
    <2>2. CASE /\ gate.live /\ BusinessPassed(gate.end)
               /\ verdict' = [passed |-> TRUE, end |-> gate.end, began |-> gate.began,
                              log |-> gate.log]
        <3>1. /\ gate.end \in Nat /\ gate.end < today
              /\ gate.began \in SUBSET Event /\ gate.log \in SUBSET Event
              /\ Earned(gate.log, day, served, gate.end)
            BY <1>1, <2>2 DEF ReleaseInv, GateInv
        <3>2. \E d \in GateWindow(gate.end) : "primary" \in served[d]
            BY <1>2, <2>2, <3>1, PassNeedsPrimary
        <3>3. events' = events /\ today' = today /\ day' = day /\ served' = served
            BY <1>1 DEF vars, evidence
        <3> QED
            BY <2>2, <3>1, <3>2, <3>3 DEF VerdictInv
    <2> QED
        BY <1>1, <2>1, <2>2
<1> QED
    BY <1>2, <1>3, <1>4 DEF ReleaseInv

\* A gate that fails leaves nothing behind.
LEMMA GateFailsKeeps ==
    ASSUME RolloutKnown, [Next]_vars, ReleaseInv, GateFails
    PROVE  ReleaseInv'
<1>1. gate' = Rest /\ UNCHANGED <<vars, evidence, verdict>>
    BY DEF GateFails
<1>2. EvidenceInv' /\ VerdictInv'
    BY <1>1, QuietEvidence, VerdictStays DEF ReleaseInv, RolloutKnown
<1>3. GateInv'
    BY <1>1 DEF GateInv, Rest
<1> QED
    BY <1>2, <1>3 DEF ReleaseInv

\* Nothing was recorded and nothing released before the first day.
LEMMA ReleaseInvInit == ReleaseInit => ReleaseInv
<1> SUFFICES ASSUME ReleaseInit PROVE ReleaseInv
    OBVIOUS
<1>1. 1 \in 1..MaxDays
    BY ReleaseAssumption DEF ReleaseAssumption
<1>2. NoDay \in Day
    BY DEF NoDay, Day, NoWindow, Window, Measures
<1>3. EvidenceInv
    BY <1>1, <1>2, ServingTypes DEF ReleaseInit, EvidenceInv, NoDay
<1>4. GateInv
    BY DEF ReleaseInit, GateInv, Rest
<1>5. VerdictInv
    BY DEF ReleaseInit, VerdictInv
<1> QED
    BY <1>3, <1>4, <1>5 DEF ReleaseInv

\* Every step keeps the invariant, given what is known of the rollout.
LEMMA ReleaseInvStep ==
    ASSUME RolloutKnown, ReleaseInv, [ReleaseNext]_releaseVars
    PROVE  ReleaseInv'
<1>1. [Next]_vars /\ IInv
    BY StepsImplementRollout DEF RolloutKnown
<1>2. CASE UNCHANGED releaseVars
    <2>1. UNCHANGED evidence /\ gate' = gate /\ verdict' = verdict
        BY <1>2 DEF releaseVars
    <2> QED
        BY <1>1, <2>1, QuietEvidence, GateStays, VerdictStays DEF ReleaseInv
<1>3. CASE EndDay
    BY <1>1, <1>3, EndDayKeeps
<1>4. CASE \E r \in Runs : RunReads(r) \/ RunCommits(r)
    BY <1>1, <1>4, RunsKeep
<1>5. CASE GateBegins
    BY <1>1, <1>5, GateBeginsKeeps
<1>6. CASE GateValidates
    BY <1>1, <1>6, GateValidatesKeeps
<1>7. CASE GateDecides
    BY <1>1, <1>7, GateDecidesKeeps
<1>8. CASE GateFails
    BY <1>1, <1>8, GateFailsKeeps
<1> QED
    BY <1>2, <1>3, <1>4, <1>5, <1>6, <1>7, <1>8 DEF ReleaseNext

\* The calendar, the gate's run and its verdict are what the invariant says.
THEOREM ReleaseInvariant == ReleaseSpec => []ReleaseInv
<1>1. ReleaseInit => ReleaseInv
    BY ReleaseInvInit
<1>2. RolloutKnown /\ ReleaseInv /\ [ReleaseNext]_releaseVars => ReleaseInv'
    BY ReleaseInvStep
<1> QED
    BY <1>1, <1>2, RolloutStays, PTL DEF ReleaseSpec

\* Every variable of the release holds values of its type.
THEOREM ReleaseTypes == ReleaseSpec => []ReleaseTypeOK
<1>1. ReleaseInv => ReleaseTypeOK
    BY DEF ReleaseInv, EvidenceInv, GateInv, VerdictInv, ReleaseTypeOK
<1> QED
    BY <1>1, ReleaseInvariant, PTL

\* A release was earned (ReleaseEarned): its stages, its rollback and every day
\* of its quality window, whatever was committed while the gate was reading.
THEOREM ReleasesAreEarned == ReleaseSpec => []ReleaseEarned
<1>1. ReleaseInv => ReleaseEarned
    BY DEF ReleaseInv, VerdictInv, ReleaseEarned, Earned
<1> QED
    BY <1>1, ReleaseInvariant, PTL

\* A step that leaves the log ending at the row keeps what the gate has read so.
LEMMA StoodStep ==
    ASSUME ReleaseInv, StoodInv, EndsAt(events, percent), [ReleaseNext]_releaseVars
    PROVE  StoodInv'
<1>1. CASE GateBegins
    BY <1>1 DEF GateBegins, StoodInv, EndsAt, vars
<1>2. CASE GateDecides
    <2>1. gate' = Rest
        BY <1>2 DEF GateDecides
    <2>2. \/ verdict' = verdict
          \/ gate.live /\ verdict' = [passed |-> TRUE, end |-> gate.end,
                                      began |-> gate.began, log |-> gate.log]
        BY <1>2 DEF GateDecides
    <2>3. gate.live => EndsAt(gate.began, 100)
        BY <1>2 DEF GateDecides, ReleaseInv, GateInv, StoodInv
    <2> QED
        BY <2>1, <2>2, <2>3 DEF StoodInv, Rest, EndsAt
<1>3. CASE GateFails
    BY <1>3 DEF GateFails, StoodInv, Rest, EndsAt
<1>4. CASE \/ EndDay \/ GateValidates \/ \E r \in Runs : RunReads(r) \/ RunCommits(r)
           \/ UNCHANGED releaseVars
    <2>1. /\ gate'.began = gate.began /\ gate'.percent = gate.percent
          /\ gate'.pc # "idle" => gate.pc # "idle"
        BY <1>4 DEF EndDay, GateValidates, RunReads, RunCommits, releaseVars,
            ReleaseInv, GateInv
    <2>2. verdict' = verdict
        BY <1>4 DEF EndDay, GateValidates, RunReads, RunCommits, releaseVars
    <2> QED
        BY <2>1, <2>2 DEF StoodInv, EndsAt
<1> QED
    BY <1>1, <1>2, <1>3, <1>4 DEF ReleaseNext

\* While one run of the promotion script at a time reads and commits, what was
\* released stood at 100 when the gate began (ReleasedRolloutStood): a gate
\* begins between the commits, so the row it reads is where its log ends.
THEOREM ReleasedRolloutsStood ==
    ASSUME \A r, q \in Runs : r = q
    PROVE  ReleaseSpec => []ReleasedRolloutStood
<1> DEFINE Ends == EndsAt(events, percent)
<1>1. ReleaseSpec => []Ends
    BY ReleaseImplementsRollout, OneRunLogIsHistory, PTL
<1>2. ReleaseInit => StoodInv
    BY DEF ReleaseInit, StoodInv, Rest
<1>3. ReleaseInv /\ StoodInv /\ Ends /\ [ReleaseNext]_releaseVars => StoodInv'
    BY StoodStep
<1>4. StoodInv => ReleasedRolloutStood
    BY DEF StoodInv, ReleasedRolloutStood
<1> HIDE DEF Ends
<1> QED
    BY <1>1, <1>2, <1>3, <1>4, ReleaseInvariant, PTL DEF ReleaseSpec

\* The primary answered in the window of a release (ReleaseNeedsPrimary).
THEOREM ReleasesNeedThePrimary == ReleaseSpec => []ReleaseNeedsPrimary
<1>1. ReleaseInv => ReleaseNeedsPrimary
    BY DEF ReleaseInv, VerdictInv, ReleaseNeedsPrimary
<1> QED
    BY <1>1, ReleaseInvariant, PTL

\* One run at a time moves a release procedure's canary stage by stage too.
THEOREM OneRunReleasesStageByStage ==
    ASSUME \A r, q \in Runs : r = q
    PROVE  ReleaseSpec => StageByStage
BY ReleaseImplementsRollout, OneRunMovesStageByStage, PTL

=============================================================================
