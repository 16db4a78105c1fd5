-------------------------- MODULE QualityGateProofs --------------------------
(***************************************************************************)
(* Worse evidence never gets a better verdict, nor more of any metric but  *)
(* chatter presence: the gate is monotone for any set of evidence, every   *)
(* count included.  Of chatter presence it is proved when its metric rises *)
(* although the evidence is worse, and that it does.                       *)
(***************************************************************************)
EXTENDS GateWalk, TLAPS

(* The two scales read as implications.                                    *)
LEMMA LessAvailable ==
    ASSUME NEW x \in {"unavailable", "partial", "available"},
           NEW y \in {"unavailable", "partial", "available"},
           x = "available" => y = "available",
           y = "unavailable" => x = "unavailable"
    PROVE  NoHigher(Availability, x, y)
<1> DEFINE N(z) == IF z = "unavailable" THEN 1 ELSE IF z = "partial" THEN 2 ELSE 3
<1>1. N(x) \in 1..3 /\ N(y) \in 1..3 /\ N(x) <= N(y)
  OBVIOUS
<1>2. Availability[N(x)] = x /\ Availability[N(y)] = y /\ DOMAIN Availability = 1..3
  BY DEF Availability
<1>3. QED BY <1>1, <1>2 DEF NoHigher

(* ... of verdicts.                                                        *)
LEMMA LessPublishable ==
    ASSUME NEW x \in {"blocked", "publishable_with_warnings", "publishable"},
           NEW y \in {"blocked", "publishable_with_warnings", "publishable"},
           x = "publishable" => y = "publishable",
           y = "blocked" => x = "blocked"
    PROVE  NoHigher(Verdicts, x, y)
<1> DEFINE N(z) == IF z = "blocked" THEN 1
                   ELSE IF z = "publishable_with_warnings" THEN 2 ELSE 3
<1>1. N(x) \in 1..3 /\ N(y) \in 1..3 /\ N(x) <= N(y)
  OBVIOUS
<1>2. Verdicts[N(x)] = x /\ Verdicts[N(y)] = y /\ DOMAIN Verdicts = 1..3
  BY DEF Verdicts
<1>3. QED BY <1>1, <1>2 DEF NoHigher

(* Whatever branch the better row takes, the worse one takes it or an      *)
(* earlier one that supports no more.                                      *)
LEMMA SourceNoBetter ==
    ASSUME NEW e \in Evidence, NEW f \in Evidence, Worse(e, f), NEW s \in Sources
    PROVE  /\ SourceState(e, s) \in {"available", "historical_unknown"}
                 => SourceState(f, s) \in {"available", "historical_unknown"}
           /\ Supported(SourceState(f, s)) = "unavailable"
                 => Supported(SourceState(e, s)) = "unavailable"
<1> DEFINE q == e.source[s]
           r == f.source[s]
<1>1. q \in Rows /\ r \in Rows /\ WorseRow(q, r)
  BY DEF Evidence, Worse
<1>2. e.restartGap \in Nat /\ f.restartGap \in Nat /\ e.restartGap >= f.restartGap
  BY DEF Evidence, Worse
<1>3. Deficient(f, r) => Deficient(e, q)
  BY <1>1, <1>2 DEF Deficient, Rows, WorseRow
<1>4. q.runs = 0 <=> r.runs = 0
  BY <1>1 DEF WorseRow
<1>5. SourceState(e, s) \in {"available", "historical_unknown"}
         => SourceState(f, s) \in {"available", "historical_unknown"}
  BY <1>1, <1>3, <1>4 DEF SourceState, Rows, WorseRow
<1>6. SourceState(f, s) \in {"failed", "disabled", "unavailable"}
         => SourceState(e, s) \in {"failed", "disabled", "unavailable"}
  BY <1>1, <1>4 DEF SourceState, Deficient, Rows, WorseRow
<1>7. QED BY <1>5, <1>6 DEF Supported, SourceState

(* The verdict.                                                            *)
LEMMA VerdictNoBetter ==
    ASSUME NEW e \in Evidence, NEW f \in Evidence, Worse(e, f)
    PROVE  NoHigher(Verdicts, Verdict(e), Verdict(f))
<1>1. Blocks(f) => Blocks(e)
  BY DEF Blocks, Worse, Evidence
<1>2. SparseViewing(f) => SparseViewing(e)
  BY DEF SparseViewing, Worse, Evidence
<1>3. Unassigned(f) => Unassigned(e)
  BY DEF Unassigned, Worse, Evidence
<1>4. ASSUME NEW c \in Capabilities, CapabilityStatus(f.capability[c]) # "configured"
      PROVE  CapabilityStatus(e.capability[c]) # "configured"
  <2>1. /\ f.capability[c] \subseteq e.capability[c]
        /\ "configured" \in e.capability[c] => "configured" \in f.capability[c]
    BY DEF Worse
  <2>2. QED BY <1>4, <2>1 DEF CapabilityStatus
<1>5. Warns(f) => Warns(e)
  <2>1. f.incomplete > 0 => e.incomplete > 0
    BY DEF Worse, Evidence
  <2>2. QED BY <1>2, <1>3, <1>4, <2>1, SourceNoBetter DEF Warns
<1>6. QED BY <1>1, <1>5, LessPublishable DEF Verdict

(* The presence metric of worse evidence is no higher, or it has lost the  *)
(* footnote of a partial source.                                           *)
LEMMA PresenceNoBetter ==
    ASSUME NEW e \in Evidence, NEW f \in Evidence, Worse(e, f)
    PROVE  \/ NoHigher(Availability, ChatterPresence(e), ChatterPresence(f))
           \/ FootnoteLost(e, f)
<1> SUFFICES ASSUME ~FootnoteLost(e, f)
             PROVE  NoHigher(Availability, ChatterPresence(e), ChatterPresence(f))
  OBVIOUS
<1> DEFINE s == "chatter_presence"
           q == e.source[s]
           r == f.source[s]
<1>1. q \in Rows /\ r \in Rows /\ WorseRow(q, r) /\ s \in Sources
  BY DEF Evidence, Worse, Sources
<1>2. e.restartGap \in Nat /\ f.restartGap \in Nat /\ e.restartGap >= f.restartGap
  BY DEF Evidence, Worse
<1>3. Deficient(f, r) => Deficient(e, q)
  BY <1>1, <1>2 DEF Deficient, Rows, WorseRow
<1>4. SourceState(f, s) = "partial" => SourceState(e, s) = "partial"
  <2>1. SourceState(f, s) = "partial" => SourceState(e, s) \in {"failed", "disabled", "partial"}
    BY <1>1, <1>3 DEF SourceState, Rows, WorseRow
  <2>2. QED BY <2>1 DEF FootnoteLost
<1>5. /\ e.complete \in Nat /\ f.complete \in Nat /\ e.complete <= f.complete
      /\ f.incomplete > 0 => e.incomplete > 0
  BY DEF Worse, Evidence
<1>6. QED BY <1>4, <1>5, LessAvailable DEF ChatterPresence

(* A stream with complete snapshots whose presence source had an error; and*)
(* the same stream when the source failed to start in another run as well. *)
LEMMA FootnoteIsLost ==
    \E e, f \in Evidence :
        /\ Worse(e, f)
        /\ ChatterPresence(f) = "partial" /\ ChatterPresence(e) = "available"
<1> DEFINE row(failed) ==
               [runs |-> 1, disabled |-> FALSE, failed |-> failed, unknown |-> FALSE,
                errors |-> 1, healthy |-> 1, stops |-> 1, gaps |-> 0]
           stream(failed) ==
               [closed |-> TRUE, consistent |-> TRUE, runs |-> {"stopped"},
                conflicts |-> 0, late |-> 0, early |-> 0, viewerGap |-> 0, restartGap |-> 0,
                ambiguous |-> 0, unresolved |-> 0, complete |-> 1, incomplete |-> 0,
                viewers |-> 1, prior |-> 0, capability |-> [c \in Capabilities |-> {"configured"}],
                source |-> [s \in Sources |-> row(failed)]]
           good == stream(FALSE)
           bad  == stream(TRUE)
<1>1. \A b \in BOOLEAN : row(b) \in Rows
  BY DEF Rows
<1>2. \A b \in BOOLEAN : stream(b) \in Evidence
  BY <1>1 DEF Evidence, Recorded
<1>3. \A s \in Sources : WorseRow(bad.source[s], good.source[s])
  <2>1. \A s \in Sources : bad.source[s] = row(TRUE) /\ good.source[s] = row(FALSE)
    OBVIOUS
  <2>2. WorseRow(row(TRUE), row(FALSE))
    BY DEF WorseRow
  <2> HIDE DEF row
  <2>3. QED BY <2>1, <2>2
<1>4. Worse(bad, good)
  BY <1>3 DEF Worse
<1>5. "chatter_presence" \in Sources
  BY DEF Sources
<1>6. SourceState(good, "chatter_presence") = "partial"
  BY <1>5 DEF SourceState, Deficient
<1>7. SourceState(bad, "chatter_presence") = "failed"
  BY <1>5 DEF SourceState
<1>8. ChatterPresence(good) = "partial" /\ ChatterPresence(bad) = "available"
  BY <1>6, <1>7 DEF ChatterPresence
<1>9. good \in Evidence /\ bad \in Evidence
  BY <1>2
<1> HIDE DEF good, bad
<1>10. QED BY <1>4, <1>8, <1>9

(* presence_state of assess_quality is not monotone: there is a stream     *)
(* whose presence metric rises from partial to available because its source*)
(* failed in one more run, where docs/metric-dictionary.md calls a failed  *)
(* source unavailable.  And this is the only way in which it ever rises    *)
(* under worse evidence: a partial source counted as failed or disabled.   *)
THEOREM PresenceRisesByFailure ==
    /\ \E e, f \in Evidence :
          /\ Worse(e, f)
          /\ ChatterPresence(f) = "partial" /\ ChatterPresence(e) = "available"
    /\ \A e, f \in Evidence :
          Worse(e, f) /\ ~NoHigher(Availability, ChatterPresence(e), ChatterPresence(f))
            => FootnoteLost(e, f)
  BY FootnoteIsLost, PresenceNoBetter

(* The other metrics.                                                      *)
LEMMA MetricsNoBetter ==
    ASSUME NEW e \in Evidence, NEW f \in Evidence, Worse(e, f)
    PROVE  /\ NoHigher(Availability, ViewerTimeline(e), ViewerTimeline(f))
           /\ NoHigher(Availability, ActiveChat(e), ActiveChat(f))
           /\ NoHigher(Availability, RaidImpact(e), RaidImpact(f))
           /\ NoHigher(Availability, HistoricalComparison(e), HistoricalComparison(f))
<1>1. NoHigher(Availability, ViewerTimeline(e), ViewerTimeline(f))
  <2>1. SparseViewing(f) => SparseViewing(e)
    BY DEF SparseViewing, Worse, Evidence
  <2>2. e.viewers \in Nat /\ f.viewers \in Nat /\ e.viewers <= f.viewers
    BY DEF Worse, Evidence
  <2>3. QED BY <2>1, <2>2, LessAvailable DEF ViewerTimeline
<1>2. ASSUME NEW s \in Sources
      PROVE  LET x == Supported(SourceState(e, s))
                 y == Supported(SourceState(f, s))
             IN  /\ x \in {"unavailable", "partial", "available"}
                 /\ y \in {"unavailable", "partial", "available"}
                 /\ x = "available" => y = "available"
                 /\ y = "unavailable" => x = "unavailable"
  BY SourceNoBetter DEF Supported
<1>3. NoHigher(Availability, ActiveChat(e), ActiveChat(f))
  BY <1>2, LessAvailable, "chat" \in Sources DEF ActiveChat, Sources
<1>4. NoHigher(Availability, RaidImpact(e), RaidImpact(f))
  <2>1. Unassigned(f) => Unassigned(e)
    BY DEF Unassigned, Worse, Evidence
  <2>2. "raids" \in Sources
    BY DEF Sources
  <2>3. QED BY <1>2, <2>1, <2>2, LessAvailable DEF RaidImpact
<1>5. NoHigher(Availability, HistoricalComparison(e), HistoricalComparison(f))
  <2>1. e.prior > 0 => f.prior > 0
    BY DEF Worse, Evidence
  <2>2. QED BY <2>1, LessAvailable DEF HistoricalComparison
<1>6. QED BY <1>1, <1>3, <1>4, <1>5

(* Nothing is concluded better, presence aside.                            *)
LEMMA WorseNoBetter ==
    ASSUME NEW e \in Evidence, NEW f \in Evidence, Worse(e, f)
    PROVE  NoBetter(e, f)
  BY VerdictNoBetter, MetricsNoBetter DEF NoBetter

(* The verdict and the four other metrics are monotone on any evidence     *)
(* (assess_quality).                                                       *)
THEOREM GateMonotone == WalkSpec => GateIsMonotone
<1>1. WalkInit => evidence \in Cases
  BY DEF WalkInit
<1>2. evidence \in Cases /\ [Deteriorate]_evidence => (evidence \in Cases)'
  BY DEF Deteriorate
<1>3. evidence \in Cases /\ [Deteriorate]_evidence
         => [NoBetter(evidence', evidence)]_evidence
  BY GateAssumption, WorseNoBetter DEF Deteriorate
<1>4. QED BY <1>1, <1>2, <1>3, PTL DEF WalkSpec, GateIsMonotone

(* What makes a metric less than complete warns of the stream.             *)
LEMMA PublishableUnqualified ==
    ASSUME NEW e \in Evidence, Verdict(e) = "publishable"
    PROVE  Unqualified(e)
<1>1. ~Warns(e)
  BY DEF Verdict
<1>2. ~SparseViewing(e) /\ ~Unassigned(e) /\ ~(e.incomplete > 0)
  BY <1>1 DEF Warns
<1>3. \A s \in Sources : SourceState(e, s) \in {"available", "historical_unknown"}
  BY <1>1, Zenon DEF Warns
<1>4. "chat" \in Sources /\ "raids" \in Sources /\ "chatter_presence" \in Sources
  BY DEF Sources
<1>5. /\ Supported(SourceState(e, "chat")) = "available"
      /\ Supported(SourceState(e, "raids")) = "available"
      /\ SourceState(e, "chatter_presence") # "partial"
  BY <1>3, <1>4 DEF Supported
<1>6. QED BY <1>2, <1>5 DEF Unqualified, ViewerTimeline, ChatterPresence, ActiveChat,
             RaidImpact, HistoricalComparison

(* No stream is published as complete with a metric that is not            *)
(* (assess_quality).                                                       *)
THEOREM GateHidesNoDoubt == WalkSpec => []NoSilentDoubt
<1>1. WalkInit => evidence \in Cases
  BY DEF WalkInit
<1>2. evidence \in Cases /\ [Deteriorate]_evidence => (evidence \in Cases)'
  BY DEF Deteriorate
<1>3. evidence \in Cases => NoSilentDoubt
  BY GateAssumption, PublishableUnqualified DEF NoSilentDoubt
<1>4. QED BY <1>1, <1>2, <1>3, PTL DEF WalkSpec
=============================================================================
