------------------------------ MODULE GateWalk ------------------------------
(***************************************************************************)
(* The evidence of a stream under which more and more goes wrong: a source *)
(* fails, rows are missing, a gap stays open, a threshold is passed.  What *)
(* assess_quality (post_stream.py) concludes may follow in one direction   *)
(* only.                                                                   *)
(***************************************************************************)
EXTENDS QualityGate

CONSTANT Cases      \* the evidence that may be met

ASSUME GateAssumption == Cases \subseteq Evidence

VARIABLE evidence   \* what load_evidence finds now

(* Any evidence to begin with.                                             *)
WalkInit == evidence \in Cases

(* Something else has gone wrong, or less was seen.                        *)
Deteriorate == evidence' \in Cases /\ Worse(evidence', evidence)

WalkSpec == WalkInit /\ [][Deteriorate]_evidence

(* Worse evidence never makes a stream publishable, lifts a warning or     *)
(* makes the viewer timeline, chat, raids or the comparison with earlier   *)
(* streams more available: no combination of thresholds, elif branches and *)
(* per-source states of assess_quality hides a deficiency of these behind  *)
(* another one.  Nothing is claimed of chatter presence, whose metric does *)
(* rise when its source goes from partial to failed (FootnoteLost).        *)
GateIsMonotone == [][NoBetter(evidence', evidence)]_evidence

(* What the report calls complete is so without a footnote: of a stream    *)
(* published without a warning no metric is partial, and one is missing    *)
(* only where there was nothing to measure (quality and metric             *)
(* availability are separate chains of conditions in assess_quality).      *)
Unqualified(e) ==
    /\ ViewerTimeline(e) = (IF e.viewers = 0 THEN "unavailable" ELSE "available")
    /\ ChatterPresence(e) = (IF e.complete = 0 THEN "unavailable" ELSE "available")
    /\ ActiveChat(e) = "available" /\ RaidImpact(e) = "available"
    /\ HistoricalComparison(e) # "partial"

NoSilentDoubt == Verdict(evidence) = "publishable" => Unqualified(evidence)
=============================================================================
