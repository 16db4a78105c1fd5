----------------------------- MODULE QualityGate -----------------------------
(***************************************************************************)
(* assess_quality of post_stream.py: what the post-stream workflow         *)
(* concludes from the evidence of one stream.  Evidence is what            *)
(* load_evidence returns, each aggregate a number; a source row is one of  *)
(* the view analytics_quality_source                                       *)
(* (sql/016_create_post_stream_analytics.sql).  The wording of the reasons *)
(* is left out: a reason is the condition it is given for.                 *)
(***************************************************************************)
EXTENDS Naturals

Sources == {"stream_poll", "chat", "raids", "follows", "chatter_presence"}

Capabilities == {"chatter_presence", "chat_context", "stream_metadata_history",
                 "raid_source_context"}

Recorded == {"configured", "disabled", "failed_to_initialize"}

(* Of a source over the runs of the stream: in how many it was configured  *)
(* (runs), whether in some run it was disabled, failed to start or left no *)
(* record, and the error, healthy and orderly_shutdown rows and unresolved *)
(* gaps it has.  A run without a record of the source counts as configured *)
(* when there are health rows; a source without any run has no rows.       *)
Rows == {r \in [runs : Nat, disabled : BOOLEAN, failed : BOOLEAN, unknown : BOOLEAN,
                errors : Nat, healthy : Nat, stops : Nat, gaps : Nat] :
            r.runs = 0 /\ ~r.disabled /\ ~r.failed =>
                /\ r.errors = 0 /\ r.healthy = 0 /\ r.stops = 0
                /\ r.gaps > 0 => r.unknown}

Evidence ==
    [closed : BOOLEAN, consistent : BOOLEAN, runs : SUBSET {"open", "stopped"},
     conflicts : Nat, late : Nat, early : Nat, viewerGap : Nat, restartGap : Nat,
     ambiguous : Nat, unresolved : Nat, complete : Nat, incomplete : Nat,
     viewers : Nat, prior : Nat, capability : [Capabilities -> SUBSET Recorded],
     source : [Sources -> Rows]]

-----------------------------------------------------------------------------
(* What load_evidence makes of the statuses a capability had in the runs.  *)
CapabilityStatus(statuses) ==
    IF "failed_to_initialize" \in statuses THEN "failed_to_initialize"
    ELSE IF "configured" \in statuses THEN "configured"
    ELSE IF "disabled" \in statuses THEN "disabled" ELSE "not_collected"

(* A configured source that never was healthy, was not stopped in order in *)
(* every run, or was left uncovered between runs; any source with errors   *)
(* or open gaps.                                                           *)
Deficient(e, row) ==
    \/ row.errors > 0 \/ row.gaps > 0
    \/ row.runs > 0 /\ (row.healthy = 0 \/ row.stops < row.runs \/ e.restartGap > 30)

(* Slip: what disables or fails is looked at last.                         *)
StateByRows(e, s) ==
    LET row == e.source[s] IN
    IF Deficient(e, row) THEN "partial"
    ELSE IF row.runs > 0 THEN "available"
    ELSE IF row.unknown THEN "historical_unknown"
    ELSE IF row.failed THEN "failed"
    ELSE IF row.disabled THEN "disabled" ELSE "unavailable"

SourceState(e, s) ==
    LET row == e.source[s] IN
    IF row.failed THEN "failed"
    ELSE IF row.disabled /\ row.runs = 0 THEN "disabled"
    ELSE IF Deficient(e, row) THEN "partial"
    ELSE IF row.runs > 0 THEN "available"
    ELSE IF row.unknown THEN "historical_unknown" ELSE "unavailable"

-----------------------------------------------------------------------------
(* The reasons that block, and those that warn.                            *)
Blocks(e) ==
    \/ ~e.closed
    \/ e.runs = {} \/ "open" \in e.runs
    \/ e.conflicts > 0
    \/ e.closed /\ ~e.consistent

SparseViewing(e) ==
    e.late > 90 \/ e.early > 90 \/ e.viewerGap > 90 \/ e.restartGap > 30

Unassigned(e) == e.ambiguous > 0 \/ e.unresolved > 0

Warns(e) ==
    \/ SparseViewing(e) \/ Unassigned(e) \/ e.incomplete > 0
    \/ \E s \in Sources : SourceState(e, s) \notin {"available", "historical_unknown"}
    \/ \E c \in Capabilities : CapabilityStatus(e.capability[c]) # "configured"

Verdict(e) ==
    IF Blocks(e) THEN "blocked"
    ELSE IF Warns(e) THEN "publishable_with_warnings" ELSE "publishable"

-----------------------------------------------------------------------------
(* The metrics of the report.  Active chat participation and community     *)
(* continuity have one state between them.                                 *)
Supported(state) ==
    IF state \in {"available", "historical_unknown"} THEN "available"
    ELSE IF state = "partial" THEN "partial" ELSE "unavailable"

ViewerTimeline(e) ==
    IF e.viewers = 0 THEN "unavailable"
    ELSE IF SparseViewing(e) THEN "partial" ELSE "available"

ActiveChat(e) == Supported(SourceState(e, "chat"))

ChatterPresence(e) ==
    IF e.complete = 0 THEN "unavailable"
    ELSE IF SourceState(e, "chatter_presence") = "partial" \/ e.incomplete > 0
    THEN "partial" ELSE "available"

RaidImpact(e) ==
    LET state == Supported(SourceState(e, "raids")) IN
    IF state = "available" /\ Unassigned(e) THEN "partial" ELSE state

HistoricalComparison(e) == IF e.prior > 0 THEN "available" ELSE "unavailable"

-----------------------------------------------------------------------------
(* e is no better evidence than f: less was seen, or more went wrong, of   *)
(* the same configuration.                                                 *)
WorseRow(q, r) ==
    /\ q.runs = r.runs /\ q.unknown = r.unknown
    /\ r.disabled => q.disabled
    /\ r.failed => q.failed
    /\ q.errors >= r.errors /\ q.gaps >= r.gaps
    /\ q.healthy <= r.healthy /\ q.stops <= r.stops

Worse(e, f) ==
    /\ e.closed => f.closed
    /\ e.consistent => f.consistent
    /\ f.runs = {} => e.runs = {}
    /\ "open" \in f.runs => "open" \in e.runs \/ e.runs = {}
    /\ e.conflicts >= f.conflicts
    /\ e.late >= f.late /\ e.early >= f.early
    /\ e.viewerGap >= f.viewerGap /\ e.restartGap >= f.restartGap
    /\ e.ambiguous >= f.ambiguous /\ e.unresolved >= f.unresolved
    /\ e.complete <= f.complete /\ e.incomplete >= f.incomplete
    /\ e.viewers <= f.viewers /\ e.prior <= f.prior
    /\ \A c \in Capabilities :
          /\ f.capability[c] \subseteq e.capability[c]
          /\ "configured" \in e.capability[c] => "configured" \in f.capability[c]
    /\ \A s \in Sources : WorseRow(e.source[s], f.source[s])

Availability == <<"unavailable", "partial", "available">>
Verdicts     == <<"blocked", "publishable_with_warnings", "publishable">>

(* In the order of a scale, x comes no later than y.                       *)
NoHigher(scale, x, y) ==
    \E i, j \in DOMAIN scale : scale[i] = x /\ scale[j] = y /\ i <= j

(* Nothing concluded of e is better than what is concluded of f.  The      *)
(* metric of chatter presence is left out: there the code is not monotone. *)
NoBetter(e, f) ==
    /\ NoHigher(Verdicts, Verdict(e), Verdict(f))
    /\ NoHigher(Availability, ViewerTimeline(e), ViewerTimeline(f))
    /\ NoHigher(Availability, ActiveChat(e), ActiveChat(f))
    /\ NoHigher(Availability, RaidImpact(e), RaidImpact(f))
    /\ NoHigher(Availability, HistoricalComparison(e), HistoricalComparison(f))

(* presence_state asks whether the source is partial, and of nothing worse:*)
(* when a partial source is counted as failed or disabled instead, what    *)
(* was a footnote of the metric is gone.                                   *)
FootnoteLost(e, f) ==
    /\ SourceState(f, "chatter_presence") = "partial"
    /\ SourceState(e, "chatter_presence") \in {"failed", "disabled"}
=============================================================================
