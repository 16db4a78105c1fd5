----------------------------- MODULE GapLedger ------------------------------
(***************************************************************************)
(* What two tables promise their readers: that outages, or attempts,       *)
(* follow one another.  A row is appended only when every earlier one is   *)
(* resolved, only the last row is ever resolved, and no row is rewritten,  *)
(* reopened or removed.  So it is with the reconnection_gaps of a run      *)
(* (record_reconnection_gap and resolve_reconnection_gap in database.py,   *)
(* and the queries that subtract gaps from coverage), and with the         *)
(* chatter_presence_snapshots (_begin_presence_if_due and                  *)
(* _finalize_presence in collect_stream.py), where a row is "resolved"     *)
(* once it is final, whatever it says.                                     *)
(***************************************************************************)
EXTENDS Naturals, Sequences

VARIABLE gaps

Init == gaps = << >>

Open ==
    /\ \A g \in 1..Len(gaps) : gaps[g] = "resolved"
    /\ gaps' = Append(gaps, "open")

Resolve ==
    /\ Len(gaps) > 0 /\ gaps[Len(gaps)] = "open"
    /\ gaps' = [gaps EXCEPT ![Len(gaps)] = "resolved"]

Next == Open \/ Resolve

Spec == Init /\ [][Next]_gaps
=============================================================================
