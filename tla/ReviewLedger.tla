---------------------------- MODULE ReviewLedger ----------------------------
(***************************************************************************)
(* What post_stream_analysis_runs promises the reader of one analysis (the *)
(* workflow_status column and the CHECKs of                                *)
(* sql/016_create_post_stream_analytics.sql): an analysis appears once,    *)
(* blocked or waiting for a refresh; a blocked one stays blocked; it is    *)
(* decided only after a refresh; a decision is never taken back, although  *)
(* another one may replace it.                                             *)
(***************************************************************************)
CONSTANT Versions
VARIABLE status

Moves == {<<"none", "blocked">>, <<"none", "refresh_pending">>,
          <<"refresh_pending", "review_pending">>,
          <<"review_pending", "approved">>, <<"review_pending", "rejected">>,
          <<"approved", "rejected">>, <<"rejected", "approved">>}

Init == status = [v \in Versions |-> "none"]

Move(v, to) ==
    /\ <<status[v], to>> \in Moves
    /\ status' = [status EXCEPT ![v] = to]

Next == \E v \in Versions : \E m \in Moves : Move(v, m[2])

Spec == Init /\ [][Next]_status
=============================================================================
