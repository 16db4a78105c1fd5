---------------------------- MODULE SessionLedger ----------------------------
(***************************************************************************)
(* What EventSub collection promises about subscriptions, whatever         *)
(* sockets, threads and retries it takes (RecoveringProbe), and whatever   *)
(* notices and frames it reads (SessionReadiness): while a session lasts   *)
(* the confirmed sources only grow, a session that ends confirms nothing,  *)
(* the next one starts from nothing, and a source once bad stays bad and   *)
(* is never confirmed again.  A handover directed by Twitch does not show. *)
(***************************************************************************)
EXTENDS FiniteSets

VARIABLES
    up,         \* a session is in use
    confirmed,  \* sources confirmed in it
    bad         \* sources refused or revoked, for good

ledger == <<up, confirmed, bad>>

Init == up = TRUE /\ confirmed = {} /\ bad = {}

(* Within a session, or between two: news about some sources.              *)
News ==
    /\ up' = up
    /\ confirmed \subseteq confirmed'
    /\ confirmed' # confirmed => up
    /\ bad \subseteq bad'
    /\ (confirmed' \ confirmed) \cap bad = {}

(* The session ends; the evidence read before its end is kept.             *)
End == up /\ ~up' /\ confirmed' = {} /\ bad \subseteq bad'

(* Another session begins.                                                 *)
Begin == ~up /\ up' /\ confirmed' = {} /\ bad' = bad

Next == News \/ End \/ Begin

Spec == Init /\ [][Next]_ledger
=============================================================================
