----------------------------- MODULE Broadcast ------------------------------
(***************************************************************************)
(* What the two halves of the coordinator (collect_stream.py,              *)
(* PollingCollector) may rely on between them: polling tells, and chat and *)
(* presence are told, which broadcast is tracked and whether it is known   *)
(* to be live.  A clock gap counts as a generation and ends that knowledge *)
(* (_invalidate_clock); so may any doubt (_chat_polling); and only an      *)
(* answer that has been saved (_save) says otherwise, of the broadcast it  *)
(* makes the tracked one.                                                  *)
(***************************************************************************)
EXTENDS Naturals

CONSTANTS Streams, None

VARIABLES tracked, live, generation

told == <<tracked, live, generation>>

Init == tracked = None /\ live = FALSE /\ generation = 0

Gap == generation' = generation + 1 /\ live' = FALSE /\ UNCHANGED tracked

Doubt == live' = FALSE /\ UNCHANGED <<tracked, generation>>

Saved(s) ==
    /\ tracked' = s /\ live' \in {FALSE, s # None}
    /\ UNCHANGED generation

Next == Gap \/ Doubt \/ \E s \in Streams \cup {None} : Saved(s)

Spec == Init /\ [][Next]_told

(* What is known to be live is the tracked broadcast.                      *)
Known == live => tracked # None
=============================================================================
