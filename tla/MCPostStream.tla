---------------------------- MODULE MCPostStream ----------------------------
(* PostStream over two versions of the data, next to streams no command    *)
(* works on, of which the gate is asked while more and more goes wrong.    *)
EXTENDS PostStream, GateWalk

Sound ==
    [runs |-> 1, disabled |-> FALSE, failed |-> FALSE, unknown |-> FALSE,
     errors |-> 0, healthy |-> 1, stops |-> 1, gaps |-> 0]

Clean(row) ==
    [closed |-> TRUE, consistent |-> TRUE, runs |-> {"stopped"}, conflicts |-> 0,
     late |-> 90, early |-> 90, viewerGap |-> 90, restartGap |-> 30,
     ambiguous |-> 0, unresolved |-> 0, complete |-> 1, incomplete |-> 0,
     viewers |-> 1, prior |-> 1,
     capability |-> [c \in Capabilities |-> {"configured"}],
     source |-> [s \in Sources |-> row]]

\* What may be wrong with the stream, one or two at a time.
Wrong(e) ==
    {e, [e EXCEPT !.closed = FALSE], [e EXCEPT !.consistent = FALSE],
     [e EXCEPT !.runs = {"open", "stopped"}], [e EXCEPT !.conflicts = 1],
     [e EXCEPT !.late = 91], [e EXCEPT !.viewerGap = 91], [e EXCEPT !.restartGap = 31],
     [e EXCEPT !.ambiguous = 1], [e EXCEPT !.unresolved = 1],
     [e EXCEPT !.complete = 0], [e EXCEPT !.incomplete = 1],
     [e EXCEPT !.viewers = 0], [e EXCEPT !.prior = 0],
     [e EXCEPT !.capability["chat_context"] = {"configured", "failed_to_initialize"}]}

\* What may be wrong with a source, in any combination.
Wronged ==
    {row \in [runs : 0..1, disabled : BOOLEAN, failed : BOOLEAN, unknown : BOOLEAN,
              errors : 0..1, healthy : 0..1, stops : 0..1, gaps : 0..1] : row \in Rows}

MCCases == UNION {Wrong(e) : e \in Wrong(Clean(Sound))} \cup {Clean(row) : row \in Wronged}

\* While a run is open the stream is blocked; then it is closed.
MCHistory == << [Clean(Sound) EXCEPT !.runs = {"open"}], Clean(Sound) >>

\* Commands run, or the evidence gets worse, and never the one in the middle of
\* the other, since neither looks at the other's variables.
MCInit == Init /\ WalkInit

MCNext ==
    \/ Next /\ evidence = Clean(Sound) /\ UNCHANGED evidence
    \/ Init /\ UNCHANGED vars /\ Deteriorate

MCSpec ==
    /\ MCInit /\ [][MCNext]_<<vars, evidence>>
    /\ \A c \in Commands : WF_vars(Step(c))
=============================================================================
