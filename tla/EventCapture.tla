---------------------------- MODULE EventCapture ----------------------------
(***************************************************************************)
(* EventSub capture: what one socket session tells the router, what the    *)
(* router tells the per-source sinks, and the rows the sinks and the       *)
(* router leave in the database (collection_health, reconnection_gaps).    *)
(*                                                                         *)
(*   scripts/eventsub.py           SessionReadiness                        *)
(*   scripts/eventsub_router.py    EventRouter                             *)
(*   scripts/event_sink.py         EventSink, ChatSink                     *)
(*   scripts/collect_eventsub.py   collect, Heartbeat                      *)
(*                                                                         *)
(* The capture loop of scripts/eventsub_recovery.py calls them; each of    *)
(* its calls is an action here, with every write the call makes.  A write  *)
(* may fail: an action then picks the set of sources whose row was lost,   *)
(* and EventRouter._guard latches storageFailed.  How the loop schedules   *)
(* sockets, threads and retries belongs to another module.                 *)
(***************************************************************************)
EXTENDS Naturals, Sequences, FiniteSets

CONSTANTS
    PlainSources,   \* sources with a RaidSink or a FollowSink
    ChatSources,    \* the source with a ChatSink, or {} when chat is off
    Standalone,     \* TRUE: collect_eventsub.py; FALSE: the merged collector
    MaxGaps         \* bound: reconnection_gaps rows a run may open

Sources == PlainSources \cup ChatSources

ASSUME CaptureAssumption ==
    /\ PlainSources \cap ChatSources = {}
    /\ Sources # {}
    /\ Standalone \in BOOLEAN
    /\ Standalone => ChatSources = {}
    /\ MaxGaps \in Nat

VARIABLES
    phase,          \* how far the run is
    welcomed,       \* the open socket's session_id is known
    socket,         \* "up": the loop holds a socket; "down": between sockets
    responsive,     \* SessionReadiness: a keepalive or notification was seen
    inGrace,        \* SessionReadiness: keepalive late but within its grace
    ids,            \* SessionReadiness: sources with a confirmed subscription
    failed,         \* SessionReadiness: sources refused or revoked, for good
    awaiting,       \* sources whose SetupWorker result was not taken yet
    handover,       \* a Twitch-directed reconnect is in flight
    ready,          \* EventRouter._ready
    openGap,        \* EventRouter._open_gap_id, 0 when none
    storageFailed,  \* EventRouter.storage_failed
    up,             \* sinks' _transport_ready
    held,           \* sinks' _processing_error
    polling,        \* ChatSink._polling
    health,         \* last committed collection_health reason of each source
    gaps,           \* the run's reconnection_gaps rows, in gap_id order
    revoked,        \* history: sources Twitch has revoked
    fatal,          \* history: an exception ended the capture loop or its stop
    closed          \* collector_runs.stopped_at of the run is set

session == <<welcomed, socket, responsive, inGrace, ids, failed, awaiting, handover>>
router  == <<ready, openGap, storageFailed>>
sinks   == <<up, held, polling>>
rows    == <<health, gaps>>
history == <<revoked, fatal, closed>>
vars    == <<phase, session, router, sinks, rows, history>>

-----------------------------------------------------------------------------
(* Health rows.  The reason code determines the status column.             *)

PollingHealth ==
    [awaiting |-> "awaiting_stream_status", live |-> "capture_ready",
     offline |-> "offline_observed", failed |-> "poll_failed",
     stale |-> "poll_stale"]

PollingStates == DOMAIN PollingHealth

LossReasons == {"network_error", "keepalive_timeout"}

Reasons ==
    {"none", "initializing", "invalid_notification", "subscription_revoked",
     "orderly_shutdown"}
    \cup LossReasons \cup {PollingHealth[p] : p \in PollingStates}

(* A source's health once its transport is up and no bad notification is   *)
(* held: chat rests where polling puts it.                                 *)
Resting(s, p) == IF s \in ChatSources THEN PollingHealth[p] ELSE "capture_ready"

(* EventSink._set_health for a set of sources: nothing is written where the*)
(* row would repeat the last one, and the sources in lost keep the row (and*)
(* the sink's memory of it) they had, because their write failed.          *)
SetHealth(set, want, before, lost) ==
    /\ lost \subseteq {s \in set : want[s] # before[s]}
    /\ health' = [s \in Sources |-> IF s \in set \ lost THEN want[s] ELSE before[s]]

(* SessionReadiness.source_ready.                                          *)
Live(heard, late, subs, bad) == IF heard /\ ~late THEN subs \ bad ELSE {}

LiveNow == Live(responsive, inGrace, ids, failed)

-----------------------------------------------------------------------------
(* The loop takes a step only while the run is on and no write has failed. *)
CanStep  == phase = "running" /\ ~storageFailed
HasFrame == CanStep /\ socket = "up" /\ welcomed

TypeOK ==
    /\ phase \in {"new", "running", "fatal", "closing", "clean", "ended"}
    /\ welcomed \in BOOLEAN
    /\ socket \in {"up", "down"}
    /\ responsive \in BOOLEAN
    /\ inGrace \in BOOLEAN
    /\ ids \in SUBSET Sources
    /\ failed \in SUBSET Sources
    /\ awaiting \in SUBSET Sources
    /\ handover \in BOOLEAN
    /\ ready \in SUBSET Sources
    /\ openGap \in Nat
    /\ storageFailed \in BOOLEAN
    /\ up \in SUBSET Sources
    /\ held \in SUBSET Sources
    /\ polling \in PollingStates
    /\ health \in [Sources -> Reasons]
    /\ gaps \in Seq({"open", "resolved"})
    /\ revoked \in SUBSET Sources
    /\ fatal \in BOOLEAN
    /\ closed \in BOOLEAN

(* RecoveringProbe.__init__: the first socket is open, its welcome unread. *)
Init ==
    /\ phase = "new"
    /\ welcomed = FALSE /\ socket = "up"
    /\ responsive = FALSE /\ inGrace = FALSE
    /\ ids = {} /\ failed = {} /\ awaiting = {} /\ handover = FALSE
    /\ ready = {} /\ openGap = 0 /\ storageFailed = FALSE
    /\ up = {} /\ held = {} /\ polling = "awaiting"
    /\ health = [s \in Sources |-> "none"]
    /\ gaps = << >>
    /\ revoked = {} /\ fatal = FALSE /\ closed = FALSE

(* EventRouter.begin: every sink records starting/initializing.            *)
Begin(lost) ==
    /\ phase = "new"
    /\ phase' = "running"
    /\ SetHealth(Sources, [s \in Sources |-> "initializing"], health, lost)
    /\ storageFailed' = (lost # {})
    /\ UNCHANGED <<session, ready, openGap, sinks, gaps, history>>

-----------------------------------------------------------------------------
(* Slip: a source that comes back while its gap is open is not reported.   *)
ObserveSkipsGap(live, r, u, h, bad, lost, gapLost) ==
    LET recovers == openGap # 0 /\ live # {}
    IN  /\ ready' = r \cup live
        /\ up' = u \cup (live \ r)
        /\ SetHealth(IF recovers THEN {} ELSE (live \ r) \ bad,
                     [s \in Sources |-> Resting(s, polling)], h, lost)
        /\ gapLost => recovers
        /\ openGap' = IF recovers THEN 0 ELSE openGap
        /\ gaps' = IF recovers /\ ~gapLost
                     THEN [gaps EXCEPT ![openGap] = "resolved"] ELSE gaps
        /\ storageFailed' = (lost # {} \/ gapLost)

(* EventRouter.observe with the session's live sources: drive the edges    *)
(* not-ready -> ready, then resolve the open gap once anything is live.    *)
(* r, u, h and bad are ready, up, health and held as a dispatch in the     *)
(* same step has left them.  One lost write does not stop the loop.        *)
Observe(live, r, u, h, bad, lost, gapLost) ==
    LET recovers == openGap # 0 /\ live # {}
    IN  /\ ready' = r \cup live
        /\ up' = u \cup (live \ r)
        /\ SetHealth((live \ r) \ bad, [s \in Sources |-> Resting(s, polling)], h, lost)
        /\ gapLost => recovers
        /\ openGap' = IF recovers THEN 0 ELSE openGap
        /\ gaps' = IF recovers /\ ~gapLost
                     THEN [gaps EXCEPT ![openGap] = "resolved"] ELSE gaps
        /\ storageFailed' = (lost # {} \/ gapLost)

(* The observe at the head of a step (after SetupWorker results came in).  *)
Tick(lost, gapLost) ==
    /\ CanStep /\ socket = "up"
    /\ LiveNow # {}
    /\ Observe(LiveNow, ready, up, health, held, lost, gapLost)
    /\ UNCHANGED <<phase, session, held, polling, history>>

(* SessionReadiness.check_liveness: late keepalive, still within grace.    *)
EnterGrace ==
    /\ HasFrame /\ ~inGrace
    /\ inGrace' = TRUE
    /\ UNCHANGED <<phase, welcomed, socket, responsive, ids, failed, awaiting,
                   handover, router, sinks, rows, history>>

(* The first frame: welcome, and the SetupWorker starts on every source.   *)
Welcome ==
    /\ CanStep /\ socket = "up" /\ ~welcomed
    /\ welcomed' = TRUE
    /\ awaiting' = Sources \ failed
    /\ UNCHANGED <<phase, socket, responsive, inGrace, ids, failed, handover,
                   router, sinks, rows, history>>

(* SessionReadiness.setup_result for one SetupWorker notice.  A success    *)
(* that comes after the source's revocation restores nothing.              *)
SetupResult(s, ok) ==
    /\ CanStep /\ s \in awaiting
    /\ awaiting' = awaiting \ {s}
    /\ ids' = IF ok /\ s \notin failed THEN ids \cup {s} ELSE ids
    /\ failed' = IF ok THEN failed ELSE failed \cup {s}
    /\ UNCHANGED <<phase, welcomed, socket, responsive, inGrace, handover,
                   router, sinks, rows, history>>

-----------------------------------------------------------------------------
(* Frames: SessionReadiness.accept, EventRouter.dispatch and then observe. *)
(* A frame drained from the old socket during a handover is dispatched     *)
(* without the observe.                                                    *)

Keepalive(lost, gapLost) ==
    /\ HasFrame
    /\ responsive' = TRUE /\ inGrace' = FALSE
    /\ Observe(ids \ failed, ready, up, health, held, lost, gapLost)
    /\ UNCHANGED <<phase, welcomed, socket, ids, failed, awaiting, handover,
                   held, polling, history>>

(* What EventSink.submit makes of one notification:                        *)
(*   bad      CaptureError; held until a later valid, persisted one        *)
(*   dropped  ChatSink._prepare found no eligible stream                   *)
(*   kept     persisted, or skipped by its message key                     *)
(*   lost     the INSERT raised StorageError                               *)
Submits(s) ==
    {"bad", "kept", "lost"} \cup (IF s \in ChatSources THEN {"dropped"} ELSE {})

Held(s, submit) ==
    CASE submit = "bad"  -> held \cup {s}
      [] submit = "kept" -> held \ {s}
      [] OTHER           -> held

Wanted(s, submit) ==
    CASE submit = "bad" -> [health EXCEPT ![s] = "invalid_notification"]
      [] submit = "kept" /\ s \in up -> [health EXCEPT ![s] = Resting(s, polling)]
      [] OTHER -> health

(* Only a live stream makes a chat message eligible, and a source Twitch   *)
(* has revoked delivers nothing more.                                      *)
Delivers(s, submit) ==
    /\ HasFrame
    /\ s \in (ids \cup awaiting \cup failed) \ revoked
    /\ submit \in Submits(s)
    /\ s \in ChatSources /\ submit \in {"kept", "lost"} => polling = "live"

Notification(s, submit, drained, lost, gapLost) ==
    /\ Delivers(s, submit) /\ submit # "lost"
    /\ drained => handover
    /\ responsive' = TRUE /\ inGrace' = FALSE
    /\ held' = Held(s, submit)
    /\ Observe(IF drained THEN {} ELSE ids \ failed,
               ready, up, Wanted(s, submit), held', lost, gapLost)
    /\ UNCHANGED <<phase, welcomed, socket, ids, failed, awaiting, handover,
                   polling, history>>

(* The event's row or the health row it causes is lost: the latch closes   *)
(* before observe, which then does nothing.                                *)
NotificationLost(s, submit) ==
    /\ Delivers(s, submit)
    /\ submit = "lost" \/ Wanted(s, submit) # health
    /\ responsive' = TRUE /\ inGrace' = FALSE
    /\ held' = Held(s, submit)
    /\ storageFailed' = TRUE
    /\ UNCHANGED <<phase, welcomed, socket, ids, failed, awaiting, handover,
                   ready, openGap, up, polling, rows, history>>

(* A revocation marks the source failed for the rest of the process.  It   *)
(* can come before the acknowledgement of the subscription it revokes.     *)
Revoked(s) ==
    /\ HasFrame
    /\ s \in (ids \cup awaiting \cup failed) \ revoked
    /\ failed' = failed \cup {s}
    /\ revoked' = revoked \cup {s}
    /\ UNCHANGED <<phase, welcomed, socket, responsive, inGrace, ids, awaiting,
                   handover, held, polling, fatal, closed>>

Revocation(s, drained, lost, gapLost) ==
    /\ Revoked(s)
    /\ drained => handover
    /\ Observe(IF drained THEN {} ELSE Live(responsive, inGrace, ids, failed \cup {s}),
               ready \ {s}, up \ {s},
               [health EXCEPT ![s] = "subscription_revoked"], held, lost, gapLost)

RevocationLost(s) ==
    /\ Revoked(s)
    /\ ready' = ready \ {s} /\ up' = up \ {s}
    /\ storageFailed' = TRUE
    /\ UNCHANGED <<openGap, rows>>

-----------------------------------------------------------------------------
(* Transport loss and recovery.                                            *)

(* Slips of transport_lost, one dropped detail each: the sinks keep their  *)
(* ready mark; the outage goes unrecorded while nothing was ready; every   *)
(* sink is told, not only the ready ones; each loss stacks a row.          *)
TransportLostKeepsSinks(code, lost, gapLost) ==
    /\ ready' = {} /\ up' = up
    /\ SetHealth(ready, [s \in Sources |-> code], health, lost)
    /\ gapLost => openGap = 0
    /\ IF openGap = 0 /\ ~gapLost
         THEN gaps' = Append(gaps, "open") /\ openGap' = Len(gaps) + 1
         ELSE UNCHANGED <<gaps, openGap>>
    /\ storageFailed' = (lost # {} \/ gapLost)

TransportLostIfReady(code, lost, gapLost) ==
    /\ ready' = {} /\ up' = up \ ready
    /\ SetHealth(ready, [s \in Sources |-> code], health, lost)
    /\ gapLost => openGap = 0
    /\ IF openGap = 0 /\ ready # {} /\ ~gapLost
         THEN gaps' = Append(gaps, "open") /\ openGap' = Len(gaps) + 1
         ELSE UNCHANGED <<gaps, openGap>>
    /\ storageFailed' = (lost # {} \/ gapLost)

TransportLostTellsAll(code, lost, gapLost) ==
    /\ ready' = {} /\ up' = {}
    /\ SetHealth(Sources, [s \in Sources |-> code], health, lost)
    /\ gapLost => openGap = 0
    /\ IF openGap = 0 /\ ~gapLost
         THEN gaps' = Append(gaps, "open") /\ openGap' = Len(gaps) + 1
         ELSE UNCHANGED <<gaps, openGap>>
    /\ storageFailed' = (lost # {} \/ gapLost)

TransportLostStacks(code, lost, gapLost) ==
    /\ ready' = {} /\ up' = up \ ready
    /\ SetHealth(ready, [s \in Sources |-> code], health, lost)
    /\ Len(gaps) < MaxGaps
    /\ gaps' = IF gapLost THEN gaps ELSE Append(gaps, "open")
    /\ openGap' = IF gapLost THEN 0 ELSE Len(gaps) + 1
    /\ storageFailed' = (lost # {} \/ gapLost)

(* EventRouter.transport_lost: an error row for every source that was      *)
(* ready, and one reconnection_gaps row unless an outage is already open.  *)
TransportLost(code, lost, gapLost) ==
    /\ ready' = {}
    /\ up' = up \ ready
    /\ SetHealth(ready, [s \in Sources |-> code], health, lost)
    /\ gapLost => openGap = 0
    /\ IF openGap = 0 /\ ~gapLost
         THEN gaps' = Append(gaps, "open") /\ openGap' = Len(gaps) + 1
         ELSE UNCHANGED <<gaps, openGap>>
    /\ storageFailed' = (lost # {} \/ gapLost)

(* RecoveringProbe.lose: also reached with no socket, when the coordinator *)
(* forces a gap while a reconnect is still pending.  The results the       *)
(* SetupWorker left behind count only if they are errors.                  *)
Lose(code, errors, lost, gapLost) ==
    /\ CanStep
    /\ code \in LossReasons
    /\ openGap = 0 => Len(gaps) < MaxGaps
    /\ errors \subseteq awaiting
    /\ socket' = "down"
    /\ responsive' = FALSE
    /\ ids' = {}
    /\ failed' = failed \cup errors
    /\ awaiting' = {}
    /\ handover' = FALSE
    /\ TransportLost(code, lost, gapLost)
    /\ UNCHANGED <<phase, welcomed, inGrace, held, polling, history>>

(* RecoveringProbe.complete_job after a cold reconnect: a fresh session    *)
(* that keeps the failures, and a SetupWorker on the remaining sources.    *)
Reconnect ==
    /\ CanStep /\ socket = "down"
    /\ Sources \ failed # {}
    /\ socket' = "up" /\ welcomed' = TRUE
    /\ responsive' = FALSE /\ inGrace' = FALSE
    /\ ids' = {}
    /\ awaiting' = Sources \ failed
    /\ UNCHANGED <<phase, failed, handover, router, sinks, rows, history>>

(* RecoveringProbe.request_handover, and complete_job for the handover:    *)
(* the new session inherits the subscriptions but has been silent so far.  *)
RequestHandover ==
    /\ HasFrame /\ ~handover
    /\ handover' = TRUE
    /\ UNCHANGED <<phase, welcomed, socket, responsive, inGrace, ids, failed,
                   awaiting, router, sinks, rows, history>>

Handover ==
    /\ HasFrame /\ handover /\ awaiting = {}
    /\ handover' = FALSE
    /\ responsive' = FALSE /\ inGrace' = FALSE
    /\ UNCHANGED <<phase, welcomed, socket, ids, failed, awaiting, router,
                   sinks, rows, history>>

-----------------------------------------------------------------------------
(* The coordinator, and the end of the run.                                *)

(* ChatSink._set_polling.  The coordinator calls it between the loop's     *)
(* steps and outside EventRouter._guard: a lost row ends the run at once.  *)
Polling(state, lost) ==
    /\ phase = "running" /\ ChatSources # {}
    /\ state \in PollingStates \ {"awaiting"}
    /\ polling' = state
    /\ SetHealth((ChatSources \cap up) \ held,
                 [s \in Sources |-> Resting(s, state)], health, lost)
    /\ phase' = IF lost # {} THEN "ended" ELSE phase
    /\ UNCHANGED <<session, router, up, held, gaps, history>>

(* A ProbeError the loop does not recover from: an invalid frame, a failed *)
(* authorization, no source left to subscribe.  The merged collector       *)
(* returns; RecoveringProbe.run still has its finally block to do.         *)
Fatal ==
    /\ CanStep
    /\ fatal' = TRUE
    /\ phase' = IF Standalone THEN "fatal" ELSE "ended"
    /\ UNCHANGED <<session, router, sinks, rows, revoked, closed>>

(* Heartbeat.__call__ at the head of a step of the standalone loop: a      *)
(* check-in that cannot be written latches the router.                     *)
HeartbeatFails ==
    /\ Standalone /\ CanStep
    /\ storageFailed' = TRUE
    /\ UNCHANGED <<phase, session, ready, openGap, sinks, rows, history>>

(* Both loops look at the latch before a step, and collect looks at it     *)
(* again before it closes the run: with a write lost they give up.         *)
StopRequired ==
    /\ phase \in {"running", "closing"} /\ storageFailed
    /\ phase' = "ended"
    /\ UNCHANGED <<session, router, sinks, rows, history>>

(* RecoveringProbe.run, finally: EventRouter.stop tells every sink, also   *)
(* after a fatal error.  Each sink's row is a write of its own.            *)
RouterStop(lost) ==
    /\ Standalone /\ phase \in {"running", "fatal"} /\ ~storageFailed
    /\ SetHealth(Sources, [s \in Sources |-> "orderly_shutdown"], health, lost)
    /\ storageFailed' = (lost # {})
    /\ phase' = "closing"
    /\ UNCHANGED <<session, ready, openGap, sinks, gaps, history>>

(* The same block when its clock reading raises clock_uncertain, as it does*)
(* again after the reading that ended the loop: no sink is told, nothing   *)
(* is latched, and the exception goes no further.                          *)
RouterUnstopped ==
    /\ Standalone /\ phase \in {"running", "fatal"} /\ ~storageFailed
    /\ fatal' = TRUE
    /\ phase' = "closing"
    /\ UNCHANGED <<session, router, sinks, rows, revoked, closed>>

(* Slip: the run is closed without a look at the latch.                    *)
CloseRunUnlooked(confirmed) ==
    /\ phase = "closing"
    /\ closed' \in IF confirmed THEN {TRUE} ELSE BOOLEAN
    /\ phase' = IF confirmed /\ ~fatal THEN "clean" ELSE "ended"
    /\ UNCHANGED <<session, router, sinks, rows, revoked, fatal>>

(* collect after run_session: DatabaseWriter.close_collector_run, however  *)
(* the session ended.  Without its confirmation the run is left as the     *)
(* database has it: open, or closed by a commit nobody heard of.           *)
CloseRun(confirmed) ==
    /\ phase = "closing" /\ ~storageFailed
    /\ closed' \in IF confirmed THEN {TRUE} ELSE BOOLEAN
    /\ phase' = IF confirmed /\ ~fatal THEN "clean" ELSE "ended"
    /\ UNCHANGED <<session, router, sinks, rows, revoked, fatal>>

(* PollingCollector._stop_run: the run and the sources' rows in one        *)
(* transaction.                                                            *)
MultiStop(lost) ==
    /\ ~Standalone /\ CanStep
    /\ lost \in {{}, Sources}
    /\ health' = IF lost = {} THEN [s \in Sources |-> "orderly_shutdown"] ELSE health
    /\ closed' = (lost = {})
    /\ phase' = IF lost = {} THEN "clean" ELSE "ended"
    /\ UNCHANGED <<session, router, sinks, gaps, revoked, fatal>>

-----------------------------------------------------------------------------
Frame ==
    \/ \E lost \in SUBSET Sources, gapLost \in BOOLEAN :
            \/ Keepalive(lost, gapLost)
            \/ \E s \in Sources, drained \in BOOLEAN :
                  \/ Revocation(s, drained, lost, gapLost)
                  \/ \E submit \in Submits(s) :
                        Notification(s, submit, drained, lost, gapLost)
    \/ \E s \in Sources : \/ RevocationLost(s)
                          \/ \E submit \in Submits(s) : NotificationLost(s, submit)

Connection ==
    \/ Welcome
    \/ EnterGrace
    \/ Reconnect
    \/ RequestHandover
    \/ Handover
    \/ \E s \in Sources, ok \in BOOLEAN : SetupResult(s, ok)
    \/ \E code \in LossReasons, errors, lost \in SUBSET Sources, gapLost \in BOOLEAN :
            Lose(code, errors, lost, gapLost)

Lifecycle ==
    \/ Fatal
    \/ StopRequired
    \/ HeartbeatFails
    \/ RouterUnstopped
    \/ \E confirmed \in BOOLEAN : CloseRun(confirmed)
    \/ \E lost \in SUBSET Sources :
            \/ Begin(lost)
            \/ RouterStop(lost)
            \/ MultiStop(lost)
            \/ \E state \in PollingStates : Polling(state, lost)

HeadOfStep == \E lost \in SUBSET Sources, gapLost \in BOOLEAN : Tick(lost, gapLost)

Next == HeadOfStep \/ Frame \/ Connection \/ Lifecycle

Spec == Init /\ [][Next]_vars

(* The loop takes step after step, and the SetupWorker answers for every   *)
(* source it was started on.  Twitch and the operator owe nothing.         *)
FairSpec ==
    /\ Spec
    /\ WF_vars(HeadOfStep)
    /\ \A s \in Sources : WF_vars(\E ok \in BOOLEAN : SetupResult(s, ok))

-----------------------------------------------------------------------------
(* Properties.                                                             *)

RestingReasons == {PollingHealth[p] : p \in PollingStates}

Recording == phase = "running" /\ ~storageFailed

(* A source whose last row says that it is capturing (or, for chat, where  *)
(* polling left it) is confirmed by Twitch, not revoked, outside any gap,  *)
(* and owes no valid notification: a good row never survives a loss.       *)
GoodHealthIsCovered ==
    Recording => \A s \in Sources : health[s] \in RestingReasons =>
        /\ s \in ids \ failed
        /\ socket = "up" /\ openGap = 0
        /\ s \notin held
        /\ health[s] = Resting(s, polling)

(* While the loop is without a socket, an open reconnection_gaps row says  *)
(* so; there is never more than one, and every earlier one is resolved.    *)
OutageIsRecorded ==
    Recording =>
        /\ socket = "down" => openGap # 0
        /\ \A g \in 1..Len(gaps) : gaps[g] = "open" <=> g = openGap

(* subscription_revoked is sticky for the run: no reconnect, handover,     *)
(* late acknowledgement, poll or loss writes another row over it.          *)
RevocationIsSticky ==
    Recording => \A s \in revoked : health[s] = "subscription_revoked"

(* A closed run has told all of its sources or, when an exception kept it  *)
(* from telling any, none: whatever ended the session and whichever of the *)
(* stop's writes was lost, no run is closed with a stop half told.  And a  *)
(* clean end is a closed run whose sources have all been told.             *)
Told == {s \in Sources : health[s] = "orderly_shutdown"}

CloseFollowsStops ==
    /\ closed => Told = Sources \/ (fatal /\ Told = {})
    /\ phase = "clean" => closed /\ Told = Sources /\ ~fatal

(* The gap rows read as one outage after another (module GapLedger).       *)
Ledger == INSTANCE GapLedger

GapsAreALedger == Ledger!Spec

(* The session as the sinks know it promises what the loop that drives it  *)
(* promises (module SessionLedger, which SocketRecovery implements too).   *)
Sessions == INSTANCE SessionLedger
    WITH up <- (socket = "up"), confirmed <- ids, bad <- failed

SessionsAreALedger == Sessions!Spec

(* A source that stays live is reported so: EventRouter.observe writes its *)
(* resting health unless a rejected notification is held, the source is    *)
(* lost or revoked first, or the run stops writing.                        *)
LiveIsReported ==
    \A s \in Sources :
        (Recording /\ s \in LiveNow /\ s \notin held)
            ~> (health[s] = Resting(s, polling) \/ s \notin LiveNow \/ s \in held
                \/ ~Recording)

(* While rows are written a source the router holds ready is reported so,  *)
(* unless a rejected notification is held: whether it came back through a  *)
(* new session, a handover, a valid notification or a poll, no edge of     *)
(* EventRouter.observe or EventSink.submit is missed.                      *)
ReadyIsReported ==
    Recording => \A s \in ready \ held : health[s] = Resting(s, polling)

(* A head of step that loses no write takes in everything that is live and *)
(* holds no rejected notification (EventRouter.observe): no source waits   *)
(* for a second one.                                                       *)
StepReports ==
    [][HeadOfStep /\ Recording' =>
          \A s \in LiveNow \ held : health'[s] = Resting(s, polling)]_vars

(* Why they hold: the inductive strengthening of the safety properties.    *)
(* The router and the sinks agree on what is ready; a ready source is      *)
(* subscribed and lies outside any gap; a source is owed a setup result or *)
(* has a subscription, never both, and neither without a socket.           *)
Writable == phase \in {"new", "running"} /\ ~storageFailed

Agreement ==
    /\ ready = up
    /\ phase = "new" => revoked = {} /\ ~storageFailed
    /\ revoked \subseteq failed
    /\ awaiting \cap ids = {}
    /\ (socket = "down" \/ ~welcomed) => (ids = {} /\ awaiting = {})

Coverage ==
    /\ ready \subseteq ids \ failed
    /\ openGap # 0 => ready = {}
    /\ socket = "down" => openGap # 0
    /\ \A s \in revoked : health[s] = "subscription_revoked"
    /\ \A s \in Sources : health[s] \in RestingReasons =>
            s \in ready \ held /\ health[s] = Resting(s, polling)

OneOpenGap ==
    /\ openGap \in 0..Len(gaps)
    /\ \A g \in 1..Len(gaps) : gaps[g] = "open" <=> g = openGap
    /\ openGap # 0 => openGap = Len(gaps)

CaptureInv ==
    /\ TypeOK
    /\ Agreement
    /\ Writable => Coverage /\ OneOpenGap
=============================================================================
