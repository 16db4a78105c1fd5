-------------------------- MODULE PollingCollector --------------------------
(***************************************************************************)
(* The coordinator's polling half: one clock reading after another, one    *)
(* poll in flight, the stream_poll health rows, the run's heartbeat, the   *)
(* tracked broadcast, and the LiveStatus that decides which chat is kept.  *)
(*                                                                         *)
(*   scripts/collect_stream.py   PollingCollector, PollWorker              *)
(*   scripts/clock_guard.py      ClockGuard                                *)
(*   scripts/live_status.py      LiveStatus                                *)
(*   scripts/database.py         the statements those writes run           *)
(*                                                                         *)
(* step() reads the clock through ClockGuard.sample again and again; the   *)
(* code between two readings is one action, and the reading before it is   *)
(* another, in which any time may have passed and the clock may have been  *)
(* set.  The worker thread reads the clock too, but not through the guard. *)
(* The EventSub half, presence and raid context are not part of it.        *)
(***************************************************************************)
EXTENDS Integers

CONSTANTS
    Streams,        \* Twitch stream ids
    None,           \* no stream
    Stale,          \* STALE_SECONDS
    PollEvery,      \* POLL_SECONDS
    BeatEvery,      \* HEARTBEAT_SECONDS
    Tolerance,      \* CLOCK_TOLERANCE_SECONDS
    Recovery,       \* UTC_RECOVERY_SECONDS
    Advances,       \* what a reading may find: <<elapsed, utc>> since the last one
    Horizon,        \* bound: the last elapsed tick
    Drift,          \* bound: how far UTC strays from elapsed time
    MaxGenerations  \* bound: clock gaps before no more are met

ASSUME PollingAssumption ==
    /\ None \notin Streams
    /\ {Stale, PollEvery, BeatEvery, Tolerance} \subseteq Nat \ {0}
    /\ Recovery \in Nat
    /\ Advances \subseteq Int \X Int
    /\ <<0, 0>> \in Advances
    /\ {Horizon, Drift, MaxGenerations} \subseteq Nat

VARIABLES
    clock,          \* the machine's clock: elapsed tick and UTC
    previous,       \* ClockGuard._previous, the coordinator's `now'
    mode,           \* "read" the clock, "wait" for UTC to catch up, or "run" at
    waitFrom,       \* _recover_utc: recovery_started
    at,             \* which piece of start, step, _save or run comes next
    stop,           \* the stop event
    exit,           \* how the process ended
    live,           \* LiveStatus
    chat,           \* the polling state told to the chat sink
    tracked,        \* tracked_stream
    baseline,       \* _last_success, or started before the first success
    staleReported,  \* _stale_reported
    discard,        \* _discard_job
    forceValidation,\* _force_validation
    generation,     \* _generation
    savedAt,        \* the generation _save began with
    nextPoll,       \* _next_poll
    nextBeat,       \* _next_heartbeat
    worker,         \* PollWorker: "idle", "polling" or "done"
    result,         \* PollWorker._result, then the result in hand
    jobStarted,     \* _job_started
    health,         \* last stream_poll row of collection_health
    streams,        \* the streams row and the newest viewer_snapshots row
    heartbeat,      \* collector_runs.last_heartbeat_at
    stopped,        \* collector_runs.stopped_at is set
    jobGeneration,  \* history: generation when the poll in flight began
    liveGeneration, \* history: the jobGeneration of the poll LiveStatus rests on
    closedAt        \* history: UTC when eligibility was last closed by doubt

reading  == <<clock, previous, mode, waitFrom>>
control  == <<at, stop, exit>>
chatting == <<live, chat>>
memory   == <<tracked, baseline, staleReported>>
schedule == <<nextPoll, nextBeat>>
guards   == <<discard, forceValidation, generation, savedAt>>
job      == <<worker, result, jobStarted>>
rows     == <<health, streams, heartbeat, stopped>>
history  == <<jobGeneration, liveGeneration, closedAt>>
vars     == <<reading, control, chatting, memory, schedule, guards, job, rows, history>>

Reading == [tick : Int, utc : Int]

LiveStates == [stream : Streams \cup {None}, since : Int, tick : Int]

ChatStates == {"awaiting", "live", "offline", "failed", "stale"}

StreamRows == [Streams -> [seen : BOOLEAN, newest : Int, offline : BOOLEAN]]

Closed == [stream |-> None, since |-> 0, tick |-> 0]

Reasons == {"none", "initializing", "live_poll_saved", "offline_poll_saved",
            "poll_stale", "request_error", "orderly_shutdown"}

Healthy == {"live_poll_saved", "offline_poll_saved"}

Kinds == {"none", "live", "future", "offline", "error", "fatal", "crash"}

Labels == {"start", "open", "top", "beat", "beaten", "take", "taken", "saved", "settle",
           "dispatch", "pump", "finish", "stop", "ended"}

(* The pieces that begin with a clock reading.                             *)
Sampled == {"start", "open", "top", "beat", "beaten", "taken", "saved", "settle", "dispatch",
            "pump", "stop"}

(* collect_stream.age: the larger of the two ages.                         *)
Age(now, then) ==
    LET t == now.tick - then.tick
        u == now.utc - then.utc
    IN  IF t >= u THEN t ELSE u

TypeOK ==
    /\ clock \in Reading /\ previous \in Reading
    /\ mode \in {"read", "wait", "run"} /\ waitFrom \in Int
    /\ at \in Labels /\ stop \in BOOLEAN
    /\ exit \in {"none", "clean", "clock", "observation_clock_invalid", "worker",
                 "authorization", "storage", "refused"}
    /\ live \in LiveStates /\ chat \in ChatStates
    /\ tracked \in Streams \cup {None}
    /\ baseline \in Reading /\ staleReported \in BOOLEAN
    /\ discard \in BOOLEAN /\ forceValidation \in BOOLEAN
    /\ generation \in Nat /\ savedAt \in Nat
    /\ nextPoll \in Int /\ nextBeat \in Int
    /\ worker \in {"idle", "polling", "done"}
    /\ result \in [kind : Kinds, stream : Streams \cup {None}, observed : Reading]
    /\ jobStarted \in Reading
    /\ health \in Reasons
    /\ streams \in StreamRows
    /\ heartbeat \in Int /\ stopped \in BOOLEAN
    /\ jobGeneration \in Nat /\ liveGeneration \in Nat /\ closedAt \in Int

NoResult == [kind |-> "none", stream |-> None, observed |-> [tick |-> 0, utc |-> 0]]

Init ==
    LET zero == [tick |-> 0, utc |-> 0]
    IN  /\ clock = zero /\ previous = zero
        /\ mode = "run" /\ waitFrom = 0
        /\ at = "start" /\ stop = FALSE /\ exit = "none"
        /\ live = Closed /\ chat = "awaiting"
        /\ tracked = None /\ baseline = zero /\ staleReported = FALSE
        /\ discard = FALSE /\ forceValidation = FALSE /\ generation = 0 /\ savedAt = 0
        /\ nextPoll = 0 /\ nextBeat = 0
        /\ worker = "idle" /\ result = NoResult /\ jobStarted = zero
        /\ health = "none"
        /\ streams = [s \in Streams |-> [seen |-> FALSE, newest |-> 0, offline |-> FALSE]]
        /\ heartbeat = 0 /\ stopped = FALSE
        /\ jobGeneration = 0 /\ liveGeneration = 0 /\ closedAt = 0

-----------------------------------------------------------------------------
(* Reading the clock.                                                      *)

(* What the clock may show next.                                           *)
Readings ==
    {r \in {[tick |-> clock.tick + d[1], utc |-> clock.utc + d[2]] : d \in Advances} :
        r.tick <= Horizon /\ r.utc - r.tick \in -Drift..Drift}

(* The guard's test of a reading that does not run backwards.              *)
IsGap(now) ==
    LET elapsed == now.tick - previous.tick
        wall    == now.utc - previous.utc
    IN  \/ elapsed >= Stale
        \/ wall >= Stale
        \/ wall - elapsed >= Tolerance
        \/ elapsed - wall >= Tolerance

(* PollingCollector._invalidate_clock: close eligibility, disown the poll  *)
(* in flight, and ask for a validated poll at once.                        *)
InvalidateClock(now) ==
    /\ live' = Closed
    /\ chat' = "failed"
    /\ generation' = generation + 1
    /\ discard' = TRUE
    /\ forceValidation' = TRUE
    /\ nextPoll' = now.tick
    /\ closedAt' = IF now.utc > previous.utc THEN now.utc ELSE previous.utc

NoGap == UNCHANGED <<chatting, generation, discard, forceValidation, nextPoll, closedAt>>

(* The process ends: run() returns, its finally block closes LiveStatus and*)
(* waits for the poll in flight, whose answer nobody takes any more.       *)
Die(reason) == at' = "ended" /\ exit' = reason /\ mode' = "run" /\ live' = Closed

(* ClockGuard.sample: a reading that does not run backwards is the new     *)
(* `now', a gap or not.                                                    *)
SampleForward(now) ==
    /\ now.tick >= previous.tick /\ now.utc >= previous.utc
    /\ IF IsGap(now) THEN generation < MaxGenerations /\ InvalidateClock(now) ELSE NoGap
    /\ previous' = now /\ mode' = "run"
    /\ UNCHANGED <<at, exit, waitFrom>>

(* A small UTC rollback starts the wait.                                   *)
SampleRollback(now) ==
    /\ now.tick >= previous.tick /\ now.utc < previous.utc
    /\ previous.utc - now.utc < Tolerance
    /\ generation < MaxGenerations /\ InvalidateClock(now)
    /\ mode' = "wait" /\ waitFrom' = now.tick
    /\ UNCHANGED <<previous, at, exit>>

(* A large one, or elapsed time that ran backwards, ends the process.      *)
SampleFatal(now) ==
    /\ now.tick < previous.tick \/ previous.utc - now.utc >= Tolerance
    /\ generation < MaxGenerations /\ InvalidateClock(now)
    /\ Die("clock")
    /\ UNCHANGED <<previous, waitFrom>>

Sample ==
    /\ mode = "read"
    /\ \E now \in Readings :
        /\ clock' = now
        /\ SampleForward(now) \/ SampleRollback(now) \/ SampleFatal(now)
    /\ UNCHANGED <<stop, memory, nextBeat, savedAt, job, rows, jobGeneration,
                   liveGeneration>>

(* UTC has reached the last guarded reading; the slip takes any reading    *)
(* below the tolerance for recovered.                                      *)
CaughtUpNearly(now) == now.utc > previous.utc - Tolerance

CaughtUp(now) == now.utc >= previous.utc

(* _recover_utc: one more short pause, then look again.  The guard reports *)
(* the gap once more when UTC has caught up.                               *)
InTime(now) == now.tick >= clock.tick /\ now.tick - waitFrom <= Recovery

Recovered(now) ==
    /\ InTime(now) /\ CaughtUp(now)
    /\ InvalidateClock(now)
    /\ previous' = now /\ mode' = "run"
    /\ UNCHANGED <<at, exit>>

StillBehind(now) ==
    /\ InTime(now) /\ ~CaughtUp(now)
    /\ NoGap
    /\ UNCHANGED <<previous, mode, at, exit>>

NotRecovered(now) ==
    /\ ~InTime(now)
    /\ Die("clock")
    /\ UNCHANGED <<previous, chat, generation, discard, forceValidation, nextPoll, closedAt>>

Recover ==
    /\ mode = "wait"
    /\ \E now \in Readings :
        /\ clock' = now
        /\ Recovered(now) \/ StillBehind(now) \/ NotRecovered(now)
    /\ UNCHANGED <<waitFrom, stop, memory, nextBeat, savedAt, job, rows, jobGeneration,
                   liveGeneration>>

(* The number of pauses is bounded too: a clock that stalls ends the wait. *)
RecoveryTimeout ==
    /\ mode = "wait"
    /\ Die("clock")
    /\ UNCHANGED <<clock, previous, waitFrom, stop, chat, memory, schedule, guards,
                   job, rows, history>>

(* Control goes on to the piece named l.                                   *)
Goto(l) ==
    /\ at' = l
    /\ mode' = IF l \in Sampled THEN "read" ELSE "run"

At(l) == mode = "run" /\ at = l

-----------------------------------------------------------------------------
(* start() and the head of step().                                         *)

StartRun ==
    /\ At("start")
    /\ baseline' = previous
    /\ nextPoll' = previous.tick
    /\ nextBeat' = previous.tick + BeatEvery
    /\ heartbeat' = previous.utc
    /\ Goto("open")
    /\ UNCHANGED <<clock, previous, waitFrom, stop, exit, chatting, tracked, staleReported,
                   guards, job, health, streams, stopped, history>>

OpenRun ==
    /\ At("open")
    /\ health' = "initializing"
    /\ Goto(IF stop THEN "finish" ELSE "top")
    /\ UNCHANGED <<clock, previous, waitFrom, stop, exit, chatting, memory, schedule, guards,
                   job, streams, heartbeat, stopped, history>>

(* _check_stale: one poll_stale row for each stale episode.  The slip      *)
(* looks at the elapsed clock alone and lets one tick too many pass.       *)
IsStaleLate == previous.tick - baseline.tick > Stale

IsStale == Age(previous, baseline) >= Stale

CheckStale ==
    /\ live' = IF IsStale THEN Closed ELSE live
    /\ IF IsStale /\ ~staleReported
         THEN health' = "poll_stale" /\ chat' = "stale" /\ staleReported' = TRUE
         ELSE UNCHANGED <<health, chat, staleReported>>

(* The first reading of step().                                            *)
Top ==
    /\ At("top")
    /\ CheckStale
    /\ Goto("beat")
    /\ UNCHANGED <<clock, previous, waitFrom, stop, exit, tracked, baseline, schedule, guards,
                   job, streams, heartbeat, stopped, history>>

(* A due heartbeat.  Its UPDATE asks for last_heartbeat_at <= the new one, *)
(* and update_collector_heartbeat raises when no row matched.              *)
Refused(utc) == stopped \/ heartbeat > utc

Beat ==
    /\ At("beat")
    /\ IF previous.tick < nextBeat
         THEN UNCHANGED <<heartbeat, nextBeat, exit, live>> /\ Goto("take")
         ELSE IF Refused(previous.utc)
         THEN UNCHANGED <<heartbeat, nextBeat>> /\ Die("refused")
         ELSE /\ heartbeat' = previous.utc
              /\ nextBeat' = previous.tick + BeatEvery
              /\ Goto("beaten") /\ UNCHANGED <<exit, live>>
    /\ UNCHANGED <<clock, previous, waitFrom, stop, chat, memory, nextPoll, guards,
                   job, health, streams, stopped, history>>

Beaten ==
    /\ At("beaten")
    /\ CheckStale
    /\ Goto("take")
    /\ UNCHANGED <<clock, previous, waitFrom, stop, exit, tracked, baseline, schedule, guards,
                   job, streams, heartbeat, stopped, history>>

(* PollWorker.take: a result leaves the worker once its thread has ended.  *)
Take ==
    /\ At("take")
    /\ worker' = IF ~stop /\ worker = "done" THEN "idle" ELSE worker
    /\ Goto(IF stop THEN "finish" ELSE IF worker = "done" THEN "taken" ELSE "dispatch")
    /\ UNCHANGED <<clock, previous, waitFrom, stop, exit, chatting, memory, schedule, guards,
                   result, jobStarted, rows, history>>

-----------------------------------------------------------------------------
(* The result in hand, and _save.                                          *)

CloseInDoubt(state) == live' = Closed /\ chat' = state /\ closedAt' = previous.utc

Fatal == result.kind \in {"fatal", "crash"}

LateByAge == Age(previous, jobStarted) >= Stale

Late == discard \/ Age(previous, jobStarted) >= Stale

(* Slip: only the elapsed clock is compared.                               *)
InOrderByTick ==
    /\ jobStarted.tick <= result.observed.tick /\ result.observed.tick <= previous.tick

(* The worker's own reading lies between the start of the poll and now.    *)
InOrder ==
    /\ jobStarted.tick <= result.observed.tick /\ result.observed.tick <= previous.tick
    /\ jobStarted.utc <= result.observed.utc /\ result.observed.utc <= previous.utc

(* Blocked authorization, or a worker that raised.                         *)
TakeFatal ==
    /\ At("taken") /\ Fatal
    /\ IF result.kind = "fatal"
         THEN CloseInDoubt("failed") /\ health' = "request_error" /\ Die("authorization")
         ELSE UNCHANGED <<chat, closedAt, health>> /\ Die("worker")
    /\ UNCHANGED <<clock, previous, waitFrom, stop, memory, schedule, guards, job, streams,
                   heartbeat, stopped, jobGeneration, liveGeneration>>

(* late_poll_discarded: the poll took too long, spans a gap, or its        *)
(* observation is already stale.  No health row is written.                *)
Discard ==
    /\ At("taken") /\ ~Fatal
    /\ \/ Late
       \/ /\ result.kind # "error" /\ InOrder
          /\ Age(previous, result.observed) >= Stale
    /\ CloseInDoubt("failed")
    /\ result' = NoResult
    /\ Goto("dispatch")
    /\ UNCHANGED <<clock, previous, waitFrom, stop, exit, memory, schedule, guards, worker,
                   jobStarted, rows, jobGeneration, liveGeneration>>

(* A failed request; a broadcast that starts after it was observed is one. *)
RequestFailed ==
    /\ At("taken") /\ ~Late
    /\ \/ result.kind = "error"
       \/ /\ result.kind = "future" /\ InOrder
          /\ Age(previous, result.observed) < Stale
    /\ CloseInDoubt("failed")
    /\ health' = "request_error"
    /\ result' = NoResult
    /\ Goto("dispatch")
    /\ UNCHANGED <<clock, previous, waitFrom, stop, exit, memory, schedule, guards, worker,
                   jobStarted, streams, heartbeat, stopped, jobGeneration, liveGeneration>>

InvalidObservation ==
    /\ At("taken") /\ ~Late
    /\ result.kind \in {"live", "future", "offline"} /\ ~InOrder
    /\ CloseInDoubt("failed")
    /\ Die("observation_clock_invalid")
    /\ UNCHANGED <<clock, previous, waitFrom, stop, memory, schedule, guards, job, rows,
                   jobGeneration, liveGeneration>>

Acceptable ==
    /\ At("taken") /\ ~Late /\ InOrder
    /\ Age(previous, result.observed) < Stale

(* _save up to the commit of the observation: mark_stream_offline, which   *)
(* keeps an earlier offline time ...                                       *)
SaveOffline ==
    /\ Acceptable /\ result.kind = "offline"
    /\ live' = Closed /\ closedAt' = previous.utc
    /\ streams' = [s \in Streams |->
                     IF s = tracked THEN [streams[s] EXCEPT !.offline = TRUE] ELSE streams[s]]
    /\ tracked' = None
    /\ savedAt' = generation
    /\ Goto("saved")
    /\ UNCHANGED <<clock, previous, waitFrom, stop, exit, chat, baseline, staleReported, schedule,
                   discard, forceValidation, generation, job, health, heartbeat, stopped,
                   jobGeneration, liveGeneration>>

(* ... or record_live_poll, the streams row and the snapshot together.     *)
SaveLive ==
    /\ Acceptable /\ result.kind = "live"
    /\ streams' = [streams EXCEPT ![result.stream].seen = TRUE,
                                  ![result.stream].newest = result.observed.utc]
    /\ tracked' = result.stream
    /\ savedAt' = generation
    /\ Goto("saved")
    /\ UNCHANGED <<clock, previous, waitFrom, stop, exit, chatting, baseline, staleReported,
                   schedule, discard, forceValidation, generation, job, health, heartbeat,
                   stopped, history>>

(* Slip: the gap that a reading since the commit has found is overlooked.  *)
DoubtfulByAge == Age(previous, result.observed) >= Stale

(* A gap since _save began, or an observation gone stale in the meantime.  *)
Doubtful == generation # savedAt \/ Age(previous, result.observed) >= Stale

(* After the commit: the healthy row, unless the poll has lost its worth.  *)
SaveHealth ==
    /\ At("saved")
    /\ IF Doubtful
         THEN /\ CloseInDoubt("failed")
              /\ IF IsStale /\ ~staleReported
                   THEN health' = "poll_stale" /\ staleReported' = TRUE
                   ELSE UNCHANGED <<health, staleReported>>
              /\ result' = NoResult
              /\ Goto("dispatch")
              /\ UNCHANGED baseline
         ELSE /\ health' = (IF result.kind = "live" THEN "live_poll_saved"
                                                   ELSE "offline_poll_saved")
              /\ live' = IF IsStale THEN Closed ELSE live
              /\ chat' = IF IsStale /\ ~staleReported THEN "stale" ELSE chat
              /\ baseline' = result.observed
              /\ staleReported' = FALSE
              /\ Goto("settle")
              /\ UNCHANGED <<result, closedAt>>
    /\ UNCHANGED <<clock, previous, waitFrom, stop, exit, tracked, schedule, guards, worker,
                   jobStarted, streams, heartbeat, stopped, jobGeneration, liveGeneration>>

(* LiveStatus.poll_live: the interval goes on only if the last live poll   *)
(* was of the same stream and has not expired.                             *)
PollLive(l, s, observed) ==
    LET goesOn == l.stream = s /\ observed.tick - l.tick \in 0..(Stale - 1)
    IN  [stream |-> s, since |-> IF goesOn THEN l.since ELSE observed.utc,
         tick |-> observed.tick]

(* After the healthy row: chat is opened or paused, after one more look.   *)
Settle ==
    /\ At("settle")
    /\ IF Doubtful
         THEN /\ CloseInDoubt(IF IsStale /\ ~staleReported THEN "stale" ELSE "failed")
              /\ IF IsStale /\ ~staleReported
                   THEN health' = "poll_stale" /\ staleReported' = TRUE
                   ELSE UNCHANGED <<health, staleReported>>
              /\ UNCHANGED liveGeneration
         ELSE /\ live' = IF result.kind = "live"
                           THEN PollLive(live, result.stream, result.observed) ELSE live
              /\ chat' = result.kind
              /\ liveGeneration' = jobGeneration
              /\ UNCHANGED <<health, staleReported, closedAt>>
    /\ result' = NoResult
    /\ Goto("dispatch")
    /\ UNCHANGED <<clock, previous, waitFrom, stop, exit, tracked, baseline, schedule, guards,
                   worker, jobStarted, streams, heartbeat, stopped, jobGeneration>>

-----------------------------------------------------------------------------
(* The end of step(), and of the run.                                      *)

(* A poll is started when one is due and none is in flight; the schedule   *)
(* moves past the slots that were missed.                                  *)
Dispatch ==
    /\ At("dispatch")
    /\ CheckStale
    /\ IF worker = "idle" /\ previous.tick >= nextPoll /\ ~stop
         THEN /\ jobStarted' = previous
              /\ discard' = FALSE /\ forceValidation' = FALSE
              /\ worker' = "polling"
              /\ nextPoll' = nextPoll
                    + ((previous.tick - nextPoll) \div PollEvery + 1) * PollEvery
              /\ jobGeneration' = generation
         ELSE UNCHANGED <<worker, jobStarted, discard, forceValidation, nextPoll,
                          jobGeneration>>
    /\ Goto("pump")
    /\ UNCHANGED <<clock, previous, waitFrom, stop, exit, tracked, baseline, generation, savedAt,
                   nextBeat, result, streams, heartbeat, stopped, liveGeneration, closedAt>>

(* LiveStatus._expire, which chat_stream_id runs for every message.        *)
Expired(l, tick) ==
    IF l # Closed /\ tick - l.tick \notin 0..(Stale - 1) THEN Closed ELSE l

(* chat_stream_id: the stream a message belongs to, None when it is to be  *)
(* dropped.                                                                *)
ChatStream(sent, received, tick) ==
    LET l == Expired(live, tick)
    IN  IF l # Closed /\ l.since <= sent /\ sent <= received THEN l.stream ELSE None

(* _pump_eventsub: the reading of this piece is the chat sink's tick, and  *)
(* messages may arrive.  Then run() looks at the stop event.               *)
Pump ==
    /\ At("pump")
    /\ \E arrives \in BOOLEAN :
            live' = IF arrives THEN Expired(live, previous.tick) ELSE live
    /\ Goto(IF stop THEN "finish" ELSE "top")
    /\ UNCHANGED <<clock, previous, waitFrom, stop, exit, chat, memory, schedule, guards, job,
                   rows, history>>

(* Slip: shutdown waits for a result that an idle worker never has.        *)
FinishAwaitsResult ==
    /\ At("finish") /\ worker = "done"
    /\ live' = Closed
    /\ worker' = "idle" /\ result' = NoResult
    /\ Goto("stop")
    /\ UNCHANGED <<clock, previous, waitFrom, stop, exit, chat, memory, schedule, guards,
                   jobStarted, rows, history>>

(* Orderly shutdown waits for the poll in flight and drops its result.     *)
Finish ==
    /\ At("finish") /\ worker # "polling"
    /\ live' = Closed
    /\ worker' = "idle" /\ result' = NoResult
    /\ Goto("stop")
    /\ UNCHANGED <<clock, previous, waitFrom, stop, exit, chat, memory, schedule, guards,
                   jobStarted, rows, history>>

(* _stop_run: the run's stop and its last health row are one transaction,  *)
(* refused like a heartbeat.                                               *)
StopRun ==
    /\ At("stop")
    /\ IF Refused(previous.utc)
         THEN Die("refused") /\ UNCHANGED <<stopped, heartbeat, health>>
         ELSE /\ stopped' = TRUE /\ heartbeat' = previous.utc
              /\ health' = "orderly_shutdown"
              /\ Die("clean")
    /\ UNCHANGED <<clock, previous, waitFrom, stop, chat, memory, schedule, guards, job,
                   streams, history>>

(* A write fails: StorageError ends the run, with nothing more written.    *)
Writing == {"start", "open", "top", "beat", "beaten", "taken", "saved", "settle", "dispatch",
            "stop"}

StorageFailed ==
    /\ mode = "run" /\ at \in Writing
    /\ Die("storage")
    /\ UNCHANGED <<clock, previous, waitFrom, stop, chat, memory, schedule, guards, job, rows,
                   history>>

-----------------------------------------------------------------------------
(* The other threads: the worker, and the signal that sets stop.           *)

(* PollWorker._poll: Twitch answered; the time is read outside the guard.  *)
Answer ==
    /\ worker = "polling"
    /\ \E now \in Readings, kind \in {"live", "future", "offline"}, s \in Streams :
        /\ clock' = now
        /\ result' = [kind |-> kind, stream |-> IF kind = "live" THEN s ELSE None,
                      observed |-> now]
    /\ worker' = "done"
    /\ UNCHANGED <<previous, mode, waitFrom, control, chatting, memory, schedule, guards,
                   jobStarted, rows, history>>

(* The request failed: a TwitchError, fatal or not, or anything else.      *)
NoAnswer ==
    /\ worker = "polling"
    /\ \E kind \in {"error", "fatal", "crash"} : result' = [NoResult EXCEPT !.kind = kind]
    /\ worker' = "done"
    /\ UNCHANGED <<reading, control, chatting, memory, schedule, guards, jobStarted, rows,
                   history>>

RequestStop ==
    /\ ~stop /\ at # "ended"
    /\ stop' = TRUE
    /\ UNCHANGED <<reading, at, exit, chatting, memory, schedule, guards, job, rows, history>>

Coordinator ==
    \/ Sample \/ Recover
    \/ StartRun \/ OpenRun \/ Top \/ Beat \/ Beaten \/ Take
    \/ TakeFatal \/ Discard \/ RequestFailed \/ InvalidObservation
    \/ SaveOffline \/ SaveLive \/ SaveHealth \/ Settle
    \/ Dispatch \/ Pump \/ Finish \/ StopRun

Fault == StorageFailed \/ RecoveryTimeout

Next == Coordinator \/ Fault \/ Answer \/ NoAnswer \/ RequestStop

Spec == Init /\ [][Next]_vars

(* The coordinator keeps running, and no request lasts for ever: every     *)
(* socket operation of the worker has a timeout.                           *)
FairSpec == Spec /\ WF_vars(Coordinator) /\ WF_vars(Answer \/ NoAnswer)

-----------------------------------------------------------------------------
(* Properties.                                                             *)

Running == at # "ended"

(* What the chat sink is about to be pumped with: a message counts for a   *)
(* stream only if a live poll of that very stream is committed, reported   *)
(* healthy, not older than the stale limit by the guarded clock, still the *)
(* tracked broadcast, and began after the last clock gap; and the message  *)
(* was sent after the last moment at which liveness was in doubt.          *)
EligibleChatIsCovered ==
    At("pump") =>
        \A sent \in closedAt - Stale .. previous.utc :
            LET s == ChatStream(sent, previous.utc, previous.tick)
            IN  s # None =>
                    /\ s = tracked /\ streams[s].seen /\ ~stopped
                    /\ health = "live_poll_saved"
                    /\ previous.tick - live.tick < Stale
                    /\ liveGeneration = generation
                    /\ sent >= closedAt

(* Whenever LiveStatus says a stream is live the chat sink has been told   *)
(* so, and a sink told anything else never has an eligible message.        *)
ChatFollowsLiveStatus == live # Closed => chat = "live"

(* No healthy row stays the last one once the last success is stale: by    *)
(* the time the chat is pumped, staleness has been reported.               *)
StaleIsReported ==
    (at = "pump" /\ mode = "read" /\ Age(previous, baseline) >= Stale)
        => health \notin Healthy

(* A poll that was in flight across a clock gap is never put to use: what  *)
(* opens eligibility or counts as success belongs to the present           *)
(* generation.                                                             *)
NoPollSpansAGap ==
    [][ /\ chat' \in {"live", "offline"} /\ chat' # chat
        => jobGeneration = generation ]_vars

(* Whatever corrections the clock goes through, neither a heartbeat nor    *)
(* the stop of the run is ever refused as older than the last check-in,    *)
(* and a stream's snapshots, stamped by the unguarded worker, never go     *)
(* back in time.                                                           *)
NeverRefused == exit # "refused"

SnapshotsInOrder ==
    [][\A s \in Streams : streams[s].seen => streams'[s].newest >= streams[s].newest]_vars

(* Chat is never claimed for a time already behind: an interval that goes  *)
(* on, or starts again for the same stream, never moves its start back,    *)
(* and any other starts no earlier than every observation recorded before  *)
(* (LiveStatus.poll_live, fed by a worker that reads an unguarded clock).  *)
NoReachBack ==
    [][ live' # Closed =>
            IF live'.stream = live.stream THEN live'.since >= live.since
            ELSE \A s \in Streams : streams[s].seen => streams[s].newest <= live'.since ]_vars

(* The moment of the last doubt is never one before an earlier doubt, and  *)
(* the check-ins of the run go forward whatever the clock does, up to its  *)
(* stop, after which no row changes (_check_stale, _invalidate_clock, and  *)
(* update_collector_heartbeat and stop_collector_run of database.py).      *)
RecordsGoForward ==
    [][ /\ closedAt' >= closedAt
        /\ heartbeat' >= heartbeat
        /\ stopped => UNCHANGED rows ]_vars

(* The polling half is what Broadcast says of it: a save is told when its  *)
(* health is written (_save), and after the end nobody is told.            *)
Telling == INSTANCE Broadcast
             WITH live <- chat = "live" /\ at \notin {"saved", "settle", "ended"}
PollingTells == Telling!Spec

(* The pieces that remain, in the order a stopped run meets them.          *)
Remaining(piece) == CASE piece = "top"                 -> 8
                      [] piece \in {"taken", "beat"}   -> 7
                      [] piece \in {"saved", "beaten"} -> 6
                      [] piece \in {"settle", "take"}  -> 5
                      [] piece \in {"dispatch", "start"} -> 4
                      [] piece \in {"pump", "open"}    -> 3
                      [] piece = "finish"              -> 2
                      [] piece = "stop"                -> 1
                      [] OTHER                         -> 0

(* A run that has been asked to stop makes no second pass: each piece it   *)
(* comes to is nearer the end, through whatever gap or doubt (run, step).  *)
StopIsStraight == [][stop /\ at' # at => Remaining(at') < Remaining(at)]_vars

(* Once asked to stop, the process ends.                                   *)
StopEnds == stop ~> ~Running

(* Why they hold: the inductive strengthening of the safety properties.    *)

(* Guarded time never runs back, so what it stamped is never in its future.*)
Beats ==
    /\ exit # "refused"
    /\ Running => ~stopped /\ closedAt <= previous.utc
    /\ heartbeat <= previous.utc
    /\ \A s \in Streams : streams[s].seen => streams[s].newest <= previous.utc

(* A poll that is still wanted began in the present generation, after      *)
(* eligibility was last closed and after every committed observation.      *)
InFlight ==
    /\ at \in {"taken", "saved", "settle"} => worker = "idle"
    /\ result.kind = "live" => result.stream \in Streams
    /\ (worker # "idle" \/ at = "taken") =>
        /\ \A s \in Streams : streams[s].seen => streams[s].newest <= jobStarted.utc
        /\ ~discard => jobGeneration = generation /\ closedAt <= jobStarted.utc

(* Inside _save the observation is committed but eligibility still is that *)
(* of the poll before.                                                     *)
Saving ==
    at \in {"saved", "settle"} =>
        /\ savedAt = jobGeneration /\ savedAt <= generation
        /\ result.kind \in {"live", "offline"}
        /\ result.kind = "offline" => live = Closed
        /\ result.kind = "live" =>
            /\ result.stream = tracked /\ streams[tracked].seen
            /\ at = "settle" => health = "live_poll_saved"
            /\ generation = savedAt => closedAt <= result.observed.utc

(* What open eligibility rests on.                                         *)
Eligibility ==
    /\ (mode = "wait" \/ at \in {"start", "open", "stop"}) => live = Closed
    /\ live # Closed =>
        /\ chat = "live"
        /\ live.stream \in Streams /\ closedAt <= live.since
        /\ liveGeneration = generation
        /\ at \notin {"saved", "settle", "ended"} =>
            /\ live.stream = tracked /\ streams[tracked].seen
            /\ health = "live_poll_saved"

(* A stale episode that was reported is not followed by good news before   *)
(* the next success.                                                       *)
Staleness ==
    /\ staleReported => health \notin Healthy
    /\ (at = "pump" /\ mode = "read" /\ IsStale) => staleReported

PollInv == TypeOK /\ Beats /\ InFlight /\ Saving /\ Eligibility /\ Staleness

(* An open interval began with a recorded observation of its stream, and   *)
(* the observation about to open one is the newest there is.               *)
Dated ==
    /\ live # Closed => live.since <= streams[live.stream].newest
    /\ at \in {"saved", "settle"} /\ result.kind = "live" =>
          /\ streams[tracked].newest = result.observed.utc
          /\ \A s \in Streams : streams[s].seen => streams[s].newest <= result.observed.utc

(* After the end the coordinator reads no clock.                           *)
Over == ~Running => mode = "run"

(* "For a UTC rollback of less than five seconds ... On recovery, force    *)
(* token validation and a fresh poll": a correction below the tolerance    *)
(* does not stop the process.                                              *)
SmallRollbackIsSurvived == exit # "observation_clock_invalid"

=============================================================================
