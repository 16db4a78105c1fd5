------------------------- MODULE EnhancedCollection -------------------------
(***************************************************************************)
(* Enhanced collection: chatter presence snapshots and raid source context.*)
(*                                                                         *)
(*   scripts/collect_stream.py       the presence and raid context halves  *)
(*                                   of PollingCollector                   *)
(*   scripts/enhanced_collection.py  EnhancedWorker and its jobs           *)
(*   scripts/database.py, sql/       the rows of the attempts              *)
(*                                                                         *)
(* The coordinator writes the row of an attempt before it asks Twitch, one *)
(* worker thread makes one request at a time, and the coordinator settles  *)
(* the row with the answer, or without it.  The code between two clock     *)
(* readings is one action, in which the connection may fail after the row  *)
(* and before the health that follows it.  The polling half is one action  *)
(* too, with every outcome PollingCollector allows it: what counts here is *)
(* the stream it tracks and whether the broadcast is in doubt.  Time is    *)
(* left out: a timer is a flag that some reading finds expired, and any    *)
(* reading may make ClockGuard report a gap.                               *)
(***************************************************************************)
EXTENDS Integers, Sequences

CONSTANTS
    Streams,        \* Twitch stream ids
    Raids,          \* EventSub message ids of raids
    None,           \* no stream
    MaxPages,       \* PRESENCE_MAX_PAGES
    QueueLimit,     \* RAID_CONTEXT_QUEUE_LIMIT
    MaxGenerations, \* bound: clock gaps before no more are met
    MaxSnapshots    \* bound: snapshots before no more are begun

ASSUME EnhancedAssumption ==
    /\ None \notin Streams
    /\ {MaxPages, QueueLimit} \subseteq Nat \ {0}
    /\ {MaxGenerations, MaxSnapshots} \subseteq Nat

VARIABLES
    at,             \* which piece comes next
    stop,           \* the stop event
    exit,           \* how the process ended
    generation,     \* _generation
    tracked,        \* tracked_stream
    live,           \* _presence_live
    available,      \* _presence_available
    nextPresence,   \* _next_presence: not set, ahead, or reached
    active,         \* _presence_active, with the page of its next_job or 0
    queue,          \* _raid_context_queue
    aux,            \* EnhancedWorker: its state, job and answer
    auxLast,        \* _aux_last
    health,         \* status of the last chatter_presence row
    latched,        \* EventRouter.storage_failed
    snapshots,      \* chatter_presence_snapshots and their members
    contexts,       \* raid_source_context
    broken,         \* history: the active snapshot met a gap or another stream
    asked           \* history: requests sent for each raid

control == <<at, exit>>
target  == <<tracked, nextPresence>>
seen    == <<live, health, broken>>
work    == <<aux, auxLast>>
raiding == <<queue, contexts, asked>>
taking  == <<active, snapshots>>
vars    == <<generation, control, stop, target, seen, work, raiding, taking,
             available, latched>>

Labels == {"start", "poll", "pump", "advance", "check", "begin", "finish", "last",
           "interrupt", "close", "ended"}

PresenceJobs ==
    [snapshot : Nat, stream : Streams, generation : Nat, page : Nat]

RaidJobs == [raid : Raids, attempt : Nat]

NoActive == [snapshot |-> 0]

Actives ==
    [snapshot : Nat, stream : Streams, generation : Nat, members : SUBSET (Nat \X Nat),
     page : Nat]

Idle == [state |-> "idle"]

Auxes ==
    {Idle} \cup [state : {"asking"}, job : PresenceJobs \cup RaidJobs]
           \cup [state : {"done"}, job : PresenceJobs, answer : {"more", "last", "failed", "fatal"}]
           \cup [state : {"done"}, job : RaidJobs, answer : {"found", "failed", "denied", "fatal"}]

SnapshotStatus == {"in_progress", "complete", "partial", "rejected", "interrupted"}

(* A channel Twitch does not know is an answer too: "complete" is also     *)
(* not_found.                                                              *)
ContextStatus == {"absent", "in_progress", "complete", "failed", "interrupted"}

Waits == [raid : Raids, attempt : Nat, due : BOOLEAN]

Rows ==
    [stream : Streams, status : SnapshotStatus, members : SUBSET (Nat \X Nat), broken : BOOLEAN]

TypeOK ==
    /\ at \in Labels /\ stop \in BOOLEAN
    /\ exit \in {"none", "clean", "failed", "refused", "early"}
    /\ generation \in Nat /\ tracked \in Streams \cup {None}
    /\ live \in BOOLEAN /\ available \in BOOLEAN
    /\ nextPresence \in {"unset", "ahead", "due"}
    /\ active \in {NoActive} \cup Actives
    /\ queue \in Seq(Waits)
    /\ aux \in Auxes /\ auxLast \in {"none", "presence", "raid"}
    /\ health \in {"none", "starting", "healthy", "error", "paused", "stopped"}
    /\ latched \in BOOLEAN
    /\ snapshots \in Seq(Rows)
    /\ contexts \in [Raids -> [status : ContextStatus, attempts : Nat]]
    /\ broken \in BOOLEAN
    /\ asked \in [Raids -> Nat]

Init ==
    /\ at = "start" /\ stop = FALSE /\ exit = "none"
    /\ generation = 0 /\ tracked = None
    /\ live = FALSE /\ available = FALSE /\ nextPresence = "unset"
    /\ active = NoActive /\ queue = <<>> /\ aux = Idle /\ auxLast = "none"
    /\ health = "none" /\ latched = FALSE
    /\ snapshots = <<>> /\ contexts = [m \in Raids |-> [status |-> "absent", attempts |-> 0]]
    /\ broken = FALSE /\ asked = [m \in Raids |-> 0]

-----------------------------------------------------------------------------
(* Control: the piece l comes next.                                        *)

At(l) == at = l

Goto(l) == at' = l /\ UNCHANGED exit

Die(how) == at' = "ended" /\ exit' = how

(* The pieces that begin with a reading of the clock, which may find a gap *)
(* and timers expired.                                                     *)
Sampled == {"poll", "pump", "advance", "check", "last", "interrupt", "close"}

(* Slip: presence is not told.                                             *)
DoubtUnsaid == live' = FALSE /\ UNCHANGED health

(* _chat_polling("failed" or "stale"): the broadcast is in doubt.          *)
Doubt ==
    /\ live' = FALSE
    /\ health' = IF available THEN "error" ELSE health

(* ClockGuard.sample as the rest sees it, with _invalidate_clock on a gap. *)
Gap ==
    /\ at \in Sampled /\ generation < MaxGenerations
    /\ Doubt
    /\ generation' = generation + 1
    /\ broken' = (active # NoActive)
    /\ UNCHANGED <<control, stop, target, work, raiding, taking, available, latched>>

(* PRESENCE_SECONDS after the last attempt began.                          *)
PresenceExpires ==
    /\ at \in Sampled /\ nextPresence = "ahead" /\ nextPresence' = "due"
    /\ UNCHANGED <<generation, control, stop, tracked, seen, work, raiding, taking, available,
                   latched>>

(* Five seconds after a refused request.                                   *)
RetryExpires ==
    /\ at \in Sampled /\ queue # <<>> /\ ~Head(queue).due
    /\ queue' = [queue EXCEPT ![1].due = TRUE]
    /\ UNCHANGED <<generation, control, stop, target, seen, work, contexts, asked, taking,
                   available, latched>>

(* A rollback the guard does not survive.                                  *)
ClockFails ==
    /\ at \in Sampled /\ Die("failed")
    /\ UNCHANGED <<generation, stop, target, seen, work, raiding, taking, available, latched>>

(* A stop may be asked for, or the duration reached, at any time; it is    *)
(* seen where the code looks.                                              *)
AskStop ==
    /\ ~stop /\ at \in {"poll", "begin"} /\ stop' = TRUE
    /\ UNCHANGED <<generation, control, target, seen, work, raiding, taking, available, latched>>

(* A write that PostgreSQL fails ends the process, except in the sinks.    *)
Writing == {"start", "poll", "advance", "check", "begin", "last", "interrupt", "close"}

StorageFails ==
    /\ at \in Writing /\ Die("failed")
    /\ UNCHANGED <<generation, stop, target, seen, work, raiding, taking, available, latched>>

(* _start_enhanced: without its scope, or unless it is configured, presence*)
(* is off for the whole run.                                               *)
StartEnhanced ==
    /\ At("start")
    /\ \/ available' = TRUE /\ health' = "starting" /\ Goto("poll")
       \/ available' = FALSE /\ health' \in {"none", "error"} /\ Goto("poll")
       \/ available' = FALSE /\ health' = "starting" /\ Die("failed")
    /\ UNCHANGED <<generation, stop, target, live, broken, work, raiding, taking, latched>>

-----------------------------------------------------------------------------
(* The polling half of step().                                             *)

(* The loop ends at a stop, at once or after the head of a step, where the *)
(* last success may be found stale; no answer is taken any more.           *)
PollStopped ==
    /\ At("poll") /\ stop /\ Goto("finish")
    /\ Doubt \/ UNCHANGED <<live, health>>
    /\ UNCHANGED <<broken, generation, stop, target, work, raiding, taking, available, latched>>

(* No answer yet.                                                          *)
PollSilent ==
    /\ At("poll") /\ ~stop /\ Goto("pump")
    /\ UNCHANGED <<generation, stop, target, seen, work, raiding, taking, available, latched>>

(* The last success is stale, or the answer is late, disowned or an error. *)
PollInDoubt ==
    /\ At("poll") /\ ~stop /\ Doubt /\ Goto("pump")
    /\ UNCHANGED <<broken, generation, stop, target, work, raiding, taking, available, latched>>

PollFatal ==
    /\ At("poll") /\ ~stop /\ Doubt /\ Die("failed")
    /\ UNCHANGED <<broken, generation, stop, target, work, raiding, taking, available, latched>>

(* _save: a stream newly tracked is due for a snapshot at once.            *)
Due(s) ==
    IF available /\ s # None /\ (tracked # s \/ nextPresence = "unset")
      THEN "due" ELSE nextPresence

(* An answer is saved.  It may come at the very step that finds the last   *)
(* success stale, and may itself be stale once it is written.              *)
PollSaved(s, staleBefore, staleAfter) ==
    /\ At("poll") /\ ~stop
    /\ tracked' = s
    /\ nextPresence' = Due(s)
    /\ live' = (s # None /\ ~staleAfter)
    /\ broken' = (active # NoActive /\ (broken \/ s # tracked))
    /\ health' = IF ~available THEN health
                 ELSE IF staleAfter THEN "error"
                 ELSE IF s = None THEN "paused"
                 ELSE IF staleBefore THEN "error" ELSE health
    /\ Goto("pump")
    /\ UNCHANGED <<generation, stop, work, raiding, taking, available, latched>>

-----------------------------------------------------------------------------
(* The raid half: intent is written when the raid is, before any request.  *)

(* _pump_eventsub looks for the latch before the socket is read, not after.*)
Receiving == At("pump") /\ ~latched

Settled(m, status, attempts) ==
    contexts' = [contexts EXCEPT ![m] = [status |-> status, attempts |-> attempts]]

Push(m) == Append(queue, [raid |-> m, attempt |-> 1, due |-> TRUE])

Full == Len(queue) >= QueueLimit

(* Slip: a queue that is full drops the raid it was asked to keep.         *)
RaidStoredUnsaid(m) ==
    /\ Receiving
    /\ contexts[m].status = "absent"
    /\ Settled(m, "in_progress", 0)
    /\ queue' = IF Full THEN queue ELSE Push(m)
    /\ UNCHANGED <<generation, control, stop, target, seen, work, asked, taking,
                   available, latched>>

(* _raid_stored, for a raid whose row is new: a redelivery does nothing.   *)
RaidStored(m) ==
    /\ Receiving
    /\ contexts[m].status = "absent"
    /\ IF Full
         THEN Settled(m, "failed", 0) /\ UNCHANGED queue
         ELSE Settled(m, "in_progress", 0) /\ queue' = Push(m)
    /\ UNCHANGED <<generation, control, stop, target, seen, work, asked, taking,
                   available, latched>>

(* A sink's failed write is latched by the router: the raid, its context,  *)
(* or the refusal of a full queue may be what was not written.             *)
RaidFails(m) ==
    /\ Receiving
    /\ contexts[m].status = "absent"
    /\ \/ UNCHANGED contexts
       \/ Full /\ Settled(m, "in_progress", 0)
    /\ latched' = TRUE /\ Goto("advance")
    /\ UNCHANGED <<generation, stop, target, seen, work, queue, asked, taking, available>>

(* The latch found, or a fault of the socket loop, ends the process.       *)
PumpFails ==
    /\ At("pump") /\ Die("failed")
    /\ UNCHANGED <<generation, stop, target, seen, work, raiding, taking, available, latched>>

Pumped ==
    /\ Receiving /\ Goto("advance")
    /\ UNCHANGED <<generation, stop, target, seen, work, raiding, taking, available, latched>>

-----------------------------------------------------------------------------
(* Answers of the worker (_advance_enhanced and _shutdown_enhanced).       *)

(* The rows: a statement that finds its row final, or an open one where    *)
(* there may be none, raises.                                              *)
Refuse == Die("refused") /\ UNCHANGED <<taking, health>>

Open(snapshot) == snapshots[snapshot].status = "in_progress"

(* _finalize_presence: the members are stored with the final status, then  *)
(* health is told, if the connection lasts.                                *)
FinalizePresence(status, members, next) ==
    IF Open(active.snapshot)
      THEN /\ snapshots' = [snapshots EXCEPT ![active.snapshot] =
                              [@ EXCEPT !.status = status, !.members = members,
                                    !.broken = (status = "complete" /\ broken)]]
           /\ active' = NoActive
           /\ \/ Die("failed") /\ UNCHANGED health
              \/ /\ Goto(next)
                 /\ health' = IF status = "complete" THEN "healthy" ELSE "error"
      ELSE Refuse

(* finalize_raid_source_context.  sql/015 also has CHECK (observed_at >=   *)
(* requested_at): requested_at is a reading of the socket loop that no     *)
(* guard has seen, so after a correction of UTC that the guard rides out,  *)
(* its reading may still lie before it, and the row is refused as early.   *)
Early == Die("early") /\ UNCHANGED contexts

FinalizeContext(m, status, attempts, next) ==
    IF contexts[m].status = "in_progress"
      THEN \/ Settled(m, status, attempts) /\ Goto(next)
           \/ Early
      ELSE Die("refused") /\ UNCHANGED contexts

IsPresence(job) == "snapshot" \in DOMAIN job

Answered(l) == At(l) /\ aux.state = "done"

(* Slip: the shutdown forgets what is open.                                *)
AfterShort(l) == IF l = "advance" THEN "check" ELSE "close"

(* What follows an answer.                                                 *)
After(l) == IF l = "advance" THEN "check" ELSE "interrupt"

TookPresence(l) ==
    /\ Answered(l) /\ IsPresence(aux.job)
    /\ aux' = Idle
    /\ auxLast' = IF l = "advance" THEN "presence" ELSE auxLast
    /\ UNCHANGED <<generation, stop, target, live, broken, raiding, available, latched>>

(* Slip: any answer counts for the snapshot under way.                     *)
Anyones == active # NoActive

(* Only the snapshot under way takes an answer.                            *)
Ours == active # NoActive /\ aux.job.snapshot = active.snapshot

(* An answer is void after a clock gap, in doubt, or for another stream.   *)
Void ==
    \/ aux.job.generation # generation
    \/ ~live
    \/ aux.job.stream # tracked

PresenceIgnored(l) ==
    /\ TookPresence(l) /\ ~Ours
    /\ UNCHANGED <<taking, health>> /\ Goto(After(l))

PresenceVoid(l) ==
    /\ TookPresence(l) /\ Ours /\ Void
    /\ FinalizePresence("rejected", active.members, After(l))

PresenceFatal(l) ==
    /\ TookPresence(l) /\ Ours /\ ~Void /\ aux.answer = "fatal"
    /\ UNCHANGED <<taking, health>> /\ Die("failed")

PresenceFailed(l) ==
    /\ TookPresence(l) /\ Ours /\ ~Void /\ aux.answer = "failed"
    /\ FinalizePresence("partial", active.members, After(l))

Gathered == active.members \cup {<<aux.job.snapshot, aux.job.page>>}

(* Slip: the job of the next page is not kept.                             *)
NoNextPage == 0

NextPage == aux.job.page + 1

(* A page: the next one is asked for, unless there are too many or it took *)
(* longer than PRESENCE_MAX_ATTEMPT_SECONDS, which may come at any page.   *)
PresenceNext(l) ==
    /\ TookPresence(l) /\ Ours /\ ~Void /\ aux.answer = "more"
    /\ aux.job.page < MaxPages
    /\ active' = [active EXCEPT !.members = Gathered, !.page = NextPage]
    /\ UNCHANGED <<snapshots, health>> /\ Goto(After(l))

PresenceCut(l) ==
    /\ TookPresence(l) /\ Ours /\ ~Void /\ aux.answer = "more"
    /\ FinalizePresence("partial", Gathered, After(l))

PresenceComplete(l) ==
    /\ TookPresence(l) /\ Ours /\ ~Void /\ aux.answer = "last"
    /\ FinalizePresence("complete", Gathered, After(l))

TookRaid(l) ==
    /\ Answered(l) /\ ~IsPresence(aux.job)
    /\ aux' = Idle
    /\ auxLast' = IF l = "advance" THEN "raid" ELSE auxLast
    /\ UNCHANGED <<generation, stop, target, seen, asked, taking, available, latched>>

RaidFatal(l) ==
    /\ TookRaid(l) /\ aux.answer = "fatal"
    /\ UNCHANGED <<queue, contexts>> /\ Die("failed")

(* One more try, ahead of the raids that wait.                             *)
Retry == [raid |-> aux.job.raid, attempt |-> aux.job.attempt + 1, due |-> FALSE]

(* Slip: the retry is not queued.                                          *)
RetryLost == queue

Requeued == <<Retry>> \o queue

Retryable == aux.answer = "failed" /\ aux.job.attempt < 2

RaidRetried(l) ==
    /\ TookRaid(l) /\ Retryable
    /\ queue' = Requeued
    /\ UNCHANGED contexts /\ Goto(After(l))

Outcome == IF aux.answer = "found" THEN "complete" ELSE "failed"

RaidSettled(l) ==
    /\ TookRaid(l) /\ aux.answer # "fatal" /\ ~Retryable
    /\ FinalizeContext(aux.job.raid, Outcome, aux.job.attempt, After(l))
    /\ UNCHANGED queue

TakeAnswer(l) ==
    \/ PresenceIgnored(l) \/ PresenceVoid(l) \/ PresenceFatal(l) \/ PresenceFailed(l)
    \/ PresenceNext(l) \/ PresenceCut(l) \/ PresenceComplete(l)
    \/ RaidFatal(l) \/ RaidRetried(l) \/ RaidSettled(l)

NoAnswer(l) ==
    /\ At(l) /\ aux.state # "done" /\ Goto(After(l))
    /\ UNCHANGED <<generation, stop, target, seen, work, raiding, taking, available, latched>>

-----------------------------------------------------------------------------
(* The rest of _advance_enhanced.                                          *)

Outdated ==
    \/ active.generation # generation
    \/ active.stream # tracked
    \/ ~live

CheckActive ==
    /\ At("check")
    /\ IF active = NoActive \/ ~Outdated
         THEN UNCHANGED <<taking, health>> /\ Goto("begin")
         ELSE FinalizePresence("rejected", active.members, "begin")
    /\ UNCHANGED <<generation, stop, target, live, broken, work, raiding, available, latched>>

(* _begin_presence_if_due: the row, the job of the first page, then health.*)
PresenceDue ==
    /\ available /\ live /\ active = NoActive /\ tracked # None
    /\ nextPresence = "due"

NewSnapshot ==
    [stream |-> tracked, status |-> "in_progress", members |-> {}, broken |-> FALSE]

BeginPresence ==
    /\ At("begin") /\ PresenceDue
    /\ Len(snapshots) < MaxSnapshots
    /\ IF \E i \in DOMAIN snapshots : Open(i)
         THEN Refuse /\ UNCHANGED <<nextPresence, broken>>
         ELSE /\ snapshots' = Append(snapshots, NewSnapshot)
              /\ active' = [snapshot |-> Len(snapshots) + 1, stream |-> tracked,
                            generation |-> generation, members |-> {},
                            page |-> 1]
              /\ nextPresence' = "ahead" /\ broken' = FALSE
              /\ \/ Die("failed") /\ UNCHANGED health
                 \/ health' = "starting" /\ UNCHANGED control
    /\ UNCHANGED <<generation, stop, tracked, live, work, raiding, available, latched>>

Scheduling == At("begin") /\ (~PresenceDue \/ Len(snapshots) >= MaxSnapshots)

(* One request at a time and none after a stop.  A poll under way or about *)
(* to start keeps the lane too: then nothing is asked for (LaneTaken).     *)
LaneFree == aux = Idle /\ ~stop

PageWaits == active # NoActive /\ active.page > 0

RaidReady == queue # <<>> /\ Head(queue).due

(* Presence and raids take turns when both have work.                      *)
PresenceTurn == PageWaits /\ (~RaidReady \/ auxLast # "presence")

AskPresence ==
    /\ Scheduling /\ LaneFree /\ PresenceTurn
    /\ aux' = [state |-> "asking",
               job |-> [snapshot |-> active.snapshot, stream |-> active.stream,
                        generation |-> active.generation, page |-> active.page]]
    /\ active' = [active EXCEPT !.page = 0]
    /\ Goto("poll")
    /\ UNCHANGED <<generation, stop, target, seen, auxLast, raiding, snapshots,
                   available, latched>>

(* Slip: the raid asked for stays in the queue.                            *)
RestAndIt == queue

Rest == Tail(queue)

AskRaid ==
    /\ Scheduling /\ LaneFree /\ RaidReady /\ ~PresenceTurn
    /\ LET job == Head(queue) IN
        /\ aux' = [state |-> "asking", job |-> [raid |-> job.raid, attempt |-> job.attempt]]
        /\ asked' = [asked EXCEPT ![job.raid] = @ + 1]
    /\ queue' = Rest
    /\ Goto("poll")
    /\ UNCHANGED <<generation, stop, target, seen, auxLast, contexts, taking, available, latched>>

LaneTaken ==
    /\ Scheduling /\ LaneFree /\ Goto("poll")
    /\ UNCHANGED <<generation, stop, target, seen, work, raiding, taking, available, latched>>

AskNothing ==
    /\ Scheduling /\ ~(LaneFree /\ (PageWaits \/ RaidReady))
    /\ Goto("poll")
    /\ UNCHANGED <<generation, stop, target, seen, work, raiding, taking, available, latched>>

(* The thread ends with a page, a channel, nothing, or an error, at any    *)
(* time; it is seen where the coordinator takes its answer.                *)
AuxAnswers ==
    /\ aux.state = "asking" /\ at \in {"advance", "finish"}
    /\ \E answer \in IF IsPresence(aux.job) THEN {"more", "last", "failed", "fatal"}
                     ELSE {"found", "failed", "denied", "fatal"} :
        aux' = [state |-> "done", job |-> aux.job, answer |-> answer]
    /\ UNCHANGED <<generation, control, stop, target, seen, auxLast, raiding,
                   taking, available, latched>>

-----------------------------------------------------------------------------
(* The orderly stop in run().                                              *)

(* Both workers are waited for; the poll's answer is dropped.              *)
Finish ==
    /\ At("finish") /\ aux.state # "asking" /\ Goto("last")
    /\ UNCHANGED <<generation, stop, target, seen, work, raiding, taking, available, latched>>

(* _shutdown_enhanced: what is still open was interrupted, one row after   *)
(* another.  A raid whose retry waits was asked for once.                  *)
InterruptPresence ==
    /\ At("interrupt") /\ active # NoActive
    /\ FinalizePresence("interrupted", active.members, "interrupt")
    /\ UNCHANGED <<generation, stop, target, live, broken, work, raiding, available, latched>>

(* Slip: the retry that was never sent is counted.                         *)
BeforeAndIt(attempt) == attempt

Before(attempt) == IF attempt > 1 THEN attempt - 1 ELSE 0

InterruptRaid ==
    /\ At("interrupt") /\ active = NoActive /\ queue # <<>>
    /\ FinalizeContext(Head(queue).raid, "interrupted", Before(Head(queue).attempt), "interrupt")
    /\ queue' = Tail(queue)
    /\ UNCHANGED <<generation, stop, target, seen, work, asked, taking, available, latched>>

Interrupted ==
    /\ At("interrupt") /\ active = NoActive /\ queue = <<>> /\ Goto("close")
    /\ UNCHANGED <<generation, stop, target, seen, work, raiding, taking, available, latched>>

(* _stop_run: nothing is closed after a latched failure.                   *)
Close ==
    /\ At("close")
    /\ \/ ~latched /\ Die("clean") /\ health' = IF available THEN "stopped" ELSE health
       \/ Die("failed") /\ UNCHANGED health
    /\ UNCHANGED <<generation, stop, target, live, broken, work, raiding, taking,
                   available, latched>>

Coordinator ==
    \/ StartEnhanced
    \/ PollStopped \/ PollSilent \/ PollInDoubt \/ PollFatal
    \/ \E s \in Streams \cup {None}, staleBefore, staleAfter \in BOOLEAN :
           PollSaved(s, staleBefore, staleAfter)
    \/ PumpFails \/ Pumped
    \/ TakeAnswer("advance") \/ NoAnswer("advance")
    \/ CheckActive \/ BeginPresence
    \/ AskPresence \/ AskRaid \/ AskNothing \/ LaneTaken
    \/ Finish \/ TakeAnswer("last") \/ NoAnswer("last")
    \/ InterruptPresence \/ InterruptRaid \/ Interrupted \/ Close

Environment ==
    \/ Gap \/ PresenceExpires \/ RetryExpires
    \/ ClockFails \/ AskStop \/ StorageFails
    \/ \E m \in Raids : RaidStored(m) \/ RaidFails(m)

Next == Coordinator \/ Environment \/ AuxAnswers

Spec == Init /\ [][Next]_vars

(* The loop goes on, every request is answered or times out, a retry comes *)
(* due, and the lane is free again and again: polls come a minute apart    *)
(* and are answered.                                                       *)
FairSpec ==
    /\ Spec
    /\ WF_vars(Coordinator) /\ SF_vars(AuxAnswers) /\ SF_vars(RetryExpires)
    /\ SF_vars(AskPresence) /\ SF_vars(AskRaid)

-----------------------------------------------------------------------------
(* What the rows are worth.                                                *)

(* Where a raid waits, and whether its request is on its way.              *)
Waiting(m) == {i \in DOMAIN queue : queue[i].raid = m}

InFlight(m) == aux # Idle /\ ~IsPresence(aux.job) /\ aux.job.raid = m

(* While the process runs, a raid waits or is being asked for at most once,*)
(* only while its row is open, and an open row is never forgotten: retries,*)
(* a full queue and the worker's answer pass it on and drop none           *)
(* (_raid_stored, _handle_raid_context_result, _advance_enhanced).         *)
OneOwner ==
    exit = "none" =>
        \A m \in Raids :
            /\ \A i, j \in Waiting(m) : i = j
            /\ InFlight(m) => Waiting(m) = {}
            /\ Waiting(m) # {} \/ InFlight(m) => contexts[m].status = "in_progress"
            /\ contexts[m].status = "in_progress" /\ ~latched => Waiting(m) # {} \/ InFlight(m)

(* The attempts a final row claims are the requests that were sent, two at *)
(* most, whichever way the row was settled (attempt_count).                *)
AttemptsAreHonest ==
    \A m \in Raids :
        /\ asked[m] <= 2
        /\ contexts[m].status \notin {"absent", "in_progress"} => contexts[m].attempts = asked[m]

(* A retry goes ahead of a queue that may be full: one more than the limit,*)
(* counting the request that may still come back.                          *)
QueueIsBounded ==
    Len(queue) + (IF \E m \in Raids : InFlight(m) THEN 1 ELSE 0) <= QueueLimit + 1

(* A complete snapshot has every page up to its last, its own pages only,  *)
(* and was taken within one clock generation and one stream                *)
(* (_handle_presence_result and the checks of _advance_enhanced).          *)
CompleteIsWhole ==
    \A i \in DOMAIN snapshots :
        snapshots[i].status = "complete" =>
            /\ ~snapshots[i].broken
            /\ \E n \in 1..MaxPages : snapshots[i].members = {i} \X (1..n)

(* No statement finds its row missing or final already, and no snapshot is *)
(* begun while another is open: what database.py:444-454 and the unique    *)
(* index of sql/012 refuse never comes up, whatever the interleaving of    *)
(* answers, gaps and the stop.  This says nothing of time: a context row   *)
(* dated before its request is refused (exit "early"), and that happens.   *)
NeverRefused == exit # "refused"

(* While the process runs, presence reads healthy only as long as the      *)
(* broadcast is observed live and the last attempt is complete             *)
(* (_presence_health and _chat_polling).                                   *)
HealthyRestsOnComplete ==
    exit = "none" /\ health = "healthy" =>
        /\ live /\ active = NoActive
        /\ snapshots # <<>> /\ snapshots[Len(snapshots)].status = "complete"

(* A reader may count attempts as they come: one follows another as the    *)
(* outages of a run do (module GapLedger).                                 *)
Shown == [i \in DOMAIN snapshots |-> IF Open(i) THEN "open" ELSE "resolved"]

Attempted == INSTANCE GapLedger WITH gaps <- Shown

SnapshotsAreALedger == Attempted!Spec

Final(m) == contexts[m].status \notin {"absent", "in_progress"}

(* The row of a snapshot, or of a raid's context, is never rewritten once  *)
(* it is settled, and nothing is asked any more for such a raid            *)
(* (finalize_chatter_presence_snapshot, finalize_raid_source_context).     *)
SettledForGood ==
    [][/\ \A i \in DOMAIN snapshots : ~Open(i) => snapshots'[i] = snapshots[i]
       /\ \A m \in Raids :
              Final(m) => contexts'[m] = contexts[m] /\ asked'[m] = asked[m]]_vars

(* The pieces that remain once a stop is asked for.                        *)
Remaining(piece) == CASE piece = "start"     -> 10 [] piece = "pump"   -> 9
                      [] piece = "advance"   -> 8  [] piece = "check"  -> 7
                      [] piece = "begin"     -> 6  [] piece = "poll"   -> 5
                      [] piece = "finish"    -> 4  [] piece = "last"   -> 3
                      [] piece = "interrupt" -> 2  [] piece = "close"  -> 1
                      [] OTHER               -> 0

(* After a stop nothing is asked of Twitch any more, no poll is awaited,   *)
(* and every piece is nearer the end; the rows still open are settled one  *)
(* by one (run, _advance_enhanced, _shutdown_enhanced).                    *)
StopIsStraight ==
    [][stop =>
         /\ asked' = asked /\ (aux = Idle => aux' = Idle)
         /\ IF at' = at THEN Len(queue') <= Len(queue) \/ at = "pump"
            ELSE Remaining(at') < Remaining(at)]_vars

(* What polling tells presence here is what PollingCollector is shown to   *)
(* tell it (module Broadcast).                                             *)
Heard == INSTANCE Broadcast

PresenceHears == Heard!Spec

(* An orderly stop leaves no attempt open                                  *)
(* (merged-rehearsal-runbook.md, 6f).                                      *)
CleanStopSettlesAll ==
    exit = "clean" =>
        /\ \A i \in DOMAIN snapshots : ~Open(i)
        /\ \A m \in Raids : contexts[m].status # "in_progress"

-----------------------------------------------------------------------------
(* The inductive invariant, in parts.                                      *)

Running == exit = "none"

(* What is over when the process is at its end.                            *)
Ends ==
    /\ Running <=> ~At("ended")
    /\ At("start") => active = NoActive
    /\ At("last") => aux.state # "asking"
    /\ at \in {"interrupt", "close"} => aux = Idle
    /\ At("close") => active = NoActive /\ queue = <<>>

(* The active snapshot is the last one, and its row the only open one.     *)
ActiveIsOpen ==
    Running =>
        /\ \A i \in DOMAIN snapshots : Open(i) <=> i = active.snapshot
        /\ active # NoActive => active.snapshot = Len(snapshots) /\ Len(snapshots) > 0

(* What a raid's job knows of the requests sent before it.                 *)
Attempts ==
    Running =>
        /\ \A i \in DOMAIN queue :
            queue[i].attempt \in 1..2 /\ asked[queue[i].raid] = queue[i].attempt - 1
        /\ \A m \in Raids :
            /\ InFlight(m) => aux.job.attempt \in 1..2 /\ asked[m] = aux.job.attempt
            /\ contexts[m].status = "absent" => asked[m] = 0

Reading == aux # Idle /\ IsPresence(aux.job)

ReadingOurs == Reading /\ aux.job.snapshot = active.snapshot

Page == IF active.page > 0 THEN active.page ELSE aux.job.page

(* The next page waits or is being read, and all before it are gathered.   *)
Pages ==
    Running =>
        /\ Reading => aux.job.snapshot \in 1..Len(snapshots)
        /\ active # NoActive =>
            /\ available
            /\ active.page = 0 <=> ReadingOurs
            /\ ReadingOurs => /\ aux.job.stream = active.stream
                              /\ aux.job.generation = active.generation
            /\ Page \in 1..MaxPages
            /\ active.members = {active.snapshot} \X (1..(Page - 1))

(* What has happened to the active snapshot shows until it is looked at.   *)
Whole ==
    Running /\ active # NoActive =>
        /\ at \notin {"pump", "advance", "check"} => active.stream = tracked
        /\ active.generation <= generation
        /\ broken => active.generation # generation \/ active.stream # tracked

(* The attempt under way keeps its stream and its generation, and its pages*)
(* are never begun again: no answer, whenever it comes and whatever it     *)
(* answers, takes one back or asks for it twice (_handle_presence_result). *)
PagesAdvance ==
    [][active # NoActive /\ active' # NoActive /\ exit' = "none" =>
         /\ active'.snapshot = active.snapshot /\ active'.stream = active.stream
         /\ active'.generation = active.generation
         /\ active.members \subseteq active'.members /\ Page' >= Page]_vars

HealthyIsAvailable == health = "healthy" => available

EnhancedInv ==
    /\ TypeOK
    /\ Ends
    /\ ActiveIsOpen
    /\ OneOwner /\ Attempts /\ AttemptsAreHonest /\ QueueIsBounded
    /\ Pages /\ Whole /\ CompleteIsWhole
    /\ HealthyIsAvailable /\ HealthyRestsOnComplete
    /\ NeverRefused /\ CleanStopSettlesAll

-----------------------------------------------------------------------------
(* What must happen at last.                                               *)

(* Every snapshot begun is settled, or the process ends: pages wait for a  *)
(* free lane, take turns with raids, and are limited in number.            *)
SnapshotEnds ==
    \A i \in 1..MaxSnapshots :
        (i \in DOMAIN snapshots /\ Open(i))
            ~> ((i \in DOMAIN snapshots /\ ~Open(i)) \/ at = "ended")

(* Every raid's context is settled, or the process ends: a retry is one at *)
(* most and presence does not starve it.                                   *)
ContextEnds ==
    \A m \in Raids :
        contexts[m].status = "in_progress"
            ~> (contexts[m].status # "in_progress" \/ at = "ended")
=============================================================================
