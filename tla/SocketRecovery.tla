--------------------------- MODULE SocketRecovery ---------------------------
(***************************************************************************)
(* The EventSub socket loop: one socket in use, at most one replacement    *)
(* being opened, one thread for token work, and the ways in which sockets, *)
(* connection jobs, handovers, losses, retries and stops meet.             *)
(*                                                                         *)
(*   scripts/eventsub_recovery.py  RecoveringProbe, ConnectionJob          *)
(*   scripts/check_eventsub.py     SetupWorker                             *)
(*   scripts/eventsub.py           the frames SessionReadiness accepts     *)
(*                                                                         *)
(* Four parties act: the loop (one action per stretch of a step between    *)
(* two places where it can block), the connection thread, the setup        *)
(* thread, and Twitch.  Deadlines and keepalive limits may strike at any   *)
(* time at which the code looks at them.  What the router does with frames *)
(* and losses is module EventCapture.  A connector is given, as it is by   *)
(* every program that builds a RecoveringProbe.                            *)
(***************************************************************************)
EXTENDS Naturals, Sequences, FiniteSets

CONSTANTS
    Sources,        \* the subscriptions of a session
    Urls,           \* reconnect URLs Twitch hands out
    NoUrl,          \* the url of no directed request
    Sockets,        \* bound: names for sockets open at the same time
    MaxFrames,      \* bound: frames waiting on one socket
    DrainLimit,     \* complete_job's 256
    External        \* TRUE: the merged collector's ClockGuard finds the gaps

ASSUME RecoveryAssumption ==
    /\ Sources # {} /\ NoUrl \notin Urls
    /\ Sockets \subseteq Nat \ {0} /\ 1 \in Sockets
    /\ MaxFrames \in Nat \ {0} /\ DrainLimit \in Nat \ {0}
    /\ External \in BOOLEAN

VARIABLES
    pc,         \* where the loop is
    stop,       \* the stop event
    reason,     \* why the loop ended
    socket,     \* RecoveringProbe.socket, 0 when None
    candidate,  \* complete_job's local candidate, 0 when None
    welcomed,   \* SessionReadiness.session_id is known
    ids,        \* SessionReadiness.ids: confirmed sources
    failed,     \* SessionReadiness.failed: refused or revoked sources
    retry,      \* retry_at: never set, in the future, or passed
    job,        \* RecoveringProbe.job with the thread's result
    worker,     \* RecoveringProbe.worker and its thread
    notices,    \* SetupWorker.results, by source
    crashed,    \* a fatal notice closes SetupWorker.results
    open,       \* sockets not closed
    inbox,      \* frames that have arrived and wait to be read
    home,       \* Twitch: the socket its session delivers to, 0 when none
    subs        \* Twitch: enabled subscriptions of that session

loop   == <<pc, stop, reason, socket, candidate, welcomed, retry>>
book   == <<ids, failed>>
setup  == <<worker, notices, crashed>>
twitch == <<open, inbox, home, subs>>
vars   == <<loop, book, job, setup, twitch>>

-----------------------------------------------------------------------------
Frame(kind, of) == [kind |-> kind, of |-> of]

Frames ==
    [kind : {"welcome", "plain", "junk"}, of : {"-"}]
    \cup [kind : {"reconnect"}, of : Urls]
    \cup [kind : {"revoke"}, of : Sources]

NoJob    == [kind |-> "none", url |-> NoUrl, status |-> "none", socket |-> 0, outcome |-> "-"]
NoWorker == [state |-> "none", todo |-> {}, posting |-> {}, told |-> FALSE]

(* SetupWorker.setup_complete.                                             *)
SetupComplete == worker.state \in {"idle", "over"} /\ worker.todo = {}

Quiet == [s \in Sources |-> "none"]

Errors == {s \in Sources : notices[s] = "error"}
Oks    == {s \in Sources : notices[s] = "ok"}

(* ConnectionResult.error and what complete_job makes of the welcome.      *)
Outcomes == {"welcome", "refused", "bad", "auth", "internal", "uncertain"}

Jobs ==
    [kind : {"none", "cold", "handover"}, url : Urls \cup {NoUrl},
     status : {"none", "dialing", "done"}, socket : Sockets \cup {0},
     outcome : Outcomes \cup {"-"}]

Workers ==
    [state : {"none", "setup", "idle", "over"}, todo : SUBSET Sources,
     posting : SUBSET Sources, told : BOOLEAN]

TypeOK ==
    /\ pc \in {"top", "job", "switch", "socket", "joinJob", "joinWorker",
               "stopping", "stopJob", "stopWorker", "ended"}
    /\ stop \in BOOLEAN
    /\ reason \in {"none", "clean", "abandoned", "auth", "internal", "uncertain", "protocol",
                   "no_usable_subscriptions", "retry_unset"}
    /\ socket \in Sockets \cup {0}
    /\ candidate \in Sockets \cup {0}
    /\ welcomed \in BOOLEAN
    /\ ids \in SUBSET Sources
    /\ failed \in SUBSET Sources
    /\ retry \in {"unset", "waiting", "due"}
    /\ job \in Jobs
    /\ worker \in Workers
    /\ notices \in [Sources -> {"none", "ok", "error"}]
    /\ crashed \in BOOLEAN
    /\ open \in SUBSET Sockets
    /\ inbox \in [Sockets -> Seq(Frames)]
    /\ home \in Sockets \cup {0}
    /\ subs \in SUBSET Sources

(* The first socket is open and its welcome on the way.                    *)
Init ==
    /\ pc = "top" /\ stop = FALSE /\ reason = "none"
    /\ socket = 1 /\ candidate = 0 /\ welcomed = FALSE
    /\ ids = {} /\ failed = {} /\ retry = "unset"
    /\ job = NoJob /\ worker = NoWorker
    /\ notices = Quiet /\ crashed = FALSE
    /\ open = {1}
    /\ inbox = [k \in Sockets |-> IF k = 1 THEN <<Frame("welcome", "-")>> ELSE << >>]
    /\ home = 1 /\ subs = {}

-----------------------------------------------------------------------------
(* Building blocks of the loop's actions.                                  *)

(* RecoveringProbe.close for a set of sockets.  Twitch ends a session whose*)
(* socket is closed, and its subscriptions with it.                        *)
Close(socks) ==
    /\ open' = open \ socks
    /\ inbox' = [k \in Sockets |-> IF k \in socks THEN << >> ELSE inbox[k]]
    /\ home' = IF home \in socks THEN 0 ELSE home
    /\ subs' = IF home \in socks THEN {} ELSE subs

Goto(where) == pc' = where /\ UNCHANGED reason

(* A ProbeError or any other exception leaves the step for shutdown.       *)
Fatal(why) == pc' = "stopping" /\ reason' = why

(* Slip: late successes of an earlier session are taken like fresh ones.   *)
TakeAll(discard) ==
    /\ failed' = failed \cup Errors
    /\ ids' = ids \cup (Oks \ failed)
    /\ notices' = Quiet /\ crashed' = FALSE

(* RecoveringProbe.notices: errors always count; a success counts unless   *)
(* it is discarded or its source has failed before.  A fatal notice raises *)
(* after them.                                                             *)
Take(discard) ==
    /\ failed' = failed \cup Errors
    /\ ids' = IF discard THEN ids ELSE ids \cup (Oks \ failed)
    /\ notices' = Quiet /\ crashed' = FALSE

(* lose, up to the join of the connection thread: the session's evidence   *)
(* goes, its socket is closed.  extra: a candidate closed on the way.      *)
Lose(bad, extra) ==
    /\ ids' = {} /\ failed' = bad
    /\ socket' = 0 /\ candidate' = 0
    /\ Close({socket} \cup extra)
    /\ Goto("joinJob")

(* start_worker: one setup thread for the sources that have not failed.    *)
StartWorker(bad) ==
    worker' = [state |-> "setup", todo |-> Sources \ bad, posting |-> {}, told |-> FALSE]

-----------------------------------------------------------------------------
(* The head of a step, and what the owner of the probe does between steps. *)

Step ==
    /\ pc = "top" /\ ~stop
    /\ Take(FALSE)
    /\ IF crashed THEN Fatal("auth") ELSE Goto("job")
    /\ UNCHANGED <<stop, socket, candidate, welcomed, retry, job, worker, twitch>>

(* The loop is left at a stop, or because a write, or another part of the  *)
(* coordinator, has failed.                                                *)
LeaveLoop ==
    /\ pc = "top"
    /\ (stop /\ Fatal("clean")) \/ Fatal("abandoned")
    /\ UNCHANGED <<stop, socket, candidate, welcomed, retry, book, job, setup, twitch>>

(* force_gap, called by the coordinator when its guard saw the clock jump. *)
ForceGap ==
    /\ External /\ pc = "top"
    /\ socket # 0 \/ job.kind # "none" \/ worker.state # "none"
    /\ Lose(failed, {})
    /\ UNCHANGED <<stop, welcomed, retry, job, setup>>

(* sample: without an external guard any disagreement of the clocks ends   *)
(* the probe, wherever a reading is taken.                                 *)
ClockUncertain ==
    /\ ~External /\ pc \in {"top", "socket", "switch", "joinJob"}
    /\ Close({candidate} \ {0}) /\ candidate' = 0
    /\ Fatal("uncertain")
    /\ UNCHANGED <<stop, socket, welcomed, retry, book, job, setup>>

-----------------------------------------------------------------------------
(* The connection job.                                                     *)

JobPending ==
    /\ pc = "job" /\ job.status # "done"
    /\ Goto("socket")
    /\ UNCHANGED <<stop, socket, candidate, welcomed, retry, book, job, setup, twitch>>

HandoverLate ==
    /\ pc = "job" /\ job.kind = "handover" /\ job.status = "dialing"
    /\ Lose(failed, {})
    /\ UNCHANGED <<stop, welcomed, retry, job, setup>>

JobDone == pc = "job" /\ job.status = "done"

(* Slip: the socket of the connection thread is forgotten.                 *)
Forgotten == {}

(* What the connection thread has opened.                                  *)
Result == {job.socket} \ {0}

(* complete_job finds the stop event set, or the duration over: whatever   *)
(* the thread brought is closed.                                           *)
JobStopped ==
    /\ JobDone /\ stop
    /\ job' = NoJob /\ Close(Result)
    /\ Goto("socket")
    /\ UNCHANGED <<stop, socket, candidate, welcomed, retry, book, setup>>

(* The reading complete_job takes when it has just taken over the result   *)
(* and has not entered its try block: nobody closes the thread's socket.   *)
ClockUncertainInJob ==
    /\ ~External /\ JobDone
    /\ job' = NoJob
    /\ Fatal("uncertain")
    /\ UNCHANGED <<stop, socket, candidate, welcomed, retry, book, setup, twitch>>

JobFatal ==
    /\ JobDone /\ ~stop
    /\ \/ job.outcome \in {"auth", "internal", "uncertain"} /\ Fatal(job.outcome)
       \/ job.outcome = "bad" /\ job.kind = "cold" /\ Fatal("protocol")
    /\ job' = NoJob /\ Close(Result)
    /\ UNCHANGED <<stop, socket, candidate, welcomed, retry, book, setup>>

(* A cold attempt failed, or its welcome is too old by now: back off again.*)
ColdFailed ==
    /\ JobDone /\ ~stop /\ job.kind = "cold"
    /\ job.outcome \in {"refused", "welcome"}
    /\ job' = NoJob /\ Close(Result)
    /\ retry' = "waiting"
    /\ Goto("socket")
    /\ UNCHANGED <<stop, socket, candidate, welcomed, book, setup>>

(* Slip: the new SessionReadiness does not inherit the failed sources.     *)
Forgiven == {}

Carried == failed

(* A fresh session: nothing is confirmed, failed sources stay failed.      *)
ColdDone ==
    /\ JobDone /\ ~stop /\ job.kind = "cold" /\ job.outcome = "welcome"
    /\ socket' = job.socket /\ welcomed' = TRUE
    /\ ids' = {}
    /\ job' = NoJob
    /\ IF Carried = Sources
         THEN Fatal("no_usable_subscriptions") /\ UNCHANGED worker
         ELSE Goto("socket") /\ StartWorker(Carried)
    /\ failed' = Carried
    /\ UNCHANGED <<stop, candidate, retry, notices, crashed, twitch>>

HandoverFailed ==
    /\ JobDone /\ ~stop /\ job.kind = "handover"
    /\ job.outcome \in {"refused", "bad"}
    /\ job' = NoJob
    /\ Lose(failed, Result)
    /\ UNCHANGED <<stop, welcomed, retry, setup>>

(* Frames of the old socket that the drain accepts before it goes on.      *)
Drainable(frame) ==
    frame.kind \in {"plain", "revoke"} \/ (frame.kind = "reconnect" /\ frame.of = job.url)

RevokedIn(frames) ==
    {s \in Sources : \E n \in 1..Len(frames) : frames[n] = Frame("revoke", s)}

(* Drained(n): recv ran dry after n frames, one short of the limit.        *)
Drained(n) == n = Len(inbox[socket]) /\ n < DrainLimit

HandoverReady(n) ==
    /\ JobDone /\ ~stop /\ job.kind = "handover" /\ job.outcome = "welcome"
    /\ n <= Len(inbox[socket]) /\ n <= DrainLimit
    /\ \A m \in 1..n : Drainable(inbox[socket][m])

(* The drain meets a bad frame, a conflicting request, its limit, a late   *)
(* keepalive, an error of recv or of close.                                *)
DrainFailed(n) ==
    /\ HandoverReady(n)
    /\ job' = NoJob
    /\ Lose(failed \cup RevokedIn(SubSeq(inbox[socket], 1, n)), Result)
    /\ UNCHANGED <<stop, welcomed, retry, setup>>

(* Everything that waited on the old socket is read, then it is closed.    *)
Drain(n) ==
    /\ HandoverReady(n) /\ Drained(n)
    /\ failed' = failed \cup RevokedIn(SubSeq(inbox[socket], 1, n))
    /\ candidate' = job.socket /\ job' = NoJob
    /\ Close({socket}) /\ socket' = 0
    /\ Goto("switch")
    /\ UNCHANGED <<stop, welcomed, retry, ids, setup>>

(* complete_job again, after the close that may have taken seconds.        *)
SwitchStopped ==
    /\ pc = "switch" /\ stop
    /\ Close({candidate}) /\ candidate' = 0
    /\ Goto("socket")
    /\ UNCHANGED <<stop, socket, welcomed, retry, book, job, setup>>

SwitchLate ==
    /\ pc = "switch" /\ ~stop
    /\ Lose(failed, {candidate})
    /\ UNCHANGED <<stop, welcomed, retry, job, setup>>

(* The new socket takes over; the confirmed subscriptions come with it.    *)
Switch ==
    /\ pc = "switch" /\ ~stop
    /\ socket' = candidate /\ candidate' = 0
    /\ Goto("socket")
    /\ UNCHANGED <<stop, welcomed, retry, book, job, setup, twitch>>

-----------------------------------------------------------------------------
(* The rest of a step without a socket.                                    *)

(* retry_at is first set by schedule_retry, so there is nothing to compare *)
(* with before the first loss: an AttributeError.                          *)
RetryUnset ==
    /\ pc = "socket" /\ socket = 0 /\ job.kind = "none" /\ retry = "unset"
    /\ Fatal("retry_unset")
    /\ UNCHANGED <<stop, socket, candidate, welcomed, retry, book, job, setup, twitch>>

(* Slip: no dial for a session that no source could use.                   *)
DialIfUsable == job.kind = "none" /\ retry = "due" /\ ~stop /\ failed # Sources

DialNow == job.kind = "none" /\ retry = "due" /\ ~stop

DialCold ==
    /\ pc = "socket" /\ socket = 0 /\ DialNow
    /\ job' = [NoJob EXCEPT !.kind = "cold", !.status = "dialing"]
    /\ Goto("top")
    /\ UNCHANGED <<stop, socket, candidate, welcomed, retry, book, setup, twitch>>

WaitForSocket ==
    /\ pc = "socket" /\ socket = 0 /\ ~DialNow
    /\ job.kind = "none" => retry # "unset"
    /\ Goto("top")
    /\ UNCHANGED <<stop, socket, candidate, welcomed, retry, book, job, setup, twitch>>

(* The rest of a step with one: network error, keepalive or welcome limit. *)
SocketLost ==
    /\ pc = "socket" /\ socket # 0
    /\ Lose(failed, {})
    /\ UNCHANGED <<stop, welcomed, retry, job, setup>>

NoFrame ==
    /\ pc = "socket" /\ socket # 0 /\ inbox[socket] = << >>
    /\ Goto("top")
    /\ UNCHANGED <<stop, socket, candidate, welcomed, retry, book, job, setup, twitch>>

HasFrame == pc = "socket" /\ socket # 0 /\ inbox[socket] # << >>

Read == Head(inbox[socket])

Consume ==
    /\ inbox' = [inbox EXCEPT ![socket] = Tail(@)]
    /\ UNCHANGED <<open, home, subs>>

(* A frame read after the stop is thrown away.                             *)
FrameAfterStop ==
    /\ HasFrame /\ stop
    /\ Consume
    /\ Goto("top")
    /\ UNCHANGED <<stop, socket, candidate, welcomed, retry, book, job, setup>>

Acceptable(frame) == IF welcomed THEN frame.kind \notin {"junk", "welcome"}
                                 ELSE frame.kind = "welcome"

FrameInvalid ==
    /\ HasFrame /\ ~stop /\ ~Acceptable(Read)
    /\ Consume
    /\ Fatal("protocol")
    /\ UNCHANGED <<stop, socket, candidate, welcomed, retry, book, job, setup>>

(* Any other frame than a reconnect request.  The setup thread is started  *)
(* after the first frame, which is the welcome.                            *)
Receive ==
    LET bad == failed \cup RevokedIn(<<Read>>)
    IN  /\ HasFrame /\ ~stop /\ Acceptable(Read) /\ Read.kind # "reconnect"
        /\ Consume
        /\ welcomed' = TRUE
        /\ failed' = bad
        /\ IF worker.state # "none" THEN Goto("top") /\ UNCHANGED worker
           ELSE IF bad = Sources THEN Fatal("no_usable_subscriptions") /\ UNCHANGED worker
           ELSE Goto("top") /\ StartWorker(bad)
        /\ UNCHANGED <<stop, socket, candidate, retry, ids, job, notices, crashed>>

Requested == Read.of

Reconnect == HasFrame /\ ~stop /\ Acceptable(Read) /\ Read.kind = "reconnect"

(* request_handover: the URL being dialed again, and nothing changes.      *)
ReconnectAgain ==
    /\ Reconnect /\ job.kind # "none" /\ job.url = Requested
    /\ Consume
    /\ Goto("top")
    /\ UNCHANGED <<stop, socket, candidate, welcomed, retry, book, job, setup>>

(* Another URL, or a request before every subscription was tried.          *)
ReconnectRefused ==
    /\ Reconnect
    /\ IF job.kind # "none" THEN job.url # Requested ELSE ~SetupComplete
    /\ Lose(failed, {})
    /\ UNCHANGED <<stop, welcomed, retry, job, setup>>

DialHandover ==
    /\ Reconnect /\ job.kind = "none" /\ SetupComplete
    /\ Consume
    /\ job' = [NoJob EXCEPT !.kind = "handover", !.status = "dialing", !.url = Requested]
    /\ Goto("top")
    /\ UNCHANGED <<stop, socket, candidate, welcomed, retry, book, setup>>

-----------------------------------------------------------------------------
(* The rest of lose.  Until its join the setup thread has not been told.   *)

(* Slip: worker.finish does not set the worker's own stop event.           *)
Untold == worker

Told == [worker EXCEPT !.told = worker.state # "none"]

(* Slip: the retry is scheduled before the setup thread has ended.         *)
JoinJobOnly ==
    /\ pc = "joinJob" /\ job.status # "dialing"
    /\ job' = NoJob /\ Close(Result)
    /\ worker' = Told
    /\ retry' = "waiting"
    /\ Goto("top")
    /\ UNCHANGED <<stop, socket, candidate, welcomed, book, notices, crashed>>

JoinJob ==
    /\ pc = "joinJob" /\ job.status # "dialing"
    /\ job' = NoJob /\ Close(Result)
    /\ IF job.outcome \in {"auth", "internal"}
         THEN Fatal(job.outcome) /\ UNCHANGED worker
         ELSE worker' = Told /\ Goto("joinWorker")
    /\ UNCHANGED <<stop, socket, candidate, welcomed, retry, book, notices, crashed>>

WorkerEnded == worker.state \in {"none", "over"}

JoinWorker ==
    /\ pc = "joinWorker" /\ WorkerEnded
    /\ Take(TRUE)
    /\ IF crashed THEN Fatal("auth") /\ UNCHANGED <<worker, retry>>
       ELSE Goto("top") /\ worker' = NoWorker /\ retry' = "waiting"
    /\ UNCHANGED <<stop, socket, candidate, welcomed, job, twitch>>

-----------------------------------------------------------------------------
(* shutdown.                                                               *)

Shutdown ==
    /\ pc = "stopping"
    /\ stop' = TRUE
    /\ Close({socket} \ {0}) /\ socket' = 0
    /\ Goto("stopJob")
    /\ UNCHANGED <<candidate, welcomed, retry, book, job, setup>>

StopJob ==
    /\ pc = "stopJob" /\ job.status # "dialing"
    /\ job' = NoJob /\ Close(Result)
    /\ worker' = Told
    /\ Goto("stopWorker")
    /\ UNCHANGED <<stop, socket, candidate, welcomed, retry, book, notices, crashed>>

(* A late fatal notice is caught: it only costs the clean exit status.     *)
StopWorker ==
    /\ pc = "stopWorker" /\ WorkerEnded
    /\ Take(TRUE)
    /\ worker' = NoWorker
    /\ Goto("ended")
    /\ UNCHANGED <<stop, socket, candidate, welcomed, retry, job, twitch>>

Ended == pc = "ended" /\ UNCHANGED vars

(* A signal, or the end of the duration.                                   *)
RequestStop ==
    /\ ~stop
    /\ stop' = TRUE
    /\ UNCHANGED <<pc, reason, socket, candidate, welcomed, retry, book, job, setup, twitch>>

-----------------------------------------------------------------------------
(* Time, the connection thread, the setup thread and Twitch.               *)

BackoffOver ==
    /\ retry = "waiting"
    /\ retry' = "due"
    /\ UNCHANGED <<pc, stop, reason, socket, candidate, welcomed, book, job, setup, twitch>>

Free == CHOOSE k \in Sockets \ open : TRUE

Answered(outcome, k) ==
    job' = [job EXCEPT !.status = "done", !.outcome = outcome, !.socket = k]

(* ConnectionJob._run.  A cold job has validated the token before it       *)
(* dials.  Twitch moves a session to the socket it has welcomed.           *)
DialWelcomed ==
    /\ job.status = "dialing" /\ Sockets # open
    /\ job.kind = "handover" => home # 0
    /\ \/ Answered("welcome", Free)
       \/ Answered("uncertain", Free)
    /\ open' = open \cup {Free}
    /\ home' = Free
    /\ UNCHANGED <<inbox, subs, loop, book, setup>>

(* It fails before or after its socket is open.                            *)
DialFailed(outcome, opened) ==
    /\ job.status = "dialing"
    /\ outcome = "auth" => job.kind = "cold" /\ ~opened
    /\ outcome = "bad" => opened
    /\ opened => Sockets # open
    /\ Answered(outcome, IF opened THEN Free ELSE 0)
    /\ open' = IF opened THEN open \cup {Free} ELSE open
    /\ UNCHANGED <<inbox, home, subs, loop, book, setup>>

(* SetupWorker._run: one POST after the other, then idle validation.       *)
Post(s) ==
    /\ worker.state = "setup" /\ worker.posting = {} /\ ~worker.told
    /\ s \in worker.todo
    /\ worker' = [worker EXCEPT !.posting = {s}]
    /\ UNCHANGED <<loop, book, job, notices, crashed, twitch>>

Posted(s, notice) ==
    /\ worker.state = "setup" /\ worker.posting = {s}
    /\ worker' = [worker EXCEPT !.posting = {}, !.todo = @ \ {s}]
    /\ notices' = [notices EXCEPT ![s] = notice]
    /\ subs' = IF notice = "ok" /\ home # 0 THEN subs \cup {s} ELSE subs
    /\ UNCHANGED <<loop, book, job, crashed, open, inbox, home>>

SetupDone ==
    /\ worker.state = "setup" /\ worker.todo = {}
    /\ worker' = [worker EXCEPT !.state = "idle"]
    /\ UNCHANGED <<loop, book, job, notices, crashed, twitch>>

(* It sees that it has been told to stop.                                  *)
WorkerStops ==
    /\ worker.told /\ worker.state \in {"setup", "idle"} /\ worker.posting = {}
    /\ worker' = [worker EXCEPT !.state = "over"]
    /\ UNCHANGED <<loop, book, job, notices, crashed, twitch>>

(* A fatal answer to a POST, or any failure of the idle validation.        *)
WorkerCrashes ==
    /\ worker.state = "idle" \/ worker.posting # {}
    /\ worker' = [worker EXCEPT !.state = "over", !.posting = {}]
    /\ crashed' = TRUE
    /\ UNCHANGED <<loop, book, job, notices, twitch>>

Deliver(frame) ==
    /\ home # 0
    /\ Len(inbox[home]) < MaxFrames
    /\ inbox' = [inbox EXCEPT ![home] = Append(@, frame)]
    /\ UNCHANGED <<loop, book, job, setup, open, home>>

Send(frame) ==
    /\ frame.kind \in {"plain", "junk", "reconnect"}
    /\ Deliver(frame) /\ UNCHANGED subs

Revoke(s) ==
    /\ s \in subs
    /\ Deliver(Frame("revoke", s)) /\ subs' = subs \ {s}

-----------------------------------------------------------------------------
Between == Step \/ LeaveLoop \/ ForceGap

Clock == ClockUncertain \/ ClockUncertainInJob

Connection ==
    \/ JobPending \/ HandoverLate \/ JobStopped \/ JobFatal
    \/ ColdFailed \/ ColdDone \/ HandoverFailed
    \/ \E n \in 0..MaxFrames : DrainFailed(n) \/ Drain(n)
    \/ SwitchStopped \/ SwitchLate \/ Switch

Reading ==
    \/ RetryUnset \/ DialCold \/ WaitForSocket
    \/ SocketLost \/ NoFrame \/ FrameAfterStop \/ FrameInvalid \/ Receive
    \/ ReconnectAgain \/ ReconnectRefused \/ DialHandover

Ending == JoinJob \/ JoinWorker \/ Shutdown \/ StopJob \/ StopWorker

Loop == Between \/ Connection \/ Reading \/ Ending

Dial ==
    \/ DialWelcomed
    \/ \E outcome \in {"refused", "bad", "auth", "internal"}, opened \in BOOLEAN :
            DialFailed(outcome, opened)

WorkerRuns ==
    \/ \E s \in Sources : Post(s) \/ (\E notice \in {"ok", "error"} : Posted(s, notice))
    \/ SetupDone \/ WorkerStops

Twitch == (\E frame \in Frames : Send(frame)) \/ (\E s \in Sources : Revoke(s))

Next == Loop \/ Clock \/ Dial \/ WorkerRuns \/ WorkerCrashes \/ Twitch \/ BackoffOver \/ RequestStop \/ Ended

Spec == Init /\ [][Next]_vars

(* The loop takes its steps; its calls and the threads' calls have time    *)
(* limits; the backoff runs down.  Twitch and the operator owe nothing.    *)
FairSpec ==
    /\ Spec
    /\ WF_vars(Loop) /\ WF_vars(Dial) /\ WF_vars(WorkerRuns) /\ WF_vars(BackoffOver)

-----------------------------------------------------------------------------
(* Properties.                                                             *)

(* "Never overlap old token work with new authorization or setup": the     *)
(* setup thread and a cold connection job, which validates the token, are  *)
(* never alive together.  TokenManager's lock orders single calls only.    *)
TokenWorkNeverOverlaps ==
    ~(worker.state \in {"setup", "idle"} /\ job.kind = "cold" /\ job.status = "dialing")

(* One socket in use and at most one replacement; every open socket is     *)
(* held by someone who will close it, and none survives the shutdown.      *)
SocketsAreHeld ==
    /\ open \subseteq {socket, candidate, job.socket}
    /\ candidate # 0 => socket = 0 /\ job.socket = 0
    /\ pc = "ended" => open = {}

(* Sources whose revocation waits in a socket that will be read.           *)
Unread ==
    {s \in Sources : \E k \in {socket, candidate, job.socket} \ {0} : s \in RevokedIn(inbox[k])}

(* What the loop reports as confirmed, Twitch has enabled in the present   *)
(* session, unless its revocation is unread (eventsub_recovery.py):        *)
(* late answers, drains, handovers and losses never leave a stale source.  *)
ConfirmedIsSubscribed ==
    pc \in {"top", "job", "switch", "socket"} /\ ~stop
        => ids \ failed \subseteq subs \cup Unread

(* Whatever happens to its sockets the loop keeps the abstract ledger: a   *)
(* handover is invisible, a loss empties it, and bad sources stay bad.     *)
InSession == socket # 0 \/ pc = "switch"

Ledger == INSTANCE SessionLedger
    WITH up <- InSession, confirmed <- IF InSession THEN ids ELSE {}, bad <- failed

KeepsLedger == Ledger!Spec

(* A loop without a socket dials again or ends; it never just waits.       *)
LossIsRetried ==
    socket = 0 ~> (job.kind = "cold" \/ socket # 0 \/ stop \/ pc = "ended")

(* Once stopped, every thread is waited for and the loop ends.             *)
StopEnds == stop ~> pc = "ended"

(* What the loop still has to do once it is stopped: the places it passes, *)
(* and those of one loss more while there is something left to lose.       *)
Passes(place) == CASE place = "job"        -> 9 [] place = "switch"   -> 8
                   [] place = "socket"     -> 7 [] place = "joinJob"  -> 6
                   [] place = "joinWorker" -> 5 [] place = "top"      -> 4
                   [] place = "stopping"   -> 3 [] place = "stopJob"  -> 2
                   [] place = "stopWorker" -> 1 [] OTHER              -> 0
Losable == pc \in {"top", "job", "switch", "socket"}
           /\ (socket # 0 \/ job.kind # "none" \/ worker.state # "none")
Left == Passes(pc) + IF Losable THEN 10 ELSE 0

(* A stopped loop takes nothing up again: no socket, job or setup thread   *)
(* is begun after the stop, and each move of the loop is one less to its   *)
(* end, whatever fails on the way (step, lose and shutdown).               *)
TakesUpNothing ==
    /\ socket = 0 => socket' = 0
    /\ job.kind = "none" => job'.kind = "none"
    /\ worker.state = "none" => worker'.state = "none"

StopIsStraight ==
    [][stop => TakesUpNothing /\ Left' <= Left /\ (pc' # pc => Left' < Left)]_vars

(* Between two steps a loop that has lost its socket has a retry to wait   *)
(* for, so the comparison that fails before the first schedule_retry is    *)
(* only ever reached after a stop, in a handover that the stop has cut     *)
(* short (complete_job, step).                                             *)
RetryIsSet ==
    /\ pc \in {"top", "job", "socket"} /\ socket = 0 /\ ~stop => retry # "unset"
    /\ reason = "retry_unset" => stop

(* Without an external guard one socket at most is left open, and only by  *)
(* a process that ends because its clocks disagreed: the reading taken     *)
(* between the connection thread's result and the try block that closes it *)
(* (sample, complete_job).                                                 *)
Leak == open \ {socket, candidate, job.socket}

LeakIsLast ==
    /\ Leak # {} => /\ ~External /\ reason = "uncertain"
                    /\ pc \in {"stopping", "stopJob", "stopWorker", "ended"}
    /\ \E k \in Sockets : Leak \subseteq {k}

(* Why they hold: the inductive strengthening of the safety properties.    *)
(* Where the loop is says which of socket, candidate and job it holds; the *)
(* setup thread belongs to a session, so there is none when a cold job is  *)
(* started, and none is started before that job's socket is in use.        *)
Places ==
    /\ candidate # 0 <=> pc = "switch"
    /\ pc \in {"switch", "joinJob", "joinWorker", "stopJob", "stopWorker", "ended"}
        => socket = 0
    /\ pc \in {"switch", "joinWorker", "stopWorker", "ended"} => job.kind = "none"

JobRoles ==
    /\ job.kind = "none" <=> job.status = "none"
    /\ job.status # "done" => job.socket = 0
    /\ job.outcome = "welcome" => job.socket # 0
    /\ job.kind = "cold" => socket = 0 /\ worker.state = "none"
    /\ job.kind = "handover" /\ pc \in {"top", "job", "socket"} => socket # 0

WorkerRoles ==
    /\ pc \in {"top", "job", "socket"} /\ socket = 0 /\ ~stop => worker.state = "none"
    /\ worker.posting # {} => worker.state = "setup"
    /\ worker.posting \subseteq worker.todo

Held == External => open \subseteq {socket, candidate, job.socket}

RecoveryInv == TypeOK /\ Places /\ JobRoles /\ WorkerRoles /\ Held

(* Why ConfirmedIsSubscribed holds: outside a session nothing is confirmed *)
(* or on its way to be; in one, Twitch delivers to a socket the loop holds,*)
(* and to the new one as soon as it has welcomed it.                       *)
InStep == pc \in {"top", "job", "switch", "socket"} /\ ~stop

Quieted ==
    /\ worker.state = "none" => notices = Quiet
    /\ pc \in {"joinJob", "joinWorker"} => ids = {}
    /\ InStep /\ ~InSession => ids = {}

Homed ==
    InStep =>
        /\ {socket, candidate, job.socket} \ {0} \subseteq open
        /\ socket # 0 => job.socket # socket
        /\ InSession => home \in {socket, candidate, job.socket} \ {0}
        /\ job.outcome = "welcome" => home = job.socket
        /\ pc = "switch" => home = candidate

Followed == InStep => (ids \cup Oks) \ failed \subseteq subs \cup Unread

SessionInv == Quieted /\ Homed /\ Followed

(* What the documents say and the code does not do.                        *)

(* "Clean stop / duration: ... exit 0": a stop with nothing wrong does not *)
(* end in an internal error.                                               *)
StopIsClean == reason # "retry_unset"
=============================================================================
