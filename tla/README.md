# Stream Pulse in TLA+

A verification development of Stream Pulse: a collector that polls Twitch for
one channel's broadcast, captures chat, raids and follows over EventSub, and
writes everything, with evidence of its own health, to PostgreSQL; and a
post-stream workflow that turns a closed broadcast into a reviewed analysis.
The modules are written from the Python and SQL sources, with
`docs/collection-policy.md`, `docs/merged-collector-design.md` and the tests as
the statement of what they are for.

## 1. The system

One process collects. Its main thread, the *coordinator*, steps four times a
second; one worker thread makes a poll request, one validates and creates
EventSub subscriptions, one opens sockets, one makes the presence and raid
context requests. Only the coordinator touches the database. The threads hand
over results; nothing else is shared but the token manager, whose lock lets one
call in at a time.

| Part | State it keeps | Operations | Talks to |
| --- | --- | --- | --- |
| `PollingCollector` (`collect_stream.py`) | tracked stream, last success, clock generation, poll schedule, heartbeat schedule | `start`, `step`, `_save`, `_check_stale`, `_invalidate_clock`, `run`, `_stop_run` | all the others |
| `PollWorker` | thread, result | `start`, `_poll`, `take`, `finish` | Twitch, token manager |
| `ClockGuard` (`clock_guard.py`) | previous reading | `sample`, `_recover_utc` | calls back `_invalidate_clock` |
| `LiveStatus` (`live_status.py`) | stream, eligible since, last poll tick | `poll_live`, `poll_failed`, `poll_offline`, `chat_stream_id` | asked by `ChatSink` |
| `RecoveringProbe` (`eventsub_recovery.py`) | socket, connection job, setup worker, handover, retry schedule | `step`, `lose`, `complete_job`, `request_handover`, `force_gap`, `shutdown`, `run` | session, router |
| `SessionReadiness` (`eventsub.py`) | session id, confirmed subscriptions, failed sources, liveness | `accept`, `setup_result`, `check_liveness` | probe |
| `SetupWorker` (`check_eventsub.py`) | thread, queue of notices | `start`, `take`, `finish` | Twitch, token manager |
| `EventRouter` (`eventsub_router.py`) | ready sources, open gap, storage latch | `begin`, `observe`, `transport_lost`, `dispatch`, `stop` | sinks, database |
| `EventSink`, `RaidSink`, `FollowSink`, `ChatSink` (`event_sink.py`) | transport ready, bad notification held, polling state, last health row | `begin`, `transport_ready`, `transport_error`, `submit`, `stop`, `polling_*` | database, `LiveStatus` |
| `EnhancedWorker` and the presence and raid context halves of `PollingCollector` | active snapshot, raid queue | `_begin_presence_if_due`, `_handle_*_result`, `_advance_enhanced`, `_shutdown_enhanced` | Twitch, database |
| `TokenManager` (`twitch_auth.py`) | access and refresh token, validation time, blocked | `validate_if_due`, `_refresh`, `helix_*` | token file, Twitch |
| `DatabaseWriter` (`database.py`, `sql/`) | the rows | one transaction per method | PostgreSQL |
| Standalone EventSub collector (`collect_eventsub.py`) | run, heartbeat | `collect`, `Heartbeat` | probe, database |
| Post-stream workflow (`post_stream.py`, `sql/016`) | execution rows, manifest files | `prepare`, `record_refresh`, `record_review` | PostgreSQL, files |

What is hard, and what each part has to get right:

* **Clocks.** Every decision rests on two clocks, a suspend-aware elapsed one
  and UTC. The machine sleeps, UTC is corrected backwards by a second or two,
  and the worker threads read the clock without the guard. A poll must never
  count across a discontinuity; a heartbeat or a stop must not be refused by the
  database because time went back.
* **Eligibility.** A chat message is stored only while a live broadcast has been
  observed, committed and reported healthy. Four places hold a piece of that
  fact, and they change at different moments of `_save`.
* **Health evidence.** One row sequence per source is all an analyst sees. Two
  independent causes (transport, bad notification) and, for chat, the polling
  state share it. A good row must never outlive what it rests on; a revocation
  must stay visible; an outage must be one gap row.
* **Failure in the middle.** A write can fail for one of several sinks; a
  subscription can fail for one of several sources; a revocation can overtake
  the acknowledgement it revokes; a directed handover can race a loss.
* **Ends.** A clean stop, a fatal error, a storage failure and a crash must
  leave rows that tell them apart, and every thread must be waited for.

## 2. Modules

| Module | Models | Status |
| --- | --- | --- |
| `EventCapture` | session, router and sinks: health rows and gap rows | checked, proved |
| `GapLedger` | abstract: outages, or attempts, follow one another | refined by `EventCapture` and `EnhancedCollection` |
| `EventCaptureProofs` | inductive invariant, safety theorems, two refinements | |
| `MCEventCapture` | instances for TLC | |
| `PollingCollector` | coordinator's polling half, clock guard, live status, poll worker | checked, proved |
| `Broadcast` | abstract: what polling tells the other halves of the coordinator | refined by `PollingCollector` and `EnhancedCollection` |
| `PollingCollectorProofs` | inductive invariant, safety theorems, refinement | |
| `MCPollingCollector` | clock advances for TLC | |
| `SocketRecovery` | the socket loop with its connection and setup threads | checked, proved |
| `SessionLedger` | abstract: what the loop promises about subscriptions | refined by `SocketRecovery` and `EventCapture` |
| `SocketRecoveryProofs` | inductive invariant, safety theorems, refinement | |
| `MCSocketRecovery` | instances for TLC | |
| `EnhancedCollection` | presence snapshots and raid context: worker, queue, rows | checked, proved |
| `EnhancedCollectionProofs` | inductive invariant, safety theorems, two refinements | |
| `MCEnhancedCollection` | instances for TLC | |
| `TokenManager` | the token manager, its file, the authorization helper and Twitch's side | checked, proved |
| `TokenManagerProofs` | inductive invariant, safety theorems | |
| `QualityGate` | `assess_quality` as operators over the evidence of a stream | checked, proved |
| `GateWalk` | evidence that gets worse, and the promise of the gate about it | checked, proved |
| `QualityGateProofs` | where the gate is monotone, where it is not, and that it hides no doubt | |
| `PostStream` | the workflow's commands as processes, the row and the files of each analysis | checked, proved |
| `ReviewLedger` | abstract: what the rows of an analysis promise | refined by `PostStream` |
| `PostStreamProofs` | inductive invariant, safety theorems, refinement | |
| `MCPostStream` | evidence and history for TLC | |

The four modules of the collector meet at calls, not at shared variables. The
coordinator's clock gap (`InvalidateClock`) is `ForceGap` of the loop; the loop's
loss, switch and fatal error are `Lose`, `Reconnect`, `Handover` and `Fatal` of
the capture; the polling states the coordinator tells the chat sink (`chat`) are
`Polling` of the capture. The whole polling half is one action of
`EnhancedCollection` (`PollSaved`, `PollInDoubt` and their like), and the clock
gap is its `Gap`. Two abstract specifications tie modules that meet: `Broadcast` is
implemented by `PollingCollector` and by the polling half as `EnhancedCollection` has
it, so that `tracked`, `live` and `generation` mean the same in both; `SessionLedger`
is implemented by the loop of `SocketRecovery` and by the session of `EventCapture`.
(That `EnhancedCollection` allows polling every step `PollingCollector` can take is
by construction, and no theorem.) In each module the other side may act at any moment the code
allows. `TokenManager` is what each thread calls for a request; the other modules
see of it only that a request succeeds, fails or is refused, and
`TokenWorkNeverOverlaps` of `SocketRecovery` is about the calls, not the tokens.
`PostStream` EXTENDS `QualityGate`: a command judges the evidence it has read with
`Verdict`. It shares only the database with the collectors, which appear in it as
`Collect`.

## 3. How the modules correspond to the code

**EventCapture.** One action per call the capture loop makes. `Tick` is the head
of `step` (`check_liveness` late, then `observe`), `EnterGrace` the moment at
which a keepalive is late but within its grace, `Keepalive`, `Notification` and
`Revocation` a frame through `accept` and `dispatch`, `SetupResult` one notice of
the setup worker, `Lose` `transport_lost` with the session reset, `Handover` the
drain and switch of a directed reconnect. Each includes every `_reconcile` the
call reaches. A write may fail: the action picks the set `lost` of sources (and
`gapLost` for the gap row) whose statement failed, which sets the latch.
`health[s]` is the last committed reason code, which determines the status
column; a row is written only when it changes, as `_set_health` does. `polling`
is what the coordinator last told the chat sink. Message contents are a verdict,
valid or not. The merged collector stops by one statement for all (`MultiStop`).
The standalone run ends in two parts: the `finally` block of the loop stops one
sink after another, after a stop and after a fatal error alike (`RouterStop`), or
is kept from it by its own clock reading, which is swallowed there
(`RouterUnstopped`); then `collect` looks at the latch once more (`StopRequired`)
and closes the run (`CloseRun`), with `closed` the `stopped_at` of the run and a
confirmation that may not arrive. `HeartbeatFails` is the one way in which
`Heartbeat` matters to the rest: a check-in that cannot be written latches.

**PollingCollector.** `step` reads the guarded clock again and again. The code
between two readings is one action; the reading before it is another (`Sample`,
`Recover`), in which any advance of the clock may have happened. `at` names the
piece that comes next, `mode` says whether a reading is due, being recovered or
done. The worker stamps its result with its own reading (`Answer`), which is
where the clock may be ahead of `previous`. The statements of `database.py` are
modelled with the conditions that refuse them (`Refused`: an UPDATE that matches
no row). `StorageFailed` may strike wherever a statement runs and ends the
process.

**SocketRecovery.** `pc` is where the loop may block: the head of a step, the
result of a connection job, the closing of an old socket in a handover
(`switch`), a read, the two joins of a loss, the two joins of a shutdown. The
connection thread (`Dial`), the setup thread (`WorkerRuns`) and Twitch act
between any two of them. A socket has an inbox; Twitch's session has a socket it
delivers to and a set of enabled subscriptions. Deadlines are nondeterministic:
wherever the code compares with a limit, either side may be taken. Reading a
frame, the early returns after a stop, and the failures of each step are actions
of their own.

**EnhancedCollection.** A step of the coordinator is a sequence of pieces, `at`
naming the next: the polling half, the socket pump (where a raid may arrive), the
worker's answer, the look at the active snapshot, and what may begin or be asked
for. The code between two clock readings is one action, in which the connection
may fail after the row is committed and before the health row that follows it.
Time is left out: a timer is a flag that some reading finds expired
(`PresenceExpires`, `RetryExpires`), and any reading may find a gap. The polling
half is one action with every outcome `PollingCollector` allows it. `Refuse` is
the `StorageError` of a statement that finds its row final (`NeverRefused` says
that this does not come up), and `Early` that of a context row dated before its
request, which does: `FinalizeContext` may always end in it. `AskStop` is the stop
event, and the duration reached. The shutdown settles one row after another
(`InterruptPresence`, `InterruptRaid`), and a write may fail between two. A page
is its number; `members` holds pairs of a snapshot and a page, so that a page
counted for the wrong snapshot shows.

**TokenManager.** An operation holds the lock from its first look at `_blocked` to
its return, so one operation is under way at most: `op` is `validate_if_due`
("due", `has_scope` included) or `_helix_request` ("helix"), `at` the request
whose answer it waits for, `attempt` the first or the second request of
`_helix_request`. `Refused` is the 401 that starts `_refresh`, from
`validate_if_due` or from the request; `Save` the replaced file and the tokens
taken after it; `Block` the places that set `_blocked`. Twitch answers in a step
of its own (`AnswersRefresh` and its like put the answer on `wire`), and
`NoAnswer`, `Crash` or `SaveFails` may come between its answer and its effect.
`save_tokens` replaces the file by `os.replace`, so the file is the old pair or the
new one and never a part. A refresh may return the refresh token it was asked with
or a new one, in whose place the old one dies. `Authorize` is a run of the helper
to its end while no collector runs, which the runbooks ask for. Tokens are names;
one that nobody holds any more may be issued again, so four are enough for any
number of refreshes. `confirmed`, `applied` and `stranded` are ghosts.

**QualityGate.** Each aggregate of `load_evidence` is a natural number, a source row
what `analytics_quality_source` can return, and each branch of `assess_quality` a
condition; a reason is the condition it is given for. `Worse` compares two pieces
of evidence of the same configuration, and `GateWalk` lets evidence get worse, one
piece after another. The walk and the commands share no variable; `MCPostStream`
runs either the one or the other in each behaviour.

**PostStream.** One stream. A command is a process with a connection: `at` is the
statement or the file it comes to next, `online` whether the server still keeps
its session. `data` numbers what the database holds, and so stands for the input
fingerprint and the analysis ID that is made of it. The advisory lock belongs to
the session: `Disconnect` frees it while the process goes on to its next statement
(`Broken`), writing its files first. A manifest is its `workflow_status` and
whether the refresh is in it; `copy` is the manifest a record command has read.
`Update` is the statement that looks at nothing but the analysis ID, `Clashes` the
CHECK of the table that refuses it, `WriteBack` the replaced manifest. `Fail` may
strike anywhere. `disturbed` is a ghost: the analyses whose manifest a second
record command, a prepare without its session, or a failure before the write got
at.

**GapLedger**, **SessionLedger**, **Broadcast** and **ReviewLedger** have no control
at all: they say what a reader of the gap rows or of the snapshots, the owner of the
subscriptions, the two halves of the coordinator, and a reader of the analysis rows
may rely on.

## 4. Runs

| Run | Shows | States |
| --- | --- | --- |
| `capture_merged` | A good health row is always backed by the session; every outage has one gap row; revocations stay; gap rows refine `GapLedger` | 666,339 |
| `capture_standalone` | Two plain sources, every end of the session (stop, fatal error, clock doubt, a lost write anywhere): a closed run has told all of its sources or, after an exception, none; a source that stays live gets its resting row | 192,587 |
| `polling_unruly` | Eligibility, heartbeats and snapshots survive every clock correction; no poll counts across a gap | 2,078,067 |
| `polling_asleep` | Two streams and a sleeping machine: staleness is reported before any healthy row, a stop ends | 891,604 |
| `recovery_merged` | Threads apart, sockets held, confirmed sources true, `SessionLedger` refined | 2,619,483 |
| `recovery_standalone` | The loop any clock doubt may end, a drain that meets its limit; a loss is retried, a stop ends | 273,253 |
| `enhanced_shared` | Two snapshots and two raids share one worker and a queue of one: each row is settled once, by its own answer, and counts its attempts | 2,058,617 |
| `enhanced_fair` | A snapshot of two pages and a raid that may be retried: every attempt is settled | 104,700 |
| `token_manager` | Refreshes, refusals, lost answers, crashes and restarts: nothing is sent on an unconfirmed token or carried out twice, the file can be started from, every operation returns | 175,020 |
| `post_stream` | Two commands at a time, lost sessions and failures: rows keep `ReviewLedger`, packets follow rows, the lock is freed; evidence that gets worse is never judged better, the presence metric aside | 155,654 |

The two others, `polling_rollback` and `recovery_stop_handover`, are violations:
each states what a document says and the code does not do. They are in section 8.
A property is checked by one run, the one whose bounds make it hardest; the other
runs of a module ask their own questions. The modules state more properties than
the runs list: those that section 5 proves and no run names were checked by TLC on
the instances of the module's runs before they were proved, and need no run of
their own.

**Bounds, and why they are enough.** Two sources show every asymmetry the code
has between sources (the loops visit them one by one, and one may fail); chat and
one plain source are the two kinds of sink. Two gaps let a second outage meet the
resolved row of the first. Two streams are what a change of stream needs. The
limits keep the order of the real ones, `BeatEvery <= PollEvery < Stale` with the
tolerance below `Stale`, and clock advances reach and cross each of them;
`Horizon` leaves room for a gap and a poll after it, `Drift` for a correction of
either sign. Of sockets two may be open at the same time and a third name shows
one that nobody holds. Two frames are one to read and one to find behind it;
`DrainLimit = 1` makes the drain meet its limit, `2` lets it end below. In
`polling_asleep` the horizon admits one gap and `MaxGenerations` allows one, so
the bounds never keep the coordinator from stepping, which `StopEnds` needs.
Of the enhanced half, two snapshots show an answer that comes after its snapshot
was settled and the next one begun, two raids and a queue of one show a full
queue and a retry ahead of it, and two pages the way from one page to the next;
`MaxGenerations` stops gaps and `MaxSnapshots` snapshots, and neither keeps the
coordinator from stepping. A queue over its limit needs three raids: that part of
the invariant is proved, and the runs are too small to reach it.
Four token names are the pair in use, the pair that replaces it, and what the file
or the last validation still hold. Two commands are what the lock and the record
commands need to collide, and two versions of the data what an analysis of the old
data needs to meet the new; the first is blocked, the second publishable. The
evidence the gate compares (`MCCases`) is clean evidence with any one or two
deficiencies of the stream, at the thresholds of 90 and 30 seconds and one beyond,
and with any source row of zeros and ones; the theorem is for all numbers.

**Fairness.** Weak fairness of the coordinator and of the capture loop: they run
`while` loops with a pause and every call in them has a timeout (socket
operations, `recv`, statement and HTTP timeouts). Weak fairness of each worker's
request: the same timeouts. Weak fairness of `BackoffOver`: time passes. In
`EnhancedCollection` fairness is strong where the coordinator's next piece turns
an action off and on again: the answer (a request has a timeout of 20 seconds),
the retry that comes due, and the two requests, which find the lane free again
and again because polls come a minute apart and are answered. In `TokenManager` the steps of an operation are
fair (every request has a timeout of 20 seconds, and `NoAnswer` is that timeout); in
`PostStream` those of a command that is not killed (statement and lock timeouts,
and no command waits for another). Nothing is assumed of Twitch, of the clock
beyond time passing, or of the operator; failures are never fair.

## 5. Proofs

Each `...Proofs` module proves its module's invariant for all values of the
constants under the module's named assumption, then the safety properties from
it. None of the safety properties is inductive alone; the strengthenings are
conjunctions of named parts, and TLC checks them too.

* `CaptureInv` = `TypeOK`, `Agreement` (router and sinks agree on what is ready,
  a source is owed a setup result or subscribed but not both), `Coverage` (a
  ready source is subscribed and outside any gap, revoked rows stand), `OneOpenGap`
  (the open gap is the last row). `Coverage` and `OneOpenGap` are claimed while
  writing is possible: after a failed write memory and rows may differ, and the
  process is on its way out. From it: `GoodHealthIsCovered`, `OutageIsRecorded`,
  `RevocationIsSticky`, and the refinements of `GapLedger` and
  `SessionLedger`. `CloseFollowsStops` is about the time after, and needs `CloseInv`:
  while the loop runs nothing is told and the run is open; once the stop is over, a
  latch that is still open vouches for every row of it. `ReadyIsReported` (a ready source reads as it should) needs one
  part more, `Fresh`, inductive given `CaptureInv`; `StepReports` follows from the
  head of a step alone.
* `PollInv` = `TypeOK`, `Beats` (heartbeat and stored observations lie behind the
  guarded clock, a running process has an open run), `InFlight` (what a poll in
  flight may still claim), `Saving` (what
  holds between the commits of `_save`), `Eligibility` (what an open `LiveStatus`
  rests on), `Staleness`. From it: `EligibleChatIsCovered`,
  `ChatFollowsLiveStatus`, `StaleIsReported`, `NeverRefused`, and the action
  properties `NoPollSpansAGap`, `SnapshotsInOrder`, `RecordsGoForward` and
  `StopIsStraight`. With `Dated` (an interval of eligibility began with a recorded
  observation) `NoReachBack`: the worker stamps its answers with an unguarded clock,
  and still chat is never claimed for a time already behind. The refinement of
  `Broadcast` reads `live` as what the chat sink was last told, between the saves.
* `RecoveryInv` = `TypeOK`, `Places` (where the loop is says which of socket,
  candidate and job it holds), `JobRoles` (a cold job runs only without a socket
  and without a setup thread, a handover only beside a socket), `WorkerRoles` (no
  setup thread between sockets), `Held` (with an external guard, every open
  socket has a holder). From it: `TokenWorkNeverOverlaps`, `SocketsAreHeld` for
  the merged collector, and the refinement of `SessionLedger`, which has one
  lemma per action saying what it shows of the ledger. `ConfirmedIsSubscribed` needs
  more: `SessionInv` = `Quieted` (outside a session nothing is confirmed or on its
  way to be), `Homed` (in one, Twitch delivers to a socket the loop holds, and to
  the new one as soon as it has welcomed it), `Followed` (the property itself, with
  the acknowledgements still in the queue counted as confirmed). It is inductive
  given `RecoveryInv`, with one lemma per action. Three more results delimit the
  faults of section 8: `LeakIsLast` (one socket at most is left open without a
  holder, by a standalone probe that its clocks end), `RetryIsSet` (the comparison
  with an unset `retry_at` is reached only after a stop) and `StopIsStraight`.
* `EnhancedInv` = `TypeOK`, `Ends` (what is over at each place of the stop),
  `ActiveIsOpen` (the active snapshot is the last and its row the only open one),
  `OneOwner`, `Attempts` (what a job knows of the requests sent before it),
  `AttemptsAreHonest`, `QueueIsBounded`, `Pages` (the next page waits or is being
  read, and all before it are gathered), `Whole` (a gap or another stream met by
  the active snapshot shows until it is looked at), `CompleteIsWhole`,
  `HealthyIsAvailable`, `HealthyRestsOnComplete`, `NeverRefused`,
  `CleanStopSettlesAll`. The steps are sorted into five kinds (`Mild` leaves jobs
  and rows alone, `Settling` settles the active snapshot, `Gathering`, `Raiding`,
  the answer), and every part has a lemma for each kind; most follow from a frame
  lemma that says what the part rests on. From it: `OneOwner`,
  `AttemptsAreHonest`, `QueueIsBounded` (a retry goes back ahead of a queue that
  may be full, and there is room for just one), `CompleteIsWhole`,
  `HealthyRestsOnComplete`, `NeverRefused` and `CleanStopSettlesAll`; the action
  properties `SettledForGood`, `PagesAdvance` and `StopIsStraight`; the refinements of
  `GapLedger`, by the snapshots as attempts that are open or settled, and of
  `Broadcast`, from which alone follows that what is live is tracked.
* `TokenInv` = `TypeOK`, `Flow` (which answers may be on the wire for what is under
  way), `Silence` (a blocked manager asks nothing), `OnDisk` (the tokens in use are
  in the file), `Validation` (a validation counts for the tokens it was of),
  `Once` (a second request follows only a refusal), `Rescue` (the refresh token
  Twitch accepts is missing from the file only on its way there). From it:
  `SentIsConfirmed`, `AppliedOnce`, `RestartCanRefresh`. `EffortIsBounded` and
  `OperationsAdvance` count the steps an operation has left: nineteen at most, each
  one less.
* `PostInv` = `TypeOK`, `Locking` (only the holder of the lock is connected and
  preparing), `Prepared` (what a prepare has written before it inserts),
  `RecordingInv` (a record command works on a row that has come as far as it
  needs), `Alone` (alone with an analysis it has its manifest in hand),
  `PacketFollowsRow`, `Fresh`. `Rank` orders the statuses; no step lowers the rank
  of a row, which is why a copy that was read before another command's update is
  never ahead of it. From it: `PacketFollowsRow` and the refinement of
  `ReviewLedger`, in which the CHECK behind `Clashes` does the work of the missing
  lock. Also `ManifestToRead` (a record command finds its file), `PacketsAdvance`
  (an undisturbed manifest never goes back) and `CommandsAdvance`.
* `GateMonotone` needs no invariant but that the evidence is evidence: a worse row
  never has a better state (`SourceState`), then the timeline, chat, raids and the
  comparison are no more available and the verdict is no better, for all counts. It
  says nothing of where a threshold lies: one moved by a second is as monotone.
  Chatter presence is not part of it, because the code is not monotone there;
  `PresenceRisesByFailure` proves that, with the evidence that shows it, and that
  there is no other way for the metric to rise (section 8).
  `NoSilentDoubt` is about one piece of evidence: the verdict and the availability of
  the metrics are computed by separate chains of conditions, and "publishable" never
  comes with a metric that is partial.

`NeverRefused` of `EnhancedCollection` is about rows found missing or settled, not
about their dates: `Early` ends a process, and the invariant says in what state.

`TypeOK` of every detailed module is a theorem of its own where it is not cited
through the invariant.

Only model-checked: liveness. Temporal reasoning under fairness needs ENABLED, which
the provers lack. For each liveness property the table says what is proved of it
without fairness: that no step leads away from the goal, so that what is left to
TLC is that the steps are taken.

| Only checked | Proved of it |
| --- | --- |
| `LiveIsReported` | `ReadyIsReported`, `StepReports`: one head of step reports all that is live |
| `StopEnds` (polling half) | `StopIsStraight`: no second pass after a stop |
| `StopEnds` (socket loop) | `StopIsStraight`: nothing is taken up after a stop, each move is one less |
| `LossIsRetried` | `RetryIsSet`: a loop that runs on without a socket has a retry to wait for |
| `SnapshotEnds` | `PagesAdvance`, `SettledForGood`: an attempt never goes back, or on after its end |
| `ContextEnds` | `AttemptsAreHonest`, `OneOwner`: two requests at most, and an open row has an owner |
| `OperationsEnd` | `EffortIsBounded`, `OperationsAdvance` |
| `LockIsFreed` | `CommandsAdvance` |

The two violated properties have no theorem, of course. That the standalone loop of
`SocketRecovery` holds its sockets is neither checked nor true: `LeakIsLast` is what
is true of it (section 8).

## 6. What the models leave out

* Message parsing and event rows: the verdict on a frame is nondeterministic.
* A frame arrives as soon as it is sent. With a delay the drain of a handover can
  miss a revocation that is on the wire, whatever the code does.
* Backoff lengths, keepalive seconds and the retry counter: only before and after.
* Twitch's own limits and the contents of its answers.
* Names of chatters and channels, the reported totals and the timestamps of the
  presence and raid context rows; that dates may get a context row refused is in
  (`Early`).
* `EventCapture` has one session at a time; which socket serves it is the business
  of `SocketRecovery`.
* Of the token manager, optional scopes and the identity in the file: a validation
  finds what is expected or does not. `Authorize` never overlaps a collector; two
  writers of the file are outside what the code promises ("Do not run concurrent
  token-file writers").
* Of the workflow, the numbers of the summary, the wording of briefing and reasons,
  the lookup by date (it refuses before anything is locked), the path of the export
  artifact, and streams that run concurrently: each has its own lock and rows. An
  input fingerprint is as good as the data, so a hash collision is left out.

## 7. Not modelled

* The composition of the four collector modules in one state machine. Each lets the
  others act at any moment the code allows, so what it shows holds in the
  composition; what only the composition could show (that the rows of polling and
  capture agree at every moment of a gap) needs the product of two state spaces of
  two million each.
* Event tables and stream metadata: inserts that nothing later reads or changes.
* The event-specific parsers are pure conversions of payloads, and only their
  verdict matters to the rest.
* The analytics views other than `analytics_quality_source`: queries over rows at
  one moment, which change no state.
* The dialogue of the authorization helper, the access check and the report
  generator: one-shot programs without behaviour over time.

## 8. Where code and documents part

| Run | Property | In short |
| --- | --- | --- |
| `polling_rollback` | `SmallRollbackIsSurvived` | A small UTC correction between the worker's reading and the coordinator's ends the process |
| `recovery_stop_handover` | `StopIsClean` | A stop during the close of a handover reads `retry_at` before it exists |

More was met while modelling that has no run of its own:

* A source whose subscription is refused keeps its `initializing` row:
  `setup_result` (`eventsub.py:203`) marks it failed in the session and emits a
  diagnostic, and no call reaches the sink (`docs/collection-policy.md:187`:
  "leaves unaffected sources collecting, with an explicit error for the failed
  source").
* After one sink's write has failed, the other sinks of the same call still write:
  `EventRouter` looks at `storage_failed` before its loops (`eventsub_router.py:76`),
  as does `PollingCollector._chat_polling` (`docs/merged-collector-design.md:184`:
  "latch: no further writes"). `CaptureInv` is stated for the time before.
* `prepare` reads the evidence and then the fingerprint (`post_stream.py:633` and
  `:638`). A row that comes in between is in the fingerprint and not in the
  verdict, and the analysis is then reused under that fingerprint: in the model a
  command judges version 1 and files its verdict under version 2, where it stays
  (`docs/milestone-2-post-stream-reporting.md:207`: "Changed inputs or definitions must
  produce a traceable new result.").
* Two record commands that overlap may leave the manifest behind its row, or
  replace an approval by a rejection; so may a failure between the row and the
  manifest, which no later command mends. These are the moves `ReviewLedger` allows
  and the analyses `disturbed` names.
* `chatter_presence` is "available" with complete snapshots although its source is
  `failed` or `disabled` in some run (`post_stream.py:237`;
  `docs/metric-dictionary.md:105-106`: "A disabled or failed source is unavailable,
  never zero."): `presence_state` looks at `partial` only. So the metric rises from
  `partial` to `available` when its source fails in one more run, which the theorem
  `PresenceRisesByFailure` shows; the verdict still warns of the source.
* When every EventSub source has failed, the next reconnect raises
  `no_usable_subscriptions` and ends the merged collector, polling included
  (`eventsub_recovery.py:141`); one loss during setup can bring it about, since
  the worker's POSTs may be refused for the dead session.
* In the standalone loop an uncertain clock at the head of `complete_job`
  (`eventsub_recovery.py:200`) leaves the new socket in a local variable that no
  one closes; the theorem on sockets is therefore stated for the external guard.
  `LeakIsLast` is proved without it: the process is on its way out, and the socket is
  the only one.
* The unset `retry_at` of `recovery_stop_handover` is met after a stop only: a loop
  that runs on has always set it (`RetryIsSet`).
* While a bad notification is held, `_reconcile` (`event_sink.py:150`) leaves the
  `network_error` row of an outage in place after the source is ready again
  (`docs/collection-policy.md:415`).
* The standalone loop's `finally` (`eventsub_recovery.py:376`) writes
  `orderly_shutdown` rows after a fatal `ProbeError` too, and `collect` closes the
  run (`docs/collection-policy.md:684`: "Fatal exits do not claim orderly shutdown").
  And when the reading of the clock in that block raises, no sink is told and the run
  is closed all the same (`database.py:630-632`: "whose sinks each write their own
  stopped/orderly_shutdown health before this final run close"). `CloseFollowsStops`
  allows just these two.
* A presence snapshot can span a stale episode and still be complete: the doubt of
  `_check_stale` is taken back by the answer saved in the same step, before
  `_advance_enhanced` looks (`docs/collection-policy.md:48`).
* `requested_at` of a raid context is an unguarded reading (`collect_stream.py:445`),
  `observed_at` a guarded one; after a small rollback of UTC that the guard rides out
  `CHECK (observed_at >= requested_at)` (`sql/015:16`) refuses the final row, and the
  `StorageError` (`database.py:455-456`) ends the process. In the model this is
  `Early`; since times are left out, it may happen to any context row.
* The gap rows have a like CHECK (`recovered_at >= detected_at`, `sql/009:5`), which a
  rollback may trip when the gap is resolved: one of the failed writes of
  `EventCapture` (`gapLost`).

## 9. What could come next

1. A composition of `PollingCollector` and `EventCapture` at the calls of section 2,
   small enough to check: chat is stored only under healthy rows of both
   `stream_poll` and `chat`, `on_gap` in the middle of a write sequence included.
2. The interval algorithms of the analytics views as operators, checked against a
   reference definition over small inputs: coverage subtracts gaps exactly once.
3. That every step of `PollingCollector` shows in `EnhancedCollection` as a step of
   its polling half, as a theorem: the other direction of what `Broadcast` gives.
