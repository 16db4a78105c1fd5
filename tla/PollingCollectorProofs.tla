----------------------- MODULE PollingCollectorProofs -----------------------
(***************************************************************************)
(* PollInv is inductive for all streams, limits and clocks, and the safety *)
(* properties of PollingCollector follow from it.                          *)
(***************************************************************************)
EXTENDS PollingCollector, TLAPS

(* The initial state is sound.                                             *)
LEMMA PollInitInv == Init => PollInv
<1> SUFFICES ASSUME Init PROVE PollInv
  OBVIOUS
<1> USE PollingAssumption DEF Init, NoResult, Reading
<1>1. TypeOK
  BY DEF TypeOK, LiveStates, ChatStates, StreamRows, Closed, Reasons, Kinds, Labels
<1>2. Beats /\ InFlight /\ Saving
  BY DEF Beats, Running, InFlight, Saving
<1>3. Eligibility
  BY DEF Eligibility
<1>4. Staleness
  BY DEF Staleness
<1>5. QED BY <1>1, <1>2, <1>3, <1>4 DEF PollInv

(* The run's row is inserted: its first check-in is the reading just taken.*)
LEMMA StartRunKeeps == ASSUME PollInv, StartRun PROVE PollInv'
<1> USE PollingAssumption DEF chatting, guards, job, history, Reading, Sampled,
        TypeOK, Goto, At, StartRun, PollInv
<1>1. TypeOK'
  BY DEF LiveStates, ChatStates, StreamRows, Reasons, Kinds, Labels
<1>2. Beats'
  BY DEF Running, Beats
<1>3. InFlight'
  BY DEF InFlight
<1>4. Saving'
  BY DEF Closed, Saving
<1>5. Eligibility'
  BY DEF Closed, Eligibility
<1>6. Staleness'
  BY DEF Healthy, Age, IsStale, Staleness
<1>7. QED BY <1>1, <1>2, <1>3, <1>4, <1>5, <1>6

(* The first health row.                                                   *)
LEMMA OpenRunKeeps == ASSUME PollInv, OpenRun PROVE PollInv'
<1> USE PollingAssumption DEF chatting, memory, schedule, guards, job, history,
        Reading, Sampled, TypeOK, Goto, At, OpenRun, PollInv
<1>1. TypeOK'
  BY DEF LiveStates, ChatStates, StreamRows, Reasons, Kinds, Labels
<1>2. Beats'
  BY DEF Running, Beats
<1>3. InFlight'
  BY DEF InFlight
<1>4. Saving'
  BY DEF Closed, Saving
<1>5. Eligibility'
  BY DEF Closed, Eligibility
<1>6. Staleness'
  BY DEF Healthy, Age, IsStale, Staleness
<1>7. QED BY <1>1, <1>2, <1>3, <1>4, <1>5, <1>6

(* One more look at staleness.                                             *)
LEMMA TopKeeps == ASSUME PollInv, Top PROVE PollInv'
<1> USE PollingAssumption DEF schedule, guards, job, history, Reading, Closed,
        Sampled, Age, TypeOK, Goto, At, IsStale, CheckStale, Top, PollInv
<1>1. TypeOK'
  <2>1. live' \in LiveStates /\ chat' \in ChatStates /\ health' \in Reasons
    BY DEF LiveStates, ChatStates, Reasons
  <2>2. staleReported' \in BOOLEAN
    BY Zenon
  <2>3. QED BY <2>1, <2>2 DEF Labels, Kinds, LiveStates
<1>2. Beats'
  BY DEF Running, Beats
<1>3. InFlight'
  BY DEF InFlight
<1>4. Saving'
  BY DEF Saving
<1>5. Eligibility'
  BY DEF Eligibility
<1>6. Staleness'
  BY DEF Healthy, Staleness
<1>7. QED BY <1>1, <1>2, <1>3, <1>4, <1>5, <1>6

(* A heartbeat is due or not; its UPDATE always finds a row to match.      *)
LEMMA BeatKeeps == ASSUME PollInv, Beat PROVE PollInv'
<1> USE PollingAssumption DEF memory, guards, job, history, Reading, Closed,
        Sampled, TypeOK, Die, Goto, At, Refused, Beat, PollInv
<1>1. TypeOK'
  BY DEF LiveStates, ChatStates, StreamRows, Reasons, Kinds, Labels
<1>2. Beats'
  BY DEF Running, Beats
<1>3. InFlight'
  BY DEF InFlight
<1>4. Saving'
  BY DEF Saving
<1>5. Eligibility'
  BY DEF Eligibility
<1>6. Staleness'
  BY DEF Healthy, Age, IsStale, Staleness
<1>7. QED BY <1>1, <1>2, <1>3, <1>4, <1>5, <1>6

(* Another look at staleness after the heartbeat.                          *)
LEMMA BeatenKeeps == ASSUME PollInv, Beaten PROVE PollInv'
<1> USE PollingAssumption DEF schedule, guards, job, history, Reading, Closed,
        Sampled, Age, TypeOK, Goto, At, IsStale, CheckStale, Beaten, PollInv
<1>1. TypeOK'
  <2>1. live' \in LiveStates /\ chat' \in ChatStates /\ health' \in Reasons
    BY DEF LiveStates, ChatStates, Reasons
  <2>2. staleReported' \in BOOLEAN
    BY Zenon
  <2>3. QED BY <2>1, <2>2 DEF Labels, Kinds, LiveStates
<1>2. Beats'
  BY DEF Running, Beats
<1>3. InFlight'
  BY DEF InFlight
<1>4. Saving'
  BY DEF Saving
<1>5. Eligibility'
  BY DEF Eligibility
<1>6. Staleness'
  BY DEF Healthy, Staleness
<1>7. QED BY <1>1, <1>2, <1>3, <1>4, <1>5, <1>6

(* A result leaves the worker.                                             *)
LEMMA TakeKeeps == ASSUME PollInv, Take PROVE PollInv'
<1> USE PollingAssumption DEF chatting, memory, schedule, guards, rows, history,
        Reading, Sampled, TypeOK, Goto, At, Take, PollInv
<1>1. TypeOK'
  BY DEF LiveStates, ChatStates, StreamRows, Reasons, Kinds, Labels
<1>2. Beats'
  BY DEF Running, Beats
<1>3. InFlight'
  BY DEF InFlight
<1>4. Saving'
  BY DEF Closed, Saving
<1>5. Eligibility'
  BY DEF Closed, Eligibility
<1>6. Staleness'
  BY DEF Healthy, Age, IsStale, Staleness
<1>7. QED BY <1>1, <1>2, <1>3, <1>4, <1>5, <1>6

(* A fatal result ends the process.                                        *)
LEMMA TakeFatalKeeps == ASSUME PollInv, TakeFatal PROVE PollInv'
<1> USE PollingAssumption DEF memory, schedule, guards, job, Reading, Closed,
        TypeOK, Die, At, CloseInDoubt, Fatal, TakeFatal, PollInv
<1>1. TypeOK'
  BY DEF LiveStates, ChatStates, StreamRows, Reasons, Kinds, Labels
<1>2. Beats'
  BY DEF Running, Beats
<1>3. InFlight'
  BY DEF InFlight
<1>4. Saving'
  BY DEF Saving
<1>5. Eligibility'
  BY DEF Eligibility
<1>6. Staleness'
  BY DEF Healthy, Age, IsStale, Staleness
<1>7. QED BY <1>1, <1>2, <1>3, <1>4, <1>5, <1>6

(* A late poll leaves eligibility closed.                                  *)
LEMMA DiscardKeeps == ASSUME PollInv, Discard PROVE PollInv'
<1> USE PollingAssumption DEF memory, schedule, guards, rows, Reading, Closed,
        Sampled, Age, TypeOK, NoResult, Goto, At, CloseInDoubt, Fatal, Late,
        InOrder, Discard, PollInv
<1>1. TypeOK'
  BY DEF LiveStates, ChatStates, StreamRows, Reasons, Kinds, Labels
<1>2. Beats'
  BY DEF Running, Beats
<1>3. InFlight'
  BY DEF InFlight
<1>4. Saving'
  BY DEF Saving
<1>5. Eligibility'
  BY DEF Eligibility
<1>6. Staleness'
  BY DEF Healthy, IsStale, Staleness
<1>7. QED BY <1>1, <1>2, <1>3, <1>4, <1>5, <1>6

(* A failed request leaves eligibility closed and an error row.            *)
LEMMA RequestFailedKeeps == ASSUME PollInv, RequestFailed PROVE PollInv'
<1> USE PollingAssumption DEF memory, schedule, guards, Reading, Closed, Sampled,
        Age, TypeOK, NoResult, Goto, At, CloseInDoubt, Late, InOrder,
        RequestFailed, PollInv
<1>1. TypeOK'
  BY DEF LiveStates, ChatStates, StreamRows, Reasons, Kinds, Labels
<1>2. Beats'
  BY DEF Running, Beats
<1>3. InFlight'
  BY DEF InFlight
<1>4. Saving'
  BY DEF Saving
<1>5. Eligibility'
  BY DEF Eligibility
<1>6. Staleness'
  BY DEF Healthy, IsStale, Staleness
<1>7. QED BY <1>1, <1>2, <1>3, <1>4, <1>5, <1>6

(* An observation out of order ends the process.                           *)
LEMMA InvalidObservationKeeps == ASSUME PollInv, InvalidObservation PROVE PollInv'
<1> USE PollingAssumption DEF memory, schedule, guards, job, rows, Reading,
        Closed, Age, TypeOK, Die, At, CloseInDoubt, Late, InOrder,
        InvalidObservation, PollInv
<1>1. TypeOK'
  BY DEF LiveStates, ChatStates, StreamRows, Reasons, Kinds, Labels
<1>2. Beats'
  BY DEF Running, Beats
<1>3. InFlight'
  BY DEF InFlight
<1>4. Saving'
  BY DEF Saving
<1>5. Eligibility'
  BY DEF Eligibility
<1>6. Staleness'
  BY DEF Healthy, IsStale, Staleness
<1>7. QED BY <1>1, <1>2, <1>3, <1>4, <1>5, <1>6

(* The offline observation is committed: eligibility is closed already.    *)
LEMMA SaveOfflineKeeps == ASSUME PollInv, SaveOffline PROVE PollInv'
<1>a. /\ streams \in StreamRows
      /\ streams' = [s \in Streams |-> IF s = tracked
                                       THEN [streams[s] EXCEPT !.offline = TRUE]
                                       ELSE streams[s]]
  BY DEF PollInv, TypeOK, SaveOffline
<1>b. streams' \in StreamRows
  <2>1. ASSUME NEW s \in Streams
        PROVE  streams'[s] \in [seen : BOOLEAN, newest : Int, offline : BOOLEAN]
    <3>1. streams[s] \in [seen : BOOLEAN, newest : Int, offline : BOOLEAN]
      BY <1>a DEF StreamRows
    <3>2. streams'[s] = IF s = tracked
                        THEN [streams[s] EXCEPT !.offline = TRUE] ELSE streams[s]
      BY <1>a
    <3>3. [streams[s] EXCEPT !.offline = TRUE]
             \in [seen : BOOLEAN, newest : Int, offline : BOOLEAN]
      BY <3>1
    <3>4. QED BY <3>1, <3>2, <3>3
  <2>2. QED BY <1>a, <2>1 DEF StreamRows
<1> USE PollingAssumption DEF schedule, job, Reading, Closed, Sampled, Age,
        TypeOK, Goto, At, Late, InOrder, Acceptable, SaveOffline, PollInv
<1>1. TypeOK'
  BY <1>b DEF LiveStates, Labels
<1>2. Beats'
  BY DEF Running, Beats
<1>3. InFlight'
  BY DEF InFlight
<1>4. Saving'
  BY DEF InFlight, Saving
<1>5. Eligibility'
  BY DEF Eligibility
<1>6. Staleness'
  BY DEF Healthy, IsStale, Staleness
<1>7. QED BY <1>1, <1>2, <1>3, <1>4, <1>5, <1>6

(* The live observation is committed: it is no older than the start of the *)
(* poll, and so than anything committed before.                            *)
LEMMA SaveLiveKeeps == ASSUME PollInv, SaveLive PROVE PollInv'
<1> USE PollingAssumption DEF chatting, schedule, job, history, Reading, Sampled,
        Age, TypeOK, Goto, At, Late, InOrder, Acceptable, SaveLive, PollInv
<1>1. TypeOK'
  <2>1. result.stream \in Streams /\ result.observed.utc \in Int
    BY DEF InFlight
  <2>2. streams' \in StreamRows
    BY <2>1, ZenonT(60) DEF StreamRows
  <2>3. QED BY <2>1, <2>2, SMTT(40) DEF Labels
<1> DEFINE s == result.stream
<1>a. /\ s \in Streams /\ streams'[s].newest = result.observed.utc /\ streams'[s].seen
      /\ \A r \in Streams : r # s => streams'[r] = streams[r]
  BY DEF InFlight, StreamRows
<1> HIDE DEF s
<1>2. Beats'
  <2>1. result.observed.utc <= previous.utc
    OBVIOUS
  <2>2. \A r \in Streams : streams'[r].seen => streams'[r].newest <= previous.utc
    BY <1>a, <2>1 DEF Beats
  <2>3. QED BY <2>2 DEF Beats, Running
<1>3. InFlight'
  BY DEF InFlight
<1>4. Saving'
  <2>1. jobGeneration = generation /\ closedAt <= jobStarted.utc
    BY DEF InFlight
  <2>2. closedAt <= result.observed.utc
    BY <2>1 DEF Beats
  <2>3. streams'[tracked'].seen
    BY <1>a DEF s
  <2>4. QED BY <2>1, <2>2, <2>3 DEF Saving
<1>5. Eligibility'
  BY DEF Closed, Eligibility
<1>6. Staleness'
  BY DEF Healthy, IsStale, Staleness
<1>7. QED BY <1>1, <1>2, <1>3, <1>4, <1>5, <1>6

(* The healthy row, or a poll that has lost its worth.                     *)
LEMMA SaveHealthKeeps == ASSUME PollInv, SaveHealth PROVE PollInv'
<1> USE PollingAssumption DEF schedule, guards, Reading, Closed, Sampled, Age,
        TypeOK, NoResult, Goto, At, IsStale, CloseInDoubt, Doubtful, SaveHealth,
        PollInv
<1>1. TypeOK'
  <2>1. live' \in LiveStates /\ chat' \in ChatStates /\ health' \in Reasons
    BY DEF LiveStates, ChatStates, Reasons
  <2>2. staleReported' \in BOOLEAN
    BY Zenon
  <2>3. QED BY <2>1, <2>2 DEF Labels, Kinds, LiveStates
<1>2. Beats'
  BY DEF Running, Beats
<1>3. InFlight'
  BY DEF InFlight
<1>4. Saving'
  BY DEF Saving
<1>5. Eligibility'
  BY DEF Eligibility
<1>6. Staleness'
  BY DEF Healthy, Staleness
<1>7. QED BY <1>1, <1>2, <1>3, <1>4, <1>5, <1>6

(* Eligibility opens on a poll of the present generation.                  *)
LEMMA SettleKeeps == ASSUME PollInv, Settle PROVE PollInv'
<1> USE PollingAssumption DEF schedule, guards, Reading, Closed, Sampled, Age,
        TypeOK, NoResult, Goto, At, IsStale, CloseInDoubt, Doubtful, PollLive,
        Settle, PollInv
<1>1. TypeOK'
  <2>1. result.kind = "live" => PollLive(live, result.stream, result.observed) \in LiveStates
    BY DEF Saving, InFlight, LiveStates
  <2>2. live' \in LiveStates
    BY <2>1 DEF LiveStates
  <2>3. chat' \in ChatStates
    BY DEF ChatStates, Saving
  <2>4. health' \in Reasons
    BY DEF Reasons
  <2>5. staleReported' \in BOOLEAN
    BY Zenon
  <2>6. QED BY <2>2, <2>3, <2>4, <2>5 DEF Labels, Kinds
<1>2. Beats'
  BY DEF Running, Beats
<1>3. InFlight'
  BY DEF InFlight
<1>4. Saving'
  BY DEF Saving
<1>5. Eligibility'
  BY DEF InFlight, Saving, Eligibility
<1>6. Staleness'
  BY DEF Healthy, Staleness
<1>7. QED BY <1>1, <1>2, <1>3, <1>4, <1>5, <1>6

(* A poll starts after everything committed so far.                        *)
LEMMA DispatchKeeps == ASSUME PollInv, Dispatch PROVE PollInv'
<1> USE PollingAssumption DEF Reading, Closed, Sampled, Age, TypeOK, Goto, At,
        IsStale, CheckStale, Dispatch, PollInv
<1>1. TypeOK'
  <2>1. live' \in LiveStates /\ chat' \in ChatStates /\ health' \in Reasons /\ nextPoll' \in Int
    BY DEF LiveStates, ChatStates, Reasons
  <2>2. staleReported' \in BOOLEAN /\ discard' \in BOOLEAN /\ forceValidation' \in BOOLEAN
    BY Zenon
  <2>3. QED BY <2>1, <2>2 DEF Labels, Kinds, LiveStates
<1>2. Beats'
  BY DEF Running, Beats
<1>3. InFlight'
  BY DEF Running, Beats, InFlight
<1>4. Saving'
  BY DEF Saving
<1>5. Eligibility'
  BY DEF Eligibility
<1>6. Staleness'
  BY DEF Healthy, Staleness
<1>7. QED BY <1>1, <1>2, <1>3, <1>4, <1>5, <1>6

(* The chat is pumped: eligibility may expire, never open.                 *)
LEMMA PumpKeeps == ASSUME PollInv, Pump PROVE PollInv'
<1> USE PollingAssumption DEF memory, schedule, guards, job, rows, history,
        Reading, Closed, Sampled, TypeOK, Goto, At, Expired, Pump, PollInv
<1>1. TypeOK'
  BY DEF LiveStates, ChatStates, StreamRows, Reasons, Kinds, Labels
<1>2. Beats'
  BY DEF Running, Beats
<1>3. InFlight'
  BY DEF InFlight
<1>4. Saving'
  BY DEF Saving
<1>5. Eligibility'
  BY DEF Eligibility
<1>6. Staleness'
  BY DEF Healthy, Age, IsStale, Staleness
<1>7. QED BY <1>1, <1>2, <1>3, <1>4, <1>5, <1>6

(* The result of the poll in flight is dropped.                            *)
LEMMA FinishKeeps == ASSUME PollInv, Finish PROVE PollInv'
<1> USE PollingAssumption DEF memory, schedule, guards, rows, history, Reading,
        Closed, Sampled, TypeOK, NoResult, Goto, At, Finish, PollInv
<1>1. TypeOK'
  BY DEF LiveStates, ChatStates, StreamRows, Reasons, Kinds, Labels
<1>2. Beats'
  BY DEF Running, Beats
<1>3. InFlight'
  BY DEF InFlight
<1>4. Saving'
  BY DEF Saving
<1>5. Eligibility'
  BY DEF Eligibility
<1>6. Staleness'
  BY DEF Healthy, Age, IsStale, Staleness
<1>7. QED BY <1>1, <1>2, <1>3, <1>4, <1>5, <1>6

(* The stop of the run is never refused.                                   *)
LEMMA StopRunKeeps == ASSUME PollInv, StopRun PROVE PollInv'
<1> USE PollingAssumption DEF memory, schedule, guards, job, history, Reading,
        Closed, TypeOK, Die, At, Refused, StopRun, PollInv
<1>1. TypeOK'
  <2>1. heartbeat' \in Int /\ health' \in Reasons
    BY DEF LiveStates, ChatStates, Reasons
  <2>2. stopped' \in BOOLEAN
    BY Zenon
  <2>3. QED BY <2>1, <2>2 DEF Labels, Kinds, LiveStates
<1>2. Beats'
  BY DEF Running, Beats
<1>3. InFlight'
  BY DEF InFlight
<1>4. Saving'
  BY DEF Saving
<1>5. Eligibility'
  BY DEF Eligibility
<1>6. Staleness'
  BY DEF Healthy, Age, IsStale, Staleness
<1>7. QED BY <1>1, <1>2, <1>3, <1>4, <1>5, <1>6

(* A failed write ends the process.                                        *)
LEMMA StorageFailedKeeps == ASSUME PollInv, StorageFailed PROVE PollInv'
<1> USE PollingAssumption DEF memory, schedule, guards, job, rows, history,
        Reading, Closed, TypeOK, Die, Writing, StorageFailed, PollInv
<1>1. TypeOK'
  BY DEF LiveStates, ChatStates, StreamRows, Reasons, Kinds, Labels
<1>2. Beats'
  BY DEF Running, Beats
<1>3. InFlight'
  BY DEF InFlight
<1>4. Saving'
  BY DEF Saving
<1>5. Eligibility'
  BY DEF Eligibility
<1>6. Staleness'
  BY DEF Healthy, Age, IsStale, Staleness
<1>7. QED BY <1>1, <1>2, <1>3, <1>4, <1>5, <1>6

(* The wait for UTC is given up.                                           *)
LEMMA RecoveryTimeoutKeeps == ASSUME PollInv, RecoveryTimeout PROVE PollInv'
<1> USE PollingAssumption DEF memory, schedule, guards, job, rows, history,
        Reading, Closed, TypeOK, Die, RecoveryTimeout, PollInv
<1>1. TypeOK'
  BY DEF LiveStates, ChatStates, StreamRows, Reasons, Kinds, Labels
<1>2. Beats'
  BY DEF Running, Beats
<1>3. InFlight'
  BY DEF InFlight
<1>4. Saving'
  BY DEF Saving
<1>5. Eligibility'
  BY DEF Eligibility
<1>6. Staleness'
  BY DEF Healthy, Age, IsStale, Staleness
<1>7. QED BY <1>1, <1>2, <1>3, <1>4, <1>5, <1>6

(* The worker has an answer; what it stamped is judged when it is taken.   *)
LEMMA AnswerKeeps == ASSUME PollInv, Answer PROVE PollInv'
<1> USE PollingAssumption DEF control, chatting, memory, schedule, guards, rows,
        history, Reading, TypeOK, Readings, Answer, PollInv
<1>1. TypeOK'
  BY DEF LiveStates, ChatStates, StreamRows, Reasons, Kinds, Labels
<1>2. Beats'
  BY DEF Running, Beats
<1>3. InFlight'
  BY DEF InFlight
<1>4. Saving'
  BY DEF Closed, InFlight, Saving
<1>5. Eligibility'
  BY DEF Closed, Eligibility
<1>6. Staleness'
  BY DEF Healthy, Age, IsStale, Staleness
<1>7. QED BY <1>1, <1>2, <1>3, <1>4, <1>5, <1>6

(* The worker's request failed.                                            *)
LEMMA NoAnswerKeeps == ASSUME PollInv, NoAnswer PROVE PollInv'
<1> USE PollingAssumption DEF reading, control, chatting, memory, schedule,
        guards, rows, history, Reading, TypeOK, NoResult, NoAnswer, PollInv
<1>1. TypeOK'
  BY DEF LiveStates, ChatStates, StreamRows, Reasons, Kinds, Labels
<1>2. Beats'
  BY DEF Running, Beats
<1>3. InFlight'
  BY DEF InFlight
<1>4. Saving'
  BY DEF Closed, InFlight, Saving
<1>5. Eligibility'
  BY DEF Closed, Eligibility
<1>6. Staleness'
  BY DEF Healthy, Age, IsStale, Staleness
<1>7. QED BY <1>1, <1>2, <1>3, <1>4, <1>5, <1>6

(* The signal handler sets the stop event.                                 *)
LEMMA RequestStopKeeps == ASSUME PollInv, RequestStop PROVE PollInv'
<1> USE PollingAssumption DEF reading, chatting, memory, schedule, guards, job,
        rows, history, Reading, TypeOK, RequestStop, PollInv
<1>1. TypeOK'
  BY DEF LiveStates, ChatStates, StreamRows, Reasons, Kinds, Labels
<1>2. Beats'
  BY DEF Running, Beats
<1>3. InFlight'
  BY DEF InFlight
<1>4. Saving'
  BY DEF Closed, Saving
<1>5. Eligibility'
  BY DEF Closed, Eligibility
<1>6. Staleness'
  BY DEF Healthy, Age, IsStale, Staleness
<1>7. QED BY <1>1, <1>2, <1>3, <1>4, <1>5, <1>6

(* A reading of the clock is a pair of integers.                           *)
LEMMA ReadingsAreReadings == ASSUME TypeOK PROVE Readings \subseteq Reading
  BY PollingAssumption DEF Readings, Reading, TypeOK

(* A gap closes eligibility and disowns the poll in flight and the one     *)
(* being saved, whatever else the reading leads to.                        *)
LEMMA GapKeeps ==
  ASSUME PollInv, NEW now \in Reading, InvalidateClock(now),
         at' \in {at, "ended"}, exit' \in {exit, "clock"}, mode' \in {"wait", "run"},
         waitFrom' \in Int, previous' \in {previous, now},
         at' = "ended" \/ previous'.utc >= now.utc, previous'.utc >= previous.utc,
         clock' \in Reading,
         UNCHANGED <<stop, memory, nextBeat, savedAt, job, rows, jobGeneration,
                     liveGeneration>>
  PROVE  PollInv'
<1> USE PollingAssumption
        DEF memory, job, rows, Reading, TypeOK, Closed, InvalidateClock, PollInv
<1>1. TypeOK'
  <2>1. closedAt' \in Int /\ nextPoll' \in Int /\ generation' \in Nat
    OBVIOUS
  <2>2. live' \in LiveStates /\ chat' \in ChatStates /\ at' \in Labels
    BY DEF LiveStates, ChatStates, Labels
  <2>3. previous' \in Reading
    OBVIOUS
  <2>4. QED BY <2>1, <2>2, <2>3
<1>2. Beats'
  <2>1. previous'.utc \in Int /\ now.utc \in Int
    OBVIOUS
  <2>2. at' # "ended" => at # "ended" /\ closedAt' <= previous'.utc
    BY <2>1
  <2>3. \A s \in Streams : streams[s].seen => streams[s].newest <= previous'.utc
    BY <2>1 DEF Beats, StreamRows
  <2>4. heartbeat <= previous'.utc
    BY <2>1 DEF Beats
  <2>5. QED BY <2>2, <2>3, <2>4 DEF Beats, Running
<1>3. InFlight'
  BY DEF InFlight
<1>4. Saving'
  BY DEF Saving
<1>5. Eligibility'
  BY DEF Eligibility
<1>6. Staleness'
  BY DEF Staleness
<1>7. QED BY <1>1, <1>2, <1>3, <1>4, <1>5, <1>6

(* No gap: time went on, and nothing else happened.                        *)
LEMMA NoGapKeeps ==
  ASSUME PollInv, NEW now \in Reading, NoGap,
         \/ /\ previous' = now /\ mode' = "run"
            /\ now.utc >= previous.utc
            /\ UNCHANGED <<at, exit>>
         \/ previous' = previous /\ UNCHANGED <<at, exit>> /\ mode = "wait" /\ mode' = "wait"
         \/ previous' = previous /\ at' = "ended" /\ exit' = "clock" /\ mode' = "run"
            /\ mode = "wait",
         waitFrom' = waitFrom, clock' \in Reading,
         UNCHANGED <<stop, memory, nextBeat, savedAt, job, rows, jobGeneration,
                     liveGeneration>>
  PROVE  PollInv'
<1> USE PollingAssumption
        DEF chatting, memory, job, rows, Reading, TypeOK, NoGap, PollInv
<1>1. TypeOK'
  BY DEF Labels
<1>2. Beats'
  <2>1. previous'.utc \in Int /\ previous'.utc >= previous.utc
    OBVIOUS
  <2>2. \A s \in Streams : streams[s].seen => streams[s].newest <= previous'.utc
    BY <2>1 DEF Beats, StreamRows
  <2>3. QED BY <2>1, <2>2 DEF Beats, Running
<1>3. InFlight'
  BY DEF InFlight
<1>4. Saving'
  BY DEF Saving
<1>5. Eligibility'
  BY DEF Eligibility
<1>6. Staleness'
  BY DEF Staleness
<1>7. QED BY <1>1, <1>2, <1>3, <1>4, <1>5, <1>6

(* A guarded reading.                                                      *)
LEMMA SampleKeeps == ASSUME PollInv, Sample PROVE PollInv'
<1>1. PICK now \in Readings :
         clock' = now /\ (SampleForward(now) \/ SampleRollback(now) \/ SampleFatal(now))
  BY DEF Sample
<1>2. now \in Reading /\ TypeOK
  BY ReadingsAreReadings DEF PollInv
<1>3. UNCHANGED <<stop, memory, nextBeat, savedAt, job, rows, jobGeneration, liveGeneration>>
  BY DEF Sample
<1>4. CASE SampleForward(now) /\ IsGap(now)
  BY <1>1, <1>2, <1>3, <1>4, GapKeeps DEF SampleForward, TypeOK, Reading
<1>5. CASE SampleForward(now) /\ ~IsGap(now)
  BY <1>1, <1>2, <1>3, <1>5, NoGapKeeps DEF SampleForward
<1>6. CASE SampleRollback(now)
  BY <1>1, <1>2, <1>3, <1>6, GapKeeps DEF SampleRollback, TypeOK, Reading
<1>7. CASE SampleFatal(now)
  BY <1>1, <1>2, <1>3, <1>7, GapKeeps DEF SampleFatal, Die, TypeOK, Reading
<1>8. QED BY <1>1, <1>4, <1>5, <1>6, <1>7

(* One more look at UTC while waiting for it to catch up.                  *)
LEMMA RecoverKeeps == ASSUME PollInv, Recover PROVE PollInv'
<1>1. PICK now \in Readings :
         clock' = now /\ (Recovered(now) \/ StillBehind(now) \/ NotRecovered(now))
  BY DEF Recover
<1>2. now \in Reading /\ TypeOK
  BY ReadingsAreReadings DEF PollInv
<1>3. /\ mode = "wait" /\ waitFrom' = waitFrom
      /\ UNCHANGED <<stop, memory, nextBeat, savedAt, job, rows, jobGeneration, liveGeneration>>
  BY DEF Recover
<1>4. CASE Recovered(now)
  BY <1>1, <1>2, <1>3, <1>4, GapKeeps DEF Recovered, CaughtUp, TypeOK, Reading
<1>5. CASE StillBehind(now)
  BY <1>1, <1>2, <1>3, <1>5, NoGapKeeps DEF StillBehind
<1>6. CASE NotRecovered(now)
  <2>1. NoGap
    BY <1>3, <1>6 DEF PollInv, Eligibility, NotRecovered, Die, NoGap, chatting
  <2>2. QED BY <1>1, <1>2, <1>3, <1>6, <2>1, NoGapKeeps DEF NotRecovered, Die
<1>7. QED BY <1>1, <1>4, <1>5, <1>6

(* A stuttering step keeps everything.                                     *)
LEMMA StutterKeeps == ASSUME PollInv, UNCHANGED vars PROVE PollInv'
<1> USE DEF vars, reading, control, chatting, memory, schedule, guards, job, rows,
            history, PollInv
<1>1. TypeOK'
  BY DEF TypeOK
<1>2. Beats' /\ InFlight' /\ Saving'
  BY DEF Beats, Running, InFlight, Saving
<1>3. Eligibility' /\ Staleness'
  BY DEF Eligibility, Staleness, IsStale, Age
<1>4. QED BY <1>1, <1>2, <1>3

(* Every step keeps the invariant.                                         *)
LEMMA NextKeeps == ASSUME PollInv, [Next]_vars PROVE PollInv'
<1>1. CASE Coordinator
  BY <1>1, SampleKeeps, RecoverKeeps, StartRunKeeps, OpenRunKeeps, TopKeeps, BeatKeeps,
     BeatenKeeps, TakeKeeps, TakeFatalKeeps, DiscardKeeps, RequestFailedKeeps,
     InvalidObservationKeeps, SaveOfflineKeeps, SaveLiveKeeps, SaveHealthKeeps,
     SettleKeeps, DispatchKeeps, PumpKeeps, FinishKeeps, StopRunKeeps
     DEF Coordinator
<1>2. CASE Fault
  BY <1>2, StorageFailedKeeps, RecoveryTimeoutKeeps DEF Fault
<1>3. CASE Answer \/ NoAnswer \/ RequestStop
  BY <1>3, AnswerKeeps, NoAnswerKeeps, RequestStopKeeps
<1>4. CASE UNCHANGED vars
  BY <1>4, StutterKeeps
<1>5. QED BY <1>1, <1>2, <1>3, <1>4 DEF Next

(* The invariant holds for any streams, any limits, any advance of the     *)
(* clock, and any number of gaps.                                          *)
THEOREM PollingIsSound == Spec => []PollInv
  BY PollInitInv, NextKeeps, PTL DEF Spec

(* A chat message counts for a stream only on the strength of a committed, *)
(* healthy, current live poll of that stream, begun after the last gap and *)
(* followed by no doubt: chat_stream_id never answers otherwise.           *)
THEOREM EligibleChatAlwaysCovered == Spec => []EligibleChatIsCovered
<1>1. PollInv => EligibleChatIsCovered
  <2> SUFFICES ASSUME PollInv, At("pump"), NEW sent \in closedAt - Stale .. previous.utc,
                      ChatStream(sent, previous.utc, previous.tick) # None
               PROVE  LET s == ChatStream(sent, previous.utc, previous.tick)
                      IN  /\ s = tracked /\ streams[s].seen /\ ~stopped
                          /\ health = "live_poll_saved"
                          /\ previous.tick - live.tick < Stale
                          /\ liveGeneration = generation
                          /\ sent >= closedAt
    BY DEF EligibleChatIsCovered
  <2> USE PollingAssumption DEF PollInv, TypeOK, Reading, LiveStates
  <2>1. /\ live # Closed /\ live.since <= sent
        /\ previous.tick - live.tick \in 0..(Stale - 1)
        /\ ChatStream(sent, previous.utc, previous.tick) = live.stream
    BY DEF ChatStream, Expired, Closed
  <2>2. at = "pump" /\ Running
    BY DEF At, Running
  <2>3. /\ live.stream = tracked /\ streams[tracked].seen
        /\ health = "live_poll_saved" /\ liveGeneration = generation
    BY <2>1, <2>2 DEF Eligibility
  <2>4. sent >= closedAt
    BY <2>1 DEF Eligibility
  <2>5. ~stopped
    BY <2>2 DEF Beats
  <2>6. QED BY <2>1, <2>3, <2>4, <2>5
<1>2. QED BY <1>1, PollingIsSound, PTL

(* The chat sink's polling state never falls behind LiveStatus.            *)
THEOREM ChatAlwaysFollows == Spec => []ChatFollowsLiveStatus
<1>1. PollInv => ChatFollowsLiveStatus
  BY DEF PollInv, Eligibility, ChatFollowsLiveStatus
<1>2. QED BY <1>1, PollingIsSound, PTL

(* When the chat is pumped a stale success has been reported, and no       *)
(* healthy row hides it.                                                   *)
THEOREM StaleAlwaysReported == Spec => []StaleIsReported
<1>1. PollInv => StaleIsReported
  BY DEF PollInv, Staleness, IsStale, StaleIsReported
<1>2. QED BY <1>1, PollingIsSound, PTL

(* No clock correction makes the database refuse a heartbeat or the stop.  *)
THEOREM HeartbeatNeverRefused == Spec => []NeverRefused
<1>1. PollInv => NeverRefused
  BY DEF PollInv, Beats, NeverRefused
<1>2. QED BY <1>1, PollingIsSound, PTL

(* Settle alone tells the chat sink that the stream is live or offline.    *)
LEMMA OnlySettleTells ==
  ASSUME [Next]_vars, ~Settle PROVE chat' \in {chat, "failed", "stale"}
<1> USE DEF chatting
<1>1. CASE Sample \/ Recover \/ Fault
  BY <1>1 DEF Sample, SampleForward, SampleRollback, SampleFatal, Recover, Recovered,
              StillBehind, NotRecovered, InvalidateClock, NoGap, Fault, StorageFailed,
              RecoveryTimeout
<1>2. CASE StartRun \/ OpenRun \/ Top \/ Beat \/ Beaten \/ Take
  BY <1>2 DEF StartRun, OpenRun, Top, Beat, Beaten, Take, CheckStale
<1>3. CASE TakeFatal \/ Discard \/ RequestFailed \/ InvalidObservation
  BY <1>3 DEF TakeFatal, Discard, RequestFailed, InvalidObservation, CloseInDoubt
<1>4. CASE SaveOffline \/ SaveLive \/ SaveHealth
  BY <1>4 DEF SaveOffline, SaveLive, SaveHealth, CloseInDoubt
<1>5. CASE Dispatch \/ Pump \/ Finish \/ StopRun
  BY <1>5 DEF Dispatch, CheckStale, Pump, Finish, StopRun
<1>6. CASE Answer \/ NoAnswer \/ RequestStop \/ UNCHANGED vars
  BY <1>6 DEF Answer, NoAnswer, RequestStop, vars
<1>7. QED BY <1>1, <1>2, <1>3, <1>4, <1>5, <1>6 DEF Next, Coordinator

(* A poll in flight across a clock gap never counts: Settle runs in the    *)
(* generation the poll began in.                                           *)
THEOREM NoPollEverSpansAGap == Spec => NoPollSpansAGap
<1>1. ASSUME PollInv, [Next]_vars, chat' \in {"live", "offline"}, chat' # chat
      PROVE  jobGeneration = generation
  <2>1. Settle
    BY <1>1, OnlySettleTells
  <2>2. at = "settle" /\ ~Doubtful
    BY <1>1, <2>1 DEF Settle, At, CloseInDoubt
  <2>3. savedAt = jobGeneration /\ generation = savedAt
    BY <1>1, <2>2 DEF PollInv, Saving, Doubtful
  <2>4. QED BY <2>3
<1>2. PollInv /\ [Next]_vars
        => (chat' \in {"live", "offline"} /\ chat' # chat => jobGeneration = generation)
  BY <1>1
<1>3. QED BY <1>2, PollingIsSound, PTL DEF Spec, NoPollSpansAGap

(* The streams and snapshot rows change in two places.                     *)
LEMMA OnlySavesWrite ==
  ASSUME [Next]_vars, ~SaveLive, ~SaveOffline PROVE streams' = streams
<1> USE DEF rows
<1>1. CASE Sample \/ Recover \/ Fault
  BY <1>1 DEF Sample, Recover, Fault, StorageFailed, RecoveryTimeout
<1>2. CASE StartRun \/ OpenRun \/ Top \/ Beat \/ Beaten \/ Take
  BY <1>2 DEF StartRun, OpenRun, Top, Beat, Beaten, Take
<1>3. CASE TakeFatal \/ Discard \/ RequestFailed \/ InvalidObservation
  BY <1>3 DEF TakeFatal, Discard, RequestFailed, InvalidObservation
<1>4. CASE SaveHealth \/ Settle \/ Dispatch \/ Pump \/ Finish \/ StopRun
  BY <1>4 DEF SaveHealth, Settle, Dispatch, Pump, Finish, StopRun
<1>5. CASE Answer \/ NoAnswer \/ RequestStop \/ UNCHANGED vars
  BY <1>5 DEF Answer, NoAnswer, RequestStop, vars
<1>6. QED BY <1>1, <1>2, <1>3, <1>4, <1>5 DEF Next, Coordinator

(* A poll is dispatched after every committed observation, so what the     *)
(* worker stamps, checked against its start, is never older than they are. *)
THEOREM SnapshotsAlwaysInOrder == Spec => SnapshotsInOrder
<1>1. ASSUME PollInv, [Next]_vars, NEW s \in Streams, streams[s].seen
      PROVE  streams'[s].newest >= streams[s].newest
  <2> USE DEF PollInv, TypeOK, StreamRows, Reading
  <2>1. streams[s].newest \in Int
    BY <1>1
  <2>2. CASE SaveLive
    <3>1. /\ streams[s].newest <= jobStarted.utc
          /\ jobStarted.utc <= result.observed.utc /\ result.stream \in Streams
      BY <1>1, <2>2 DEF SaveLive, Acceptable, At, InOrder, InFlight
    <3>2. streams'[s].newest \in {streams[s].newest, result.observed.utc}
      BY <1>1, <2>2, <3>1 DEF SaveLive
    <3>3. QED BY <1>1, <2>1, <3>1, <3>2
  <2>3. CASE SaveOffline
    <3>1. streams'[s].newest = streams[s].newest
      BY <1>1, <2>3 DEF SaveOffline
    <3>2. QED BY <2>1, <3>1
  <2>4. CASE ~SaveLive /\ ~SaveOffline
    BY <1>1, <2>1, <2>4, OnlySavesWrite
  <2>5. QED BY <2>2, <2>3, <2>4
<1>2. PollInv /\ [Next]_vars
        => \A s \in Streams : streams[s].seen => streams'[s].newest >= streams[s].newest
  BY <1>1
<1>3. QED BY <1>2, PollingIsSound, PTL DEF Spec, SnapshotsInOrder

-----------------------------------------------------------------------------
(* Where eligibility may start.                                            *)

(* Settle alone opens LiveStatus or renews it.                             *)
LEMMA OnlySettleOpens ==
  ASSUME [Next]_vars, ~Settle PROVE live' \in {live, Closed}
<1> USE DEF chatting
<1>1. CASE Sample \/ Recover \/ Fault
  BY <1>1 DEF Sample, SampleForward, SampleRollback, SampleFatal, Recover, Recovered,
              StillBehind, NotRecovered, InvalidateClock, NoGap, Die, Fault, StorageFailed,
              RecoveryTimeout
<1>2. CASE StartRun \/ OpenRun \/ Top \/ Beat \/ Beaten \/ Take
  BY <1>2 DEF StartRun, OpenRun, Top, Beat, Beaten, Take, CheckStale, Die
<1>3. CASE TakeFatal \/ Discard \/ RequestFailed \/ InvalidObservation
  BY <1>3 DEF TakeFatal, Discard, RequestFailed, InvalidObservation, CloseInDoubt, Die
<1>4. CASE SaveOffline \/ SaveLive \/ SaveHealth
  BY <1>4 DEF SaveOffline, SaveLive, SaveHealth, CloseInDoubt
<1>5. CASE Dispatch \/ Pump \/ Finish \/ StopRun
  BY <1>5 DEF Dispatch, CheckStale, Pump, Expired, Finish, StopRun, Die
<1>6. CASE Answer \/ NoAnswer \/ RequestStop \/ UNCHANGED vars
  BY <1>6 DEF Answer, NoAnswer, RequestStop, vars
<1>7. QED BY <1>1, <1>2, <1>3, <1>4, <1>5, <1>6 DEF Next, Coordinator

(* Between the pieces of a save nothing touches what is being saved.       *)
LEMMA OnlySavesMove ==
  ASSUME PollInv, [Next]_vars, ~SaveLive, ~SaveOffline, ~SaveHealth,
         at' \in {"saved", "settle"}
  PROVE  at' = at /\ UNCHANGED <<result, tracked>>
<1> USE DEF memory, job, Goto, Die
<1>1. CASE Sample
  BY <1>1 DEF Sample, SampleForward, SampleRollback, SampleFatal
<1>2. CASE Recover
  BY <1>2 DEF Recover, Recovered, StillBehind, NotRecovered
<1>3. CASE StartRun \/ OpenRun \/ Top \/ Beat \/ Beaten \/ Take
  BY <1>3 DEF StartRun, OpenRun, Top, Beat, Beaten, Take
<1>4. CASE TakeFatal \/ Discard \/ RequestFailed \/ InvalidObservation
  BY <1>4 DEF TakeFatal, Discard, RequestFailed, InvalidObservation
<1>5. CASE Settle \/ Dispatch \/ Pump \/ Finish \/ StopRun \/ Fault
  BY <1>5 DEF Settle, Dispatch, Pump, Finish, StopRun, Fault, StorageFailed, RecoveryTimeout
<1>6. CASE Answer \/ NoAnswer
  BY <1>6 DEF Answer, NoAnswer, control, PollInv, InFlight
<1>7. CASE RequestStop \/ UNCHANGED vars
  BY <1>7 DEF RequestStop, vars, control
<1>8. QED BY <1>1, <1>2, <1>3, <1>4, <1>5, <1>6, <1>7 DEF Next, Coordinator

(* The answer in hand was observed after all that is recorded.             *)
LEMMA SaveLiveDates == ASSUME PollInv, Dated, SaveLive PROVE Dated'
<1> DEFINE s == result.stream
<1>1. /\ s \in Streams /\ tracked' = s /\ UNCHANGED <<result, live>>
      /\ jobStarted.utc <= result.observed.utc
      /\ \A t \in Streams : streams[t].seen => streams[t].newest <= jobStarted.utc
  BY DEF SaveLive, Acceptable, At, InOrder, PollInv, InFlight, chatting, job
<1>2. /\ jobStarted.utc \in Int /\ result.observed.utc \in Int
      /\ \A t \in Streams : streams[t].newest \in Int /\ streams[t].seen \in BOOLEAN
  BY DEF PollInv, TypeOK, Reading, StreamRows
<1>3. /\ streams'[s].newest = result.observed.utc
      /\ \A t \in Streams : t # s => streams'[t] = streams[t]
  BY <1>1 DEF SaveLive, PollInv, TypeOK, StreamRows
<1>4. \A t \in Streams : streams'[t].seen => streams'[t].newest <= result.observed.utc
  BY <1>1, <1>2, <1>3
<1>5. live # Closed => live.since <= streams'[live.stream].newest
  <2> SUFFICES ASSUME live # Closed PROVE live.since <= streams'[live.stream].newest
    OBVIOUS
  <2>1. /\ live.stream \in Streams /\ live.since \in Int
        /\ live.since <= streams[live.stream].newest
        /\ streams[live.stream].seen
    BY DEF PollInv, TypeOK, LiveStates, Eligibility, Dated, SaveLive, Acceptable, At
  <2>2. live.since <= result.observed.utc
    BY <1>1, <1>2, <2>1
  <2>3. QED BY <1>3, <2>1, <2>2
<1>6. QED BY <1>1, <1>3, <1>4, <1>5 DEF Dated

(* The interval that Settle leaves began no later than the observation     *)
(* recorded, and no earlier than the one before it.                        *)
LEMMA SettleDates ==
  ASSUME PollInv, Dated, Settle, live' # Closed
  PROVE  /\ live'.since <= streams[live'.stream].newest
         /\ IF live'.stream = live.stream THEN live'.since >= live.since
            ELSE \A s \in Streams : streams[s].seen => streams[s].newest <= live'.since
<1>1. /\ at = "settle" /\ result.kind \in {"live", "offline"} /\ ~Doubtful
      /\ result.kind = "offline" => live = Closed
  BY DEF Settle, At, PollInv, Saving, CloseInDoubt
<1>2. result.kind = "live"
  BY <1>1 DEF Settle
<1>3. /\ live' = PollLive(live, result.stream, result.observed)
      /\ result.stream = tracked /\ tracked \in Streams
      /\ streams[tracked].newest = result.observed.utc
      /\ \A s \in Streams : streams[s].seen => streams[s].newest <= result.observed.utc
  BY <1>1, <1>2 DEF Settle, PollInv, Saving, InFlight, Dated
<1>4. /\ live'.stream = tracked
      /\ \/ live.stream = tracked /\ live'.since = live.since
         \/ live'.since = result.observed.utc
  BY <1>3 DEF PollLive
<1>5. result.observed.utc \in Int /\ live.since \in Int /\ streams[tracked].newest \in Int
  BY <1>3 DEF PollInv, TypeOK, Reading, LiveStates, StreamRows
<1>6. live.stream = tracked => live # Closed
  BY <1>3, PollingAssumption DEF Closed
<1>7. live.stream = tracked => live.since <= result.observed.utc
  BY <1>3, <1>6 DEF Dated
<1>8. QED BY <1>3, <1>4, <1>5, <1>7

(* Dated is kept.                                                          *)
LEMMA DatedKeeps == ASSUME PollInv, Dated, [Next]_vars PROVE Dated'
<1>1. CASE SaveLive
  BY <1>1, SaveLiveDates
<1>2. CASE SaveOffline
  <2>1. live' = Closed /\ result'.kind = "offline"
    BY <1>2 DEF SaveOffline, job
  <2>2. QED BY <2>1 DEF Dated
<1>3. CASE Settle
  <2>1. at' = "dispatch" /\ streams' = streams
    BY <1>3 DEF Settle, Goto
  <2>2. QED BY <1>3, <2>1, SettleDates DEF Dated
<1>4. CASE SaveHealth
  <2>1. /\ at = "saved" /\ live' \in {live, Closed} /\ UNCHANGED <<streams, tracked>>
        /\ at' = "dispatch" \/ result' = result
    BY <1>4 DEF SaveHealth, At, Goto, CloseInDoubt
  <2>2. QED BY <2>1 DEF Dated
<1>5. CASE ~SaveLive /\ ~SaveOffline /\ ~Settle /\ ~SaveHealth
  <2>1. live' \in {live, Closed} /\ streams' = streams
    BY <1>5, OnlySettleOpens, OnlySavesWrite
  <2>2. at' \in {"saved", "settle"} => at' = at /\ UNCHANGED <<result, tracked>>
    BY <1>5, OnlySavesMove
  <2>3. QED BY <2>1, <2>2 DEF Dated
<1>6. QED BY <1>1, <1>2, <1>3, <1>4, <1>5

(* Every interval began with an observation that is recorded.              *)
THEOREM IntervalsAreDated == Spec => []Dated
<1>1. Init => Dated
  BY DEF Init, Dated
<1>2. PollInv /\ Dated /\ [Next]_vars => Dated'
  BY DatedKeeps
<1>3. QED BY <1>1, <1>2, PollingIsSound, PTL DEF Spec

(* Chat is never claimed for a time already behind: the worker's unguarded *)
(* reading may date an interval, and still no interval starts before what  *)
(* is recorded, or moves its start back (LiveStatus.poll_live).            *)
THEOREM EligibilityNeverReachesBack == Spec => NoReachBack
<1>1. ASSUME PollInv, Dated, [Next]_vars, live' # Closed
      PROVE  IF live'.stream = live.stream THEN live'.since >= live.since
             ELSE \A s \in Streams : streams[s].seen => streams[s].newest <= live'.since
  <2>1. CASE Settle
    BY <1>1, <2>1, SettleDates
  <2>2. CASE ~Settle
    <3>1. live' = live
      BY <1>1, <2>2, OnlySettleOpens
    <3>2. live.since \in Int
      BY <1>1 DEF PollInv, TypeOK, LiveStates
    <3>3. QED BY <3>1, <3>2
  <2>3. QED BY <2>1, <2>2
<1>2. PollInv /\ Dated /\ [Next]_vars
        => [ live' # Closed =>
               IF live'.stream = live.stream THEN live'.since >= live.since
               ELSE \A s \in Streams : streams[s].seen => streams[s].newest <= live'.since ]_vars
  BY <1>1
<1>3. QED BY <1>2, PollingIsSound, IntervalsAreDated, PTL DEF Spec, NoReachBack

-----------------------------------------------------------------------------
(* What the clock cannot turn back.                                        *)

(* The process that has ended is at its end.                               *)
LEMMA OverKeeps == ASSUME Over, [Next]_vars PROVE Over'
<1> USE DEF Over, Running, Goto, Die, At
<1>1. CASE Sample \/ Recover
  BY <1>1 DEF Sample, SampleForward, SampleRollback, SampleFatal, Recover, Recovered,
              StillBehind, NotRecovered
<1>2. CASE StartRun \/ OpenRun \/ Top \/ Beat \/ Beaten \/ Take
  BY <1>2 DEF StartRun, OpenRun, Top, Beat, Beaten, Take
<1>3. CASE TakeFatal \/ Discard \/ RequestFailed \/ InvalidObservation
  BY <1>3 DEF TakeFatal, Discard, RequestFailed, InvalidObservation
<1>4. CASE SaveOffline \/ SaveLive \/ SaveHealth \/ Settle
  BY <1>4 DEF SaveOffline, SaveLive, SaveHealth, Settle
<1>5. CASE Dispatch \/ Pump \/ Finish \/ StopRun \/ Fault
  BY <1>5 DEF Dispatch, Pump, Finish, StopRun, Fault, StorageFailed, RecoveryTimeout
<1>6. CASE Answer \/ NoAnswer \/ RequestStop \/ UNCHANGED vars
  BY <1>6 DEF Answer, NoAnswer, RequestStop, vars, reading, control
<1>7. QED BY <1>1, <1>2, <1>3, <1>4, <1>5, <1>6 DEF Next, Coordinator

(* So no reading is taken after the end.                                   *)
LEMMA AlwaysOver == Spec => []Over
<1>1. Init => Over
  BY DEF Init, Over
<1>2. Over /\ [Next]_vars => Over'
  BY OverKeeps
<1>3. QED BY <1>1, <1>2, PTL DEF Spec

(* Doubt is dated by the guarded clock, which never runs back.             *)
LEMMA DoubtAdvances == ASSUME PollInv, Over, [Next]_vars PROVE closedAt' >= closedAt
<1> USE DEF PollInv, TypeOK, Reading, Beats, Running
<1>1. CASE closedAt' = closedAt
  BY <1>1
<1>2. CASE at # "ended" /\ closedAt' = previous.utc
  BY <1>2
<1>3. ASSUME NEW now \in Readings, InvalidateClock(now), at # "ended" PROVE closedAt' >= closedAt
  <2>1. now.utc \in Int
    BY <1>3, ReadingsAreReadings
  <2>2. QED BY <1>3, <2>1 DEF InvalidateClock
<1>4. CASE Sample \/ Recover
  <2> at # "ended"
    BY <1>4 DEF Over, Sample, Recover
  <2>1. closedAt' = closedAt \/ \E now \in Readings : InvalidateClock(now)
    BY <1>4 DEF Sample, SampleForward, SampleRollback, SampleFatal, Recover, Recovered,
                StillBehind, NotRecovered, NoGap
  <2>2. QED BY <1>1, <1>3, <1>4, <2>1
<1>5. CASE StartRun \/ OpenRun \/ Top \/ Beat \/ Beaten \/ Take
  <2>1. closedAt' = closedAt
    BY <1>5 DEF StartRun, OpenRun, Top, Beat, Beaten, Take, history
  <2>2. QED BY <1>1, <2>1
<1>6. CASE TakeFatal \/ Discard \/ RequestFailed \/ InvalidObservation
  <2>1. at # "ended" /\ closedAt' \in {closedAt, previous.utc}
    BY <1>6 DEF TakeFatal, Discard, RequestFailed, InvalidObservation, CloseInDoubt, At
  <2>2. QED BY <1>1, <1>2, <2>1
<1>7. CASE SaveOffline \/ SaveLive \/ SaveHealth \/ Settle
  <2>1. at # "ended" /\ closedAt' \in {closedAt, previous.utc}
    BY <1>7 DEF SaveOffline, SaveLive, SaveHealth, Settle, CloseInDoubt, At, Acceptable, history
  <2>2. QED BY <1>1, <1>2, <2>1
<1>8. CASE Dispatch \/ Pump \/ Finish \/ StopRun \/ Fault
  <2>1. closedAt' = closedAt
    BY <1>8 DEF Dispatch, Pump, Finish, StopRun, Fault, StorageFailed, RecoveryTimeout, history
  <2>2. QED BY <1>1, <2>1
<1>9. CASE Answer \/ NoAnswer \/ RequestStop \/ UNCHANGED vars
  <2>1. closedAt' = closedAt
    BY <1>9 DEF Answer, NoAnswer, RequestStop, vars, history
  <2>2. QED BY <1>1, <2>1
<1>10. QED BY <1>4, <1>5, <1>6, <1>7, <1>8, <1>9 DEF Next, Coordinator

(* Two statements check the run in, each with a fresh guarded reading; and *)
(* a run that is stopped is over.                                          *)
LEMMA RowsAdvance ==
  ASSUME PollInv, [Next]_vars
  PROVE  heartbeat' >= heartbeat /\ (stopped => UNCHANGED rows)
<1> USE DEF PollInv, TypeOK, Reading, Beats, Running
<1>1. stopped => at = "ended"
  OBVIOUS
<1>2. heartbeat' \in {heartbeat, previous.utc} => heartbeat' >= heartbeat
  OBVIOUS
<1>3. CASE Sample \/ Recover \/ Fault
  BY <1>3 DEF Sample, Recover, Fault, StorageFailed, RecoveryTimeout, rows
<1>4. CASE StartRun \/ OpenRun \/ Top \/ Beat \/ Beaten \/ Take
  <2>1. at # "ended" \/ UNCHANGED rows
    BY <1>4 DEF StartRun, OpenRun, Top, Beat, Beaten, Take, At
  <2>2. heartbeat' \in {heartbeat, previous.utc}
    BY <1>4 DEF StartRun, OpenRun, Top, Beat, Beaten, Take, rows
  <2>3. QED BY <1>1, <1>2, <2>1, <2>2
<1>5. CASE TakeFatal \/ Discard \/ RequestFailed \/ InvalidObservation
  <2>1. at # "ended" /\ heartbeat' = heartbeat
    BY <1>5 DEF TakeFatal, Discard, RequestFailed, InvalidObservation, At, rows
  <2>2. QED BY <1>1, <1>2, <2>1
<1>6. CASE SaveOffline \/ SaveLive \/ SaveHealth \/ Settle
  <2>1. at # "ended" /\ heartbeat' = heartbeat
    BY <1>6 DEF SaveOffline, SaveLive, SaveHealth, Settle, Acceptable, At, rows
  <2>2. QED BY <1>1, <1>2, <2>1
<1>7. CASE Dispatch \/ Pump \/ Finish \/ StopRun
  <2>1. at # "ended" /\ heartbeat' \in {heartbeat, previous.utc}
    BY <1>7 DEF Dispatch, Pump, Finish, StopRun, At, rows
  <2>2. QED BY <1>1, <1>2, <2>1
<1>8. CASE Answer \/ NoAnswer \/ RequestStop \/ UNCHANGED vars
  BY <1>8 DEF Answer, NoAnswer, RequestStop, vars, rows
<1>9. QED BY <1>3, <1>4, <1>5, <1>6, <1>7, <1>8 DEF Next, Coordinator

(* Neither the moment of the last doubt nor the check-ins of the run go    *)
(* back, and the stop of the run is its last word (stop_collector_run).    *)
THEOREM RecordsOnlyGoForward == Spec => RecordsGoForward
<1>1. PollInv /\ Over /\ [Next]_vars
        => [ /\ closedAt' >= closedAt
             /\ heartbeat' >= heartbeat
             /\ stopped => UNCHANGED rows ]_vars
  BY DoubtAdvances, RowsAdvance
<1>2. QED BY <1>1, PollingIsSound, AlwaysOver, PTL DEF Spec, RecordsGoForward

-----------------------------------------------------------------------------
(* The polling half implements Broadcast.                                  *)

(* What a step leaves alone of what is told, outside a save.               *)
LEMMA OnlySavesTrack ==
  ASSUME [Next]_vars, ~SaveLive, ~SaveOffline PROVE tracked' = tracked
<1> USE DEF memory
<1>1. CASE Sample \/ Recover \/ Fault
  BY <1>1 DEF Sample, Recover, Fault, StorageFailed, RecoveryTimeout
<1>2. CASE StartRun \/ OpenRun \/ Top \/ Beat \/ Beaten \/ Take
  BY <1>2 DEF StartRun, OpenRun, Top, Beat, Beaten, Take
<1>3. CASE TakeFatal \/ Discard \/ RequestFailed \/ InvalidObservation
  BY <1>3 DEF TakeFatal, Discard, RequestFailed, InvalidObservation
<1>4. CASE SaveHealth \/ Settle \/ Dispatch \/ Pump \/ Finish \/ StopRun
  BY <1>4 DEF SaveHealth, Settle, Dispatch, Pump, Finish, StopRun
<1>5. CASE Answer \/ NoAnswer \/ RequestStop \/ UNCHANGED vars
  BY <1>5 DEF Answer, NoAnswer, RequestStop, vars
<1>6. QED BY <1>1, <1>2, <1>3, <1>4, <1>5 DEF Next, Coordinator

(* Only a reading that finds a gap counts a generation.                    *)
LEMMA OnlyGapsCount ==
  ASSUME [Next]_vars, generation' # generation
  PROVE  generation' = generation + 1 /\ chat' = "failed"
<1> USE DEF guards, InvalidateClock
<1>1. CASE Sample \/ Recover \/ Fault
  BY <1>1 DEF Sample, SampleForward, SampleRollback, SampleFatal, Recover, Recovered,
              StillBehind, NotRecovered, NoGap, Fault, StorageFailed, RecoveryTimeout
<1>2. CASE StartRun \/ OpenRun \/ Top \/ Beat \/ Beaten \/ Take
  BY <1>2 DEF StartRun, OpenRun, Top, Beat, Beaten, Take
<1>3. CASE TakeFatal \/ Discard \/ RequestFailed \/ InvalidObservation
  BY <1>3 DEF TakeFatal, Discard, RequestFailed, InvalidObservation
<1>4. CASE SaveOffline \/ SaveLive \/ SaveHealth \/ Settle
  BY <1>4 DEF SaveOffline, SaveLive, SaveHealth, Settle
<1>5. CASE Dispatch \/ Pump \/ Finish \/ StopRun
  BY <1>5 DEF Dispatch, Pump, Finish, StopRun
<1>6. CASE Answer \/ NoAnswer \/ RequestStop \/ UNCHANGED vars
  BY <1>6 DEF Answer, NoAnswer, RequestStop, vars
<1>7. QED BY <1>1, <1>2, <1>3, <1>4, <1>5, <1>6 DEF Next, Coordinator

(* A save that is left before its end tells of doubt.                      *)
LEMMA SaveIsLeft ==
  ASSUME PollInv, [Next]_vars, ~Settle, at \in {"saved", "settle", "ended"}, chat' = "live"
  PROVE  at' \in {"saved", "settle", "ended"}
<1> USE DEF Goto, Die, At
<1>1. CASE Sample \/ Recover
  BY <1>1 DEF Sample, SampleForward, SampleRollback, SampleFatal, Recover, Recovered,
              StillBehind, NotRecovered
<1>2. CASE StartRun \/ OpenRun \/ Top \/ Beat \/ Beaten \/ Take
  BY <1>2 DEF StartRun, OpenRun, Top, Beat, Beaten, Take
<1>3. CASE TakeFatal \/ Discard \/ RequestFailed \/ InvalidObservation \/ SaveOffline \/ SaveLive
  BY <1>3 DEF TakeFatal, Discard, RequestFailed, InvalidObservation, SaveOffline, SaveLive,
              Acceptable
<1>4. CASE SaveHealth
  BY <1>4 DEF SaveHealth, CloseInDoubt
<1>5. CASE Dispatch \/ Pump \/ Finish \/ StopRun \/ Fault
  BY <1>5 DEF Dispatch, Pump, Finish, StopRun, Fault, StorageFailed, RecoveryTimeout
<1>6. CASE Answer \/ NoAnswer \/ RequestStop \/ UNCHANGED vars
  BY <1>6 DEF Answer, NoAnswer, RequestStop, vars, control
<1>7. QED BY <1>1, <1>2, <1>3, <1>4, <1>5, <1>6 DEF Next, Coordinator

(* Each step tells what Broadcast allows, or nothing.                      *)
LEMMA TellingStep ==
  ASSUME PollInv, [Next]_vars PROVE [Telling!Next]_(Telling!told)
<1> DEFINE over == {"saved", "settle", "ended"}
           L == chat = "live" /\ at \notin over
<1> USE DEF Telling!Next, Telling!told, Telling!Gap, Telling!Doubt, Telling!Saved
<1>1. CASE Settle
  <2>1. UNCHANGED <<tracked, generation>>
    BY <1>1 DEF Settle, guards
  <2>2. CASE chat' # "live"
    BY <2>1, <2>2
  <2>3. CASE chat' = "live"
    <3>1. result.kind = "live" /\ at = "settle"
      BY <1>1, <2>3 DEF Settle, CloseInDoubt, At
    <3>2. tracked \in Streams /\ tracked # None
      BY <3>1, PollingAssumption DEF PollInv, Saving, InFlight
    <3>3. at' = "dispatch"
      BY <1>1 DEF Settle, Goto
    <3>4. QED BY <2>1, <2>3, <3>2, <3>3
  <2>4. QED BY <2>2, <2>3
<1>2. CASE SaveLive \/ SaveOffline
  <2>1. /\ at' = "saved" /\ generation' = generation
        /\ tracked' \in Streams \cup {None}
    BY <1>2 DEF SaveLive, SaveOffline, Acceptable, Goto, PollInv, InFlight
  <2>2. QED BY <2>1
<1>3. CASE ~Settle /\ ~SaveLive /\ ~SaveOffline
  <2>1. tracked' = tracked /\ chat' \in {chat, "failed", "stale"}
    BY <1>3, OnlySavesTrack, OnlySettleTells
  <2>2. CASE generation' # generation
    BY <2>1, <2>2, OnlyGapsCount
  <2>3. CASE generation' = generation
    <3>1. L' => L
      BY <1>3, <2>1, SaveIsLeft
    <3>2. CASE L'
      BY <2>1, <2>3, <3>1, <3>2
    <3>3. CASE ~L'
      BY <2>1, <2>3, <3>3
    <3>4. QED BY <3>2, <3>3
  <2>4. QED BY <2>2, <2>3
<1>4. QED BY <1>1, <1>2, <1>3

(* The polling half tells chat and presence what Broadcast says: a gap or  *)
(* a doubt ends what is known, and nothing but a saved answer renews it,   *)
(* for the broadcast it makes the tracked one (_save, _chat_polling,       *)
(* _invalidate_clock).                                                     *)
THEOREM PollingRefinesBroadcast == Spec => PollingTells
<1>1. Init => Telling!Init
  BY DEF Init, Telling!Init
<1>2. QED BY <1>1, TellingStep, PollingIsSound, PTL DEF Spec, PollingTells, Telling!Spec

-----------------------------------------------------------------------------
(* The way to the end of a run that has been asked to stop.                *)

(* Every piece but the end has something after it.                         *)
LEMMA EndIsLast ==
  ASSUME TypeOK PROVE Remaining(at) \in 0..8 /\ (at # "ended" => Remaining(at) > 0)
BY DEF TypeOK, Labels, Remaining

(* A piece that is reached after the stop is nearer the end.               *)
LEMMA StoppedGoesOn ==
  ASSUME TypeOK, [Next]_vars, stop, at' # at PROVE Remaining(at') < Remaining(at)
<1> USE DEF Goto, Die, At
<1>1. CASE at' = "ended"
  <2>1. Remaining(at') = 0
    BY <1>1 DEF Remaining
  <2>2. QED BY <1>1, <2>1, EndIsLast
<1>2. CASE Sample \/ Recover
  <2>1. at' = "ended"
    BY <1>2 DEF Sample, SampleForward, SampleRollback, SampleFatal, Recover, Recovered,
                StillBehind, NotRecovered
  <2>2. QED BY <1>1, <2>1
<1>3. CASE StartRun \/ OpenRun \/ Top \/ Beat \/ Beaten \/ Take
  <2>1. \/ at = "start" /\ at' = "open"
        \/ at = "open" /\ at' = "finish"
        \/ at = "top" /\ at' = "beat"
        \/ at = "beat" /\ at' \in {"take", "ended", "beaten"}
        \/ at = "beaten" /\ at' = "take"
        \/ at = "take" /\ at' = "finish"
    BY <1>3 DEF StartRun, OpenRun, Top, Beat, Beaten, Take
  <2>2. QED BY <2>1 DEF Remaining
<1>4. CASE TakeFatal \/ Discard \/ RequestFailed \/ InvalidObservation
  <2>1. at = "taken" /\ at' \in {"dispatch", "ended"}
    BY <1>4 DEF TakeFatal, Discard, RequestFailed, InvalidObservation
  <2>2. QED BY <2>1 DEF Remaining
<1>5. CASE SaveOffline \/ SaveLive \/ SaveHealth \/ Settle
  <2>1. \/ at = "taken" /\ at' = "saved"
        \/ at = "saved" /\ at' \in {"dispatch", "settle"}
        \/ at = "settle" /\ at' = "dispatch"
    BY <1>5 DEF SaveOffline, SaveLive, SaveHealth, Settle, Acceptable
  <2>2. QED BY <2>1 DEF Remaining
<1>6. CASE Dispatch \/ Pump \/ Finish \/ StopRun
  <2>1. \/ at = "dispatch" /\ at' = "pump"
        \/ at = "pump" /\ at' = "finish"
        \/ at = "finish" /\ at' = "stop"
        \/ at = "stop" /\ at' = "ended"
    BY <1>6 DEF Dispatch, Pump, Finish, StopRun
  <2>2. QED BY <2>1 DEF Remaining
<1>7. CASE Fault
  <2>1. at' = "ended"
    BY <1>7 DEF Fault, StorageFailed, RecoveryTimeout
  <2>2. QED BY <1>1, <2>1
<1>8. CASE Answer \/ NoAnswer \/ RequestStop \/ UNCHANGED vars
  BY <1>8 DEF Answer, NoAnswer, RequestStop, vars, control
<1>9. QED BY <1>2, <1>3, <1>4, <1>5, <1>6, <1>7, <1>8 DEF Next, Coordinator

(* A stopped run makes no second pass: whatever gap, doubt or failure it   *)
(* meets, each piece is nearer the end than the one before (run, step).    *)
THEOREM PollingStopsStraight == Spec => StopIsStraight
<1>1. PollInv /\ [Next]_vars
        => [stop /\ at' # at => Remaining(at') < Remaining(at)]_vars
  BY StoppedGoesOn DEF PollInv
<1>2. QED BY <1>1, PollingIsSound, PTL DEF Spec, StopIsStraight
=============================================================================
