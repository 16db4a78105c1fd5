------------------------ MODULE SocketRecoveryProofs ------------------------
(***************************************************************************)
(* RecoveryInv is inductive for all sources, URLs and bounds, and          *)
(* SessionInv beside it: the safety properties of SocketRecovery follow    *)
(* from the two, and the loop implements SessionLedger.                    *)
(***************************************************************************)
EXTENDS SocketRecovery, TLAPS

-----------------------------------------------------------------------------
(* The building blocks keep the types.                                     *)

(* No job and no worker.                                                   *)
LEMMA NothingTyped == NoJob \in Jobs /\ NoWorker \in Workers
BY DEF NoJob, NoWorker, Jobs, Workers

(* What revocations name are sources.                                      *)
LEMMA RevokedTyped == ASSUME NEW frames PROVE RevokedIn(frames) \subseteq Sources
BY DEF RevokedIn

(* Closing sockets.                                                        *)
LEMMA CloseTyped ==
    ASSUME TypeOK, NEW socks, Close(socks)
    PROVE  /\ open' \in SUBSET Sockets
           /\ inbox' \in [Sockets -> Seq(Frames)]
           /\ home' \in Sockets \cup {0}
           /\ subs' \in SUBSET Sources
<1>1. << >> \in Seq(Frames)
  OBVIOUS
<1>2. inbox' \in [Sockets -> Seq(Frames)]
  BY <1>1 DEF TypeOK, Close
<1>3. QED BY <1>2 DEF TypeOK, Close

(* Taking the queued notices.                                              *)
LEMMA TakeTyped ==
    ASSUME TypeOK, NEW discard \in BOOLEAN, Take(discard)
    PROVE  /\ ids' \in SUBSET Sources
           /\ failed' \in SUBSET Sources
           /\ notices' \in [Sources -> {"none", "ok", "error"}]
           /\ crashed' \in BOOLEAN
BY DEF TypeOK, Take, Errors, Oks, Quiet

(* Telling the setup thread to stop.                                       *)
LEMMA ToldTyped == ASSUME TypeOK PROVE Told \in Workers
BY DEF TypeOK, Told, Workers

(* Starting a setup thread.                                                *)
LEMMA StartTyped == ASSUME NEW bad, StartWorker(bad) PROVE worker' \in Workers
BY DEF StartWorker, Workers

(* Reading a frame.                                                        *)
LEMMA ConsumeTyped ==
    ASSUME TypeOK, RecoveryAssumption, HasFrame, Consume
    PROVE  inbox' \in [Sockets -> Seq(Frames)]
<1>1. socket \in Sockets /\ inbox[socket] \in Seq(Frames) /\ inbox[socket] # << >>
  BY DEF TypeOK, HasFrame
<1>2. Tail(inbox[socket]) \in Seq(Frames)
  BY <1>1
<1>3. QED BY <1>1, <1>2 DEF TypeOK, Consume

(* A reconnect request names a URL.                                        *)
LEMMA RequestTyped ==
    ASSUME TypeOK, RecoveryAssumption, Reconnect PROVE Requested \in Urls
<1>1. inbox[socket] \in Seq(Frames) /\ inbox[socket] # << >>
  BY DEF TypeOK, Reconnect, HasFrame
<1>2. Read \in Frames /\ Read.kind = "reconnect"
  BY <1>1 DEF Reconnect, Read
<1>3. QED BY <1>2 DEF Requested, Frames

(* A new socket has an unused name.                                        *)
LEMMA FreeTyped ==
    ASSUME TypeOK, RecoveryAssumption, Sockets # open
    PROVE  Free \in Sockets \ open /\ Free # 0
<1>1. \E k \in Sockets \ open : TRUE
  BY DEF TypeOK
<1>2. Free \in Sockets \ open
  BY <1>1 DEF Free
<1>3. QED BY <1>2 DEF RecoveryAssumption

-----------------------------------------------------------------------------
(* The initial state is sound.                                             *)
LEMMA RecoveryInit == Init => RecoveryInv
<1> SUFFICES ASSUME Init PROVE RecoveryInv
  OBVIOUS
<1> USE RecoveryAssumption DEF Init
<1>1. inbox \in [Sockets -> Seq(Frames)]
  <2>1. <<Frame("welcome", "-")>> \in Seq(Frames) /\ << >> \in Seq(Frames)
    BY DEF Frame, Frames
  <2>2. QED BY <2>1
<1>2. TypeOK
  BY <1>1, NothingTyped DEF TypeOK, Quiet
<1>3. Places /\ JobRoles /\ WorkerRoles /\ Held
  BY DEF Places, JobRoles, WorkerRoles, Held, NoJob, NoWorker
<1>4. QED BY <1>2, <1>3 DEF RecoveryInv

-----------------------------------------------------------------------------
(* Every step keeps it.                                                    *)

(* Notices come in.                                                        *)
LEMMA StepKeeps ==
    ASSUME RecoveryInv, Step PROVE RecoveryInv'
<1> USE RecoveryAssumption DEF RecoveryInv
<1>1. TypeOK'
  BY TakeTyped, ZenonT(60) DEF twitch, Goto, Fatal, Step, TypeOK
<1>2. Places'
  BY DEF Step, Goto, Fatal, Places
<1>3. JobRoles'
  BY DEF Step, Goto, Fatal, JobRoles
<1>4. WorkerRoles'
  BY DEF Step, Goto, Fatal, WorkerRoles
<1>5. Held'
  BY DEF Step, twitch, Held
<1>6. QED BY <1>1, <1>2, <1>3, <1>4, <1>5

(* The loop is left.                                                       *)
LEMMA LeaveLoopKeeps ==
    ASSUME RecoveryInv, LeaveLoop PROVE RecoveryInv'
<1> USE RecoveryAssumption DEF RecoveryInv
<1>1. TypeOK'
  BY DEF book, setup, twitch, Fatal, LeaveLoop, TypeOK
<1>2. Places'
  BY DEF LeaveLoop, Fatal, Places
<1>3. JobRoles'
  BY DEF LeaveLoop, setup, Fatal, JobRoles
<1>4. WorkerRoles'
  BY DEF LeaveLoop, setup, Fatal, WorkerRoles
<1>5. Held'
  BY DEF LeaveLoop, twitch, Held
<1>6. QED BY <1>1, <1>2, <1>3, <1>4, <1>5

(* A gap found by the owner.                                               *)
LEMMA ForceGapKeeps ==
    ASSUME RecoveryInv, ForceGap PROVE RecoveryInv'
<1> USE RecoveryAssumption DEF RecoveryInv
<1>1. TypeOK'
  BY CloseTyped DEF setup, Goto, Lose, ForceGap, TypeOK
<1>2. Places'
  BY DEF ForceGap, Goto, Lose, Places
<1>3. JobRoles'
  BY DEF ForceGap, setup, Goto, Lose, JobRoles
<1>4. WorkerRoles'
  BY DEF ForceGap, setup, Goto, Lose, WorkerRoles
<1>5. Held'
  BY DEF ForceGap, Close, Lose, Held, Places, JobRoles
<1>6. QED BY <1>1, <1>2, <1>3, <1>4, <1>5

(* A reading ends the probe; the candidate is closed.                      *)
LEMMA ClockUncertainKeeps ==
    ASSUME RecoveryInv, ClockUncertain PROVE RecoveryInv'
<1> USE RecoveryAssumption DEF RecoveryInv
<1>1. TypeOK'
  BY CloseTyped DEF book, setup, Fatal, ClockUncertain, TypeOK
<1>2. Places'
  BY DEF ClockUncertain, Fatal, Places
<1>3. JobRoles'
  BY DEF ClockUncertain, setup, Fatal, JobRoles
<1>4. WorkerRoles'
  BY DEF ClockUncertain, setup, Fatal, WorkerRoles
<1>5. Held'
  BY DEF ClockUncertain, Close, Held
<1>6. QED BY <1>1, <1>2, <1>3, <1>4, <1>5

(* The job is not done.                                                    *)
LEMMA JobPendingKeeps ==
    ASSUME RecoveryInv, JobPending PROVE RecoveryInv'
<1> USE RecoveryAssumption DEF RecoveryInv
<1>1. TypeOK'
  BY DEF book, setup, twitch, Goto, JobPending, TypeOK
<1>2. Places'
  BY DEF JobPending, Goto, Places
<1>3. JobRoles'
  BY DEF JobPending, setup, Goto, JobRoles
<1>4. WorkerRoles'
  BY DEF JobPending, setup, Goto, WorkerRoles
<1>5. Held'
  BY DEF JobPending, twitch, Held
<1>6. QED BY <1>1, <1>2, <1>3, <1>4, <1>5

(* The handover is given up.                                               *)
LEMMA HandoverLateKeeps ==
    ASSUME RecoveryInv, HandoverLate PROVE RecoveryInv'
<1> USE RecoveryAssumption DEF RecoveryInv
<1>1. TypeOK'
  BY CloseTyped DEF setup, Goto, Lose, HandoverLate, TypeOK
<1>2. Places'
  BY DEF HandoverLate, Goto, Lose, Places
<1>3. JobRoles'
  BY DEF HandoverLate, setup, Goto, Lose, JobRoles
<1>4. WorkerRoles'
  BY DEF HandoverLate, setup, Goto, Lose, WorkerRoles
<1>5. Held'
  BY DEF HandoverLate, Close, Lose, Held, Places, JobRoles
<1>6. QED BY <1>1, <1>2, <1>3, <1>4, <1>5

(* The result of the job is closed.                                        *)
LEMMA JobStoppedKeeps ==
    ASSUME RecoveryInv, JobStopped PROVE RecoveryInv'
<1> USE RecoveryAssumption DEF RecoveryInv
<1>1. TypeOK'
  BY CloseTyped, NothingTyped DEF book, setup, Goto, JobDone, Result,
         JobStopped, TypeOK
<1>2. Places'
  BY DEF JobStopped, Goto, JobDone, Places
<1>3. JobRoles'
  BY DEF JobStopped, setup, Goto, JobDone, JobRoles, NoJob
<1>4. WorkerRoles'
  BY DEF JobStopped, setup, Goto, JobDone, WorkerRoles
<1>5. Held'
  BY DEF JobStopped, Close, JobDone, Result, Held, NoJob
<1>6. QED BY <1>1, <1>2, <1>3, <1>4, <1>5

(* The result of the job is forgotten, without an external guard only.     *)
LEMMA ClockUncertainInJobKeeps ==
    ASSUME RecoveryInv, ClockUncertainInJob PROVE RecoveryInv'
<1> USE RecoveryAssumption DEF RecoveryInv
<1>1. TypeOK'
  BY NothingTyped DEF book, setup, twitch, Fatal, JobDone, ClockUncertainInJob,
         TypeOK
<1>2. Places'
  BY DEF ClockUncertainInJob, Fatal, JobDone, Places
<1>3. JobRoles'
  BY DEF ClockUncertainInJob, setup, Fatal, JobDone, JobRoles, NoJob
<1>4. WorkerRoles'
  BY DEF ClockUncertainInJob, setup, Fatal, JobDone, WorkerRoles
<1>5. Held'
  BY DEF ClockUncertainInJob, twitch, JobDone, Held
<1>6. QED BY <1>1, <1>2, <1>3, <1>4, <1>5

(* A fatal result.                                                         *)
LEMMA JobFatalKeeps ==
    ASSUME RecoveryInv, JobFatal PROVE RecoveryInv'
<1> USE RecoveryAssumption DEF RecoveryInv
<1>1. TypeOK'
  BY CloseTyped, NothingTyped DEF book, setup, Fatal, JobDone, Result, JobFatal,
         TypeOK
<1>2. Places'
  BY DEF JobFatal, Fatal, JobDone, Places
<1>3. JobRoles'
  BY DEF JobFatal, setup, Fatal, JobDone, JobRoles, NoJob
<1>4. WorkerRoles'
  BY DEF JobFatal, setup, Fatal, JobDone, WorkerRoles
<1>5. Held'
  BY DEF JobFatal, Close, JobDone, Result, Held, NoJob
<1>6. QED BY <1>1, <1>2, <1>3, <1>4, <1>5

(* A cold attempt failed.                                                  *)
LEMMA ColdFailedKeeps ==
    ASSUME RecoveryInv, ColdFailed PROVE RecoveryInv'
<1> USE RecoveryAssumption DEF RecoveryInv
<1>1. TypeOK'
  BY CloseTyped, NothingTyped DEF book, setup, Goto, JobDone, Result,
         ColdFailed, TypeOK
<1>2. Places'
  BY DEF ColdFailed, Goto, JobDone, Places
<1>3. JobRoles'
  BY DEF ColdFailed, setup, Goto, JobDone, JobRoles, NoJob
<1>4. WorkerRoles'
  BY DEF ColdFailed, setup, Goto, JobDone, WorkerRoles
<1>5. Held'
  BY DEF ColdFailed, Close, JobDone, Result, Held, NoJob
<1>6. QED BY <1>1, <1>2, <1>3, <1>4, <1>5

(* A fresh session: the job's socket is the loop's, and a thread starts.   *)
LEMMA ColdDoneKeeps ==
    ASSUME RecoveryInv, ColdDone PROVE RecoveryInv'
<1> USE RecoveryAssumption DEF RecoveryInv
<1>1. TypeOK'
  <2>1. worker' \in Workers
    BY StartTyped DEF ColdDone, TypeOK
  <2>2. job.socket \in Sockets \cup {0}
    BY DEF TypeOK, Jobs
  <2>3. QED
    BY <2>1, <2>2, NothingTyped DEF ColdDone, Carried, Goto, Fatal, twitch, TypeOK
<1>2. Places'
  BY DEF ColdDone, Goto, Fatal, JobDone, Places
<1>3. JobRoles'
  BY DEF ColdDone, setup, Goto, Fatal, StartWorker, JobDone, JobRoles, NoJob
<1>4. WorkerRoles'
  BY DEF ColdDone, setup, Goto, Fatal, StartWorker, JobDone, WorkerRoles,
         Places, JobRoles, NoJob
<1>5. Held'
  BY DEF ColdDone, twitch, JobDone, Held, Places, JobRoles, NoJob
<1>6. QED BY <1>1, <1>2, <1>3, <1>4, <1>5

(* A handover failed.                                                      *)
LEMMA HandoverFailedKeeps ==
    ASSUME RecoveryInv, HandoverFailed PROVE RecoveryInv'
<1> USE RecoveryAssumption DEF RecoveryInv
<1>1. TypeOK'
  BY CloseTyped, NothingTyped DEF setup, Goto, Lose, JobDone, Result,
         HandoverFailed, TypeOK
<1>2. Places'
  BY DEF HandoverFailed, Goto, Lose, JobDone, Places
<1>3. JobRoles'
  BY DEF HandoverFailed, setup, Goto, Lose, JobDone, JobRoles, NoJob
<1>4. WorkerRoles'
  BY DEF HandoverFailed, setup, Goto, Lose, JobDone, WorkerRoles
<1>5. Held'
  BY DEF HandoverFailed, Close, Lose, JobDone, Result, Held, Places, JobRoles,
         NoJob
<1>6. QED BY <1>1, <1>2, <1>3, <1>4, <1>5

(* The drain failed.                                                       *)
LEMMA DrainFailedKeeps ==
    ASSUME RecoveryInv, NEW n \in 0..MaxFrames, DrainFailed(n) PROVE RecoveryInv'
<1> USE RecoveryAssumption DEF RecoveryInv
<1>1. TypeOK'
  BY CloseTyped, NothingTyped, RevokedTyped DEF setup, Goto, Lose, JobDone,
         Result, HandoverReady, DrainFailed, TypeOK
<1>2. Places'
  BY DEF DrainFailed, Goto, Lose, JobDone, HandoverReady, Places
<1>3. JobRoles'
  BY DEF DrainFailed, setup, Goto, Lose, JobDone, HandoverReady, JobRoles, NoJob
<1>4. WorkerRoles'
  BY DEF DrainFailed, setup, Goto, Lose, JobDone, HandoverReady, WorkerRoles
<1>5. Held'
  BY DEF DrainFailed, Close, Lose, JobDone, Result, HandoverReady, Held, Places,
         JobRoles, NoJob
<1>6. QED BY <1>1, <1>2, <1>3, <1>4, <1>5

(* The old socket is closed; the candidate is in hand.                     *)
LEMMA DrainKeeps ==
    ASSUME RecoveryInv, NEW n \in 0..MaxFrames, Drain(n) PROVE RecoveryInv'
<1> USE RecoveryAssumption DEF RecoveryInv
<1>1. TypeOK'
  <2>1. job.socket \in Sockets \cup {0}
    BY DEF TypeOK, Jobs
  <2>2. failed' \in SUBSET Sources
    BY RevokedTyped DEF Drain, TypeOK
  <2>3. QED
    BY <2>1, <2>2, NothingTyped, CloseTyped DEF Drain, Goto, setup, TypeOK
<1>2. Places'
  BY DEF Drain, Goto, JobDone, HandoverReady, Places, JobRoles, NoJob
<1>3. JobRoles'
  BY DEF Drain, setup, Goto, JobDone, HandoverReady, JobRoles, NoJob
<1>4. WorkerRoles'
  BY DEF Drain, setup, Goto, JobDone, HandoverReady, WorkerRoles
<1>5. Held'
  BY DEF Drain, Close, JobDone, HandoverReady, Held, Places, JobRoles, NoJob
<1>6. QED BY <1>1, <1>2, <1>3, <1>4, <1>5

(* The candidate is closed.                                                *)
LEMMA SwitchStoppedKeeps ==
    ASSUME RecoveryInv, SwitchStopped PROVE RecoveryInv'
<1> USE RecoveryAssumption DEF RecoveryInv
<1>1. TypeOK'
  BY CloseTyped DEF book, setup, Goto, SwitchStopped, TypeOK
<1>2. Places'
  BY DEF SwitchStopped, Goto, Places
<1>3. JobRoles'
  BY DEF SwitchStopped, setup, Goto, JobRoles, Places
<1>4. WorkerRoles'
  BY DEF SwitchStopped, setup, Goto, WorkerRoles
<1>5. Held'
  BY DEF SwitchStopped, Close, Held
<1>6. QED BY <1>1, <1>2, <1>3, <1>4, <1>5

(* The candidate came too late.                                            *)
LEMMA SwitchLateKeeps ==
    ASSUME RecoveryInv, SwitchLate PROVE RecoveryInv'
<1> USE RecoveryAssumption DEF RecoveryInv
<1>1. TypeOK'
  BY CloseTyped DEF setup, Goto, Lose, SwitchLate, TypeOK
<1>2. Places'
  BY DEF SwitchLate, Goto, Lose, Places
<1>3. JobRoles'
  BY DEF SwitchLate, setup, Goto, Lose, JobRoles
<1>4. WorkerRoles'
  BY DEF SwitchLate, setup, Goto, Lose, WorkerRoles
<1>5. Held'
  BY DEF SwitchLate, Close, Lose, Held
<1>6. QED BY <1>1, <1>2, <1>3, <1>4, <1>5

(* The candidate is the loop's socket.                                     *)
LEMMA SwitchKeeps ==
    ASSUME RecoveryInv, Switch PROVE RecoveryInv'
<1> USE RecoveryAssumption DEF RecoveryInv
<1>1. TypeOK'
  BY DEF book, setup, twitch, Goto, Switch, TypeOK
<1>2. Places'
  BY DEF Switch, Goto, Places
<1>3. JobRoles'
  BY DEF Switch, setup, Goto, JobRoles, Places
<1>4. WorkerRoles'
  BY DEF Switch, setup, Goto, WorkerRoles, Places, JobRoles
<1>5. Held'
  BY DEF Switch, twitch, Held, Places, JobRoles
<1>6. QED BY <1>1, <1>2, <1>3, <1>4, <1>5

(* No loss yet, no socket: an internal error.                              *)
LEMMA RetryUnsetKeeps ==
    ASSUME RecoveryInv, RetryUnset PROVE RecoveryInv'
<1> USE RecoveryAssumption DEF RecoveryInv
<1>1. TypeOK'
  BY DEF book, setup, twitch, Fatal, RetryUnset, TypeOK
<1>2. Places'
  BY DEF RetryUnset, Fatal, Places
<1>3. JobRoles'
  BY DEF RetryUnset, setup, Fatal, JobRoles
<1>4. WorkerRoles'
  BY DEF RetryUnset, setup, Fatal, WorkerRoles
<1>5. Held'
  BY DEF RetryUnset, twitch, Held
<1>6. QED BY <1>1, <1>2, <1>3, <1>4, <1>5

(* A cold job starts when there is neither a socket nor a setup thread.    *)
LEMMA DialColdKeeps ==
    ASSUME RecoveryInv, DialCold PROVE RecoveryInv'
<1> USE RecoveryAssumption DEF RecoveryInv
<1>1. TypeOK'
  <2>1. job' \in Jobs
    BY DEF book, setup, twitch, NoJob, Goto, DialNow, DialCold, TypeOK, Jobs,
         Outcomes
  <2>2. QED
    BY <2>1, NothingTyped DEF book, setup, twitch, Goto, DialNow, DialCold,
           TypeOK
<1>2. Places'
  BY DEF DialCold, Goto, DialNow, Places
<1>3. JobRoles'
  BY DEF DialCold, setup, Goto, DialNow, JobRoles, WorkerRoles, TypeOK, Jobs,
         NoJob
<1>4. WorkerRoles'
  BY DEF DialCold, setup, Goto, DialNow, WorkerRoles
<1>5. Held'
  BY DEF DialCold, twitch, DialNow, Held, Places, JobRoles, NoJob
<1>6. QED BY <1>1, <1>2, <1>3, <1>4, <1>5

(* Nothing to do yet.                                                      *)
LEMMA WaitForSocketKeeps ==
    ASSUME RecoveryInv, WaitForSocket PROVE RecoveryInv'
<1> USE RecoveryAssumption DEF RecoveryInv
<1>1. TypeOK'
  BY DEF book, setup, twitch, Goto, DialNow, WaitForSocket, TypeOK
<1>2. Places'
  BY DEF WaitForSocket, Goto, DialNow, Places
<1>3. JobRoles'
  BY DEF WaitForSocket, setup, Goto, DialNow, JobRoles
<1>4. WorkerRoles'
  BY DEF WaitForSocket, setup, Goto, DialNow, WorkerRoles
<1>5. Held'
  BY DEF WaitForSocket, twitch, DialNow, Held
<1>6. QED BY <1>1, <1>2, <1>3, <1>4, <1>5

(* The socket is lost.                                                     *)
LEMMA SocketLostKeeps ==
    ASSUME RecoveryInv, SocketLost PROVE RecoveryInv'
<1> USE RecoveryAssumption DEF RecoveryInv
<1>1. TypeOK'
  BY CloseTyped DEF setup, Goto, Lose, SocketLost, TypeOK
<1>2. Places'
  BY DEF SocketLost, Goto, Lose, Places
<1>3. JobRoles'
  BY DEF SocketLost, setup, Goto, Lose, JobRoles
<1>4. WorkerRoles'
  BY DEF SocketLost, setup, Goto, Lose, WorkerRoles
<1>5. Held'
  BY DEF SocketLost, Close, Lose, Held, Places, JobRoles
<1>6. QED BY <1>1, <1>2, <1>3, <1>4, <1>5

(* No frame.                                                               *)
LEMMA NoFrameKeeps ==
    ASSUME RecoveryInv, NoFrame PROVE RecoveryInv'
<1> USE RecoveryAssumption DEF RecoveryInv
<1>1. TypeOK'
  BY DEF book, setup, twitch, Goto, NoFrame, TypeOK
<1>2. Places'
  BY DEF NoFrame, Goto, Places
<1>3. JobRoles'
  BY DEF NoFrame, setup, Goto, JobRoles
<1>4. WorkerRoles'
  BY DEF NoFrame, setup, Goto, WorkerRoles
<1>5. Held'
  BY DEF NoFrame, twitch, Held
<1>6. QED BY <1>1, <1>2, <1>3, <1>4, <1>5

(* A frame is thrown away.                                                 *)
LEMMA FrameAfterStopKeeps ==
    ASSUME RecoveryInv, FrameAfterStop PROVE RecoveryInv'
<1> USE RecoveryAssumption DEF RecoveryInv
<1>1. TypeOK'
  <2>1. inbox' \in [Sockets -> Seq(Frames)] /\ UNCHANGED <<open, home, subs>>
    BY ConsumeTyped DEF FrameAfterStop, Consume
  <2>2. QED
    BY <2>1 DEF FrameAfterStop, Goto, book, setup, TypeOK
<1>2. Places'
  BY DEF FrameAfterStop, Goto, HasFrame, Places
<1>3. JobRoles'
  BY DEF FrameAfterStop, setup, Goto, HasFrame, JobRoles
<1>4. WorkerRoles'
  BY DEF FrameAfterStop, setup, Goto, HasFrame, WorkerRoles
<1>5. Held'
  BY DEF FrameAfterStop, HasFrame, Consume, Held
<1>6. QED BY <1>1, <1>2, <1>3, <1>4, <1>5

(* An invalid frame.                                                       *)
LEMMA FrameInvalidKeeps ==
    ASSUME RecoveryInv, FrameInvalid PROVE RecoveryInv'
<1> USE RecoveryAssumption DEF RecoveryInv
<1>1. TypeOK'
  <2>1. inbox' \in [Sockets -> Seq(Frames)] /\ UNCHANGED <<open, home, subs>>
    BY ConsumeTyped DEF FrameInvalid, Consume
  <2>2. QED
    BY <2>1 DEF FrameInvalid, Fatal, book, setup, TypeOK
<1>2. Places'
  BY DEF FrameInvalid, Fatal, HasFrame, Places
<1>3. JobRoles'
  BY DEF FrameInvalid, setup, Fatal, HasFrame, JobRoles
<1>4. WorkerRoles'
  BY DEF FrameInvalid, setup, Fatal, HasFrame, WorkerRoles
<1>5. Held'
  BY DEF FrameInvalid, HasFrame, Consume, Held
<1>6. QED BY <1>1, <1>2, <1>3, <1>4, <1>5

(* A frame; the first one starts the setup thread.                         *)
LEMMA ReceiveKeeps ==
    ASSUME RecoveryInv, Receive PROVE RecoveryInv'
<1> USE RecoveryAssumption DEF RecoveryInv
<1>1. TypeOK'
  <2>1. failed' \in SUBSET Sources
    BY RevokedTyped DEF Receive, TypeOK
  <2>2. worker' \in Workers
    BY StartTyped DEF Receive, TypeOK
  <2>3. inbox' \in [Sockets -> Seq(Frames)] /\ UNCHANGED <<open, home, subs>>
    BY ConsumeTyped DEF Receive, Consume
  <2>4. pc' \in {"top", "stopping"} /\ reason' \in {reason, "no_usable_subscriptions"}
    BY DEF Receive, Goto, Fatal
  <2>5. QED
    BY <2>1, <2>2, <2>3, <2>4, SMTT(40) DEF Receive, TypeOK
<1>2. Places'
  BY DEF Receive, Goto, Fatal, HasFrame, Places
<1>3. JobRoles'
  BY DEF Receive, setup, Goto, Fatal, StartWorker, HasFrame, JobRoles
<1>4. WorkerRoles'
  BY DEF Receive, setup, Goto, Fatal, StartWorker, HasFrame, WorkerRoles
<1>5. Held'
  BY DEF Receive, HasFrame, Consume, Held
<1>6. QED BY <1>1, <1>2, <1>3, <1>4, <1>5

(* A duplicate request.                                                    *)
LEMMA ReconnectAgainKeeps ==
    ASSUME RecoveryInv, ReconnectAgain PROVE RecoveryInv'
<1> USE RecoveryAssumption DEF RecoveryInv
<1>1. TypeOK'
  <2>1. inbox' \in [Sockets -> Seq(Frames)] /\ UNCHANGED <<open, home, subs>>
    BY ConsumeTyped DEF ReconnectAgain, Consume, Reconnect
  <2>2. QED
    BY <2>1 DEF ReconnectAgain, Goto, book, setup, TypeOK
<1>2. Places'
  BY DEF ReconnectAgain, Goto, HasFrame, Reconnect, Places
<1>3. JobRoles'
  BY DEF ReconnectAgain, setup, Goto, HasFrame, Reconnect, JobRoles
<1>4. WorkerRoles'
  BY DEF ReconnectAgain, setup, Goto, HasFrame, Reconnect, WorkerRoles
<1>5. Held'
  BY DEF ReconnectAgain, HasFrame, Consume, Reconnect, Held
<1>6. QED BY <1>1, <1>2, <1>3, <1>4, <1>5

(* A request that ends the session.                                        *)
LEMMA ReconnectRefusedKeeps ==
    ASSUME RecoveryInv, ReconnectRefused PROVE RecoveryInv'
<1> USE RecoveryAssumption DEF RecoveryInv
<1>1. TypeOK'
  BY CloseTyped DEF setup, SetupComplete, Goto, Lose, HasFrame, Read,
         Acceptable, Requested, Reconnect, ReconnectRefused, TypeOK
<1>2. Places'
  BY DEF ReconnectRefused, Goto, Lose, HasFrame, Reconnect, Places
<1>3. JobRoles'
  BY DEF ReconnectRefused, setup, Goto, Lose, HasFrame, Reconnect, JobRoles
<1>4. WorkerRoles'
  BY DEF ReconnectRefused, setup, Goto, Lose, HasFrame, Reconnect, WorkerRoles
<1>5. Held'
  BY DEF ReconnectRefused, Close, Lose, HasFrame, Reconnect, Held, Places,
         JobRoles
<1>6. QED BY <1>1, <1>2, <1>3, <1>4, <1>5

(* A handover begins from a socket in use.                                 *)
LEMMA DialHandoverKeeps ==
    ASSUME RecoveryInv, DialHandover PROVE RecoveryInv'
<1> USE RecoveryAssumption DEF RecoveryInv
<1>1. TypeOK'
  <2>1. job' \in Jobs
    BY RequestTyped DEF DialHandover, NoJob, Jobs
  <2>2. QED
    BY <2>1, ConsumeTyped DEF DialHandover, Reconnect, Consume, Goto, book, setup, TypeOK
<1>2. Places'
  BY DEF DialHandover, Goto, HasFrame, Reconnect, Places
<1>3. JobRoles'
  BY DEF DialHandover, setup, Goto, HasFrame, Reconnect, JobRoles, NoJob
<1>4. WorkerRoles'
  BY DEF DialHandover, setup, Goto, HasFrame, Reconnect, WorkerRoles
<1>5. Held'
  BY DEF DialHandover, HasFrame, Consume, Reconnect, Held, Places, JobRoles,
         NoJob
<1>6. QED BY <1>1, <1>2, <1>3, <1>4, <1>5

(* The connection thread has ended and what it opened is closed.           *)
LEMMA JoinJobKeeps ==
    ASSUME RecoveryInv, JoinJob PROVE RecoveryInv'
<1> USE RecoveryAssumption DEF RecoveryInv
<1>1. TypeOK'
  BY CloseTyped, NothingTyped, ToldTyped, SMTT(40) DEF book, Goto, Fatal, Result,
         JoinJob, TypeOK
<1>2. Places'
  BY DEF JoinJob, Goto, Fatal, Told, Places, NoJob
<1>3. JobRoles'
  BY DEF JoinJob, Goto, Fatal, Told, JobRoles, NoJob
<1>4. WorkerRoles'
  <2>1. pc' \in {"joinWorker", "stopping"}
    BY DEF JoinJob, Goto, Fatal
  <2>2. /\ worker'.state = worker.state
        /\ worker'.posting = worker.posting
        /\ worker'.todo = worker.todo
    BY DEF JoinJob, Told, TypeOK, Workers
  <2>3. QED BY <2>1, <2>2 DEF WorkerRoles
<1>5. Held'
  BY DEF JoinJob, Close, Result, Told, Held, NoJob
<1>6. QED BY <1>1, <1>2, <1>3, <1>4, <1>5

(* The setup thread has ended.                                             *)
LEMMA JoinWorkerKeeps ==
    ASSUME RecoveryInv, JoinWorker PROVE RecoveryInv'
<1> USE RecoveryAssumption DEF RecoveryInv
<1>1. TypeOK'
  BY TakeTyped, NothingTyped, ZenonT(60)
  DEF twitch, Goto, Fatal, WorkerEnded, JoinWorker, TypeOK
<1>2. Places'
  BY DEF JoinWorker, Goto, Fatal, WorkerEnded, Places
<1>3. JobRoles'
  BY DEF JoinWorker, Goto, Fatal, WorkerEnded, JobRoles, Places, NoWorker
<1>4. WorkerRoles'
  BY DEF JoinWorker, Goto, Fatal, WorkerEnded, WorkerRoles, NoWorker
<1>5. Held'
  BY DEF JoinWorker, twitch, WorkerEnded, Held
<1>6. QED BY <1>1, <1>2, <1>3, <1>4, <1>5

(* The socket is closed.                                                   *)
LEMMA ShutdownKeeps ==
    ASSUME RecoveryInv, Shutdown PROVE RecoveryInv'
<1> USE RecoveryAssumption DEF RecoveryInv
<1>1. TypeOK'
  BY CloseTyped DEF book, setup, Goto, Shutdown, TypeOK
<1>2. Places'
  BY DEF Shutdown, Goto, Places
<1>3. JobRoles'
  BY DEF Shutdown, setup, Goto, JobRoles
<1>4. WorkerRoles'
  BY DEF Shutdown, setup, Goto, WorkerRoles
<1>5. Held'
  BY DEF Shutdown, Close, Held
<1>6. QED BY <1>1, <1>2, <1>3, <1>4, <1>5

(* The connection thread has ended.                                        *)
LEMMA StopJobKeeps ==
    ASSUME RecoveryInv, StopJob PROVE RecoveryInv'
<1> USE RecoveryAssumption DEF RecoveryInv
<1>1. TypeOK'
  BY CloseTyped, NothingTyped, ToldTyped DEF book, Goto, Result, StopJob, TypeOK
<1>2. Places'
  BY DEF StopJob, Goto, Told, Places, NoJob
<1>3. JobRoles'
  BY DEF StopJob, Goto, Told, JobRoles, NoJob
<1>4. WorkerRoles'
  BY DEF StopJob, Goto, Told, WorkerRoles
<1>5. Held'
  BY DEF StopJob, Close, Result, Told, Held, NoJob
<1>6. QED BY <1>1, <1>2, <1>3, <1>4, <1>5

(* The setup thread has ended.                                             *)
LEMMA StopWorkerKeeps ==
    ASSUME RecoveryInv, StopWorker PROVE RecoveryInv'
<1> USE RecoveryAssumption DEF RecoveryInv
<1>1. TypeOK'
  BY TakeTyped, NothingTyped, ZenonT(60)
  DEF twitch, Goto, WorkerEnded, StopWorker, TypeOK
<1>2. Places'
  BY DEF StopWorker, Goto, WorkerEnded, Places
<1>3. JobRoles'
  BY DEF StopWorker, Goto, WorkerEnded, JobRoles, NoWorker
<1>4. WorkerRoles'
  BY DEF StopWorker, Goto, WorkerEnded, WorkerRoles, NoWorker
<1>5. Held'
  BY DEF StopWorker, twitch, WorkerEnded, Held
<1>6. QED BY <1>1, <1>2, <1>3, <1>4, <1>5

(* The stop event is set.                                                  *)
LEMMA RequestStopKeeps ==
    ASSUME RecoveryInv, RequestStop PROVE RecoveryInv'
<1> USE RecoveryAssumption DEF RecoveryInv
<1>1. TypeOK'
  BY DEF book, setup, twitch, RequestStop, TypeOK
<1>2. Places'
  BY DEF RequestStop, Places
<1>3. JobRoles'
  BY DEF RequestStop, setup, JobRoles
<1>4. WorkerRoles'
  BY DEF RequestStop, setup, WorkerRoles
<1>5. Held'
  BY DEF RequestStop, twitch, Held
<1>6. QED BY <1>1, <1>2, <1>3, <1>4, <1>5

(* The backoff ran down.                                                   *)
LEMMA BackoffOverKeeps ==
    ASSUME RecoveryInv, BackoffOver PROVE RecoveryInv'
<1> USE RecoveryAssumption DEF RecoveryInv
<1>1. TypeOK'
  BY DEF book, setup, twitch, BackoffOver, TypeOK
<1>2. Places'
  BY DEF BackoffOver, Places
<1>3. JobRoles'
  BY DEF BackoffOver, setup, JobRoles
<1>4. WorkerRoles'
  BY DEF BackoffOver, setup, WorkerRoles
<1>5. Held'
  BY DEF BackoffOver, twitch, Held
<1>6. QED BY <1>1, <1>2, <1>3, <1>4, <1>5

(* The connection thread has a socket.                                     *)
LEMMA DialWelcomedKeeps ==
    ASSUME RecoveryInv, DialWelcomed PROVE RecoveryInv'
<1> USE RecoveryAssumption DEF RecoveryInv
<1>1. TypeOK'
  <2>1. job' \in Jobs
    BY FreeTyped, ZenonT(60) DEF loop, book, setup, Answered, DialWelcomed, TypeOK,
         Jobs, Outcomes
  <2>2. QED
    BY <2>1, FreeTyped DEF loop, book, setup, Answered, DialWelcomed, TypeOK
<1>2. Places'
  BY DEF DialWelcomed, loop, Answered, Places, JobRoles
<1>3. JobRoles'
  BY FreeTyped, ZenonT(60)
  DEF loop, Answered, DialWelcomed, setup, JobRoles, TypeOK, Jobs
<1>4. WorkerRoles'
  BY DEF DialWelcomed, loop, setup, WorkerRoles
<1>5. Held'
  BY ZenonT(60) DEF DialWelcomed, loop, Free, Answered, Held, Places, JobRoles,
         WorkerRoles, TypeOK, Jobs, Workers
<1>6. QED BY <1>1, <1>2, <1>3, <1>4, <1>5

(* The connection thread failed.                                           *)
LEMMA DialFailedKeeps ==
    ASSUME RecoveryInv, NEW outcome \in {"refused", "bad", "auth", "internal"},
           NEW opened \in BOOLEAN, DialFailed(outcome, opened) PROVE RecoveryInv'
<1> USE RecoveryAssumption DEF RecoveryInv
<1>1. TypeOK'
  <2>1. job' \in Jobs
    BY FreeTyped DEF loop, book, setup, Answered, DialFailed, TypeOK, Jobs,
         Outcomes
  <2>2. QED
    BY <2>1, FreeTyped DEF loop, book, setup, Answered, DialFailed, TypeOK
<1>2. Places'
  BY DEF DialFailed, loop, Answered, Places
<1>3. JobRoles'
  BY DEF DialFailed, loop, setup, Answered, JobRoles
<1>4. WorkerRoles'
  BY DEF DialFailed, loop, setup, WorkerRoles
<1>5. Held'
  BY DEF DialFailed, loop, Free, Answered, Held, Places, JobRoles
<1>6. QED BY <1>1, <1>2, <1>3, <1>4, <1>5

(* A POST begins.                                                          *)
LEMMA PostKeeps ==
    ASSUME RecoveryInv, NEW s \in Sources, Post(s) PROVE RecoveryInv'
<1> USE RecoveryAssumption DEF RecoveryInv
<1>1. TypeOK'
  <2>1. worker' \in Workers
    BY DEF loop, book, setup, twitch, Post, TypeOK, Workers
  <2>2. QED
    BY <2>1 DEF loop, book, setup, twitch, Post, TypeOK
<1>2. Places'
  BY DEF Post, loop, Places
<1>3. JobRoles'
  BY DEF Post, loop, setup, JobRoles
<1>4. WorkerRoles'
  BY DEF Post, loop, setup, WorkerRoles
<1>5. Held'
  BY DEF Post, loop, twitch, Held
<1>6. QED BY <1>1, <1>2, <1>3, <1>4, <1>5

(* A POST is answered.                                                     *)
LEMMA PostedKeeps ==
    ASSUME RecoveryInv, NEW s \in Sources, NEW notice \in {"ok", "error"}, Posted(s, notice)
    PROVE  RecoveryInv'
<1> USE RecoveryAssumption DEF RecoveryInv
<1>1. TypeOK'
  <2>1. worker' \in Workers
    BY DEF loop, book, setup, Posted, TypeOK, Workers
  <2>2. QED
    BY <2>1 DEF loop, book, setup, Posted, TypeOK
<1>2. Places'
  BY DEF Posted, loop, Places
<1>3. JobRoles'
  BY DEF Posted, loop, setup, JobRoles
<1>4. WorkerRoles'
  BY DEF Posted, loop, setup, WorkerRoles
<1>5. Held'
  BY DEF Posted, loop, Held
<1>6. QED BY <1>1, <1>2, <1>3, <1>4, <1>5

(* Every subscription was tried.                                           *)
LEMMA SetupDoneKeeps ==
    ASSUME RecoveryInv, SetupDone PROVE RecoveryInv'
<1> USE RecoveryAssumption DEF RecoveryInv
<1>1. TypeOK'
  <2>1. worker' \in Workers
    BY DEF loop, book, setup, twitch, SetupDone, TypeOK, Workers
  <2>2. QED
    BY <2>1 DEF loop, book, setup, twitch, SetupDone, TypeOK
<1>2. Places'
  BY DEF SetupDone, loop, Places
<1>3. JobRoles'
  BY DEF SetupDone, loop, setup, JobRoles
<1>4. WorkerRoles'
  BY DEF SetupDone, loop, setup, WorkerRoles
<1>5. Held'
  BY DEF SetupDone, loop, twitch, Held
<1>6. QED BY <1>1, <1>2, <1>3, <1>4, <1>5

(* The setup thread ends.                                                  *)
LEMMA WorkerStopsKeeps ==
    ASSUME RecoveryInv, WorkerStops PROVE RecoveryInv'
<1> USE RecoveryAssumption DEF RecoveryInv
<1>1. TypeOK'
  <2>1. worker' \in Workers
    BY DEF loop, book, setup, twitch, WorkerStops, TypeOK, Workers
  <2>2. QED
    BY <2>1 DEF loop, book, setup, twitch, WorkerStops, TypeOK
<1>2. Places'
  BY DEF WorkerStops, loop, Places
<1>3. JobRoles'
  BY DEF WorkerStops, loop, setup, JobRoles
<1>4. WorkerRoles'
  BY DEF WorkerStops, loop, setup, WorkerRoles
<1>5. Held'
  BY DEF WorkerStops, loop, twitch, Held
<1>6. QED BY <1>1, <1>2, <1>3, <1>4, <1>5

(* The setup thread fails.                                                 *)
LEMMA WorkerCrashesKeeps ==
    ASSUME RecoveryInv, WorkerCrashes PROVE RecoveryInv'
<1> USE RecoveryAssumption DEF RecoveryInv
<1>1. TypeOK'
  <2>1. worker' \in Workers
    BY DEF loop, book, twitch, WorkerCrashes, TypeOK, Workers
  <2>2. QED
    BY <2>1 DEF loop, book, twitch, WorkerCrashes, TypeOK
<1>2. Places'
  BY DEF WorkerCrashes, loop, Places
<1>3. JobRoles'
  BY DEF WorkerCrashes, loop, JobRoles, WorkerRoles, TypeOK, Jobs
<1>4. WorkerRoles'
  BY DEF WorkerCrashes, loop, WorkerRoles
<1>5. Held'
  BY DEF WorkerCrashes, loop, twitch, Held
<1>6. QED BY <1>1, <1>2, <1>3, <1>4, <1>5

(* A frame arrives.                                                        *)
LEMMA SendKeeps ==
    ASSUME RecoveryInv, NEW frame \in Frames, Send(frame) PROVE RecoveryInv'
<1> USE RecoveryAssumption DEF RecoveryInv
<1>1. TypeOK'
  BY DEF loop, book, setup, Deliver, Send, TypeOK
<1>2. Places'
  BY DEF Send, loop, Deliver, Places
<1>3. JobRoles'
  BY DEF Send, loop, setup, Deliver, JobRoles
<1>4. WorkerRoles'
  BY DEF Send, loop, setup, Deliver, WorkerRoles
<1>5. Held'
  BY DEF Send, loop, Deliver, Held
<1>6. QED BY <1>1, <1>2, <1>3, <1>4, <1>5

(* A revocation arrives.                                                   *)
LEMMA RevokeKeeps ==
    ASSUME RecoveryInv, NEW s \in Sources, Revoke(s) PROVE RecoveryInv'
<1> USE RecoveryAssumption DEF RecoveryInv
<1>1. TypeOK'
  <2>1. Frame("revoke", s) \in Frames
    BY DEF Frame, Frames
  <2>2. QED
    BY <2>1 DEF Revoke, Deliver, loop, book, setup, TypeOK
<1>2. Places'
  BY DEF Revoke, loop, Deliver, Places
<1>3. JobRoles'
  BY DEF Revoke, loop, setup, Deliver, JobRoles
<1>4. WorkerRoles'
  BY DEF Revoke, loop, setup, Deliver, WorkerRoles
<1>5. Held'
  BY DEF Revoke, loop, Deliver, Held
<1>6. QED BY <1>1, <1>2, <1>3, <1>4, <1>5

-----------------------------------------------------------------------------
(* The invariant is inductive.                                             *)
LEMMA RecoveryStep == RecoveryInv /\ [Next]_vars => RecoveryInv'
<1> SUFFICES ASSUME RecoveryInv, [Next]_vars PROVE RecoveryInv'
  OBVIOUS
<1>1. CASE Between
  BY <1>1, StepKeeps, LeaveLoopKeeps, ForceGapKeeps DEF Between
<1>2. CASE Clock
  BY <1>2, ClockUncertainKeeps, ClockUncertainInJobKeeps DEF Clock
<1>3. CASE Connection
  BY <1>3, JobPendingKeeps, HandoverLateKeeps, JobStoppedKeeps, JobFatalKeeps,
         ColdFailedKeeps, ColdDoneKeeps, HandoverFailedKeeps, DrainFailedKeeps,
         DrainKeeps, SwitchStoppedKeeps, SwitchLateKeeps, SwitchKeeps DEF
         Connection
<1>4. CASE Reading
  BY <1>4, RetryUnsetKeeps, DialColdKeeps, WaitForSocketKeeps, SocketLostKeeps,
         NoFrameKeeps, FrameAfterStopKeeps, FrameInvalidKeeps, ReceiveKeeps,
         ReconnectAgainKeeps, ReconnectRefusedKeeps, DialHandoverKeeps DEF
         Reading
<1>5. CASE Ending
  BY <1>5, JoinJobKeeps, JoinWorkerKeeps, ShutdownKeeps, StopJobKeeps,
         StopWorkerKeeps DEF Ending
<1>6. CASE Dial
  BY <1>6, DialWelcomedKeeps, DialFailedKeeps DEF Dial
<1>7. CASE WorkerRuns
  BY <1>7, PostKeeps, PostedKeeps, SetupDoneKeeps, WorkerStopsKeeps DEF
         WorkerRuns
<1>8. CASE WorkerCrashes
  BY <1>8, WorkerCrashesKeeps
<1>9. CASE Twitch
  BY <1>9, SendKeeps, RevokeKeeps DEF Twitch
<1>10. CASE BackoffOver
  BY <1>10, BackoffOverKeeps
<1>11. CASE RequestStop
  BY <1>11, RequestStopKeeps
<1>12. CASE UNCHANGED vars
  BY <1>12 DEF vars, loop, book, setup, twitch, RecoveryInv, TypeOK, Places,
              JobRoles, WorkerRoles, Held
<1>13. QED
  BY <1>1, <1>2, <1>3, <1>4, <1>5, <1>6, <1>7, <1>8, <1>9, <1>10,
      <1>11, <1>12 DEF Next, Loop, Ended

(* RecoveryInv holds in every reachable state.                             *)
THEOREM RecoveryIsSound == Spec => []RecoveryInv
<1>1. QED BY RecoveryInit, RecoveryStep, PTL DEF Spec

(* Token work never overlaps: a cold job finds no setup thread, and none   *)
(* is started until its socket is in use.                                  *)
THEOREM TokenWorkNever == Spec => []TokenWorkNeverOverlaps
<1>1. RecoveryInv => TokenWorkNeverOverlaps
  BY DEF RecoveryInv, JobRoles, TokenWorkNeverOverlaps
<1>2. QED BY <1>1, RecoveryIsSound, PTL

(* With an external guard every open socket has a holder, and shutdown     *)
(* leaves none.                                                            *)
THEOREM SocketsAlwaysHeld == External => (Spec => []SocketsAreHeld)
<1> SUFFICES ASSUME External PROVE Spec => []SocketsAreHeld
  OBVIOUS
<1>1. RecoveryInv => SocketsAreHeld
  <2> SUFFICES ASSUME RecoveryInv PROVE SocketsAreHeld
    OBVIOUS
  <2>1. open \subseteq {socket, candidate, job.socket} /\ 0 \notin open
    BY RecoveryAssumption DEF RecoveryInv, Held, TypeOK
  <2>2. candidate # 0 => socket = 0 /\ job.socket = 0
    BY DEF RecoveryInv, Places, JobRoles
  <2>3. pc = "ended" => socket = 0 /\ candidate = 0 /\ job.socket = 0
    BY DEF RecoveryInv, Places, JobRoles
  <2>4. QED BY <2>1, <2>2, <2>3 DEF SocketsAreHeld
<1>2. QED BY <1>1, RecoveryIsSound, PTL

-----------------------------------------------------------------------------
(* Refinement of the ledger.                                               *)

(* News about sources, in a session or between two.                        *)
LEMMA StepShows ==
    ASSUME RecoveryInv, Step PROVE [Ledger!Next]_(Ledger!ledger)
BY DEF Step, Goto, Fatal, Take, Ledger!ledger, InSession, Ledger!Next,
       Ledger!News

(* The ledger sees nothing.                                                *)
LEMMA LeaveLoopShows ==
    ASSUME RecoveryInv, LeaveLoop PROVE [Ledger!Next]_(Ledger!ledger)
BY DEF LeaveLoop, book, Fatal, Ledger!ledger, InSession

(* The session in use, if any, ends.                                       *)
LEMMA ForceGapShows ==
    ASSUME RecoveryInv, ForceGap PROVE [Ledger!Next]_(Ledger!ledger)
BY DEF ForceGap, Goto, Lose, RecoveryInv, Ledger!ledger, InSession, Places,
       Ledger!Next, Ledger!End

(* The session in use, if any, ends.                                       *)
LEMMA ClockUncertainShows ==
    ASSUME RecoveryInv, ClockUncertain PROVE [Ledger!Next]_(Ledger!ledger)
BY DEF ClockUncertain, book, Fatal, RecoveryInv, Ledger!ledger, InSession,
       Places, Ledger!Next, Ledger!End

(* The ledger sees nothing.                                                *)
LEMMA JobPendingShows ==
    ASSUME RecoveryInv, JobPending PROVE [Ledger!Next]_(Ledger!ledger)
BY DEF JobPending, book, Goto, Ledger!ledger, InSession

(* The session in use, if any, ends.                                       *)
LEMMA HandoverLateShows ==
    ASSUME RecoveryInv, HandoverLate PROVE [Ledger!Next]_(Ledger!ledger)
BY DEF HandoverLate, Goto, Lose, RecoveryInv, Ledger!ledger, InSession, Places,
       Ledger!Next, Ledger!End

(* The ledger sees nothing.                                                *)
LEMMA JobStoppedShows ==
    ASSUME RecoveryInv, JobStopped PROVE [Ledger!Next]_(Ledger!ledger)
BY DEF JobStopped, book, Goto, JobDone, Ledger!ledger, InSession

(* The ledger sees nothing.                                                *)
LEMMA ClockUncertainInJobShows ==
    ASSUME RecoveryInv, ClockUncertainInJob PROVE [Ledger!Next]_(Ledger!ledger)
BY DEF ClockUncertainInJob, book, Fatal, JobDone, Ledger!ledger, InSession

(* The ledger sees nothing.                                                *)
LEMMA JobFatalShows ==
    ASSUME RecoveryInv, JobFatal PROVE [Ledger!Next]_(Ledger!ledger)
BY DEF JobFatal, book, Fatal, JobDone, Ledger!ledger, InSession

(* The ledger sees nothing.                                                *)
LEMMA ColdFailedShows ==
    ASSUME RecoveryInv, ColdFailed PROVE [Ledger!Next]_(Ledger!ledger)
BY DEF ColdFailed, book, Goto, JobDone, Ledger!ledger, InSession

(* Another session begins.                                                 *)
LEMMA ColdDoneShows ==
    ASSUME RecoveryInv, ColdDone PROVE [Ledger!Next]_(Ledger!ledger)
BY DEF ColdDone, Goto, Fatal, JobDone, Carried, RecoveryInv, Ledger!ledger,
       InSession, Places, JobRoles, Ledger!Next, Ledger!News, Ledger!End,
       Ledger!Begin

(* The session in use, if any, ends.                                       *)
LEMMA HandoverFailedShows ==
    ASSUME RecoveryInv, HandoverFailed PROVE [Ledger!Next]_(Ledger!ledger)
BY DEF HandoverFailed, Goto, Lose, JobDone, RecoveryInv, Ledger!ledger,
       InSession, Places, Ledger!Next, Ledger!End

(* The session in use ends; what was read of it is kept.                   *)
LEMMA DrainFailedShows ==
    ASSUME RecoveryInv, NEW n \in 0..MaxFrames, DrainFailed(n)
    PROVE  [Ledger!Next]_(Ledger!ledger)
BY DEF DrainFailed, Goto, Lose, JobDone, HandoverReady, RecoveryInv,
       Ledger!ledger, InSession, Places, JobRoles, Ledger!Next, Ledger!News,
       Ledger!End, Ledger!Begin

(* News about sources: the session moves to the candidate.                 *)
LEMMA DrainShows ==
    ASSUME RecoveryInv, NEW n \in 0..MaxFrames, Drain(n)
    PROVE  [Ledger!Next]_(Ledger!ledger)
BY DEF Drain, Goto, JobDone, HandoverReady, RecoveryInv, Ledger!ledger,
       InSession, Places, JobRoles, Ledger!Next, Ledger!News, Ledger!End,
       Ledger!Begin

(* The session in use, if any, ends.                                       *)
LEMMA SwitchStoppedShows ==
    ASSUME RecoveryInv, SwitchStopped PROVE [Ledger!Next]_(Ledger!ledger)
BY DEF SwitchStopped, book, Goto, RecoveryInv, Ledger!ledger, InSession, Places,
       Ledger!Next, Ledger!End

(* The session in use, if any, ends.                                       *)
LEMMA SwitchLateShows ==
    ASSUME RecoveryInv, SwitchLate PROVE [Ledger!Next]_(Ledger!ledger)
BY DEF SwitchLate, Goto, Lose, RecoveryInv, Ledger!ledger, InSession, Places,
       Ledger!Next, Ledger!End

(* The ledger sees nothing.                                                *)
LEMMA SwitchShows ==
    ASSUME RecoveryInv, Switch PROVE [Ledger!Next]_(Ledger!ledger)
BY DEF Switch, book, Goto, RecoveryInv, Ledger!ledger, InSession, Places

(* The ledger sees nothing.                                                *)
LEMMA RetryUnsetShows ==
    ASSUME RecoveryInv, RetryUnset PROVE [Ledger!Next]_(Ledger!ledger)
BY DEF RetryUnset, book, Fatal, Ledger!ledger, InSession

(* The ledger sees nothing.                                                *)
LEMMA DialColdShows ==
    ASSUME RecoveryInv, DialCold PROVE [Ledger!Next]_(Ledger!ledger)
BY DEF DialCold, book, Goto, DialNow, Ledger!ledger, InSession

(* The ledger sees nothing.                                                *)
LEMMA WaitForSocketShows ==
    ASSUME RecoveryInv, WaitForSocket PROVE [Ledger!Next]_(Ledger!ledger)
BY DEF WaitForSocket, book, Goto, DialNow, Ledger!ledger, InSession

(* The session in use, if any, ends.                                       *)
LEMMA SocketLostShows ==
    ASSUME RecoveryInv, SocketLost PROVE [Ledger!Next]_(Ledger!ledger)
BY DEF SocketLost, Goto, Lose, RecoveryInv, Ledger!ledger, InSession, Places,
       Ledger!Next, Ledger!End

(* The ledger sees nothing.                                                *)
LEMMA NoFrameShows ==
    ASSUME RecoveryInv, NoFrame PROVE [Ledger!Next]_(Ledger!ledger)
BY DEF NoFrame, book, Goto, Ledger!ledger, InSession

(* The ledger sees nothing.                                                *)
LEMMA FrameAfterStopShows ==
    ASSUME RecoveryInv, FrameAfterStop PROVE [Ledger!Next]_(Ledger!ledger)
BY DEF FrameAfterStop, book, Goto, HasFrame, Ledger!ledger, InSession

(* The ledger sees nothing.                                                *)
LEMMA FrameInvalidShows ==
    ASSUME RecoveryInv, FrameInvalid PROVE [Ledger!Next]_(Ledger!ledger)
BY DEF FrameInvalid, book, Fatal, HasFrame, Ledger!ledger, InSession

(* News about sources, in a session or between two.                        *)
LEMMA ReceiveShows ==
    ASSUME RecoveryInv, Receive PROVE [Ledger!Next]_(Ledger!ledger)
BY DEF Receive, Goto, Fatal, HasFrame, Ledger!ledger, InSession, Ledger!Next,
       Ledger!News

(* The ledger sees nothing.                                                *)
LEMMA ReconnectAgainShows ==
    ASSUME RecoveryInv, ReconnectAgain PROVE [Ledger!Next]_(Ledger!ledger)
BY DEF ReconnectAgain, book, Goto, HasFrame, Reconnect, Ledger!ledger, InSession

(* The session in use, if any, ends.                                       *)
LEMMA ReconnectRefusedShows ==
    ASSUME RecoveryInv, ReconnectRefused PROVE [Ledger!Next]_(Ledger!ledger)
BY DEF ReconnectRefused, Goto, Lose, HasFrame, Reconnect, RecoveryInv,
       Ledger!ledger, InSession, Places, Ledger!Next, Ledger!End

(* The ledger sees nothing.                                                *)
LEMMA DialHandoverShows ==
    ASSUME RecoveryInv, DialHandover PROVE [Ledger!Next]_(Ledger!ledger)
BY DEF DialHandover, book, Goto, HasFrame, Reconnect, Ledger!ledger, InSession

(* The ledger sees nothing.                                                *)
LEMMA JoinJobShows ==
    ASSUME RecoveryInv, JoinJob PROVE [Ledger!Next]_(Ledger!ledger)
BY DEF JoinJob, book, Goto, Fatal, Told, Ledger!ledger, InSession

(* News about sources, in a session or between two.                        *)
LEMMA JoinWorkerShows ==
    ASSUME RecoveryInv, JoinWorker PROVE [Ledger!Next]_(Ledger!ledger)
BY DEF JoinWorker, Goto, Fatal, Take, WorkerEnded, Ledger!ledger, InSession,
       Ledger!Next, Ledger!News

(* The session in use, if any, ends.                                       *)
LEMMA ShutdownShows ==
    ASSUME RecoveryInv, Shutdown PROVE [Ledger!Next]_(Ledger!ledger)
BY DEF Shutdown, book, Goto, RecoveryInv, Ledger!ledger, InSession, Places,
       Ledger!Next, Ledger!End

(* The ledger sees nothing.                                                *)
LEMMA StopJobShows ==
    ASSUME RecoveryInv, StopJob PROVE [Ledger!Next]_(Ledger!ledger)
BY DEF StopJob, book, Goto, Told, Ledger!ledger, InSession

(* News about sources, in a session or between two.                        *)
LEMMA StopWorkerShows ==
    ASSUME RecoveryInv, StopWorker PROVE [Ledger!Next]_(Ledger!ledger)
BY DEF StopWorker, Goto, Take, WorkerEnded, Ledger!ledger, InSession,
       Ledger!Next, Ledger!News

(* The ledger sees nothing.                                                *)
LEMMA RequestStopShows ==
    ASSUME RecoveryInv, RequestStop PROVE [Ledger!Next]_(Ledger!ledger)
BY DEF RequestStop, book, Ledger!ledger, InSession

(* The ledger sees nothing.                                                *)
LEMMA BackoffOverShows ==
    ASSUME RecoveryInv, BackoffOver PROVE [Ledger!Next]_(Ledger!ledger)
BY DEF BackoffOver, book, Ledger!ledger, InSession

(* The ledger sees nothing.                                                *)
LEMMA DialWelcomedShows ==
    ASSUME RecoveryInv, DialWelcomed PROVE [Ledger!Next]_(Ledger!ledger)
BY DEF DialWelcomed, loop, book, Ledger!ledger, InSession

(* The ledger sees nothing.                                                *)
LEMMA DialFailedShows ==
    ASSUME RecoveryInv, NEW outcome \in {"refused", "bad", "auth", "internal"},
           NEW opened \in BOOLEAN, DialFailed(outcome, opened)
    PROVE  [Ledger!Next]_(Ledger!ledger)
BY DEF DialFailed, loop, book, Ledger!ledger, InSession

(* The ledger sees nothing.                                                *)
LEMMA PostShows ==
    ASSUME RecoveryInv, NEW s \in Sources, Post(s)
    PROVE  [Ledger!Next]_(Ledger!ledger)
BY DEF Post, loop, book, Ledger!ledger, InSession

(* The ledger sees nothing.                                                *)
LEMMA PostedShows ==
    ASSUME RecoveryInv, NEW s \in Sources, NEW notice \in {"ok", "error"}, Posted(s, notice)
    PROVE  [Ledger!Next]_(Ledger!ledger)
BY DEF Posted, loop, book, Ledger!ledger, InSession

(* The ledger sees nothing.                                                *)
LEMMA SetupDoneShows ==
    ASSUME RecoveryInv, SetupDone PROVE [Ledger!Next]_(Ledger!ledger)
BY DEF SetupDone, loop, book, Ledger!ledger, InSession

(* The ledger sees nothing.                                                *)
LEMMA WorkerStopsShows ==
    ASSUME RecoveryInv, WorkerStops PROVE [Ledger!Next]_(Ledger!ledger)
BY DEF WorkerStops, loop, book, Ledger!ledger, InSession

(* The ledger sees nothing.                                                *)
LEMMA WorkerCrashesShows ==
    ASSUME RecoveryInv, WorkerCrashes PROVE [Ledger!Next]_(Ledger!ledger)
BY DEF WorkerCrashes, loop, book, Ledger!ledger, InSession

(* The ledger sees nothing.                                                *)
LEMMA SendShows ==
    ASSUME RecoveryInv, NEW frame \in Frames, Send(frame)
    PROVE  [Ledger!Next]_(Ledger!ledger)
BY DEF Send, loop, book, Deliver, Ledger!ledger, InSession

(* The ledger sees nothing.                                                *)
LEMMA RevokeShows ==
    ASSUME RecoveryInv, NEW s \in Sources, Revoke(s)
    PROVE  [Ledger!Next]_(Ledger!ledger)
BY DEF Revoke, loop, book, Deliver, Ledger!ledger, InSession

(* Every step is one of the ledger or none.                                *)
LEMMA LedgerStep == RecoveryInv /\ [Next]_vars => [Ledger!Next]_(Ledger!ledger)
<1> SUFFICES ASSUME RecoveryInv, [Next]_vars PROVE [Ledger!Next]_(Ledger!ledger)
  OBVIOUS
<1>1. CASE Between
  BY <1>1, StepShows, LeaveLoopShows, ForceGapShows DEF Between
<1>2. CASE Clock
  BY <1>2, ClockUncertainShows, ClockUncertainInJobShows DEF Clock
<1>3. CASE Connection
  BY <1>3, JobPendingShows, HandoverLateShows, JobStoppedShows, JobFatalShows,
         ColdFailedShows, ColdDoneShows, HandoverFailedShows, DrainFailedShows,
         DrainShows, SwitchStoppedShows, SwitchLateShows, SwitchShows DEF
         Connection
<1>4. CASE Reading
  BY <1>4, RetryUnsetShows, DialColdShows, WaitForSocketShows, SocketLostShows,
         NoFrameShows, FrameAfterStopShows, FrameInvalidShows, ReceiveShows,
         ReconnectAgainShows, ReconnectRefusedShows, DialHandoverShows DEF
         Reading
<1>5. CASE Ending
  BY <1>5, JoinJobShows, JoinWorkerShows, ShutdownShows, StopJobShows,
         StopWorkerShows DEF Ending
<1>6. CASE Dial
  BY <1>6, DialWelcomedShows, DialFailedShows DEF Dial
<1>7. CASE WorkerRuns
  BY <1>7, PostShows, PostedShows, SetupDoneShows, WorkerStopsShows DEF
         WorkerRuns
<1>8. CASE WorkerCrashes
  BY <1>8, WorkerCrashesShows
<1>9. CASE Twitch
  BY <1>9, SendShows, RevokeShows DEF Twitch
<1>10. CASE BackoffOver
  BY <1>10, BackoffOverShows
<1>11. CASE RequestStop
  BY <1>11, RequestStopShows
<1>12. CASE UNCHANGED vars
  BY <1>12 DEF vars, loop, book, setup, twitch, Ledger!ledger, InSession
<1>13. QED
  BY <1>1, <1>2, <1>3, <1>4, <1>5, <1>6, <1>7, <1>8, <1>9, <1>10,
      <1>11, <1>12 DEF Next, Loop, Ended

(* The loop implements SessionLedger.                                      *)
THEOREM LoopKeepsLedger == Spec => KeepsLedger
<1>1. Init => Ledger!Init
  BY DEF Init, Ledger!Init, InSession
<1>2. QED BY <1>1, LedgerStep, RecoveryIsSound, PTL DEF Spec, KeepsLedger, Ledger!Spec

-----------------------------------------------------------------------------
(* SessionInv: what the loop reports as confirmed follows Twitch.          *)

(* Who holds the sockets, and what waits in them, may grow.                *)
LEMMA UnreadGrows ==
    ASSUME {socket, candidate, job.socket} \ {0}
              \subseteq {socket', candidate', job'.socket} \ {0},
           inbox' = inbox
    PROVE  Unread \subseteq Unread'
<1> SUFFICES ASSUME NEW s \in Unread PROVE s \in Unread'
  OBVIOUS
<1>1. PICK k \in {socket, candidate, job.socket} \ {0} : s \in RevokedIn(inbox[k])
  BY DEF Unread
<1>2. s \in Sources /\ k \in {socket', candidate', job'.socket} \ {0} /\ s \in RevokedIn(inbox'[k])
  BY <1>1 DEF Unread
<1>3. QED BY <1>2 DEF Unread

(* What was followed is, as long as no source is added.                    *)
LEMMA FollowedStays ==
    ASSUME Followed, InStep' => InStep, UNCHANGED <<ids, failed, notices>>,
           subs \cup Unread \subseteq subs' \cup Unread'
    PROVE  Followed'
<1>1. Oks' = Oks
  BY DEF Oks
<1>2. QED BY <1>1 DEF Followed

(* Nothing is confirmed.                                                   *)
LEMMA NothingToFollow == ASSUME ids' = {}, notices' = Quiet PROVE Followed'
<1>1. Oks' = {}
  BY DEF Oks, Quiet
<1>2. QED BY <1>1 DEF Followed

(* Outside a session nothing is confirmed or on its way to be.             *)
LEMMA NothingOutside ==
    ASSUME RecoveryInv, SessionInv, InStep, ~InSession
    PROVE  ids = {} /\ notices = Quiet /\ worker.state = "none"
BY DEF RecoveryInv, SessionInv, Quieted, WorkerRoles, InStep, InSession

(* What is read no longer waits.                                           *)
LEMMA ReadGoes ==
    ASSUME TypeOK, HasFrame, Consume, UNCHANGED <<socket, candidate>>,
           job'.socket = job.socket
    PROVE  Unread \subseteq Unread' \cup RevokedIn(<<Read>>)
<1> SUFFICES ASSUME NEW s \in Unread, s \notin RevokedIn(<<Read>>) PROVE s \in Unread'
  OBVIOUS
<1> DEFINE q == inbox[socket]
<1>1. q \in Seq(Frames) /\ q # << >> /\ socket \in Sockets
      /\ inbox' = [inbox EXCEPT ![socket] = Tail(q)]
  BY DEF TypeOK, HasFrame, Consume
<1>2. PICK k \in {socket, candidate, job.socket} \ {0} : s \in RevokedIn(inbox[k])
  BY DEF Unread
<1>3. s \in Sources /\ k \in Sockets
  BY <1>2 DEF Unread, TypeOK, Jobs
<1>4. PICK n \in 1..Len(inbox[k]) : inbox[k][n] = Frame("revoke", s)
  BY <1>2 DEF RevokedIn
<1>5. s \in RevokedIn(inbox'[k])
  <2>1. CASE k # socket
    <3>1. inbox'[k] = inbox[k]
      BY <1>1, <1>3, <2>1 DEF TypeOK
    <3>2. QED BY <1>2, <3>1
  <2>2. CASE k = socket
    <3>1. n # 1
      <4>1. ASSUME n = 1 PROVE FALSE
        <5>1. Read = Frame("revoke", s)
          BY <1>1, <1>4, <2>2, <4>1 DEF Read
        <5>2. Len(<<Read>>) = 1 /\ <<Read>>[1] = Frame("revoke", s)
          BY <5>1
        <5>3. s \in RevokedIn(<<Read>>)
          BY <1>3, <5>2 DEF RevokedIn
        <5>4. QED BY <5>3
      <4>2. QED BY <4>1
    <3>2. n - 1 \in 1..Len(Tail(q)) /\ Tail(q)[n - 1] = q[n]
      BY <1>1, <1>4, <2>2, <3>1
    <3>3. inbox'[k] = Tail(q)
      BY <1>1, <2>2 DEF TypeOK
    <3>4. inbox'[k][n - 1] = Frame("revoke", s) /\ n - 1 \in 1..Len(inbox'[k])
      BY <1>4, <2>2, <3>2, <3>3
    <3>5. QED BY <1>3, <3>4 DEF RevokedIn
  <2>3. QED BY <2>1, <2>2
<1>6. QED BY <1>2, <1>3, <1>5 DEF Unread

(* A reconnect request is no revocation.                                   *)
LEMMA RequestsRevokeNothing ==
    ASSUME Read.kind = "reconnect" PROVE RevokedIn(<<Read>>) = {}
<1> SUFFICES ASSUME NEW s \in RevokedIn(<<Read>>) PROVE FALSE
  OBVIOUS
<1>1. Len(<<Read>>) = 1 /\ <<Read>>[1] = Read
  OBVIOUS
<1>2. Read = Frame("revoke", s)
  BY <1>1 DEF RevokedIn
<1>3. QED BY <1>2 DEF Frame

(* What Twitch delivers waits where it is held.                            *)
LEMMA DeliveredWaits ==
    ASSUME TypeOK, NEW frame \in Frames, Deliver(frame)
    PROVE  /\ Unread \subseteq Unread'
           /\ \A s \in Sources : frame = Frame("revoke", s)
                  /\ home \in {socket, candidate, job.socket} => s \in Unread'
<1> DEFINE q == Append(inbox[home], frame)
<1>1. /\ home \in Sockets /\ home # 0 /\ inbox[home] \in Seq(Frames)
      /\ inbox' = [inbox EXCEPT ![home] = q]
      /\ UNCHANGED <<socket, candidate, job>>
  BY DEF TypeOK, Deliver, loop
<1>2. /\ Len(inbox[home]) \in Nat /\ Len(q) = Len(inbox[home]) + 1 /\ q[Len(q)] = frame
      /\ \A n \in 1..Len(inbox[home]) : q[n] = inbox[home][n]
  BY <1>1
<1>3. inbox'[home] = q /\ \A k \in Sockets : k # home => inbox'[k] = inbox[k]
  BY <1>1 DEF TypeOK
<1> HIDE DEF q
<1>4. RevokedIn(inbox[home]) \subseteq RevokedIn(q)
  <2> SUFFICES ASSUME NEW s \in RevokedIn(inbox[home]) PROVE s \in RevokedIn(q)
    OBVIOUS
  <2>1. PICK n \in 1..Len(inbox[home]) : inbox[home][n] = Frame("revoke", s)
    BY DEF RevokedIn
  <2>2. n \in 1..Len(q) /\ q[n] = Frame("revoke", s) /\ s \in Sources
    BY <1>2, <2>1 DEF RevokedIn
  <2>3. QED BY <2>2 DEF RevokedIn
<1>5. ASSUME NEW s \in Unread PROVE s \in Unread'
  <2>1. PICK k \in {socket, candidate, job.socket} \ {0} : s \in RevokedIn(inbox[k])
    BY DEF Unread
  <2>2. s \in Sources /\ k \in Sockets
    BY <2>1 DEF Unread, TypeOK, Jobs
  <2>3. s \in RevokedIn(inbox'[k])
    BY <1>3, <1>4, <2>1, <2>2
  <2>4. QED BY <1>1, <2>2, <2>3 DEF Unread
<1>6. ASSUME NEW s \in Sources, frame = Frame("revoke", s),
             home \in {socket, candidate, job.socket}
      PROVE  s \in Unread'
  <2>1. Len(q) \in 1..Len(q) /\ q[Len(q)] = Frame("revoke", s)
    BY <1>2, <1>6
  <2>2. s \in RevokedIn(inbox'[home])
    BY <1>3, <2>1 DEF RevokedIn
  <2>3. QED BY <1>1, <1>6, <2>2 DEF Unread
<1>7. QED BY <1>5, <1>6

(* Notices come in.                                                        *)
LEMMA StepConfirms ==
    ASSUME RecoveryInv, SessionInv, Step
    PROVE  SessionInv'
<1>1. Quieted'
  BY DEF SessionInv, Quieted, RecoveryInv, TypeOK, Places, JobRoles,
         WorkerRoles, NoWorker, InStep, InSession, twitch, Quiet, Errors, Oks,
         Goto, Fatal, Take, Step
<1>2. Homed'
  BY DEF SessionInv, Homed, RecoveryInv, TypeOK, Jobs, Places, JobRoles, NoJob,
         InStep, InSession, twitch, Quiet, Errors, Oks, Goto, Fatal, Take, Step
<1>3. Followed'
  BY DEF SessionInv, Followed, Quieted, Unread, RecoveryInv, TypeOK, Places,
         JobRoles, NoJob, InStep, InSession, twitch, Quiet, Errors, Oks, Goto,
         Fatal, Take, Step
<1>4. QED BY <1>1, <1>2, <1>3 DEF SessionInv

(* The loop is left.                                                       *)
LEMMA LeaveLoopConfirms ==
    ASSUME RecoveryInv, SessionInv, LeaveLoop
    PROVE  SessionInv'
<1>1. ~InStep'
  BY DEF InStep, book, setup, twitch, Fatal, LeaveLoop
<1>2. Quieted'
  BY DEF SessionInv, Quieted, RecoveryInv, TypeOK, Places, NoWorker, InStep,
         book, setup, twitch, Fatal, LeaveLoop
<1>3. QED BY <1>1, <1>2 DEF SessionInv, Homed, Followed

(* A gap found by the owner.                                               *)
LEMMA ForceGapConfirms ==
    ASSUME RecoveryInv, SessionInv, ForceGap
    PROVE  SessionInv'
<1>1. ~InStep'
  BY DEF InStep, setup, Close, Goto, Lose, ForceGap
<1>2. Quieted'
  BY DEF SessionInv, Quieted, RecoveryInv, TypeOK, Places, NoWorker, InStep,
         setup, Close, Goto, Lose, ForceGap
<1>3. QED BY <1>1, <1>2 DEF SessionInv, Homed, Followed

(* A reading ends the probe; the candidate is closed.                      *)
LEMMA ClockUncertainConfirms ==
    ASSUME RecoveryInv, SessionInv, ClockUncertain
    PROVE  SessionInv'
<1>1. ~InStep'
  BY DEF InStep, book, setup, Close, Fatal, ClockUncertain
<1>2. Quieted'
  BY DEF SessionInv, Quieted, RecoveryInv, TypeOK, Places, NoWorker, InStep,
         book, setup, Close, Fatal, ClockUncertain
<1>3. QED BY <1>1, <1>2 DEF SessionInv, Homed, Followed

(* The job is not done.                                                    *)
LEMMA JobPendingConfirms ==
    ASSUME RecoveryInv, SessionInv, JobPending
    PROVE  SessionInv'
<1>1. Quieted'
  BY DEF SessionInv, Quieted, RecoveryInv, TypeOK, Places, JobRoles,
         WorkerRoles, NoWorker, InStep, InSession, book, setup, twitch, Goto,
         JobPending
<1>2. Homed'
  BY DEF SessionInv, Homed, RecoveryInv, TypeOK, Jobs, Places, JobRoles, NoJob,
         InStep, InSession, book, setup, twitch, Goto, JobPending
<1>3. Followed'
  <2>1. Unread \subseteq Unread'
    BY UnreadGrows DEF RecoveryInv, TypeOK, Places, JobRoles, NoJob, book,
           setup, twitch, Goto, JobPending
  <2>2. QED
    BY <2>1, FollowedStays DEF SessionInv, InStep, book, setup, twitch, Goto,
           JobPending
<1>4. QED BY <1>1, <1>2, <1>3 DEF SessionInv

(* The handover is given up.                                               *)
LEMMA HandoverLateConfirms ==
    ASSUME RecoveryInv, SessionInv, HandoverLate
    PROVE  SessionInv'
<1>1. ~InStep'
  BY DEF InStep, setup, Close, Goto, Lose, HandoverLate
<1>2. Quieted'
  BY DEF SessionInv, Quieted, RecoveryInv, TypeOK, Places, NoWorker, InStep,
         setup, Close, Goto, Lose, HandoverLate
<1>3. QED BY <1>1, <1>2 DEF SessionInv, Homed, Followed

(* The result of the job is closed.                                        *)
LEMMA JobStoppedConfirms ==
    ASSUME RecoveryInv, SessionInv, JobStopped
    PROVE  SessionInv'
<1>1. ~InStep'
  BY DEF InStep, book, setup, NoJob, Close, Goto, JobDone, Result, JobStopped
<1>2. Quieted'
  BY DEF SessionInv, Quieted, RecoveryInv, TypeOK, Places, NoWorker, InStep,
         book, setup, NoJob, Close, Goto, JobDone, Result, JobStopped
<1>3. QED BY <1>1, <1>2 DEF SessionInv, Homed, Followed

(* The result of the job is forgotten, without an external guard only.     *)
LEMMA ClockUncertainInJobConfirms ==
    ASSUME RecoveryInv, SessionInv, ClockUncertainInJob
    PROVE  SessionInv'
<1>1. ~InStep'
  BY DEF InStep, book, setup, twitch, NoJob, Fatal, JobDone, ClockUncertainInJob
<1>2. Quieted'
  BY DEF SessionInv, Quieted, RecoveryInv, TypeOK, Places, NoWorker, InStep,
         book, setup, twitch, NoJob, Fatal, JobDone, ClockUncertainInJob
<1>3. QED BY <1>1, <1>2 DEF SessionInv, Homed, Followed

(* A fatal result.                                                         *)
LEMMA JobFatalConfirms ==
    ASSUME RecoveryInv, SessionInv, JobFatal
    PROVE  SessionInv'
<1>1. ~InStep'
  BY DEF InStep, book, setup, NoJob, Close, Fatal, JobDone, Result, JobFatal
<1>2. Quieted'
  BY DEF SessionInv, Quieted, RecoveryInv, TypeOK, Places, NoWorker, InStep,
         book, setup, NoJob, Close, Fatal, JobDone, Result, JobFatal
<1>3. QED BY <1>1, <1>2 DEF SessionInv, Homed, Followed

(* A cold attempt failed.                                                  *)
LEMMA ColdFailedConfirms ==
    ASSUME RecoveryInv, SessionInv, ColdFailed
    PROVE  SessionInv'
<1>1. Quieted'
  BY DEF SessionInv, Quieted, RecoveryInv, TypeOK, Places, JobRoles,
         WorkerRoles, NoWorker, InStep, InSession, book, setup, NoJob, Close,
         Goto, JobDone, Result, ColdFailed
<1>2. Homed'
  BY DEF SessionInv, Homed, RecoveryInv, TypeOK, Jobs, Places, JobRoles, InStep,
         InSession, book, setup, NoJob, Close, Goto, JobDone, Result, ColdFailed
<1>3. Followed'
  <2>1. InStep /\ ~InSession /\ UNCHANGED <<ids, notices>>
    BY DEF RecoveryInv, Places, JobRoles, InStep, InSession, ColdFailed, JobDone, book, setup
  <2>2. QED BY <2>1, NothingOutside, NothingToFollow
<1>4. QED BY <1>1, <1>2, <1>3 DEF SessionInv

(* A fresh session: the job's socket is the loop's, and a thread starts.   *)
LEMMA ColdDoneConfirms ==
    ASSUME RecoveryInv, SessionInv, ColdDone
    PROVE  SessionInv'
<1>1. Quieted'
  BY DEF SessionInv, Quieted, RecoveryInv, TypeOK, Places, JobRoles,
         WorkerRoles, NoWorker, InStep, InSession, setup, twitch, NoJob, Goto,
         Fatal, StartWorker, JobDone, Carried, ColdDone
<1>2. Homed'
  BY DEF SessionInv, Homed, RecoveryInv, TypeOK, Jobs, Places, JobRoles, InStep,
         InSession, setup, twitch, NoJob, Goto, Fatal, StartWorker, JobDone,
         Carried, ColdDone
<1>3. Followed'
  <2>1. InStep /\ ~InSession /\ ids' = {} /\ UNCHANGED notices
    BY DEF RecoveryInv, Places, JobRoles, InStep, InSession, ColdDone, JobDone
  <2>2. QED BY <2>1, NothingOutside, NothingToFollow
<1>4. QED BY <1>1, <1>2, <1>3 DEF SessionInv

(* A handover failed.                                                      *)
LEMMA HandoverFailedConfirms ==
    ASSUME RecoveryInv, SessionInv, HandoverFailed
    PROVE  SessionInv'
<1>1. ~InStep'
  BY DEF InStep, setup, NoJob, Close, Goto, Lose, JobDone, Result,
         HandoverFailed
<1>2. Quieted'
  BY DEF SessionInv, Quieted, RecoveryInv, TypeOK, Places, NoWorker, InStep,
         setup, NoJob, Close, Goto, Lose, JobDone, Result, HandoverFailed
<1>3. QED BY <1>1, <1>2 DEF SessionInv, Homed, Followed

(* The drain failed.                                                       *)
LEMMA DrainFailedConfirms ==
    ASSUME RecoveryInv, SessionInv, NEW n \in 0..MaxFrames, DrainFailed(n)
    PROVE  SessionInv'
<1>1. ~InStep'
  BY DEF InStep, setup, NoJob, Close, Goto, Lose, JobDone, Result,
         HandoverReady, DrainFailed
<1>2. Quieted'
  BY DEF SessionInv, Quieted, RecoveryInv, TypeOK, Places, NoWorker, InStep,
         setup, NoJob, Close, Goto, Lose, JobDone, Result, HandoverReady,
         DrainFailed
<1>3. QED BY <1>1, <1>2 DEF SessionInv, Homed, Followed

(* The old socket is closed; the candidate is in hand.                     *)
LEMMA DrainConfirms ==
    ASSUME RecoveryInv, SessionInv, NEW n \in 0..MaxFrames, Drain(n)
    PROVE  SessionInv'
<1>1. Quieted'
  BY DEF SessionInv, Quieted, RecoveryInv, TypeOK, Places, JobRoles,
         WorkerRoles, NoWorker, InStep, InSession, setup, NoJob, Close, Goto,
         JobDone, Drained, HandoverReady, Drain
<1>2. Homed'
  BY DEF SessionInv, Homed, RecoveryInv, TypeOK, Jobs, Places, JobRoles, InStep,
         InSession, setup, NoJob, Close, Goto, JobDone, Drained, HandoverReady,
         Drain
<1>3. Followed'
  <2>1. /\ InStep /\ pc = "job" /\ candidate = 0 /\ candidate' = job.socket
        /\ home = job.socket /\ job.socket # 0 /\ socket # 0 /\ job.socket # socket
        /\ {socket, job.socket} \subseteq Sockets /\ UNCHANGED <<ids, notices>>
    BY DEF RecoveryInv, SessionInv, Homed, TypeOK, Jobs, Places, JobRoles, InStep, Drain,
        HandoverReady, JobDone, setup
  <2>2. subs' = subs /\ inbox'[job.socket] = inbox[job.socket]
    BY <2>1 DEF Drain, Close
  <2>3. RevokedIn(inbox[socket]) \subseteq failed'
    <3>1. inbox[socket] \in Seq(Frames) /\ n = Len(inbox[socket])
      BY <2>1 DEF RecoveryInv, TypeOK, Drain, Drained
    <3>2. SubSeq(inbox[socket], 1, n) = inbox[socket]
      BY <3>1
    <3>3. QED BY <3>2 DEF Drain
  <2>4. ASSUME NEW s \in Unread, s \notin failed' PROVE s \in Unread'
    <3>1. s \in RevokedIn(inbox[job.socket]) /\ s \in Sources
      BY <2>1, <2>3, <2>4 DEF Unread
    <3>2. QED BY <2>1, <2>2, <3>1 DEF Unread
  <2>5. failed \subseteq failed' /\ Oks' = Oks
    BY <2>1 DEF Drain, Oks
  <2>6. QED BY <2>1, <2>2, <2>4, <2>5 DEF SessionInv, Followed
<1>4. QED BY <1>1, <1>2, <1>3 DEF SessionInv

(* The candidate is closed.                                                *)
LEMMA SwitchStoppedConfirms ==
    ASSUME RecoveryInv, SessionInv, SwitchStopped
    PROVE  SessionInv'
<1>1. ~InStep'
  BY DEF InStep, book, setup, Close, Goto, SwitchStopped
<1>2. Quieted'
  BY DEF SessionInv, Quieted, RecoveryInv, TypeOK, Places, NoWorker, InStep,
         book, setup, Close, Goto, SwitchStopped
<1>3. QED BY <1>1, <1>2 DEF SessionInv, Homed, Followed

(* The candidate came too late.                                            *)
LEMMA SwitchLateConfirms ==
    ASSUME RecoveryInv, SessionInv, SwitchLate
    PROVE  SessionInv'
<1>1. ~InStep'
  BY DEF InStep, setup, Close, Goto, Lose, SwitchLate
<1>2. Quieted'
  BY DEF SessionInv, Quieted, RecoveryInv, TypeOK, Places, NoWorker, InStep,
         setup, Close, Goto, Lose, SwitchLate
<1>3. QED BY <1>1, <1>2 DEF SessionInv, Homed, Followed

(* The candidate is the loop's socket.                                     *)
LEMMA SwitchConfirms ==
    ASSUME RecoveryInv, SessionInv, Switch
    PROVE  SessionInv'
<1>1. Quieted'
  BY DEF SessionInv, Quieted, RecoveryInv, TypeOK, Places, JobRoles,
         WorkerRoles, NoWorker, InStep, InSession, book, setup, twitch, Goto,
         Switch
<1>2. Homed'
  BY DEF SessionInv, Homed, RecoveryInv, TypeOK, Jobs, Places, JobRoles, NoJob,
         InStep, InSession, book, setup, twitch, Goto, Switch
<1>3. Followed'
  <2>1. Unread \subseteq Unread'
    BY UnreadGrows DEF RecoveryInv, TypeOK, Places, JobRoles, NoJob, book,
           setup, twitch, Goto, Switch
  <2>2. QED
    BY <2>1, FollowedStays DEF SessionInv, InStep, book, setup, twitch, Goto,
           Switch
<1>4. QED BY <1>1, <1>2, <1>3 DEF SessionInv

(* No loss yet, no socket: an internal error.                              *)
LEMMA RetryUnsetConfirms ==
    ASSUME RecoveryInv, SessionInv, RetryUnset
    PROVE  SessionInv'
<1>1. ~InStep'
  BY DEF InStep, book, setup, twitch, Fatal, RetryUnset
<1>2. Quieted'
  BY DEF SessionInv, Quieted, RecoveryInv, TypeOK, Places, NoWorker, InStep,
         book, setup, twitch, Fatal, RetryUnset
<1>3. QED BY <1>1, <1>2 DEF SessionInv, Homed, Followed

(* A cold job starts when there is neither a socket nor a setup thread.    *)
LEMMA DialColdConfirms ==
    ASSUME RecoveryInv, SessionInv, DialCold
    PROVE  SessionInv'
<1>1. Quieted'
  BY DEF SessionInv, Quieted, RecoveryInv, TypeOK, Places, JobRoles,
         WorkerRoles, NoWorker, InStep, InSession, book, setup, twitch, NoJob,
         Goto, DialNow, DialCold
<1>2. Homed'
  BY DEF SessionInv, Homed, RecoveryInv, TypeOK, Jobs, Places, JobRoles, InStep,
         InSession, book, setup, twitch, NoJob, Goto, DialNow, DialCold
<1>3. Followed'
  <2>1. Unread \subseteq Unread'
    BY UnreadGrows DEF RecoveryInv, TypeOK, Places, JobRoles, NoJob, book,
           setup, twitch, Goto, DialNow, DialCold
  <2>2. QED
    BY <2>1, FollowedStays DEF SessionInv, InStep, book, setup, twitch, NoJob,
           Goto, DialNow, DialCold
<1>4. QED BY <1>1, <1>2, <1>3 DEF SessionInv

(* Nothing to do yet.                                                      *)
LEMMA WaitForSocketConfirms ==
    ASSUME RecoveryInv, SessionInv, WaitForSocket
    PROVE  SessionInv'
<1>1. Quieted'
  BY DEF SessionInv, Quieted, RecoveryInv, TypeOK, Places, JobRoles,
         WorkerRoles, NoWorker, InStep, InSession, book, setup, twitch, Goto,
         DialNow, WaitForSocket
<1>2. Homed'
  BY DEF SessionInv, Homed, RecoveryInv, TypeOK, Jobs, Places, JobRoles, NoJob,
         InStep, InSession, book, setup, twitch, Goto, DialNow, WaitForSocket
<1>3. Followed'
  <2>1. Unread \subseteq Unread'
    BY UnreadGrows DEF RecoveryInv, TypeOK, Places, JobRoles, NoJob, book,
           setup, twitch, Goto, DialNow, WaitForSocket
  <2>2. QED
    BY <2>1, FollowedStays DEF SessionInv, InStep, book, setup, twitch, Goto,
           DialNow, WaitForSocket
<1>4. QED BY <1>1, <1>2, <1>3 DEF SessionInv

(* The socket is lost.                                                     *)
LEMMA SocketLostConfirms ==
    ASSUME RecoveryInv, SessionInv, SocketLost
    PROVE  SessionInv'
<1>1. ~InStep'
  BY DEF InStep, setup, Close, Goto, Lose, SocketLost
<1>2. Quieted'
  BY DEF SessionInv, Quieted, RecoveryInv, TypeOK, Places, NoWorker, InStep,
         setup, Close, Goto, Lose, SocketLost
<1>3. QED BY <1>1, <1>2 DEF SessionInv, Homed, Followed

(* No frame.                                                               *)
LEMMA NoFrameConfirms ==
    ASSUME RecoveryInv, SessionInv, NoFrame
    PROVE  SessionInv'
<1>1. Quieted'
  BY DEF SessionInv, Quieted, RecoveryInv, TypeOK, Places, JobRoles,
         WorkerRoles, NoWorker, InStep, InSession, book, setup, twitch, Goto,
         NoFrame
<1>2. Homed'
  BY DEF SessionInv, Homed, RecoveryInv, TypeOK, Jobs, Places, JobRoles, NoJob,
         InStep, InSession, book, setup, twitch, Goto, NoFrame
<1>3. Followed'
  <2>1. Unread \subseteq Unread'
    BY UnreadGrows DEF RecoveryInv, TypeOK, Places, JobRoles, NoJob, book,
           setup, twitch, Goto, NoFrame
  <2>2. QED
    BY <2>1, FollowedStays DEF SessionInv, InStep, book, setup, twitch, Goto,
           NoFrame
<1>4. QED BY <1>1, <1>2, <1>3 DEF SessionInv

(* A frame is thrown away.                                                 *)
LEMMA FrameAfterStopConfirms ==
    ASSUME RecoveryInv, SessionInv, FrameAfterStop
    PROVE  SessionInv'
<1>1. ~InStep'
  BY DEF InStep, book, setup, Goto, HasFrame, Consume, FrameAfterStop
<1>2. Quieted'
  BY DEF SessionInv, Quieted, RecoveryInv, TypeOK, Places, NoWorker, InStep,
         book, setup, Goto, HasFrame, Consume, FrameAfterStop
<1>3. QED BY <1>1, <1>2 DEF SessionInv, Homed, Followed

(* An invalid frame.                                                       *)
LEMMA FrameInvalidConfirms ==
    ASSUME RecoveryInv, SessionInv, FrameInvalid
    PROVE  SessionInv'
<1>1. ~InStep'
  BY DEF InStep, book, setup, Fatal, HasFrame, Read, Consume, FrameInvalid
<1>2. Quieted'
  BY DEF SessionInv, Quieted, RecoveryInv, TypeOK, Places, NoWorker, InStep,
         book, setup, Fatal, HasFrame, Read, Consume, FrameInvalid
<1>3. QED BY <1>1, <1>2 DEF SessionInv, Homed, Followed

(* A frame; the first one starts the setup thread.                         *)
LEMMA ReceiveConfirms ==
    ASSUME RecoveryInv, SessionInv, Receive
    PROVE  SessionInv'
<1>1. Quieted'
  BY DEF SessionInv, Quieted, RecoveryInv, TypeOK, Places, JobRoles,
         WorkerRoles, NoWorker, InStep, InSession, setup, Goto, Fatal,
         StartWorker, HasFrame, Read, Consume, Receive
<1>2. Homed'
  BY DEF SessionInv, Homed, RecoveryInv, TypeOK, Jobs, Places, JobRoles, NoJob,
         InStep, InSession, setup, Goto, Fatal, StartWorker, HasFrame, Read,
         Consume, Receive
<1>3. Followed'
  <2>1. InStep /\ UNCHANGED <<ids, notices, subs>> /\ failed' = failed \cup RevokedIn(<<Read>>)
    BY DEF InStep, Receive, HasFrame, Consume
  <2>2. Unread \subseteq Unread' \cup RevokedIn(<<Read>>)
    BY ReadGoes DEF RecoveryInv, Receive
  <2>3. Oks' = Oks
    BY <2>1 DEF Oks
  <2>4. QED BY <2>1, <2>2, <2>3 DEF SessionInv, Followed
<1>4. QED BY <1>1, <1>2, <1>3 DEF SessionInv

(* A duplicate request.                                                    *)
LEMMA ReconnectAgainConfirms ==
    ASSUME RecoveryInv, SessionInv, ReconnectAgain
    PROVE  SessionInv'
<1>1. Quieted'
  BY DEF SessionInv, Quieted, RecoveryInv, TypeOK, Places, JobRoles,
         WorkerRoles, NoWorker, InStep, InSession, book, setup, Goto, HasFrame,
         Read, Consume, Requested, Reconnect, ReconnectAgain
<1>2. Homed'
  BY DEF SessionInv, Homed, RecoveryInv, TypeOK, Jobs, Places, JobRoles, NoJob,
         InStep, InSession, book, setup, Goto, HasFrame, Read, Consume,
         Requested, Reconnect, ReconnectAgain
<1>3. Followed'
  <2>1. InStep /\ UNCHANGED <<ids, failed, notices, subs>>
    BY DEF InStep, ReconnectAgain, Reconnect, HasFrame, Consume, book, setup
  <2>2. Unread \subseteq Unread'
    BY ReadGoes, RequestsRevokeNothing DEF RecoveryInv, ReconnectAgain, Reconnect
  <2>3. QED BY <2>1, <2>2, FollowedStays DEF SessionInv
<1>4. QED BY <1>1, <1>2, <1>3 DEF SessionInv

(* A request that ends the session.                                        *)
LEMMA ReconnectRefusedConfirms ==
    ASSUME RecoveryInv, SessionInv, ReconnectRefused
    PROVE  SessionInv'
<1>1. ~InStep'
  BY DEF InStep, setup, SetupComplete, Close, Goto, Lose, HasFrame, Read,
         Requested, Reconnect, ReconnectRefused
<1>2. Quieted'
  BY DEF SessionInv, Quieted, RecoveryInv, TypeOK, Places, NoWorker, InStep,
         setup, SetupComplete, Close, Goto, Lose, HasFrame, Read, Requested,
         Reconnect, ReconnectRefused
<1>3. QED BY <1>1, <1>2 DEF SessionInv, Homed, Followed

(* A handover begins from a socket in use.                                 *)
LEMMA DialHandoverConfirms ==
    ASSUME RecoveryInv, SessionInv, DialHandover
    PROVE  SessionInv'
<1>1. Quieted'
  BY DEF SessionInv, Quieted, RecoveryInv, TypeOK, Places, JobRoles,
         WorkerRoles, NoWorker, InStep, InSession, book, setup, NoJob,
         SetupComplete, Goto, HasFrame, Read, Consume, Requested, Reconnect,
         DialHandover
<1>2. Homed'
  BY DEF SessionInv, Homed, RecoveryInv, TypeOK, Jobs, Places, JobRoles, InStep,
         InSession, book, setup, NoJob, SetupComplete, Goto, HasFrame, Read,
         Consume, Requested, Reconnect, DialHandover
<1>3. Followed'
  <2>1. InStep /\ UNCHANGED <<ids, failed, notices, subs>>
    BY DEF InStep, DialHandover, Reconnect, HasFrame, Consume, book, setup
  <2>2. job'.socket = job.socket
    BY DEF RecoveryInv, JobRoles, DialHandover, NoJob
  <2>3. Unread \subseteq Unread'
    BY <2>2, ReadGoes, RequestsRevokeNothing DEF RecoveryInv, DialHandover, Reconnect
  <2>4. QED BY <2>1, <2>3, FollowedStays DEF SessionInv
<1>4. QED BY <1>1, <1>2, <1>3 DEF SessionInv

(* The connection thread has ended and what it opened is closed.           *)
LEMMA JoinJobConfirms ==
    ASSUME RecoveryInv, SessionInv, JoinJob
    PROVE  SessionInv'
<1>1. ~InStep'
  BY DEF InStep, book, NoJob, Close, Goto, Fatal, Result, Told, JoinJob
<1>2. Quieted'
  <2>1. worker'.state = worker.state /\ UNCHANGED <<ids, notices>> /\ pc = "joinJob"
    BY DEF RecoveryInv, TypeOK, Workers, JoinJob, Fatal, Told, book
  <2>2. QED BY <1>1, <2>1 DEF SessionInv, Quieted
<1>3. QED BY <1>1, <1>2 DEF SessionInv, Homed, Followed

(* The setup thread has ended.                                             *)
LEMMA JoinWorkerConfirms ==
    ASSUME RecoveryInv, SessionInv, JoinWorker
    PROVE  SessionInv'
<1>1. Quieted'
  BY DEF SessionInv, Quieted, RecoveryInv, TypeOK, Places, JobRoles,
         WorkerRoles, InStep, InSession, twitch, NoWorker, Quiet, Errors, Oks,
         Goto, Fatal, Take, WorkerEnded, JoinWorker
<1>2. Homed'
  BY DEF SessionInv, Homed, RecoveryInv, TypeOK, Jobs, Places, JobRoles, NoJob,
         InStep, InSession, twitch, NoWorker, Quiet, Errors, Oks, Goto, Fatal,
         Take, WorkerEnded, JoinWorker
<1>3. Followed'
  BY DEF SessionInv, Followed, Quieted, Unread, RecoveryInv, TypeOK, Places,
         JobRoles, NoJob, InStep, InSession, twitch, NoWorker, Quiet, Errors,
         Oks, Goto, Fatal, Take, WorkerEnded, JoinWorker
<1>4. QED BY <1>1, <1>2, <1>3 DEF SessionInv

(* The socket is closed.                                                   *)
LEMMA ShutdownConfirms ==
    ASSUME RecoveryInv, SessionInv, Shutdown
    PROVE  SessionInv'
<1>1. ~InStep'
  BY DEF InStep, book, setup, Close, Goto, Shutdown
<1>2. Quieted'
  BY DEF SessionInv, Quieted, RecoveryInv, TypeOK, Places, NoWorker, InStep,
         book, setup, Close, Goto, Shutdown
<1>3. QED BY <1>1, <1>2 DEF SessionInv, Homed, Followed

(* The connection thread has ended.                                        *)
LEMMA StopJobConfirms ==
    ASSUME RecoveryInv, SessionInv, StopJob
    PROVE  SessionInv'
<1>1. ~InStep'
  BY DEF InStep, book, NoJob, Close, Goto, Result, Told, StopJob
<1>2. Quieted'
  BY DEF SessionInv, Quieted, RecoveryInv, TypeOK, Places, NoWorker, InStep,
         book, NoJob, Close, Goto, Result, Told, StopJob
<1>3. QED BY <1>1, <1>2 DEF SessionInv, Homed, Followed

(* The setup thread has ended.                                             *)
LEMMA StopWorkerConfirms ==
    ASSUME RecoveryInv, SessionInv, StopWorker
    PROVE  SessionInv'
<1>1. ~InStep'
  BY DEF InStep, twitch, NoWorker, Quiet, Errors, Oks, Goto, Take, WorkerEnded,
         StopWorker
<1>2. Quieted'
  BY DEF SessionInv, Quieted, RecoveryInv, TypeOK, Places, InStep, twitch,
         NoWorker, Quiet, Errors, Oks, Goto, Take, WorkerEnded, StopWorker
<1>3. QED BY <1>1, <1>2 DEF SessionInv, Homed, Followed

(* The stop event is set.                                                  *)
LEMMA RequestStopConfirms ==
    ASSUME RecoveryInv, SessionInv, RequestStop
    PROVE  SessionInv'
<1>1. ~InStep'
  BY DEF InStep, book, setup, twitch, RequestStop
<1>2. Quieted'
  BY DEF SessionInv, Quieted, RecoveryInv, TypeOK, Places, NoWorker, InStep,
         book, setup, twitch, RequestStop
<1>3. QED BY <1>1, <1>2 DEF SessionInv, Homed, Followed

(* The backoff ran down.                                                   *)
LEMMA BackoffOverConfirms ==
    ASSUME RecoveryInv, SessionInv, BackoffOver
    PROVE  SessionInv'
<1>1. Quieted'
  BY DEF SessionInv, Quieted, RecoveryInv, TypeOK, Places, JobRoles,
         WorkerRoles, NoWorker, InStep, InSession, book, setup, twitch,
         BackoffOver
<1>2. Homed'
  BY DEF SessionInv, Homed, RecoveryInv, TypeOK, Jobs, Places, JobRoles, NoJob,
         InStep, InSession, book, setup, twitch, BackoffOver
<1>3. Followed'
  <2>1. Unread \subseteq Unread'
    BY UnreadGrows DEF RecoveryInv, TypeOK, Places, JobRoles, NoJob, book,
           setup, twitch, BackoffOver
  <2>2. QED
    BY <2>1, FollowedStays DEF SessionInv, InStep, book, setup, twitch,
           BackoffOver
<1>4. QED BY <1>1, <1>2, <1>3 DEF SessionInv

(* The connection thread has a socket.                                     *)
LEMMA DialWelcomedConfirms ==
    ASSUME RecoveryInv, SessionInv, DialWelcomed
    PROVE  SessionInv'
<1>1. Quieted'
  BY DEF SessionInv, Quieted, RecoveryInv, TypeOK, Places, JobRoles,
         WorkerRoles, NoWorker, InStep, InSession, loop, book, setup, Free,
         Answered, DialWelcomed
<1>2. Homed'
  <2>1. Free \in Sockets \ open /\ Free # 0 /\ job.socket = 0
    BY FreeTyped, RecoveryAssumption DEF RecoveryInv, JobRoles, DialWelcomed
  <2>2. /\ job'.socket = Free /\ job'.kind = job.kind /\ home' = Free
        /\ open' = open \cup {Free} /\ UNCHANGED <<pc, stop, socket, candidate>>
    BY DEF RecoveryInv, TypeOK, Jobs, DialWelcomed, Answered, loop
  <2>3. pc # "switch"
    BY DEF RecoveryInv, Places, JobRoles, DialWelcomed
  <2>4. QED
    BY <2>1, <2>2, <2>3 DEF SessionInv, Homed, InStep
<1>3. Followed'
  <2>1. Unread \subseteq Unread'
    BY UnreadGrows DEF RecoveryInv, TypeOK, Places, JobRoles, NoJob, loop, book,
           setup, Free, Answered, DialWelcomed
  <2>2. QED
    BY <2>1, FollowedStays DEF SessionInv, InStep, loop, book, setup, Free,
           Answered, DialWelcomed
<1>4. QED BY <1>1, <1>2, <1>3 DEF SessionInv

(* The connection thread failed.                                           *)
LEMMA DialFailedConfirms ==
    ASSUME RecoveryInv, SessionInv, NEW outcome \in {"refused", "bad", "auth",
           "internal"}, NEW opened \in BOOLEAN, DialFailed(outcome, opened)
    PROVE  SessionInv'
<1>1. Quieted'
  BY DEF SessionInv, Quieted, RecoveryInv, TypeOK, Places, JobRoles,
         WorkerRoles, NoWorker, InStep, InSession, loop, book, setup, Free,
         Answered, DialFailed
<1>2. Homed'
  BY DEF SessionInv, Homed, RecoveryInv, TypeOK, Jobs, Places, JobRoles, NoJob,
         InStep, InSession, loop, book, setup, Free, Answered, DialFailed
<1>3. Followed'
  <2>1. Unread \subseteq Unread'
    BY UnreadGrows DEF RecoveryInv, TypeOK, Places, JobRoles, NoJob, loop, book,
           setup, Free, Answered, DialFailed
  <2>2. QED
    BY <2>1, FollowedStays DEF SessionInv, InStep, loop, book, setup, Free,
           Answered, DialFailed
<1>4. QED BY <1>1, <1>2, <1>3 DEF SessionInv

(* A POST begins.                                                          *)
LEMMA PostConfirms ==
    ASSUME RecoveryInv, SessionInv, NEW s \in Sources, Post(s)
    PROVE  SessionInv'
<1>1. Quieted'
  BY DEF SessionInv, Quieted, RecoveryInv, TypeOK, Places, JobRoles,
         WorkerRoles, NoWorker, InStep, InSession, loop, book, setup, twitch,
         Post
<1>2. Homed'
  BY DEF SessionInv, Homed, RecoveryInv, TypeOK, Jobs, Places, JobRoles, NoJob,
         InStep, InSession, loop, book, setup, twitch, Post
<1>3. Followed'
  <2>1. Unread \subseteq Unread'
    BY UnreadGrows DEF RecoveryInv, TypeOK, Places, JobRoles, NoJob, loop, book,
           setup, twitch, Post
  <2>2. QED
    BY <2>1, FollowedStays DEF SessionInv, InStep, loop, book, setup, twitch,
           Post
<1>4. QED BY <1>1, <1>2, <1>3 DEF SessionInv

(* A POST is answered.                                                     *)
LEMMA PostedConfirms ==
    ASSUME RecoveryInv, SessionInv, NEW s \in Sources, NEW notice \in {"ok",
           "error"}, Posted(s, notice)
    PROVE  SessionInv'
<1>1. Quieted'
  BY DEF SessionInv, Quieted, RecoveryInv, TypeOK, Places, JobRoles,
         WorkerRoles, NoWorker, InStep, InSession, loop, book, setup, Posted
<1>2. Homed'
  BY DEF SessionInv, Homed, RecoveryInv, TypeOK, Jobs, Places, JobRoles, NoJob,
         InStep, InSession, loop, book, setup, Posted
<1>3. Followed'
  <2>1. /\ InStep' => InStep /\ UNCHANGED <<ids, failed, inbox, socket, candidate, job>>
        /\ notices' = [notices EXCEPT ![s] = notice] /\ subs \subseteq subs'
    BY DEF InStep, Posted, loop, book
  <2>2. ASSUME InStep, notice = "ok" PROVE s \in subs'
    <3>1. worker.state = "setup"
      BY DEF Posted
    <3>2. InSession
      BY <2>2, <3>1, NothingOutside DEF RecoveryInv, WorkerRoles, InStep, InSession
    <3>3. home # 0
      BY <2>2, <3>2 DEF SessionInv, Homed
    <3>4. QED BY <2>2, <3>3 DEF Posted
  <2>3. Oks' \subseteq Oks \cup {s} /\ (notice # "ok" => Oks' \subseteq Oks)
    BY <2>1 DEF Oks, RecoveryInv, TypeOK
  <2>4. Unread \subseteq Unread'
    BY UnreadGrows DEF Posted, loop
  <2>5. QED BY <2>1, <2>2, <2>3, <2>4 DEF SessionInv, Followed
<1>4. QED BY <1>1, <1>2, <1>3 DEF SessionInv

(* Every subscription was tried.                                           *)
LEMMA SetupDoneConfirms ==
    ASSUME RecoveryInv, SessionInv, SetupDone
    PROVE  SessionInv'
<1>1. Quieted'
  BY DEF SessionInv, Quieted, RecoveryInv, TypeOK, Places, JobRoles,
         WorkerRoles, NoWorker, InStep, InSession, loop, book, setup, twitch,
         SetupDone
<1>2. Homed'
  BY DEF SessionInv, Homed, RecoveryInv, TypeOK, Jobs, Places, JobRoles, NoJob,
         InStep, InSession, loop, book, setup, twitch, SetupDone
<1>3. Followed'
  <2>1. Unread \subseteq Unread'
    BY UnreadGrows DEF RecoveryInv, TypeOK, Places, JobRoles, NoJob, loop, book,
           setup, twitch, SetupDone
  <2>2. QED
    BY <2>1, FollowedStays DEF SessionInv, InStep, loop, book, setup, twitch,
           SetupDone
<1>4. QED BY <1>1, <1>2, <1>3 DEF SessionInv

(* The setup thread ends.                                                  *)
LEMMA WorkerStopsConfirms ==
    ASSUME RecoveryInv, SessionInv, WorkerStops
    PROVE  SessionInv'
<1>1. Quieted'
  BY DEF SessionInv, Quieted, RecoveryInv, TypeOK, Places, JobRoles,
         WorkerRoles, NoWorker, InStep, InSession, loop, book, setup, twitch,
         WorkerStops
<1>2. Homed'
  BY DEF SessionInv, Homed, RecoveryInv, TypeOK, Jobs, Places, JobRoles, NoJob,
         InStep, InSession, loop, book, setup, twitch, WorkerStops
<1>3. Followed'
  <2>1. Unread \subseteq Unread'
    BY UnreadGrows DEF RecoveryInv, TypeOK, Places, JobRoles, NoJob, loop, book,
           setup, twitch, WorkerStops
  <2>2. QED
    BY <2>1, FollowedStays DEF SessionInv, InStep, loop, book, setup, twitch,
           WorkerStops
<1>4. QED BY <1>1, <1>2, <1>3 DEF SessionInv

(* The setup thread fails.                                                 *)
LEMMA WorkerCrashesConfirms ==
    ASSUME RecoveryInv, SessionInv, WorkerCrashes
    PROVE  SessionInv'
<1>1. Quieted'
  BY DEF SessionInv, Quieted, RecoveryInv, TypeOK, Places, JobRoles,
         WorkerRoles, NoWorker, InStep, InSession, loop, book, twitch,
         WorkerCrashes
<1>2. Homed'
  BY DEF SessionInv, Homed, RecoveryInv, TypeOK, Jobs, Places, JobRoles, NoJob,
         InStep, InSession, loop, book, twitch, WorkerCrashes
<1>3. Followed'
  <2>1. Unread \subseteq Unread'
    BY UnreadGrows DEF RecoveryInv, TypeOK, Places, JobRoles, NoJob, loop, book,
           twitch, WorkerCrashes
  <2>2. QED
    BY <2>1, FollowedStays DEF SessionInv, InStep, loop, book, twitch,
           WorkerCrashes
<1>4. QED BY <1>1, <1>2, <1>3 DEF SessionInv

(* A frame arrives.                                                        *)
LEMMA SendConfirms ==
    ASSUME RecoveryInv, SessionInv, NEW frame \in Frames, Send(frame)
    PROVE  SessionInv'
<1>1. Quieted'
  BY DEF SessionInv, Quieted, RecoveryInv, TypeOK, Places, JobRoles,
         WorkerRoles, NoWorker, InStep, InSession, loop, book, setup, Deliver,
         Send
<1>2. Homed'
  BY DEF SessionInv, Homed, RecoveryInv, TypeOK, Jobs, Places, JobRoles, NoJob,
         InStep, InSession, loop, book, setup, Deliver, Send
<1>3. Followed'
  <2>1. Unread \subseteq Unread'
    BY DeliveredWaits DEF RecoveryInv, Send
  <2>2. QED BY <2>1, FollowedStays DEF SessionInv, InStep, Send, Deliver, loop, book, setup
<1>4. QED BY <1>1, <1>2, <1>3 DEF SessionInv

(* A revocation arrives.                                                   *)
LEMMA RevokeConfirms ==
    ASSUME RecoveryInv, SessionInv, NEW s \in Sources, Revoke(s)
    PROVE  SessionInv'
<1>1. Quieted'
  BY DEF SessionInv, Quieted, RecoveryInv, TypeOK, Places, JobRoles,
         WorkerRoles, NoWorker, InStep, InSession, loop, book, setup, Deliver,
         Revoke
<1>2. Homed'
  BY DEF SessionInv, Homed, RecoveryInv, TypeOK, Jobs, Places, JobRoles, NoJob,
         InStep, InSession, loop, book, setup, Deliver, Revoke
<1>3. Followed'
  <2>1. Frame("revoke", s) \in Frames /\ Deliver(Frame("revoke", s))
    BY DEF Revoke, Frame, Frames
  <2>2. UNCHANGED <<pc, stop, ids, failed, notices>>
    BY <2>1 DEF Deliver, loop, book, setup
  <2>3. CASE ~InStep
    BY <2>2, <2>3 DEF InStep, Followed
  <2>4. CASE InStep /\ ~InSession
    BY <2>2, <2>4, NothingOutside, NothingToFollow
  <2>5. CASE InStep /\ InSession
    <3>1. home \in {socket, candidate, job.socket}
      BY <2>5 DEF SessionInv, Homed
    <3>2. Unread \cup {s} \subseteq Unread'
      BY <2>1, <3>1, DeliveredWaits DEF RecoveryInv
    <3>3. subs \cup Unread \subseteq subs' \cup Unread'
      BY <3>2 DEF Revoke
    <3>4. QED BY <2>2, <2>5, <3>3, FollowedStays DEF SessionInv
  <2>6. QED BY <2>3, <2>4, <2>5
<1>4. QED BY <1>1, <1>2, <1>3 DEF SessionInv

-----------------------------------------------------------------------------
(* No session yet.                                                         *)
LEMMA SessionInit == Init => SessionInv
<1> SUFFICES ASSUME Init PROVE SessionInv
  OBVIOUS
<1>1. Quieted /\ Homed
  BY DEF Init, Quieted, Homed, InStep, InSession, NoJob
<1>2. ids = {} /\ Oks = {}
  BY DEF Init, Oks, Quiet
<1>3. QED BY <1>1, <1>2 DEF SessionInv, Followed

(* Each step keeps it.                                                     *)
LEMMA SessionStep == RecoveryInv /\ SessionInv /\ [Next]_vars => SessionInv'
<1> SUFFICES ASSUME RecoveryInv, SessionInv, [Next]_vars PROVE SessionInv'
  OBVIOUS
<1>1. CASE Between
  BY <1>1, StepConfirms, LeaveLoopConfirms, ForceGapConfirms DEF Between
<1>2. CASE Clock
  BY <1>2, ClockUncertainConfirms, ClockUncertainInJobConfirms DEF Clock
<1>3. CASE Connection
  BY <1>3, JobPendingConfirms, HandoverLateConfirms, JobStoppedConfirms,
         JobFatalConfirms, ColdFailedConfirms, ColdDoneConfirms,
         HandoverFailedConfirms, DrainFailedConfirms, DrainConfirms,
         SwitchStoppedConfirms, SwitchLateConfirms, SwitchConfirms DEF Connection
<1>4. CASE Reading
  BY <1>4, RetryUnsetConfirms, DialColdConfirms, WaitForSocketConfirms,
         SocketLostConfirms, NoFrameConfirms, FrameAfterStopConfirms,
         FrameInvalidConfirms, ReceiveConfirms, ReconnectAgainConfirms,
         ReconnectRefusedConfirms, DialHandoverConfirms DEF Reading
<1>5. CASE Ending
  BY <1>5, JoinJobConfirms, JoinWorkerConfirms, ShutdownConfirms, StopJobConfirms,
         StopWorkerConfirms DEF Ending
<1>6. CASE Dial
  BY <1>6, DialWelcomedConfirms, DialFailedConfirms DEF Dial
<1>7. CASE WorkerRuns
  BY <1>7, PostConfirms, PostedConfirms, SetupDoneConfirms, WorkerStopsConfirms
     DEF WorkerRuns
<1>8. CASE WorkerCrashes
  BY <1>8, WorkerCrashesConfirms
<1>9. CASE Twitch
  BY <1>9, SendConfirms, RevokeConfirms DEF Twitch
<1>10. CASE BackoffOver
  BY <1>10, BackoffOverConfirms
<1>11. CASE RequestStop
  BY <1>11, RequestStopConfirms
<1>12. CASE UNCHANGED vars
  <2> USE <1>12 DEF vars, loop, book, setup, twitch
  <2>1. Quieted' /\ Homed'
    BY DEF SessionInv, Quieted, Homed, InStep, InSession
  <2>2. Unread \subseteq Unread'
    BY UnreadGrows
  <2>3. Followed'
    BY <2>2, FollowedStays DEF SessionInv, InStep
  <2>4. QED BY <2>1, <2>3 DEF SessionInv
<1>13. QED
  BY <1>1, <1>2, <1>3, <1>4, <1>5, <1>6, <1>7, <1>8, <1>9, <1>10,
      <1>11, <1>12 DEF Next, Loop, Ended

(* While the loop steps, every source it reports as confirmed is enabled   *)
(* at Twitch, or its revocation waits where it will be read.               *)
THEOREM ConfirmedAlwaysSubscribed == Spec => []ConfirmedIsSubscribed
<1>1. SessionInv => ConfirmedIsSubscribed
  BY DEF SessionInv, Followed, InStep, ConfirmedIsSubscribed
<1>2. QED BY <1>1, SessionInit, SessionStep, RecoveryIsSound, PTL DEF Spec

(* Types.                                                                  *)
THEOREM RecoveryIsTyped == Spec => []TypeOK
<1>1. RecoveryInv => TypeOK
  BY DEF RecoveryInv
<1>2. QED BY <1>1, RecoveryIsSound, PTL

-----------------------------------------------------------------------------
(* The way to the end of a loop that has been stopped.                     *)

(* Nothing is lost, joined or shut down where nothing can be lost.         *)
LEMMA EndingsLoseNothing ==
    ASSUME pc' \in {"joinJob", "joinWorker", "stopping", "stopJob", "stopWorker", "ended"}
    PROVE  ~Losable'
BY DEF Losable

(* What moves the loop once it is stopped.                                 *)
LEMMA StoppedMoves ==
    ASSUME RecoveryInv, stop, Loop \/ Clock
    PROVE  \/ Losable /\ pc' = "joinJob"
           \/ pc = "job" /\ pc' = "socket" /\ (Losable' => Losable)
           \/ pc = "switch" /\ pc' = "socket" /\ (Losable' => Losable)
           \/ pc = "socket" /\ pc' = "top" /\ (Losable' => Losable)
           \/ pc = "joinJob" /\ pc' = "joinWorker"
           \/ pc = "joinWorker" /\ pc' = "top" /\ ~Losable'
           \/ pc \in {"top", "job", "switch", "socket", "joinJob", "joinWorker"}
              /\ pc' = "stopping"
           \/ pc = "stopping" /\ pc' = "stopJob"
           \/ pc = "stopJob" /\ pc' = "stopWorker"
           \/ pc = "stopWorker" /\ pc' = "ended"
<1> USE DEF Goto, Fatal, JobDone
<1>1. CASE Between
  BY <1>1 DEF Between, Step, LeaveLoop, ForceGap, Lose, Losable
<1>2. CASE Clock
  BY <1>2 DEF Clock, ClockUncertain, ClockUncertainInJob
<1>3. CASE JobPending \/ JobStopped \/ SwitchStopped
  <2>1. CASE JobPending
    BY <2>1 DEF JobPending, Losable, setup
  <2>2. CASE JobStopped
    BY <2>2 DEF JobStopped, Losable, NoJob, setup
  <2>3. CASE SwitchStopped
    BY <2>3 DEF SwitchStopped, Losable, setup
  <2>4. QED BY <1>3, <2>1, <2>2, <2>3
<1>4. CASE Connection /\ ~JobPending /\ ~JobStopped /\ ~SwitchStopped
  BY <1>4 DEF Connection, HandoverLate, JobFatal, ColdFailed, ColdDone, HandoverFailed,
              DrainFailed, Drain, HandoverReady, SwitchLate, Switch, Lose, Losable
<1>5. CASE RetryUnset \/ DialCold \/ WaitForSocket \/ SocketLost
  BY <1>5 DEF RetryUnset, DialCold, DialNow, WaitForSocket, SocketLost, Lose, Losable, setup
<1>6. CASE NoFrame \/ FrameAfterStop
  BY <1>6 DEF NoFrame, FrameAfterStop, HasFrame, Losable, setup
<1>7. CASE FrameInvalid \/ Receive \/ ReconnectAgain \/ ReconnectRefused \/ DialHandover
  BY <1>7 DEF FrameInvalid, Receive, ReconnectAgain, ReconnectRefused, DialHandover, Reconnect
<1>8. CASE JoinWorker
  BY <1>8 DEF JoinWorker, Losable, RecoveryInv, Places, NoWorker
<1>9. CASE JoinJob \/ Shutdown \/ StopJob \/ StopWorker
  BY <1>9 DEF JoinJob, Shutdown, StopJob, StopWorker
<1>10. QED BY <1>1, <1>2, <1>3, <1>4, <1>5, <1>6, <1>7, <1>8, <1>9 DEF Loop, Reading, Ending

(* Nobody else moves it, or gives it something more to lose.               *)
LEMMA OthersGiveNothing ==
    ASSUME RecoveryInv, stop, [Next]_vars, ~Loop, ~Clock
    PROVE  pc' = pc /\ (Losable' => Losable)
<1> USE DEF Losable, RecoveryInv, TypeOK
<1>1. CASE Dial
  <2>1. UNCHANGED <<pc, socket, worker>> /\ job'.kind = job.kind
    BY <1>1 DEF Dial, DialWelcomed, DialFailed, Answered, loop, setup, Jobs
  <2>2. QED BY <2>1
<1>2. CASE WorkerRuns
  <2>1. UNCHANGED <<pc, socket, job>> /\ worker.state # "none"
    BY <1>2 DEF WorkerRuns, Post, Posted, SetupDone, WorkerStops, loop
  <2>2. QED BY <2>1
<1>3. CASE WorkerCrashes
  <2>1. UNCHANGED <<pc, socket, job>> /\ worker.state # "none"
    BY <1>3 DEF WorkerCrashes, WorkerRoles, loop
  <2>2. QED BY <2>1
<1>4. CASE Twitch \/ BackoffOver \/ RequestStop \/ Ended \/ UNCHANGED vars
  BY <1>4 DEF Twitch, Send, Revoke, Deliver, BackoffOver, RequestStop, Ended, vars, loop, setup
<1>5. QED BY <1>1, <1>2, <1>3, <1>4 DEF Next

(* Each move is one less.                                                  *)
LEMMA StoppedCounts ==
    ASSUME RecoveryInv, stop, [Next]_vars
    PROVE  Left' <= Left /\ (pc' # pc => Left' < Left)
<1>1. CASE Loop \/ Clock
  BY <1>1, StoppedMoves, EndingsLoseNothing DEF Left, Passes
<1>2. CASE ~Loop /\ ~Clock
  <2>1. Passes(pc) \in 0..9
    BY DEF Passes
  <2>2. QED BY <1>2, <2>1, OthersGiveNothing DEF Left
<1>3. QED BY <1>1, <1>2

(* Only work that is under way goes on after the stop.                     *)
LEMMA StoppedTakesUpNothing ==
    ASSUME RecoveryInv, stop, [Next]_vars PROVE TakesUpNothing
<1> USE DEF TakesUpNothing, RecoveryInv, TypeOK
<1>1. CASE Between \/ Clock
  <2>1. /\ socket' = 0 \/ socket' = socket
        /\ job' \in {job, NoJob} /\ worker' = worker
    BY <1>1 DEF Between, Step, LeaveLoop, ForceGap, Lose, Clock, ClockUncertain,
                ClockUncertainInJob, setup
  <2>2. QED BY <2>1 DEF NoJob
<1>2. CASE JobPending \/ HandoverLate \/ JobStopped \/ SwitchStopped
  <2>1. /\ socket' = 0 \/ socket' = socket
        /\ job' \in {job, NoJob} /\ worker' = worker
    BY <1>2 DEF JobPending, HandoverLate, JobStopped, SwitchStopped, Lose, setup
  <2>2. QED BY <2>1 DEF NoJob
<1>3. CASE Connection /\ ~JobPending /\ ~HandoverLate /\ ~JobStopped /\ ~SwitchStopped
  BY <1>3 DEF Connection, JobFatal, ColdFailed, ColdDone, HandoverFailed, DrainFailed, Drain,
              HandoverReady, SwitchLate, Switch
<1>4. CASE RetryUnset \/ DialCold \/ WaitForSocket \/ SocketLost \/ NoFrame
  BY <1>4 DEF RetryUnset, DialCold, DialNow, WaitForSocket, SocketLost, Lose, NoFrame, setup
<1>5. CASE FrameAfterStop \/ FrameInvalid \/ Receive \/ ReconnectAgain \/ ReconnectRefused
           \/ DialHandover
  BY <1>5 DEF FrameAfterStop, FrameInvalid, Receive, ReconnectAgain, ReconnectRefused,
              DialHandover, Reconnect, setup
<1>6. CASE Ending
  <2>1. /\ socket' = 0 \/ socket' = socket
        /\ job' \in {job, NoJob} /\ worker' \in {worker, NoWorker, Told}
    BY <1>6 DEF Ending, JoinJob, JoinWorker, Shutdown, StopJob, StopWorker, setup
  <2>2. Told.state = worker.state
    BY DEF Told, Workers
  <2>3. QED BY <2>1, <2>2 DEF NoJob, NoWorker
<1>7. CASE Dial
  <2>1. UNCHANGED <<socket, worker>> /\ job'.kind = job.kind
    BY <1>7 DEF Dial, DialWelcomed, DialFailed, Answered, loop, setup, Jobs
  <2>2. QED BY <2>1
<1>8. CASE WorkerRuns \/ WorkerCrashes
  <2>1. UNCHANGED <<socket, job>> /\ worker.state # "none"
    BY <1>8 DEF WorkerRuns, Post, Posted, SetupDone, WorkerStops, WorkerCrashes, WorkerRoles, loop
  <2>2. QED BY <2>1
<1>9. CASE Twitch \/ BackoffOver \/ RequestStop \/ Ended \/ UNCHANGED vars
  BY <1>9 DEF Twitch, Send, Revoke, Deliver, BackoffOver, RequestStop, Ended, vars, loop, setup
<1>10. QED BY <1>1, <1>2, <1>3, <1>4, <1>5, <1>6, <1>7, <1>8, <1>9 DEF Next, Loop, Reading

(* A stopped loop is on its way to its end: it begins nothing, waits for   *)
(* the threads and closes what it holds, and a loss on the way is the last *)
(* (step, lose, shutdown).                                                 *)
THEOREM RecoveryStopsStraight == Spec => StopIsStraight
<1>1. RecoveryInv /\ [Next]_vars
        => [stop => TakesUpNothing /\ Left' <= Left /\ (pc' # pc => Left' < Left)]_vars
  BY StoppedCounts, StoppedTakesUpNothing
<1>2. QED BY <1>1, RecoveryIsSound, PTL DEF Spec, StopIsStraight

-----------------------------------------------------------------------------
(* The one socket that may be left open.                                   *)

(* No step but the reading inside complete_job lets go of an open socket.  *)
LEMMA OnlyTheReadingLeaks ==
    ASSUME RecoveryInv, [Next]_vars, ~ClockUncertainInJob PROVE Leak' \subseteq Leak
<1> USE DEF Leak, RecoveryInv
<1>0. 0 \notin open
  BY RecoveryAssumption DEF TypeOK
<1>1. CASE open' \subseteq open /\ UNCHANGED <<socket, candidate>> /\ job'.socket = job.socket
  BY <1>1
<1>2. CASE Step \/ LeaveLoop \/ JobPending
  <2>1. UNCHANGED <<open, socket, candidate, job>>
    BY <1>2 DEF Step, LeaveLoop, JobPending, twitch
  <2>2. QED BY <1>1, <2>1
<1>3. ASSUME NEW bad, NEW extra, Lose(bad, extra), candidate \in extra \cup {0},
             job'.socket = job.socket \/ job.socket \in extra \cup {0}
      PROVE  Leak' \subseteq Leak
  BY <1>0, <1>3 DEF Lose, Close
<1>4. CASE ForceGap \/ HandoverLate \/ SocketLost \/ ReconnectRefused \/ SwitchLate
  <2>1. PICK bad, extra : Lose(bad, extra) /\ candidate \in extra \cup {0} /\ job' = job
    <3>1. ForceGap \/ HandoverLate \/ SocketLost \/ ReconnectRefused
            => Lose(failed, {}) /\ candidate = 0 /\ job' = job
      BY DEF ForceGap, HandoverLate, SocketLost, ReconnectRefused, Reconnect, HasFrame, Places
    <3>2. SwitchLate => Lose(failed, {candidate}) /\ job' = job
      BY DEF SwitchLate
    <3>3. QED BY <1>4, <3>1, <3>2
  <2>2. QED BY <1>3, <2>1
<1>5. CASE HandoverFailed \/ \E n \in 0..MaxFrames : DrainFailed(n)
  <2>1. PICK bad : Lose(bad, Result) /\ candidate = 0
    <3>1. HandoverFailed => Lose(failed, Result) /\ candidate = 0
      BY DEF HandoverFailed, JobDone, Places
    <3>2. ASSUME NEW n \in 0..MaxFrames, DrainFailed(n)
          PROVE  \E bad : Lose(bad, Result) /\ candidate = 0
      BY <3>2 DEF DrainFailed, HandoverReady, JobDone, Places
    <3>3. QED BY <1>5, <3>1, <3>2
  <2>2. QED BY <1>3, <2>1 DEF Result
<1>6. CASE ClockUncertain
  BY <1>0, <1>6 DEF ClockUncertain, Close
<1>7. CASE JobStopped \/ JobFatal \/ ColdFailed \/ JoinJob \/ StopJob
  <2>1. Close(Result) /\ UNCHANGED <<socket, candidate>>
    BY <1>7 DEF JobStopped, JobFatal, ColdFailed, JoinJob, StopJob
  <2>2. QED BY <1>0, <2>1 DEF Close, Result
<1>8. CASE ColdDone
  BY <1>0, <1>8 DEF ColdDone, JobDone, JobRoles, twitch
<1>9. ASSUME NEW n \in 0..MaxFrames, Drain(n) PROVE Leak' \subseteq Leak
  BY <1>0, <1>9 DEF Drain, HandoverReady, JobDone, Places, Close
<1>10. CASE SwitchStopped
  BY <1>0, <1>10 DEF SwitchStopped, Close
<1>11. CASE Switch
  BY <1>0, <1>11 DEF Switch, Places, twitch
<1>12. CASE RetryUnset \/ WaitForSocket \/ NoFrame \/ JoinWorker \/ StopWorker
  <2>1. UNCHANGED <<open, socket, candidate, job>>
    BY <1>12 DEF RetryUnset, WaitForSocket, NoFrame, JoinWorker, StopWorker, twitch
  <2>2. QED BY <1>1, <2>1
<1>13. CASE FrameAfterStop \/ FrameInvalid \/ Receive \/ ReconnectAgain
  <2>1. UNCHANGED <<open, socket, candidate, job>>
    BY <1>13 DEF FrameAfterStop, FrameInvalid, Receive, ReconnectAgain, Consume
  <2>2. QED BY <1>1, <2>1
<1>14. CASE DialCold \/ DialHandover
  <2>1. job.socket = 0 /\ UNCHANGED <<open, socket, candidate>>
    BY <1>14 DEF DialCold, DialNow, DialHandover, Consume, twitch, JobRoles
  <2>2. QED BY <1>0, <2>1
<1>15. CASE Shutdown
  BY <1>0, <1>15 DEF Shutdown, Close
<1>16. CASE Dial
  <2>1. job.socket = 0 /\ UNCHANGED <<socket, candidate>>
    BY <1>16 DEF Dial, DialWelcomed, DialFailed, JobRoles, loop
  <2>2. open' \subseteq open \cup {job'.socket}
    <3>1. ASSUME NEW outcome, NEW k, Answered(outcome, k) PROVE job'.socket = k
      BY <3>1 DEF Answered, TypeOK, Jobs
    <3>2. QED BY <1>16, <3>1 DEF Dial, DialWelcomed, DialFailed
  <2>3. QED BY <1>0, <2>1, <2>2
<1>17. CASE WorkerRuns \/ WorkerCrashes
  <2>1. UNCHANGED <<open, socket, candidate, job>>
    BY <1>17 DEF WorkerRuns, Post, Posted, SetupDone, WorkerStops, WorkerCrashes, loop, twitch
  <2>2. QED BY <1>1, <2>1
<1>18. CASE Twitch \/ BackoffOver \/ RequestStop \/ Ended \/ UNCHANGED vars
  <2>1. UNCHANGED <<open, socket, candidate, job>>
    BY <1>18 DEF Twitch, Send, Revoke, Deliver, BackoffOver, RequestStop, Ended, vars, loop, twitch
  <2>2. QED BY <1>1, <2>1
<1>19. QED BY <1>2, <1>4, <1>5, <1>6, <1>7, <1>8, <1>9, <1>10, <1>11, <1>12, <1>13, <1>14,
              <1>15, <1>16, <1>17, <1>18
           DEF Next, Loop, Clock, Between, Connection, Reading, Ending

(* A loop that is ending goes on ending, for the reason it began with.     *)
LEMMA EndingIsFinal ==
    ASSUME RecoveryInv, [Next]_vars, pc \in {"stopping", "stopJob", "stopWorker", "ended"}
    PROVE  reason' = reason /\ pc' \in {"stopping", "stopJob", "stopWorker", "ended"}
<1> USE DEF loop, Goto
<1>1. CASE Clock \/ Between \/ Connection
  BY <1>1 DEF Clock, ClockUncertain, ClockUncertainInJob, Between, Step, LeaveLoop, ForceGap,
              Connection, JobPending, HandoverLate, JobStopped, JobFatal, ColdFailed, ColdDone,
              HandoverFailed, DrainFailed, Drain, HandoverReady, JobDone, SwitchStopped,
              SwitchLate, Switch
<1>2. CASE Reading
  BY <1>2 DEF Reading, RetryUnset, DialCold, WaitForSocket, SocketLost, NoFrame, FrameAfterStop,
              FrameInvalid, Receive, ReconnectAgain, ReconnectRefused, DialHandover, Reconnect,
              HasFrame
<1>3. CASE Ending
  BY <1>3 DEF Ending, JoinJob, JoinWorker, Shutdown, StopJob, StopWorker
<1>4. CASE Dial \/ WorkerRuns \/ WorkerCrashes
  BY <1>4 DEF Dial, DialWelcomed, DialFailed, WorkerRuns, Post, Posted, SetupDone, WorkerStops,
              WorkerCrashes
<1>5. CASE Twitch \/ BackoffOver \/ RequestStop \/ Ended \/ UNCHANGED vars
  BY <1>5 DEF Twitch, Send, Revoke, Deliver, BackoffOver, RequestStop, Ended, vars
<1>6. QED BY <1>1, <1>2, <1>3, <1>4, <1>5 DEF Next, Loop

(* So what is left open stays the one socket, of a probe that is ending.   *)
LEMMA LeakStep ==
    ASSUME RecoveryInv, LeakIsLast, [Next]_vars PROVE LeakIsLast'
<1> USE DEF LeakIsLast
<1>1. CASE ClockUncertainInJob
  <2>1. /\ ~External /\ pc = "job" /\ pc' = "stopping" /\ reason' = "uncertain"
        /\ Leak' \subseteq Leak \cup {job.socket}
    BY <1>1 DEF ClockUncertainInJob, JobDone, Fatal, Leak, NoJob, twitch
  <2>2. Leak = {} /\ 0 \notin Leak'
    BY <1>1, <2>1, RecoveryAssumption DEF ClockUncertainInJob, twitch, Leak, RecoveryInv, TypeOK
  <2>3. \E k \in Sockets : Leak' \subseteq {k}
    <3>1. job.socket \in Sockets \cup {0} /\ 1 \in Sockets
      BY RecoveryAssumption DEF RecoveryInv, TypeOK, Jobs
    <3>2. QED BY <2>1, <2>2, <3>1
  <2>4. QED BY <2>1, <2>3
<1>2. CASE ~ClockUncertainInJob
  <2>1. Leak' \subseteq Leak
    BY <1>2, OnlyTheReadingLeaks
  <2>2. QED BY <2>1, EndingIsFinal
<1>3. QED BY <1>1, <1>2

(* Where the collector's own guard finds the gaps no socket is left open;  *)
(* a standalone probe leaves at most one, and only when it ends because    *)
(* its clocks disagreed (sample, complete_job).                            *)
THEOREM LeakAlwaysLast == Spec => []LeakIsLast
<1>1. Init => LeakIsLast
  <2>1. Init => Leak = {} /\ 1 \in Sockets
    BY RecoveryAssumption DEF Init, Leak
  <2>2. QED BY <2>1 DEF LeakIsLast
<1>2. RecoveryInv /\ LeakIsLast /\ [Next]_vars => LeakIsLast'
  BY LeakStep
<1>3. QED BY <1>1, <1>2, RecoveryIsSound, PTL DEF Spec

-----------------------------------------------------------------------------
(* The retry of a loop that has lost its socket.                           *)

(* Only the loop and its clock move it, lose a socket or forget a retry.   *)
LEMMA OthersLoseNothing ==
    ASSUME [Next]_vars, ~Loop, ~Clock
    PROVE  /\ UNCHANGED <<pc, socket, reason>> /\ (stop => stop')
           /\ retry' = retry \/ retry' = "due"
<1>1. CASE Dial
  BY <1>1 DEF Dial, DialWelcomed, DialFailed, loop
<1>2. CASE WorkerRuns \/ WorkerCrashes
  <2>1. UNCHANGED loop
    BY <1>2 DEF WorkerRuns, Post, Posted, SetupDone, WorkerStops, WorkerCrashes
  <2>2. QED BY <2>1 DEF loop
<1>3. CASE Twitch
  BY <1>3 DEF Twitch, Send, Revoke, Deliver, loop
<1>4. CASE BackoffOver \/ RequestStop
  BY <1>4 DEF BackoffOver, RequestStop
<1>5. CASE Ended \/ UNCHANGED vars
  BY <1>5 DEF Ended, vars, loop
<1>6. QED BY <1>1, <1>2, <1>3, <1>4, <1>5 DEF Next

(* A retry is set before the loop is without a socket.                     *)
LEMMA RetryStep ==
    ASSUME RecoveryInv, RetryIsSet, [Next]_vars PROVE RetryIsSet'
<1> USE DEF RetryIsSet, Goto, Fatal, JobDone
<1>1. CASE Between \/ Clock
  BY <1>1 DEF Between, Step, LeaveLoop, ForceGap, Lose, Clock, ClockUncertain,
              ClockUncertainInJob
<1>2. CASE JobPending \/ HandoverLate \/ JobStopped \/ SwitchStopped \/ SwitchLate
  BY <1>2 DEF JobPending, HandoverLate, JobStopped, SwitchStopped, SwitchLate, Lose
<1>3. CASE JobFatal \/ ColdFailed \/ HandoverFailed
  BY <1>3 DEF JobFatal, ColdFailed, HandoverFailed, Lose
<1>4. ASSUME NEW n \in 0..MaxFrames, DrainFailed(n) \/ Drain(n) PROVE RetryIsSet'
  BY <1>4 DEF DrainFailed, Drain, HandoverReady, Lose
<1>5. CASE ColdDone
  BY <1>5 DEF ColdDone, RecoveryInv, JobRoles
<1>6. CASE Switch
  BY <1>6 DEF Switch, RecoveryInv, Places
<1>7. CASE RetryUnset \/ DialCold \/ WaitForSocket \/ SocketLost \/ NoFrame
  BY <1>7 DEF RetryUnset, DialCold, WaitForSocket, SocketLost, NoFrame, Lose
<1>8. CASE FrameAfterStop \/ FrameInvalid \/ Receive
  BY <1>8 DEF FrameAfterStop, FrameInvalid, Receive, HasFrame
<1>9. CASE ReconnectAgain \/ ReconnectRefused \/ DialHandover
  BY <1>9 DEF ReconnectAgain, ReconnectRefused, DialHandover, Reconnect, HasFrame, Lose
<1>10. CASE Ending
  BY <1>10 DEF Ending, JoinJob, JoinWorker, Shutdown, StopJob, StopWorker
<1>11. CASE ~Loop /\ ~Clock
  BY <1>11, OthersLoseNothing
<1>12. QED BY <1>1, <1>2, <1>3, <1>4, <1>5, <1>6, <1>7, <1>8, <1>9, <1>10, <1>11
           DEF Loop, Connection, Reading

(* A loop that has lost its socket dials again once its backoff is over;   *)
(* retry_at is compared before it is set in a stopped loop only            *)
(* (lose, schedule_retry, step).                                           *)
THEOREM RetryAlwaysSet == Spec => []RetryIsSet
<1>1. Init => RetryIsSet
  BY RecoveryAssumption DEF Init, RetryIsSet
<1>2. RecoveryInv /\ RetryIsSet /\ [Next]_vars => RetryIsSet'
  BY RetryStep
<1>3. QED BY <1>1, <1>2, RecoveryIsSound, PTL DEF Spec
=============================================================================
