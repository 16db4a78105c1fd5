---------------------- MODULE EnhancedCollectionProofs ----------------------
(***************************************************************************)
(* EnhancedInv is inductive for all streams, raids, limits and bounds, and *)
(* the safety properties of EnhancedCollection follow from it.  There is   *)
(* one lemma for each part of the invariant.                               *)
(***************************************************************************)
EXTENDS EnhancedCollection, SequenceTheorems, TLAPS

-----------------------------------------------------------------------------
(* What the parts are made of.                                             *)

(* The two kinds of job.                                                   *)
LEMMA Kinds ==
    /\ \A job \in PresenceJobs : IsPresence(job)
    /\ \A job \in RaidJobs : ~IsPresence(job)
BY DEF PresenceJobs, RaidJobs, IsPresence

(* An answer is the answer to a job of its kind.                           *)
LEMMA AuxTyped ==
    ASSUME aux \in Auxes, aux # Idle
    PROVE  /\ aux.state \in {"asking", "done"}
           /\ IsPresence(aux.job) => aux.job \in PresenceJobs
           /\ ~IsPresence(aux.job) => aux.job \in RaidJobs
           /\ aux.state = "done" /\ IsPresence(aux.job) => aux.answer \in {"more", "last", "failed", "fatal"}
           /\ aux.state = "done" /\ ~IsPresence(aux.job) => aux.answer \in {"found", "failed", "denied", "fatal"}
BY Kinds DEF Auxes

(* No job and no snapshot.                                                 *)
LEMMA Nothing == Idle.state = "idle" /\ NoActive.snapshot = 0
BY DEF Idle, NoActive

(* The row of a snapshot changes and the others do not.                    *)
LEMMA RowChanges ==
    ASSUME snapshots \in Seq(Rows), NEW i \in DOMAIN snapshots, NEW row \in Rows,
           snapshots' = [snapshots EXCEPT ![i] = row]
    PROVE  /\ snapshots' \in Seq(Rows)
           /\ Len(snapshots') = Len(snapshots)
           /\ DOMAIN snapshots' = DOMAIN snapshots
           /\ \A j \in DOMAIN snapshots : snapshots'[j] = IF j = i THEN row ELSE snapshots[j]
<1>1. DOMAIN snapshots = 1..Len(snapshots)
  BY LenProperties
<1>2. snapshots' \in Seq(Rows) /\ Len(snapshots') = Len(snapshots)
  BY <1>1, ExceptSeq
<1>3. DOMAIN snapshots' = 1..Len(snapshots')
  BY <1>2, LenProperties
<1>4. QED BY <1>1, <1>2, <1>3, ExceptSeq

(* What settling a row does to its type.                                   *)
LEMMA SettledTyped ==
    ASSUME TypeOK, NEW m \in Raids, NEW status \in ContextStatus, NEW n \in Nat,
           Settled(m, status, n)
    PROVE  contexts' \in [Raids -> [status : ContextStatus, attempts : Nat]]
BY DEF TypeOK, Settled

-----------------------------------------------------------------------------
(* The kinds of step.                                                      *)

(* Steps that leave the jobs and the rows of the attempts alone.           *)
Mild ==
    \/ Gap \/ PresenceExpires \/ ClockFails \/ AskStop \/ StorageFails \/ StartEnhanced
    \/ PollStopped \/ PollSilent \/ PollInDoubt \/ PollFatal
    \/ \E s \in Streams \cup {None}, staleBefore, staleAfter \in BOOLEAN :
           PollSaved(s, staleBefore, staleAfter)
    \/ PumpFails \/ Pumped
    \/ NoAnswer("advance") \/ NoAnswer("last")
    \/ CheckActive /\ (active = NoActive \/ ~Outdated)
    \/ LaneTaken \/ AskNothing \/ Finish \/ Interrupted \/ Close

(* Steps that settle the active snapshot.                                  *)
Settling ==
    \/ \E l \in {"advance", "last"} :
           PresenceVoid(l) \/ PresenceFailed(l) \/ PresenceCut(l) \/ PresenceComplete(l)
    \/ CheckActive /\ active # NoActive /\ Outdated
    \/ InterruptPresence

(* The other steps of presence.                                            *)
Gathering ==
    \/ \E l \in {"advance", "last"} :
           PresenceIgnored(l) \/ PresenceFatal(l) \/ PresenceNext(l)
    \/ BeginPresence \/ AskPresence

(* Steps of the raids.                                                     *)
Raiding ==
    \/ RetryExpires
    \/ \E m \in Raids : RaidStored(m) \/ RaidFails(m)
    \/ \E l \in {"advance", "last"} : RaidFatal(l) \/ RaidRetried(l) \/ RaidSettled(l)
    \/ AskRaid \/ InterruptRaid

(* Every step is of one of these kinds.                                    *)
LEMMA Steps ==
    ASSUME Next PROVE Mild \/ Settling \/ Gathering \/ Raiding \/ AuxAnswers
<1>1. CASE Coordinator
  <2>1. ASSUME NEW l \in {"advance", "last"}, TakeAnswer(l)
        PROVE  Settling \/ Gathering \/ Raiding
    BY <2>1 DEF TakeAnswer, Settling, Gathering, Raiding
  <2>2. CheckActive => Mild \/ Settling
    BY DEF Mild, Settling
  <2>3. QED BY <1>1, <2>1, <2>2 DEF Coordinator, Mild, Settling, Gathering, Raiding
<1>2. CASE Environment
  BY <1>2 DEF Environment, Mild, Raiding
<1>3. QED BY <1>1, <1>2 DEF Next

(* A mild step in effect.                                                  *)
LEMMA MildKeeps ==
    ASSUME Mild
    PROVE  /\ UNCHANGED <<active, snapshots, aux, queue, contexts, asked, latched>>
           /\ at # "ended"
<1> USE DEF At, Sampled, Writing, Receiving, target, seen, work, raiding, taking, control
<1>1. CASE Gap \/ PresenceExpires \/ ClockFails \/ AskStop \/ StorageFails \/ StartEnhanced
  BY <1>1 DEF Gap, PresenceExpires, ClockFails, AskStop, StorageFails, StartEnhanced
<1>2. CASE PollStopped \/ PollSilent \/ PollInDoubt \/ PollFatal
  BY <1>2 DEF PollStopped, PollSilent, PollInDoubt, PollFatal
<1>3. ASSUME NEW s, NEW b1, NEW b2, PollSaved(s, b1, b2)
      PROVE  UNCHANGED <<active, snapshots, aux, queue, contexts, asked, latched>> /\ at # "ended"
  BY <1>3 DEF PollSaved
<1>4. CASE PumpFails \/ Pumped \/ NoAnswer("advance") \/ NoAnswer("last")
  BY <1>4 DEF PumpFails, Pumped, NoAnswer
<1>5. CASE CheckActive /\ (active = NoActive \/ ~Outdated)
  BY <1>5 DEF CheckActive
<1>6. CASE LaneTaken \/ AskNothing \/ Finish \/ Interrupted \/ Close
  BY <1>6 DEF LaneTaken, AskNothing, Finish, Interrupted, Close, Scheduling
<1>7. QED BY <1>1, <1>2, <1>3, <1>4, <1>5, <1>6 DEF Mild

(* Nothing happens after the end.                                          *)
LEMMA Moving ==
    ASSUME EnhancedInv, Next PROVE Running
<1>1. Next => at # "ended"
  <2> USE DEF At, Answered, Receiving, Sampled
  <2>1. Mild => at # "ended"
    BY MildKeeps
  <2>2. Settling => at # "ended"
    BY DEF Settling, TookPresence, PresenceVoid, PresenceFailed, PresenceCut, PresenceComplete,
           CheckActive, InterruptPresence
  <2>3. Gathering => at # "ended"
    BY DEF Gathering, TookPresence, PresenceIgnored, PresenceFatal, PresenceNext, BeginPresence,
           AskPresence, Scheduling
  <2>4. Raiding => at # "ended"
    BY DEF Raiding, TookRaid, RetryExpires, RaidStored, RaidFails, RaidFatal, RaidRetried,
           RaidSettled, AskRaid, Scheduling, InterruptRaid
  <2>5. AuxAnswers => at # "ended"
    BY DEF AuxAnswers
  <2>6. QED BY <2>1, <2>2, <2>3, <2>4, <2>5, Steps
<1>2. QED BY <1>1 DEF EnhancedInv, Ends, At

-----------------------------------------------------------------------------
(* What the settling of a row comes to.                                    *)

(* The active snapshot has the open row.                                   *)
LEMMA ActiveRow ==
    ASSUME EnhancedInv, Running, active # NoActive
    PROVE  /\ active \in Actives
           /\ active.snapshot \in DOMAIN snapshots
           /\ active.snapshot = Len(snapshots)
           /\ Open(active.snapshot)
           /\ snapshots[active.snapshot] \in Rows
<1>1. active \in Actives
  BY DEF EnhancedInv, TypeOK
<1>2. active.snapshot = Len(snapshots) /\ Len(snapshots) > 0 /\ snapshots \in Seq(Rows)
  BY DEF EnhancedInv, ActiveIsOpen, TypeOK
<1>3. active.snapshot \in DOMAIN snapshots
  BY <1>2, LenProperties
<1>4. Open(active.snapshot)
  BY <1>3 DEF EnhancedInv, ActiveIsOpen
<1>5. snapshots[active.snapshot] \in Rows
  BY <1>2, <1>3, LenProperties, ElementOfSeq
<1>6. QED BY <1>1, <1>2, <1>3, <1>4, <1>5

(* FinalizePresence is never refused: it changes the row of the active     *)
(* snapshot and no other.                                                  *)
LEMMA Finalized ==
    ASSUME EnhancedInv, Running, active # NoActive,
           NEW status \in SnapshotStatus, NEW members \in SUBSET (Nat \X Nat), NEW next \in Labels,
           FinalizePresence(status, members, next)
    PROVE  /\ active' = NoActive
           /\ snapshots' \in Seq(Rows) /\ Len(snapshots') = Len(snapshots)
           /\ DOMAIN snapshots' = DOMAIN snapshots
           /\ \A j \in DOMAIN snapshots : j # active.snapshot => snapshots'[j] = snapshots[j]
           /\ snapshots'[active.snapshot].status = status
           /\ snapshots'[active.snapshot].members = members
           /\ snapshots'[active.snapshot].broken = (status = "complete" /\ broken)
           /\ \/ at' = "ended" /\ exit' = "failed" /\ health' = health
              \/ /\ at' = next /\ exit' = exit
                 /\ health' = IF status = "complete" THEN "healthy" ELSE "error"
<1> DEFINE old == snapshots[active.snapshot]
           row == [old EXCEPT !.status = status, !.members = members,
                              !.broken = (status = "complete" /\ broken)]
<1>1. active.snapshot \in DOMAIN snapshots /\ Open(active.snapshot) /\ old \in Rows
  BY ActiveRow
<1>2. snapshots' = [snapshots EXCEPT ![active.snapshot] = row] /\ active' = NoActive
  BY <1>1 DEF FinalizePresence
<1>3. row \in Rows
  BY <1>1 DEF Rows, EnhancedInv, TypeOK
<1>4. row.status = status /\ row.members = members /\ row.broken = (status = "complete" /\ broken)
  BY <1>1 DEF Rows
<1> HIDE DEF row
<1>5. /\ snapshots' \in Seq(Rows) /\ Len(snapshots') = Len(snapshots)
      /\ DOMAIN snapshots' = DOMAIN snapshots
      /\ \A j \in DOMAIN snapshots :
            snapshots'[j] = IF j = active.snapshot THEN row ELSE snapshots[j]
  BY <1>1, <1>2, <1>3, RowChanges DEF EnhancedInv, TypeOK
<1>6. \/ at' = "ended" /\ exit' = "failed" /\ health' = health
      \/ at' = next /\ exit' = exit /\ health' = IF status = "complete" THEN "healthy" ELSE "error"
  BY <1>1 DEF FinalizePresence, Die, Goto
<1>7. QED BY <1>1, <1>2, <1>4, <1>5, <1>6

(* What the page gathered comes to.                                        *)
LEMMA GatheredIs ==
    ASSUME EnhancedInv, Running, active # NoActive, Reading, Ours
    PROVE  /\ aux.job.page \in 1..MaxPages
           /\ active.page = 0
           /\ active.members = {active.snapshot} \X (1..(aux.job.page - 1))
           /\ Gathered = {active.snapshot} \X (1..aux.job.page)
           /\ Gathered \in SUBSET (Nat \X Nat)
<1>1. active \in Actives /\ active.snapshot \in Nat
  BY ActiveRow DEF Actives
<1>2. ReadingOurs
  BY DEF Ours, ReadingOurs
<1>3. active.page = 0
  BY <1>2 DEF EnhancedInv, Pages
<1>4. Page = aux.job.page
  BY <1>3 DEF Page
<1>5. aux.job.page \in 1..MaxPages /\ active.members = {active.snapshot} \X (1..(aux.job.page - 1))
  BY <1>4 DEF EnhancedInv, Pages
<1>6. Gathered = active.members \cup {<<active.snapshot, aux.job.page>>}
  BY DEF Gathered, Ours
<1>7. 1..aux.job.page = (1..(aux.job.page - 1)) \cup {aux.job.page}
  BY <1>5, EnhancedAssumption DEF EnhancedAssumption
<1>8. Gathered = {active.snapshot} \X (1..aux.job.page)
  BY <1>5, <1>6, <1>7
<1>9. Gathered \in SUBSET (Nat \X Nat)
  BY <1>1, <1>5, <1>8, EnhancedAssumption DEF EnhancedAssumption
<1>10. QED BY <1>3, <1>5, <1>8, <1>9

(* The active snapshot is settled: what the parts below need to know.      *)
Settlement(status, members) ==
    /\ active # NoActive /\ active' = NoActive
    /\ snapshots' \in Seq(Rows) /\ Len(snapshots') = Len(snapshots)
    /\ DOMAIN snapshots' = DOMAIN snapshots
    /\ \A j \in DOMAIN snapshots : j # active.snapshot => snapshots'[j] = snapshots[j]
    /\ snapshots'[active.snapshot].status = status
    /\ snapshots'[active.snapshot].members = members
    /\ snapshots'[active.snapshot].broken = (status = "complete" /\ broken)
    /\ \/ at' = "ended" /\ exit' = "failed" /\ health' = health
       \/ /\ at' \in {"check", "begin", "interrupt"} /\ exit' = exit
          /\ at' = "interrupt" => aux' = Idle
          /\ health' = IF status = "complete" THEN "healthy" ELSE "error"
    /\ UNCHANGED <<queue, contexts, asked, latched, generation, stop, live, tracked,
                   nextPresence, available, broken>>
    /\ auxLast' \in {"none", "presence", "raid"}
    /\ aux' = aux \/ (Reading /\ aux' = Idle)
    /\ status = "complete" => /\ live /\ ~broken
                              /\ \E n \in 1..MaxPages : members = {active.snapshot} \X (1..n)

(* An answer that is ours settles the active snapshot.                     *)
LEMMA AnswerSettles ==
    ASSUME EnhancedInv, Running, NEW l \in {"advance", "last"},
           NEW status \in {"complete", "partial", "rejected", "interrupted"},
           NEW members \in SUBSET (Nat \X Nat),
           TookPresence(l), Ours, FinalizePresence(status, members, After(l)),
           status = "complete" => ~Void /\ members = Gathered
    PROVE  Settlement(status, members)
<1> USE DEF SnapshotStatus, Labels
<1>1. active # NoActive /\ Reading /\ aux' = Idle
  BY Nothing DEF Ours, TookPresence, Answered, Reading
<1>2. After(l) \in {"check", "interrupt"}
  BY DEF After
<1>3. auxLast' \in {"none", "presence", "raid"}
  BY DEF TookPresence, EnhancedInv, TypeOK
<1>4. status = "complete" => /\ live /\ ~broken
                             /\ \E n \in 1..MaxPages : members = {active.snapshot} \X (1..n)
  <2>1. SUFFICES ASSUME status = "complete"
                 PROVE  /\ live /\ ~broken
                        /\ \E n \in 1..MaxPages : members = {active.snapshot} \X (1..n)
    OBVIOUS
  <2>2. live /\ aux.job.generation = generation /\ aux.job.stream = tracked
    BY <2>1 DEF Void
  <2>3. aux.job.generation = active.generation /\ aux.job.stream = active.stream
    BY <1>1 DEF EnhancedInv, Pages, ReadingOurs, Ours
  <2>4. ~broken
    BY <1>1, <2>2, <2>3 DEF EnhancedInv, Whole
  <2>5. QED BY <1>1, <2>1, <2>2, <2>4, GatheredIs
<1>5. UNCHANGED <<queue, contexts, asked, latched, generation, stop, live, tracked,
                  nextPresence, available, broken>>
  BY DEF TookPresence, raiding, target
<1>6. /\ active' = NoActive
      /\ snapshots' \in Seq(Rows) /\ Len(snapshots') = Len(snapshots)
      /\ DOMAIN snapshots' = DOMAIN snapshots
      /\ \A j \in DOMAIN snapshots : j # active.snapshot => snapshots'[j] = snapshots[j]
      /\ snapshots'[active.snapshot].status = status
      /\ snapshots'[active.snapshot].members = members
      /\ snapshots'[active.snapshot].broken = (status = "complete" /\ broken)
      /\ \/ at' = "ended" /\ exit' = "failed" /\ health' = health
         \/ /\ at' = After(l) /\ exit' = exit
            /\ health' = IF status = "complete" THEN "healthy" ELSE "error"
  BY <1>1, <1>2, Finalized
<1>7. QED BY <1>1, <1>2, <1>3, <1>4, <1>5, <1>6 DEF Settlement

(* Every settling step is a settlement, by one of the final statuses.      *)
LEMMA Settles ==
    ASSUME EnhancedInv, Running, Settling
    PROVE  \E status \in {"complete", "partial", "rejected", "interrupted"},
              members \in SUBSET (Nat \X Nat) : Settlement(status, members)
<1>1. active # NoActive => active.members \in SUBSET (Nat \X Nat)
  BY DEF EnhancedInv, TypeOK, Actives
<1>2. ASSUME NEW l \in {"advance", "last"},
             PresenceVoid(l) \/ PresenceFailed(l) \/ PresenceCut(l) \/ PresenceComplete(l)
      PROVE  \E status \in {"complete", "partial", "rejected", "interrupted"},
                members \in SUBSET (Nat \X Nat) : Settlement(status, members)
  <2>1. TookPresence(l) /\ Ours
    BY <1>2 DEF PresenceVoid, PresenceFailed, PresenceCut, PresenceComplete
  <2>2. active # NoActive /\ Reading
    BY <2>1, Nothing DEF Ours, TookPresence, Answered, Reading
  <2>3. Gathered \in SUBSET (Nat \X Nat)
    BY <2>1, <2>2, GatheredIs
  <2>4. CASE PresenceVoid(l)
    <3>1. Settlement("rejected", active.members)
      BY <1>1, <2>1, <2>2, <2>4, AnswerSettles DEF PresenceVoid
    <3>2. QED BY <1>1, <2>2, <3>1
  <2>5. CASE PresenceFailed(l)
    <3>1. Settlement("partial", active.members)
      BY <1>1, <2>1, <2>2, <2>5, AnswerSettles DEF PresenceFailed
    <3>2. QED BY <1>1, <2>2, <3>1
  <2>6. CASE PresenceCut(l)
    <3>1. Settlement("partial", Gathered)
      BY <2>1, <2>3, <2>6, AnswerSettles DEF PresenceCut
    <3>2. QED BY <2>3, <3>1
  <2>7. CASE PresenceComplete(l)
    <3>1. Settlement("complete", Gathered)
      BY <2>1, <2>3, <2>7, AnswerSettles DEF PresenceComplete
    <3>2. QED BY <2>3, <3>1
  <2>8. QED BY <1>2, <2>4, <2>5, <2>6, <2>7
<1>3. CASE CheckActive /\ active # NoActive /\ Outdated
  <2>1. FinalizePresence("rejected", active.members, "begin")
    BY <1>3 DEF CheckActive
  <2>2. Settlement("rejected", active.members)
    BY <1>1, <1>3, <2>1, Finalized
       DEF CheckActive, Settlement, SnapshotStatus, Labels, raiding, target, work, EnhancedInv, TypeOK
  <2>3. QED BY <1>1, <1>3, <2>2
<1>4. CASE InterruptPresence
  <2>1. aux = Idle
    BY <1>4 DEF InterruptPresence, At, EnhancedInv, Ends
  <2>2. Settlement("interrupted", active.members)
    BY <1>1, <1>4, <2>1, Finalized
       DEF InterruptPresence, Settlement, SnapshotStatus, Labels, raiding, target, work,
           EnhancedInv, TypeOK
  <2>3. QED BY <1>1, <1>4, <2>2 DEF InterruptPresence
<1>5. QED BY <1>2, <1>3, <1>4 DEF Settling

-----------------------------------------------------------------------------
(* The queue.                                                              *)

(* The head of the queue and what is behind it.                            *)
LEMMA HeadIs ==
    ASSUME queue \in Seq(Waits), queue # <<>>
    PROVE  /\ 1 \in DOMAIN queue /\ Head(queue) = queue[1]
           /\ Head(queue) \in Waits
           /\ Head(queue).raid \in Raids /\ Head(queue).attempt \in Nat
           /\ Tail(queue) \in Seq(Waits)
           /\ Len(Tail(queue)) = Len(queue) - 1
           /\ DOMAIN queue = 1..Len(queue) /\ DOMAIN Tail(queue) = 1..(Len(queue) - 1)
           /\ \A i \in DOMAIN Tail(queue) : i + 1 \in DOMAIN queue /\ Tail(queue)[i] = queue[i + 1]
<1>1. /\ Head(queue) = queue[1] /\ Tail(queue) \in Seq(Waits)
      /\ Len(Tail(queue)) = Len(queue) - 1
      /\ \A i \in 1..Len(Tail(queue)) : Tail(queue)[i] = queue[i + 1]
  BY HeadTailProperties
<1>2. Len(queue) \in Nat \ {0} /\ DOMAIN queue = 1..Len(queue)
  BY LenProperties, EmptySeq
<1>3. DOMAIN Tail(queue) = 1..Len(Tail(queue))
  BY <1>1, LenProperties
<1>4. Head(queue) \in Waits
  BY <1>1, <1>2, ElementOfSeq
<1>5. QED BY <1>1, <1>2, <1>3, <1>4 DEF Waits

(* A raid joins at the end.                                                *)
LEMMA PushIs ==
    ASSUME queue \in Seq(Waits), NEW m \in Raids
    PROVE  /\ Push(m) \in Seq(Waits)
           /\ Len(Push(m)) = Len(queue) + 1
           /\ DOMAIN queue = 1..Len(queue) /\ DOMAIN Push(m) = 1..(Len(queue) + 1)
           /\ \A i \in DOMAIN queue : Push(m)[i] = queue[i]
           /\ Push(m)[Len(queue) + 1].raid = m /\ Push(m)[Len(queue) + 1].attempt = 1
<1> DEFINE job == [raid |-> m, attempt |-> 1, due |-> TRUE]
<1>1. job \in Waits /\ job.raid = m /\ job.attempt = 1
  BY DEF Waits
<1> HIDE DEF job
<1>2. Push(m) = Append(queue, job)
  BY DEF Push, job
<1>3. /\ Push(m) \in Seq(Waits) /\ Len(Push(m)) = Len(queue) + 1
      /\ \A i \in 1..Len(queue) : Push(m)[i] = queue[i]
      /\ Push(m)[Len(queue) + 1] = job
  BY <1>1, <1>2, AppendProperties
<1>4. DOMAIN queue = 1..Len(queue) /\ DOMAIN Push(m) = 1..Len(Push(m)) /\ Len(queue) \in Nat
  BY <1>3, LenProperties
<1>5. QED BY <1>1, <1>3, <1>4

(* A retry goes ahead of the rest.                                         *)
LEMMA RequeuedIs ==
    ASSUME queue \in Seq(Waits), aux.job \in RaidJobs
    PROVE  /\ Requeued \in Seq(Waits)
           /\ Len(Requeued) = Len(queue) + 1
           /\ DOMAIN queue = 1..Len(queue) /\ DOMAIN Requeued = 1..(Len(queue) + 1)
           /\ Requeued[1].raid = aux.job.raid /\ Requeued[1].attempt = aux.job.attempt + 1
           /\ \A i \in DOMAIN Requeued : i # 1 => i - 1 \in DOMAIN queue /\ Requeued[i] = queue[i - 1]
<1>1. Retry \in Waits /\ Retry.raid = aux.job.raid /\ Retry.attempt = aux.job.attempt + 1
  BY DEF Retry, Waits, RaidJobs
<1> HIDE DEF Retry
<1>2. <<Retry>> \in Seq(Waits) /\ Len(<<Retry>>) = 1 /\ <<Retry>>[1] = Retry
  BY <1>1
<1>3. /\ Requeued \in Seq(Waits) /\ Len(Requeued) = 1 + Len(queue)
      /\ \A i \in 1..(1 + Len(queue)) :
            Requeued[i] = IF i <= 1 THEN <<Retry>>[i] ELSE queue[i - 1]
  BY <1>2, ConcatProperties DEF Requeued
<1>4. DOMAIN queue = 1..Len(queue) /\ DOMAIN Requeued = 1..Len(Requeued) /\ Len(queue) \in Nat
  BY <1>3, LenProperties
<1>5. Requeued[1] = Retry
  BY <1>2, <1>3, <1>4
<1>6. \A i \in DOMAIN Requeued : i # 1 => i - 1 \in DOMAIN queue /\ Requeued[i] = queue[i - 1]
  BY <1>3, <1>4
<1>7. QED BY <1>1, <1>3, <1>4, <1>5, <1>6

(* A retry comes due.                                                      *)
LEMMA DueIs ==
    ASSUME queue \in Seq(Waits), queue # <<>>, queue' = [queue EXCEPT ![1].due = TRUE]
    PROVE  /\ queue' \in Seq(Waits)
           /\ Len(queue') = Len(queue)
           /\ DOMAIN queue' = DOMAIN queue
           /\ \A i \in DOMAIN queue :
                queue'[i].raid = queue[i].raid /\ queue'[i].attempt = queue[i].attempt
<1> DEFINE job == [queue[1] EXCEPT !.due = TRUE]
<1>1. 1 \in DOMAIN queue /\ queue[1] \in Waits /\ DOMAIN queue = 1..Len(queue)
  BY HeadIs
<1>2. job \in Waits /\ job.raid = queue[1].raid /\ job.attempt = queue[1].attempt
  BY <1>1 DEF Waits
<1>3. queue' = [queue EXCEPT ![1] = job]
  OBVIOUS
<1> HIDE DEF job
<1>4. /\ [queue EXCEPT ![1] = job] \in Seq(Waits)
      /\ Len([queue EXCEPT ![1] = job]) = Len(queue)
      /\ \A i \in 1..Len(queue) :
            [queue EXCEPT ![1] = job][i] = IF i = 1 THEN job ELSE queue[i]
  <2>1. 1 \in 1..Len(queue)
    BY <1>1
  <2>2. QED BY <1>2, <2>1, ExceptSeq
<1>5. queue' \in Seq(Waits) /\ DOMAIN queue' = 1..Len(queue')
  BY <1>3, <1>4, LenProperties
<1>6. QED BY <1>1, <1>2, <1>3, <1>4, <1>5

(* The context of a raid with a job is settled, or its row would be dated  *)
(* before the request.                                                     *)
LEMMA ContextFinalized ==
    ASSUME EnhancedInv, Running, NEW m \in Raids, NEW status, NEW n, NEW next,
           Waiting(m) # {} \/ InFlight(m),
           FinalizeContext(m, status, n, next)
    PROVE  (Settled(m, status, n) /\ Goto(next)) \/ Early
BY DEF EnhancedInv, OneOwner, Running, FinalizeContext

(* The answer of a raid is the answer for the raid in flight.              *)
LEMMA RaidAnswered ==
    ASSUME EnhancedInv, Running, NEW l, TookRaid(l)
    PROVE  /\ aux.job \in RaidJobs /\ aux.job.raid \in Raids
           /\ InFlight(aux.job.raid) /\ aux' = Idle
           /\ aux.job.attempt \in 1..2 /\ asked[aux.job.raid] = aux.job.attempt
           /\ Waiting(aux.job.raid) = {}
           /\ contexts[aux.job.raid].status = "in_progress"
<1>1. aux # Idle /\ ~IsPresence(aux.job) /\ aux' = Idle
  BY Nothing DEF TookRaid, Answered
<1>2. aux.job \in RaidJobs /\ aux.job.raid \in Raids
  BY <1>1, AuxTyped DEF EnhancedInv, TypeOK, RaidJobs
<1>3. InFlight(aux.job.raid)
  BY <1>1 DEF InFlight
<1>4. QED BY <1>1, <1>2, <1>3 DEF EnhancedInv, OneOwner, Attempts, Running

(* The raid at the head of the queue.                                      *)
LEMMA HeadWaits ==
    ASSUME EnhancedInv, Running, queue # <<>>
    PROVE  /\ 1 \in Waiting(Head(queue).raid) /\ ~InFlight(Head(queue).raid)
           /\ Head(queue).attempt \in 1..2
           /\ asked[Head(queue).raid] = Head(queue).attempt - 1
           /\ contexts[Head(queue).raid].status = "in_progress"
<1>1. 1 \in DOMAIN queue /\ Head(queue) = queue[1] /\ Head(queue).raid \in Raids
  BY HeadIs DEF EnhancedInv, TypeOK
<1>2. 1 \in Waiting(Head(queue).raid)
  BY <1>1 DEF Waiting
<1>3. QED BY <1>1, <1>2 DEF EnhancedInv, OneOwner, Attempts, Running

-----------------------------------------------------------------------------
(* The types.                                                              *)

(* What the coordinator's pieces leave alone.                              *)
LEMMA MildTyped ==
    ASSUME EnhancedInv, Mild PROVE TypeOK'
<1>1. UNCHANGED <<active, snapshots, aux, queue, contexts, asked, latched>>
  BY MildKeeps
<1> DEFINE Loose ==
      /\ at' \in Labels /\ stop' \in BOOLEAN /\ exit' \in {"none", "clean", "failed", "refused", "early"}
      /\ generation' \in Nat /\ tracked' \in Streams \cup {None}
      /\ live' \in BOOLEAN /\ available' \in BOOLEAN /\ broken' \in BOOLEAN
      /\ nextPresence' \in {"unset", "ahead", "due"}
      /\ auxLast' \in {"none", "presence", "raid"}
      /\ health' \in {"none", "starting", "healthy", "error", "paused", "stopped"}
<1>2. TypeOK
  BY DEF EnhancedInv
<1>3. Loose
  <2> USE <1>2 DEF TypeOK, Labels, control, target, seen, work, raiding, taking, Goto, Die, Doubt
  <2>1. CASE Gap
    <3>1. broken' \in BOOLEAN
      <4>1. broken' = (active # NoActive)
        BY <2>1 DEF Gap
      <4> HIDE DEF TypeOK
      <4>2. QED BY <4>1, ZenonT(20)
    <3>2. /\ generation' = generation + 1 /\ Doubt
          /\ UNCHANGED <<control, stop, target, work, available>>
      BY <2>1, Zenon DEF Gap
    <3>3. generation' \in Nat
      BY <3>2
    <3>4. UNCHANGED <<at, stop, exit, tracked, available, nextPresence, auxLast>>
      BY <3>2
    <3>5. live' \in BOOLEAN /\ health' \in {"none", "starting", "healthy", "error", "paused", "stopped"}
      BY <3>2
    <3>6. QED BY <3>1, <3>3, <3>4, <3>5
  <2>12. CASE PresenceExpires
    BY <2>12 DEF PresenceExpires
  <2>2. CASE ClockFails
    BY <2>2 DEF ClockFails
  <2>13. CASE AskStop
    BY <2>13 DEF AskStop
  <2>14. CASE StorageFails
    BY <2>14 DEF StorageFails
  <2>3. CASE StartEnhanced
    BY <2>3 DEF StartEnhanced
  <2>4. CASE PollStopped
    BY <2>4, ZenonT(60) DEF PollStopped
  <2>15. CASE PollSilent
    BY <2>15 DEF PollSilent
  <2>16. CASE PollInDoubt
    BY <2>16 DEF PollInDoubt
  <2>17. CASE PollFatal
    BY <2>17 DEF PollFatal
  <2>5. ASSUME NEW s \in Streams \cup {None}, NEW staleBefore \in BOOLEAN, NEW staleAfter \in BOOLEAN,
               PollSaved(s, staleBefore, staleAfter)
        PROVE  Loose
    BY <2>5 DEF PollSaved, Due
  <2>6. CASE PumpFails \/ Pumped
    BY <2>6 DEF PumpFails, Pumped
  <2>7. CASE NoAnswer("advance") \/ NoAnswer("last")
    BY <2>7 DEF NoAnswer, After
  <2>8. CASE CheckActive /\ (active = NoActive \/ ~Outdated)
    BY <2>8 DEF CheckActive
  <2>9. CASE LaneTaken \/ AskNothing \/ Finish \/ Interrupted
    BY <2>9 DEF LaneTaken, AskNothing, Finish, Interrupted
  <2>10. CASE Close
    BY <2>10 DEF Close
  <2>11. QED BY <2>1, <2>12, <2>13, <2>14, <2>15, <2>16, <2>17, <2>2, <2>3, <2>4, <2>5, <2>6, <2>7, <2>8, <2>9, <2>10 DEF Mild
<1>4. QED BY <1>1, <1>2, <1>3 DEF TypeOK

(* A settlement leaves rows and worker of their types.                     *)
LEMMA SettlingTyped ==
    ASSUME EnhancedInv, Running, Settling PROVE TypeOK'
<1>1. PICK status \in {"complete", "partial", "rejected", "interrupted"},
           members \in SUBSET (Nat \X Nat) : Settlement(status, members)
  BY Settles
<1>2. aux' \in Auxes
  BY <1>1 DEF Settlement, EnhancedInv, TypeOK, Auxes
<1>3. QED BY <1>1, <1>2 DEF Settlement, EnhancedInv, TypeOK, Labels

(* The pages gathered are of their types.                                  *)
LEMMA GatheringTyped ==
    ASSUME EnhancedInv, Running, Gathering PROVE TypeOK'
<1> USE DEF TypeOK, Labels, control, target, seen, work, raiding, taking, Goto, Die
<1>1. TypeOK /\ Idle \in Auxes
  BY DEF EnhancedInv, Auxes
<1>2. ASSUME NEW l \in {"advance", "last"}, PresenceIgnored(l) \/ PresenceFatal(l)
      PROVE  TypeOK'
  BY <1>1, <1>2 DEF PresenceIgnored, PresenceFatal, TookPresence, After
<1>3. ASSUME NEW l \in {"advance", "last"}, PresenceNext(l) PROVE TypeOK'
  <2>1. active # NoActive /\ Reading /\ Ours
    BY <1>3, Nothing DEF PresenceNext, Ours, TookPresence, Answered, Reading
  <2>2. active \in Actives /\ Gathered \in SUBSET (Nat \X Nat) /\ NextPage \in Nat
    BY <2>1, GatheredIs, ActiveRow DEF NextPage
  <2>3. active' \in Actives
    BY <1>3, <2>2 DEF PresenceNext, Actives
  <2>4. QED BY <1>1, <1>3, <2>3 DEF PresenceNext, TookPresence, After
<1>4. CASE BeginPresence
  <2>1. CASE \E i \in DOMAIN snapshots : Open(i)
    BY <1>1, <1>4, <2>1 DEF BeginPresence, Refuse
  <2>2. CASE ~\E i \in DOMAIN snapshots : Open(i)
    <3>1. tracked \in Streams
      BY <1>1, <1>4 DEF BeginPresence, PresenceDue
    <3>2. NewSnapshot \in Rows
      BY <3>1 DEF NewSnapshot, Rows, SnapshotStatus
    <3>3. snapshots' \in Seq(Rows)
      <4>1. snapshots \in Seq(Rows) /\ snapshots' = Append(snapshots, NewSnapshot)
        BY <1>1, <1>4, <2>2 DEF BeginPresence
      <4> HIDE DEF TypeOK
      <4>2. QED BY <3>2, <4>1, AppendProperties
    <3>6. at' \in Labels /\ exit' \in {"none", "clean", "failed", "refused", "early"}
      BY <1>1, <1>4, <2>2 DEF BeginPresence
    <3>7. health' \in {"none", "starting", "healthy", "error", "paused", "stopped"}
      BY <1>1, <1>4, <2>2 DEF BeginPresence
    <3>4. active' \in Actives
      BY <1>1, <1>4, <2>2, <3>1 DEF BeginPresence, Actives
    <3>5. QED BY <1>1, <1>4, <2>2, <3>3, <3>4, <3>6, <3>7 DEF BeginPresence
  <2>3. QED BY <2>1, <2>2
<1>5. CASE AskPresence
  <2>1. active # NoActive
    BY <1>5 DEF AskPresence, PresenceTurn, PageWaits
  <2>2. active \in Actives
    BY <2>1, ActiveRow
  <2>3. active' \in Actives
    BY <1>5, <2>2 DEF AskPresence, Actives
  <2>4. aux' \in Auxes
    BY <1>5, <2>2 DEF AskPresence, Actives, Auxes, PresenceJobs
  <2>5. QED BY <1>1, <1>5, <2>3, <2>4 DEF AskPresence
<1>6. QED BY <1>2, <1>3, <1>4, <1>5 DEF Gathering

(* Queue, jobs and rows of the raids are of their types.                   *)
LEMMA RaidingTyped ==
    ASSUME EnhancedInv, Running, Raiding PROVE TypeOK'
<1> USE DEF TypeOK, Labels, control, target, seen, work, raiding, taking, Goto, Die
<1>1. TypeOK /\ Idle \in Auxes
  BY DEF EnhancedInv, Auxes
<1>2. CASE RetryExpires
  <2>1. queue' \in Seq(Waits)
    BY <1>1, <1>2, DueIs DEF RetryExpires
  <2>2. QED BY <1>1, <1>2, <2>1 DEF RetryExpires
<1>3. ASSUME NEW m \in Raids, RaidStored(m) PROVE TypeOK'
  <2>1. queue' \in Seq(Waits)
    BY <1>1, <1>3, PushIs DEF RaidStored
  <2>2. contexts' \in [Raids -> [status : ContextStatus, attempts : Nat]]
    BY <1>1, <1>3, SettledTyped DEF RaidStored, ContextStatus
  <2>3. QED BY <1>1, <1>3, <2>1, <2>2 DEF RaidStored
<1>4. ASSUME NEW m \in Raids, RaidFails(m) PROVE TypeOK'
  <2>1. contexts' \in [Raids -> [status : ContextStatus, attempts : Nat]]
    BY <1>1, <1>4, SettledTyped DEF RaidFails, ContextStatus
  <2>2. QED BY <1>1, <1>4, <2>1 DEF RaidFails
<1>5. ASSUME NEW l \in {"advance", "last"}, RaidFatal(l) PROVE TypeOK'
  BY <1>1, <1>5 DEF RaidFatal, TookRaid
<1>6. ASSUME NEW l \in {"advance", "last"}, RaidRetried(l) PROVE TypeOK'
  <2>1. queue' \in Seq(Waits)
    BY <1>1, <1>6, RaidAnswered, RequeuedIs DEF RaidRetried
  <2>2. QED BY <1>1, <1>6, <2>1 DEF RaidRetried, TookRaid, After
<1>7. ASSUME NEW l \in {"advance", "last"}, RaidSettled(l) PROVE TypeOK'
  <2>1. TookRaid(l) /\ FinalizeContext(aux.job.raid, Outcome, aux.job.attempt, After(l))
    BY <1>7 DEF RaidSettled
  <2>2. aux.job.raid \in Raids /\ InFlight(aux.job.raid) /\ aux.job.attempt \in Nat
    BY <2>1, RaidAnswered
  <2>3. (Settled(aux.job.raid, Outcome, aux.job.attempt) /\ Goto(After(l))) \/ Early
    BY <2>1, <2>2, ContextFinalized
  <2>4. contexts' \in [Raids -> [status : ContextStatus, attempts : Nat]]
    BY <1>1, <2>2, <2>3, SettledTyped DEF Outcome, ContextStatus, Early
  <2>5. at' \in Labels /\ exit' \in {"none", "clean", "failed", "refused", "early"}
    BY <1>1, <2>3 DEF After, Early
  <2>6. QED BY <1>1, <1>7, <2>4, <2>5 DEF RaidSettled, TookRaid
<1>8. CASE AskRaid
  <2>1. /\ Head(queue).raid \in Raids /\ Head(queue).attempt \in Nat
        /\ queue' \in Seq(Waits)
    BY <1>1, <1>8, HeadIs DEF AskRaid, RaidReady, Rest
  <2>2. aux' \in Auxes
    BY <1>8, <2>1 DEF AskRaid, Auxes, RaidJobs
  <2>3. QED BY <1>1, <1>8, <2>1, <2>2 DEF AskRaid
<1>9. CASE InterruptRaid
  <2>1. /\ Head(queue).raid \in Raids /\ Head(queue).attempt \in Nat
        /\ queue' \in Seq(Waits)
    BY <1>1, <1>9, HeadIs DEF InterruptRaid
  <2>2. Waiting(Head(queue).raid) # {}
    BY <1>9, HeadWaits DEF InterruptRaid
  <2>3. \/ /\ Settled(Head(queue).raid, "interrupted", Before(Head(queue).attempt))
           /\ Goto("interrupt")
        \/ Early
    BY <1>9, <2>1, <2>2, ContextFinalized DEF InterruptRaid
  <2>4. contexts' \in [Raids -> [status : ContextStatus, attempts : Nat]]
    BY <1>1, <2>1, <2>3, SettledTyped DEF Before, ContextStatus, Early
  <2>5. at' \in Labels /\ exit' \in {"none", "clean", "failed", "refused", "early"}
    BY <1>1, <2>3 DEF Early
  <2>6. QED BY <1>1, <1>9, <2>1, <2>4, <2>5 DEF InterruptRaid
<1>10. QED BY <1>2, <1>3, <1>4, <1>5, <1>6, <1>7, <1>8, <1>9 DEF Raiding

(* The thread answers.                                                     *)
LEMMA AnswerTyped ==
    ASSUME EnhancedInv, AuxAnswers PROVE TypeOK'
<1>1. aux \in Auxes /\ aux # Idle
  BY Nothing DEF EnhancedInv, TypeOK, AuxAnswers
<1>2. aux' \in Auxes
  BY <1>1, AuxTyped DEF AuxAnswers, Auxes
<1>3. QED BY <1>2 DEF AuxAnswers, EnhancedInv, TypeOK, control, target, seen, raiding, taking

(* The types hold after every step.                                        *)
LEMMA TypesKept ==
    ASSUME EnhancedInv, Running, Next PROVE TypeOK'
BY Steps, MildTyped, SettlingTyped, GatheringTyped, RaidingTyped, AnswerTyped


-----------------------------------------------------------------------------
(* The ends of the process.                                                *)

(* Where the coordinator's pieces lead.                                    *)
LEMMA MildEnds ==
    ASSUME EnhancedInv, Running, Mild PROVE Ends'
<1> USE DEF Goto, Die
<1>1. /\ active' = active /\ aux' = aux /\ queue' = queue
      /\ at # "ended" /\ exit = "none"
  BY MildKeeps DEF Running
<1>2. /\ at = "start" => active = NoActive
      /\ at = "last" => aux.state # "asking"
      /\ at \in {"interrupt", "close"} => aux = Idle
      /\ at = "close" => active = NoActive /\ queue = <<>>
  BY DEF EnhancedInv, Ends, At
<1> DEFINE Led ==
      \/ at' = at /\ exit' = exit
      \/ at' \in {"poll", "pump", "advance", "check", "begin", "finish"} /\ exit' = exit
      \/ at' = "ended" /\ exit' \in {"failed", "clean"}
      \/ at' = "last" /\ exit' = exit /\ aux.state # "asking"
      \/ at' = "interrupt" /\ exit' = exit /\ aux = Idle
      \/ at' = "close" /\ exit' = exit /\ active = NoActive /\ queue = <<>> /\ aux = Idle
<1>3. Led
  <2> USE DEF control
  <2>1. CASE Gap \/ PresenceExpires \/ AskStop
    BY <2>1 DEF Gap, PresenceExpires, AskStop
  <2>2. CASE ClockFails \/ StorageFails \/ PumpFails
    BY <2>2 DEF ClockFails, StorageFails, PumpFails
  <2>3. CASE StartEnhanced
    BY <2>3 DEF StartEnhanced
  <2>4. CASE PollStopped \/ PollSilent \/ PollInDoubt \/ PollFatal
    BY <2>4 DEF PollStopped, PollSilent, PollInDoubt, PollFatal
  <2>5. ASSUME NEW s, NEW b1, NEW b2, PollSaved(s, b1, b2) PROVE Led
    BY <2>5 DEF PollSaved
  <2>6. CASE Pumped \/ NoAnswer("advance") \/ LaneTaken \/ AskNothing
    BY <2>6 DEF Pumped, NoAnswer, After, LaneTaken, AskNothing
  <2>7. CASE NoAnswer("last")
    <3>1. aux = Idle
      <4>1. aux.state # "done" /\ aux.state # "asking"
        BY <1>2, <2>7 DEF NoAnswer, At
      <4>2. QED BY <4>1, AuxTyped DEF EnhancedInv, TypeOK
    <3>2. QED BY <2>7, <3>1 DEF NoAnswer, After
  <2>8. CASE CheckActive /\ (active = NoActive \/ ~Outdated)
    BY <2>8 DEF CheckActive
  <2>9. CASE Finish
    BY <2>9 DEF Finish
  <2>10. CASE Interrupted
    BY <1>2, <2>10 DEF Interrupted, At
  <2>11. CASE Close
    BY <2>11 DEF Close
  <2>12. QED BY <2>1, <2>2, <2>3, <2>4, <2>5, <2>6, <2>7, <2>8, <2>9, <2>10, <2>11 DEF Mild
<1>4. QED BY <1>1, <1>2, <1>3 DEF Ends, Running, At

(* Where the steps that change an attempt lead.                            *)
LEMMA WorkEnds ==
    ASSUME EnhancedInv, Running, Settling \/ Gathering \/ Raiding \/ AuxAnswers PROVE Ends'
<1> USE DEF Goto, Die, Ends, Running, At, control
<1>1. exit = "none" /\ Ends
  BY DEF EnhancedInv
<1>2. CASE Settling
  <2>1. PICK status \in {"complete", "partial", "rejected", "interrupted"},
             members \in SUBSET (Nat \X Nat) : Settlement(status, members)
    BY <1>2, Settles
  <2>2. QED BY <1>1, <2>1 DEF Settlement
<1>3. ASSUME NEW l \in {"advance", "last"}, PresenceIgnored(l) \/ PresenceFatal(l) \/ PresenceNext(l)
      PROVE  Ends'
  <2>1. aux' = Idle
    BY <1>3 DEF PresenceIgnored, PresenceFatal, PresenceNext, TookPresence
  <2>2. \/ at' \in {"check", "interrupt"} /\ exit' = exit
        \/ at' = "ended" /\ exit' = "failed"
    BY <1>3 DEF PresenceIgnored, PresenceFatal, PresenceNext, After
  <2>3. QED BY <1>1, <2>1, <2>2
<1>4. CASE BeginPresence
  <2>1. \/ at' = "begin" /\ exit' = exit
        \/ at' = "ended" /\ exit' \in {"failed", "refused"}
    BY <1>4 DEF BeginPresence, Refuse
  <2>2. QED BY <1>1, <2>1
<1>5. CASE AskPresence \/ AskRaid
  BY <1>1, <1>5 DEF AskPresence, AskRaid
<1>6. CASE RetryExpires
  BY <1>1, <1>6 DEF RetryExpires, work, taking
<1>7. ASSUME NEW m \in Raids, RaidStored(m) \/ RaidFails(m) PROVE Ends'
  <2>1. at = "pump" /\ (at' \in {"pump", "advance"}) /\ exit' = exit
    BY <1>7 DEF RaidStored, RaidFails, Receiving
  <2>2. QED BY <1>1, <2>1
<1>8. ASSUME NEW l \in {"advance", "last"}, RaidFatal(l) \/ RaidRetried(l) \/ RaidSettled(l)
      PROVE  Ends'
  <2>1. aux' = Idle
    BY <1>8 DEF RaidFatal, RaidRetried, RaidSettled, TookRaid
  <2>2. \/ at' \in {"check", "interrupt"} /\ exit' = exit
        \/ at' = "ended" /\ exit' \in {"failed", "refused", "early"}
    BY <1>8 DEF RaidFatal, RaidRetried, RaidSettled, FinalizeContext, Early, After
  <2>3. QED BY <1>1, <2>1, <2>2
<1>9. CASE InterruptRaid
  <2>1. at = "interrupt" /\ aux' = aux
    BY <1>9 DEF InterruptRaid, work
  <2>2. \/ at' = "interrupt" /\ exit' = exit
        \/ at' = "ended" /\ exit' \in {"refused", "early"}
    BY <1>9 DEF InterruptRaid, FinalizeContext, Early
  <2>3. QED BY <1>1, <2>1, <2>2
<1>10. CASE AuxAnswers
  BY <1>1, <1>10 DEF AuxAnswers
<1>11. QED
  BY <1>2, <1>3, <1>4, <1>5, <1>6, <1>7, <1>8, <1>9, <1>10 DEF Gathering, Raiding

-----------------------------------------------------------------------------
(* The open snapshot.                                                      *)

(* Steps that leave the snapshots alone.                                   *)
LEMMA OpenFrame ==
    ASSUME EnhancedInv, Running, snapshots' = snapshots, active'.snapshot = active.snapshot,
           active' = NoActive <=> active = NoActive
    PROVE  ActiveIsOpen'
BY DEF EnhancedInv, ActiveIsOpen, Running, Open

(* A snapshot settled leaves none open.                                    *)
LEMMA SettlingOpen ==
    ASSUME EnhancedInv, Running, Settling PROVE ActiveIsOpen'
<1>1. PICK status \in {"complete", "partial", "rejected", "interrupted"},
           members \in SUBSET (Nat \X Nat) : Settlement(status, members)
  BY Settles
<1>2. /\ \A i \in DOMAIN snapshots : Open(i) <=> i = active.snapshot
      /\ active.snapshot \in DOMAIN snapshots
      /\ DOMAIN snapshots = 1..Len(snapshots)
  BY <1>1, ActiveRow, LenProperties DEF EnhancedInv, ActiveIsOpen, TypeOK, Settlement
<1>3. active'.snapshot = 0 /\ active' = NoActive
  BY <1>1 DEF Settlement, NoActive
<1>4. ASSUME NEW i \in DOMAIN snapshots' PROVE ~Open(i)'
  BY <1>1, <1>2 DEF Settlement, Open
<1>5. \A i \in DOMAIN snapshots' : i # 0
  BY <1>1, <1>2 DEF Settlement
<1>6. QED BY <1>3, <1>4, <1>5 DEF ActiveIsOpen

(* A snapshot begun is the only one open.                                  *)
LEMMA BeginOpens ==
    ASSUME EnhancedInv, Running, BeginPresence
    PROVE  /\ active = NoActive /\ available /\ live
           /\ snapshots' = Append(snapshots, NewSnapshot) /\ NewSnapshot \in Rows
           /\ active' = [snapshot |-> Len(snapshots) + 1, stream |-> tracked,
                         generation |-> generation, members |-> {}, page |-> 1]
           /\ ~broken'
           /\ \/ at' = "ended" /\ exit' = "failed" /\ health' = health
              \/ at' = "begin" /\ exit' = exit /\ health' = "starting"
           /\ Len(snapshots') = Len(snapshots) + 1
           /\ DOMAIN snapshots' = 1..(Len(snapshots) + 1)
           /\ DOMAIN snapshots = 1..Len(snapshots)
           /\ \A i \in 1..Len(snapshots) : snapshots'[i] = snapshots[i]
           /\ snapshots'[Len(snapshots) + 1] = NewSnapshot
<1>1. active = NoActive /\ available /\ live /\ tracked \in Streams
  BY DEF BeginPresence, PresenceDue, EnhancedInv, TypeOK
<1>2. snapshots \in Seq(Rows) /\ DOMAIN snapshots = 1..Len(snapshots) /\ Len(snapshots) \in Nat
  BY LenProperties DEF EnhancedInv, TypeOK
<1>3. ~\E i \in DOMAIN snapshots : Open(i)
  BY <1>1, <1>2, Nothing DEF EnhancedInv, ActiveIsOpen
<1>4. NewSnapshot \in Rows
  BY <1>1 DEF NewSnapshot, Rows, SnapshotStatus
<1>5. /\ snapshots' = Append(snapshots, NewSnapshot)
      /\ active' = [snapshot |-> Len(snapshots) + 1, stream |-> tracked,
                    generation |-> generation, members |-> {}, page |-> 1]
      /\ ~broken'
      /\ \/ at' = "ended" /\ exit' = "failed" /\ health' = health
         \/ at' = "begin" /\ exit' = exit /\ health' = "starting"
  BY <1>3 DEF BeginPresence, Die, At, control
<1>6. /\ Len(snapshots') = Len(snapshots) + 1
      /\ snapshots' \in Seq(Rows)
      /\ \A i \in 1..Len(snapshots) : snapshots'[i] = snapshots[i]
      /\ snapshots'[Len(snapshots) + 1] = NewSnapshot
  BY <1>2, <1>4, <1>5, AppendProperties
<1>7. DOMAIN snapshots' = 1..Len(snapshots')
  BY <1>6, LenProperties
<1>8. QED BY <1>1, <1>2, <1>4, <1>5, <1>6, <1>7

(* Gathering pages keeps the active snapshot open, and it alone.           *)
LEMMA GatheringOpen ==
    ASSUME EnhancedInv, Running, Gathering PROVE ActiveIsOpen'
<1>1. ASSUME NEW l \in {"advance", "last"}, PresenceIgnored(l) \/ PresenceFatal(l)
      PROVE  ActiveIsOpen'
  BY <1>1, OpenFrame DEF PresenceIgnored, PresenceFatal, taking
<1>2. ASSUME NEW l \in {"advance", "last"}, PresenceNext(l) PROVE ActiveIsOpen'
  <2>1. active # NoActive /\ active \in Actives
    BY <1>2, ActiveRow DEF PresenceNext, Ours
  <2>2. active'.snapshot = active.snapshot /\ active'.page \in Nat /\ snapshots' = snapshots
    BY <1>2, <2>1, GatheredIs, Nothing
       DEF PresenceNext, Actives, TookPresence, Answered, Reading, NextPage, Ours
  <2>3. active.snapshot # 0
    BY <2>1 DEF EnhancedInv, ActiveIsOpen
  <2>4. QED BY <2>1, <2>2, <2>3, OpenFrame, Nothing
<1>3. CASE AskPresence
  <2>1. active # NoActive /\ active \in Actives
    BY <1>3, ActiveRow DEF AskPresence, PresenceTurn, PageWaits
  <2>2. active'.snapshot = active.snapshot /\ snapshots' = snapshots
    BY <1>3, <2>1 DEF AskPresence, Actives
  <2>3. active.snapshot # 0
    BY <2>1 DEF EnhancedInv, ActiveIsOpen
  <2>4. QED BY <2>1, <2>2, <2>3, OpenFrame, Nothing
<1>4. CASE BeginPresence
  <2>1. /\ active = NoActive
        /\ active'.snapshot = Len(snapshots) + 1 /\ Len(snapshots') = Len(snapshots) + 1
        /\ DOMAIN snapshots' = 1..(Len(snapshots) + 1) /\ DOMAIN snapshots = 1..Len(snapshots)
        /\ \A i \in 1..Len(snapshots) : snapshots'[i] = snapshots[i]
        /\ snapshots'[Len(snapshots) + 1].status = "in_progress"
    BY <1>4, BeginOpens DEF NewSnapshot
  <2>2. Len(snapshots) \in Nat
    BY LenProperties DEF EnhancedInv, TypeOK
  <2>3. ASSUME NEW i \in 1..Len(snapshots) PROVE ~Open(i)'
    <3>1. ~Open(i)
      BY <2>1, Nothing DEF EnhancedInv, ActiveIsOpen
    <3>2. QED BY <2>1, <3>1 DEF Open
  <2>4. QED BY <2>1, <2>2, <2>3 DEF ActiveIsOpen, Open
<1>5. QED BY <1>1, <1>2, <1>3, <1>4 DEF Gathering

(* A step of a raid leaves the snapshots and their health alone.           *)
LEMMA RaidingKeeps ==
    ASSUME Raiding
    PROVE  UNCHANGED <<taking, available, live, broken, health, generation, tracked>>
<1> USE DEF taking, seen, target
<1>1. CASE RetryExpires \/ AskRaid \/ InterruptRaid
  BY <1>1 DEF RetryExpires, AskRaid, InterruptRaid
<1>2. ASSUME NEW m \in Raids, RaidStored(m) \/ RaidFails(m)
      PROVE  UNCHANGED <<taking, available, live, broken, health, generation, tracked>>
  BY <1>2 DEF RaidStored, RaidFails
<1>3. ASSUME NEW l \in {"advance", "last"}, RaidFatal(l) \/ RaidRetried(l) \/ RaidSettled(l)
      PROVE  UNCHANGED <<taking, available, live, broken, health, generation, tracked>>
  BY <1>3 DEF RaidFatal, RaidRetried, RaidSettled, TookRaid
<1>4. QED BY <1>1, <1>2, <1>3 DEF Raiding

(* Only the active snapshot's row is open, after every step.               *)
LEMMA OpenKept ==
    ASSUME EnhancedInv, Running, Next PROVE ActiveIsOpen'
<1>1. CASE Mild
  BY <1>1, MildKeeps, OpenFrame
<1>2. CASE Raiding
  BY <1>2, RaidingKeeps, OpenFrame DEF taking
<1>3. CASE AuxAnswers
  BY <1>3, OpenFrame DEF AuxAnswers, taking
<1>4. QED BY <1>1, <1>2, <1>3, Steps, SettlingOpen, GatheringOpen

-----------------------------------------------------------------------------
(* The raids.                                                              *)

(* What the queue, the worker and the rows owe one another.                *)
RaidsAgree == OneOwner /\ Attempts /\ AttemptsAreHonest /\ QueueIsBounded

(* Steps that leave the raids alone.                                       *)
LEMMA RaidFrame ==
    ASSUME EnhancedInv, Running, UNCHANGED <<queue, contexts, asked, latched>>,
           \A m \in Raids : InFlight(m)' <=> InFlight(m),
           \A m \in Raids : InFlight(m) => aux'.job = aux.job
    PROVE  RaidsAgree'
<1>1. RaidsAgree /\ exit = "none"
  BY DEF EnhancedInv, RaidsAgree, Running
<1>2. \A m \in Raids : Waiting(m)' = Waiting(m)
  BY DEF Waiting
<1>3. OneOwner'
  BY <1>1, <1>2 DEF OneOwner, RaidsAgree
<1>4. Attempts'
  BY <1>1 DEF Attempts, RaidsAgree, Running
<1>5. AttemptsAreHonest'
  BY <1>1 DEF AttemptsAreHonest, RaidsAgree
<1>6. QueueIsBounded'
  BY <1>1 DEF QueueIsBounded, RaidsAgree
<1>7. QED BY <1>3, <1>4, <1>5, <1>6 DEF RaidsAgree

(* No raid is in flight while the worker is idle or reads a page.          *)
LEMMA NoneInFlight ==
    ASSUME NEW m
    PROVE  /\ aux = Idle => ~InFlight(m)
           /\ Reading => ~InFlight(m)
           /\ aux' = Idle => ~InFlight(m)'
           /\ Reading' => ~InFlight(m)'
BY DEF InFlight, Reading

(* The coordinator's pieces leave the raids alone.                         *)
LEMMA MildRaids ==
    ASSUME EnhancedInv, Running, Mild PROVE RaidsAgree'
BY MildKeeps, RaidFrame DEF InFlight

(* A settled snapshot leaves the raids alone.                              *)
LEMMA SettlingRaids ==
    ASSUME EnhancedInv, Running, Settling PROVE RaidsAgree'
<1>1. PICK status \in {"complete", "partial", "rejected", "interrupted"},
           members \in SUBSET (Nat \X Nat) : Settlement(status, members)
  BY Settles
<1>2. UNCHANGED <<queue, contexts, asked, latched>>
  BY <1>1 DEF Settlement
<1>3. aux' = aux \/ (Reading /\ aux' = Idle)
  BY <1>1 DEF Settlement
<1>4. \A m \in Raids : InFlight(m)' <=> InFlight(m)
  BY <1>3, NoneInFlight DEF InFlight
<1>5. \A m \in Raids : InFlight(m) => aux'.job = aux.job
  BY <1>3, NoneInFlight
<1>6. QED BY <1>2, <1>4, <1>5, RaidFrame

(* The job of a page.                                                      *)
LEMMA AskedPage ==
    ASSUME EnhancedInv, Running, AskPresence
    PROVE  /\ aux = Idle /\ active # NoActive /\ active \in Actives /\ active.page > 0
           /\ aux'.state = "asking" /\ aux' # Idle /\ Reading'
           /\ aux'.job = [snapshot |-> active.snapshot, stream |-> active.stream,
                          generation |-> active.generation, page |-> active.page]
           /\ active' = [active EXCEPT !.page = 0]
           /\ at = "begin" /\ at' = "poll" /\ exit' = exit
<1>1. aux = Idle /\ active # NoActive /\ active.page > 0
  BY DEF AskPresence, LaneFree, PresenceTurn, PageWaits
<1>2. active \in Actives
  BY <1>1, ActiveRow
<1>3. /\ aux'.state = "asking"
      /\ aux'.job = [snapshot |-> active.snapshot, stream |-> active.stream,
                     generation |-> active.generation, page |-> active.page]
      /\ active' = [active EXCEPT !.page = 0]
      /\ at = "begin" /\ at' = "poll" /\ exit' = exit
  BY DEF AskPresence, Scheduling, At, Goto
<1>4. aux' # Idle
  BY <1>3, Nothing
<1>5. IsPresence(aux'.job)
  BY <1>3 DEF IsPresence
<1>6. Reading'
  BY <1>4, <1>5 DEF Reading, IsPresence
<1>7. QED BY <1>1, <1>2, <1>3, <1>4, <1>6

(* Pages leave the raids alone.                                            *)
LEMMA GatheringRaids ==
    ASSUME EnhancedInv, Running, Gathering PROVE RaidsAgree'
<1>1. ASSUME NEW l \in {"advance", "last"},
             PresenceIgnored(l) \/ PresenceFatal(l) \/ PresenceNext(l)
      PROVE  RaidsAgree'
  <2>1. aux' = Idle /\ Reading /\ UNCHANGED <<queue, contexts, asked, latched>>
    BY <1>1, Nothing
       DEF PresenceIgnored, PresenceFatal, PresenceNext, TookPresence, Answered, Reading, raiding
  <2>2. QED BY <2>1, NoneInFlight, RaidFrame
<1>2. CASE BeginPresence
  BY <1>2, RaidFrame DEF BeginPresence, raiding, work, InFlight
<1>3. CASE AskPresence
  <2>1. UNCHANGED <<queue, contexts, asked, latched>> /\ aux = Idle /\ Reading'
    BY <1>3, AskedPage DEF AskPresence, raiding
  <2>2. QED BY <2>1, NoneInFlight, RaidFrame
<1>4. QED BY <1>1, <1>2, <1>3 DEF Gathering

(* An answer changes no owner.                                             *)
LEMMA AnswerRaids ==
    ASSUME EnhancedInv, Running, AuxAnswers PROVE RaidsAgree'
<1>1. /\ UNCHANGED <<queue, contexts, asked, latched>>
      /\ aux # Idle /\ aux'.job = aux.job /\ aux'.state = "done"
  BY Nothing DEF AuxAnswers, raiding
<1>2. aux' # Idle
  BY <1>1, Nothing
<1>3. \A m \in Raids : InFlight(m)' <=> InFlight(m)
  BY <1>1, <1>2 DEF InFlight, IsPresence
<1>4. QED BY <1>1, <1>3, RaidFrame

(* The invariant of the raids while the process runs, for one raid.        *)
RaidNow(m) ==
    /\ \A i, j \in Waiting(m) : i = j
    /\ InFlight(m) => Waiting(m) = {}
    /\ Waiting(m) # {} \/ InFlight(m) => contexts[m].status = "in_progress"
    /\ contexts[m].status = "in_progress" /\ ~latched => Waiting(m) # {} \/ InFlight(m)
    /\ InFlight(m) => aux.job.attempt \in 1..2 /\ asked[m] = aux.job.attempt
    /\ contexts[m].status = "absent" => asked[m] = 0
    /\ asked[m] <= 2
    /\ contexts[m].status \notin {"absent", "in_progress"} => contexts[m].attempts = asked[m]

(* And for the queue.                                                      *)
QueueNow ==
    \A i \in DOMAIN queue :
        queue[i].attempt \in 1..2 /\ asked[queue[i].raid] = queue[i].attempt - 1

(* The invariant gives both, and the bounds of the queue.                  *)
LEMMA RaidsNow ==
    ASSUME EnhancedInv, Running
    PROVE  /\ \A m \in Raids : RaidNow(m) /\ asked[m] \in Nat
           /\ QueueNow
           /\ \A i \in DOMAIN queue : queue[i].raid \in Raids
           /\ queue \in Seq(Waits) /\ Len(queue) \in Nat /\ DOMAIN queue = 1..Len(queue)
           /\ Len(queue) <= QueueLimit + 1
           /\ (\E m \in Raids : InFlight(m)) => Len(queue) <= QueueLimit
           /\ QueueLimit \in Nat \ {0}
           /\ exit = "none"
<1>1. /\ queue \in Seq(Waits) /\ Len(queue) \in Nat /\ DOMAIN queue = 1..Len(queue)
      /\ QueueLimit \in Nat \ {0} /\ exit = "none"
  BY EnhancedAssumption, LenProperties DEF EnhancedInv, TypeOK, EnhancedAssumption, Running
<1>2. \A i \in DOMAIN queue : queue[i].raid \in Raids
  <2>1. \A i \in 1..Len(queue) : queue[i] \in Waits
    BY <1>1, ElementOfSeq
  <2>2. QED BY <1>1, <2>1 DEF Waits
<1>3. /\ Len(queue) <= QueueLimit + 1
      /\ (\E m \in Raids : InFlight(m)) => Len(queue) <= QueueLimit
  <2>1. QueueIsBounded
    BY DEF EnhancedInv
  <2>2. CASE \E m \in Raids : InFlight(m)
    BY <1>1, <2>1, <2>2 DEF QueueIsBounded
  <2>3. CASE ~\E m \in Raids : InFlight(m)
    BY <1>1, <2>1, <2>3 DEF QueueIsBounded
  <2>4. QED BY <2>2, <2>3
<1>4. \A m \in Raids : asked[m] \in Nat
  BY DEF EnhancedInv, TypeOK
<1>5. \A m \in Raids : RaidNow(m)
  <2>1. SUFFICES ASSUME NEW m \in Raids PROVE RaidNow(m)
    OBVIOUS
  <2>2. OneOwner /\ Attempts /\ AttemptsAreHonest
    BY DEF EnhancedInv
  <2>3. QED BY <2>2 DEF OneOwner, Attempts, AttemptsAreHonest, RaidNow, Running
<1>6. QueueNow
  BY DEF EnhancedInv, Attempts, QueueNow
<1>7. QED BY <1>1, <1>2, <1>3, <1>4, <1>5, <1>6

(* The invariant of the raids after a step, from its parts.                *)
LEMMA RaidsNext ==
    ASSUME Running' => \A m \in Raids : RaidNow(m)',
           Running' => QueueNow',
           \A m \in Raids :
                /\ asked'[m] <= 2
                /\ contexts'[m].status \notin {"absent", "in_progress"} =>
                        contexts'[m].attempts = asked'[m],
           QueueIsBounded'
    PROVE  RaidsAgree'
<1>1. OneOwner'
  BY DEF OneOwner, RaidNow, Running
<1>2. Attempts'
  BY DEF Attempts, RaidNow, QueueNow
<1>3. AttemptsAreHonest'
  BY DEF AttemptsAreHonest
<1>4. QED BY <1>1, <1>2, <1>3 DEF RaidsAgree

(* A retry comes due: the queue is the same but for that.                  *)
LEMMA ExpiresRaids ==
    ASSUME EnhancedInv, Running, RetryExpires PROVE RaidsAgree'
<1>1. /\ queue' \in Seq(Waits) /\ Len(queue') = Len(queue) /\ DOMAIN queue' = DOMAIN queue
      /\ \A i \in DOMAIN queue :
            queue'[i].raid = queue[i].raid /\ queue'[i].attempt = queue[i].attempt
  BY DueIs DEF RetryExpires, EnhancedInv, TypeOK
<1>2. UNCHANGED <<contexts, asked, latched, aux>> /\ exit = "none"
  BY DEF RetryExpires, work, Running
<1>3. \A m \in Raids : Waiting(m)' = Waiting(m)
  BY <1>1 DEF Waiting
<1>4. \A m \in Raids : InFlight(m)' <=> InFlight(m)
  BY <1>2 DEF InFlight
<1>5. /\ \A m \in Raids : RaidNow(m) /\ asked[m] \in Nat
      /\ QueueNow
  BY RaidsNow
<1>6. \A m \in Raids : RaidNow(m)'
  BY <1>2, <1>3, <1>4, <1>5 DEF RaidNow
<1>7. QueueNow'
  BY <1>1, <1>2, <1>5 DEF QueueNow
<1>8. QueueIsBounded'
  BY <1>1, <1>4 DEF EnhancedInv, QueueIsBounded
<1>9. QED BY <1>2, <1>5, <1>6, <1>7, <1>8, RaidsNext DEF RaidNow

(* A raid arrives: it waits at the end of the queue, or is settled at once.*)
LEMMA StoredRaids ==
    ASSUME EnhancedInv, Running, NEW m \in Raids, RaidStored(m) PROVE RaidsAgree'
<1>1. /\ UNCHANGED <<asked, latched, aux>> /\ exit = "none"
      /\ contexts[m].status = "absent"
  BY DEF RaidStored, work, Running
<1>2. /\ \A r \in Raids : RaidNow(r) /\ asked[r] \in Nat
      /\ QueueNow
      /\ Len(queue) \in Nat /\ QueueLimit \in Nat \ {0}
      /\ queue \in Seq(Waits) /\ DOMAIN queue = 1..Len(queue)
      /\ Len(queue) <= QueueLimit + 1
      /\ (\E r \in Raids : InFlight(r)) => Len(queue) <= QueueLimit
  BY RaidsNow
<1>3. asked[m] = 0 /\ Waiting(m) = {} /\ ~InFlight(m)
  BY <1>1, <1>2 DEF RaidNow
<1>4. \A r \in Raids : InFlight(r)' <=> InFlight(r)
  BY <1>1 DEF InFlight
<1>5. contexts \in [Raids -> [status : ContextStatus, attempts : Nat]]
  BY DEF EnhancedInv, TypeOK
<1>6. CASE Full
  <2>1. /\ queue' = queue /\ contexts'[m].status = "failed" /\ contexts'[m].attempts = 0
        /\ \A r \in Raids : r # m => contexts'[r] = contexts[r]
    BY <1>5, <1>6 DEF RaidStored, Settled
  <2>2. \A r \in Raids : Waiting(r)' = Waiting(r)
    BY <2>1 DEF Waiting
  <2>3. ASSUME NEW r \in Raids PROVE RaidNow(r)'
    <3>1. CASE r = m
      BY <1>1, <1>3, <1>4, <2>1, <2>2, <3>1 DEF RaidNow
    <3>2. CASE r # m
      BY <1>1, <1>2, <1>4, <2>1, <2>2, <3>2 DEF RaidNow
    <3>3. QED BY <3>1, <3>2
  <2>4. QueueNow'
    BY <1>1, <1>2, <2>1 DEF QueueNow
  <2>5. QueueIsBounded'
    BY <1>4, <2>1 DEF EnhancedInv, QueueIsBounded
  <2>6. QED BY <2>3, <2>4, <2>5, RaidsNext DEF RaidNow
<1>7. CASE ~Full
  <2>1. /\ queue' = Push(m)
        /\ contexts'[m].status = "in_progress" /\ contexts'[m].attempts = 0
        /\ \A r \in Raids : r # m => contexts'[r] = contexts[r]
    BY <1>5, <1>7 DEF RaidStored, Settled
  <2>2. /\ Len(queue') = Len(queue) + 1
        /\ DOMAIN queue' = 1..(Len(queue) + 1)
        /\ \A i \in DOMAIN queue : queue'[i] = queue[i]
        /\ queue'[Len(queue) + 1].raid = m /\ queue'[Len(queue) + 1].attempt = 1
    BY <1>2, <2>1, PushIs
  <2>3. Waiting(m)' = {Len(queue) + 1}
    BY <1>2, <1>3, <2>2 DEF Waiting
  <2>4. \A r \in Raids : r # m => Waiting(r)' = Waiting(r)
    BY <1>2, <2>2 DEF Waiting
  <2>5. ASSUME NEW r \in Raids PROVE RaidNow(r)'
    <3>1. CASE r = m
      <4>1. Waiting(m)' # {} /\ (\A i, j \in Waiting(m)' : i = j) /\ ~InFlight(m)'
        BY <1>3, <1>4, <2>3
      <4>2. contexts'[m].status = "in_progress" /\ asked'[m] = 0
        BY <1>1, <1>3, <2>1
      <4>3. RaidNow(m)'
        BY <4>1, <4>2 DEF RaidNow
      <4>4. QED BY <3>1, <4>3
    <3>2. CASE r # m
      BY <1>1, <1>2, <1>4, <2>1, <2>4, <3>2 DEF RaidNow
    <3>3. QED BY <3>1, <3>2
  <2>6. QueueNow'
    <3>1. ASSUME NEW i \in DOMAIN queue'
          PROVE  queue'[i].attempt \in 1..2 /\ asked'[queue'[i].raid] = queue'[i].attempt - 1
      <4>1. CASE i = Len(queue) + 1
        BY <1>1, <1>3, <2>2, <4>1
      <4>2. CASE i # Len(queue) + 1
        BY <1>1, <1>2, <2>2, <4>2 DEF QueueNow
      <4>3. QED BY <4>1, <4>2
    <3>2. QED BY <3>1 DEF QueueNow
  <2>7. QueueIsBounded'
    BY <1>2, <1>4, <1>7, <2>2 DEF QueueIsBounded, Full
  <2>8. QED BY <2>5, <2>6, <2>7, RaidsNext DEF RaidNow
<1>8. QED BY <1>6, <1>7

(* A raid whose write failed: the latch says so.                           *)
LEMMA FailsRaids ==
    ASSUME EnhancedInv, Running, NEW m \in Raids, RaidFails(m) PROVE RaidsAgree'
<1>1. /\ UNCHANGED <<asked, queue, aux>> /\ exit = "none" /\ latched'
      /\ contexts[m].status = "absent"
  BY DEF RaidFails, work, Running
<1>2. (\A r \in Raids : RaidNow(r) /\ asked[r] \in Nat) /\ QueueNow
  BY RaidsNow
<1>3. asked[m] = 0 /\ Waiting(m) = {} /\ ~InFlight(m)
  BY <1>1, <1>2 DEF RaidNow
<1>4. (\A r \in Raids : InFlight(r)' <=> InFlight(r)) /\ \A r \in Raids : Waiting(r)' = Waiting(r)
  BY <1>1 DEF InFlight, Waiting
<1>5. contexts \in [Raids -> [status : ContextStatus, attempts : Nat]]
  BY DEF EnhancedInv, TypeOK
<1>6. /\ contexts'[m].status \in {"absent", "in_progress"}
      /\ \A r \in Raids : r # m => contexts'[r] = contexts[r]
  BY <1>1, <1>5 DEF RaidFails, Settled
<1>7. ASSUME NEW r \in Raids PROVE RaidNow(r)'
  <2>1. CASE r = m
    BY <1>1, <1>3, <1>4, <1>6, <2>1 DEF RaidNow
  <2>2. CASE r # m
    BY <1>1, <1>2, <1>4, <1>6, <2>2 DEF RaidNow
  <2>3. QED BY <2>1, <2>2
<1>8. QueueNow'
  BY <1>1, <1>2 DEF QueueNow
<1>9. QueueIsBounded'
  BY <1>1, <1>4 DEF EnhancedInv, QueueIsBounded
<1>10. QED BY <1>7, <1>8, <1>9, RaidsNext DEF RaidNow

(* The process ends with the rows as they are.                             *)
LEMMA EndedRaids ==
    ASSUME EnhancedInv, Running, UNCHANGED <<contexts, asked>>, exit' # "none", aux' = Idle,
           queue' = queue \/ (queue # <<>> /\ queue' = Tail(queue))
    PROVE  RaidsAgree'
<1>1. \A m \in Raids : RaidNow(m)
  BY RaidsNow
<1>2. /\ Len(queue) <= QueueLimit + 1 /\ Len(queue) \in Nat /\ queue \in Seq(Waits)
      /\ QueueLimit \in Nat
  BY RaidsNow
<1>3. Len(queue') <= QueueLimit + 1
  <2>1. Len(queue') \in Nat /\ Len(queue') <= Len(queue)
    BY <1>2
  <2>2. QED BY <1>2, <2>1
<1>4. QueueIsBounded'
  <2>1. Len(queue') \in Nat
    BY <1>2
  <2>2. QED BY <1>2, <1>3, <2>1, NoneInFlight DEF QueueIsBounded
<1>5. QED BY <1>1, <1>4, RaidsNext DEF RaidNow, Running

(* A fatal answer ends the process.                                        *)
LEMMA FatalRaids ==
    ASSUME EnhancedInv, Running, NEW l \in {"advance", "last"}, RaidFatal(l) PROVE RaidsAgree'
BY EndedRaids DEF RaidFatal, TookRaid, Die

(* A retry takes the raid from the worker back to the head of the queue.   *)
LEMMA RetriedRaids ==
    ASSUME EnhancedInv, Running, NEW l \in {"advance", "last"}, RaidRetried(l) PROVE RaidsAgree'
<1>0. PICK n \in Raids : n = aux.job.raid
  BY RaidAnswered DEF RaidRetried
<1>1. /\ aux.job \in RaidJobs /\ InFlight(n) /\ aux' = Idle
      /\ aux.job.attempt \in 1..2 /\ asked[n] = aux.job.attempt
      /\ Waiting(n) = {} /\ contexts[n].status = "in_progress"
  BY <1>0, RaidAnswered DEF RaidRetried
<1>2. /\ UNCHANGED <<contexts, asked, latched>> /\ exit = "none"
      /\ queue' = Requeued /\ aux.job.attempt < 2
  BY DEF RaidRetried, TookRaid, Retryable, Running
<1>3. /\ \A r \in Raids : RaidNow(r) /\ asked[r] \in Nat
      /\ QueueNow
      /\ Len(queue) \in Nat /\ QueueLimit \in Nat \ {0}
      /\ queue \in Seq(Waits)
      /\ (\E r \in Raids : InFlight(r)) => Len(queue) <= QueueLimit
  BY RaidsNow
<1>4. asked[n] = 1 /\ aux.job.attempt = 1
  BY <1>1, <1>2
<1>5. /\ Len(queue') = Len(queue) + 1
      /\ DOMAIN queue = 1..Len(queue) /\ DOMAIN queue' = 1..(Len(queue) + 1)
      /\ queue'[1].raid = n /\ queue'[1].attempt = 2
      /\ \A i \in DOMAIN queue' : i # 1 => i - 1 \in DOMAIN queue /\ queue'[i] = queue[i - 1]
  BY <1>0, <1>1, <1>2, <1>3, <1>4, RequeuedIs
<1>6. \A r \in Raids : ~InFlight(r)'
  BY <1>1, NoneInFlight
<1>7. \A r \in Raids : r # n => ~InFlight(r)
  BY <1>0 DEF InFlight
<1>8. Waiting(n)' = {1}
  <2>1. 1 \in DOMAIN queue' /\ queue'[1].raid = n
    BY <1>3, <1>5
  <2>2. \A i \in DOMAIN queue' : i # 1 => queue'[i].raid # n
    BY <1>1, <1>5 DEF Waiting
  <2>3. 1 \in Waiting(n)' /\ \A i \in Waiting(n)' : i = 1
    BY <2>1, <2>2 DEF Waiting
  <2>4. QED BY <2>3
<1>9. ASSUME NEW r \in Raids, r # n
      PROVE  /\ \A i \in Waiting(r)' : i - 1 \in Waiting(r)
             /\ \A i \in Waiting(r) : i + 1 \in Waiting(r)'
  <2>1. \A i \in Waiting(r)' : i - 1 \in Waiting(r)
    BY <1>5, <1>9 DEF Waiting
  <2>2. ASSUME NEW i \in Waiting(r) PROVE i + 1 \in Waiting(r)'
    <3>1. i \in 1..Len(queue) /\ queue[i].raid = r
      BY <1>5 DEF Waiting
    <3>2. i + 1 \in DOMAIN queue' /\ i + 1 # 1
      BY <1>3, <1>5, <3>1
    <3>3. queue'[i + 1] = queue[(i + 1) - 1] /\ (i + 1) - 1 = i
      BY <1>5, <3>1, <3>2
    <3>4. QED BY <3>1, <3>2, <3>3 DEF Waiting
  <2>3. QED BY <2>1, <2>2
<1>10. ASSUME NEW r \in Raids PROVE RaidNow(r)'
  <2>1. CASE r = n
    <3>1. Waiting(n)' # {} /\ (\A i, j \in Waiting(n)' : i = j) /\ ~InFlight(n)'
      BY <1>1, <1>6, <1>8
    <3>2. contexts'[n].status = "in_progress" /\ asked'[n] = 1
      BY <1>1, <1>2, <1>4
    <3>3. RaidNow(n)'
      BY <3>1, <3>2 DEF RaidNow
    <3>4. QED BY <2>1, <3>3
  <2>2. CASE r # n
    <3>1. RaidNow(r) /\ ~InFlight(r) /\ ~InFlight(r)'
      BY <1>3, <1>6, <1>7, <2>2
    <3>2. \A i, j \in Waiting(r)' : i = j
      <4>1. SUFFICES ASSUME NEW i \in Waiting(r)', NEW j \in Waiting(r)' PROVE i = j
        OBVIOUS
      <4>2. i \in Nat /\ j \in Nat
        BY <1>5, <1>3 DEF Waiting
      <4>3. i - 1 = j - 1
        BY <1>9, <2>2, <3>1 DEF RaidNow
      <4>4. QED BY <4>2, <4>3
    <3>3. Waiting(r)' # {} <=> Waiting(r) # {}
      BY <1>9, <2>2
    <3>4. QED BY <1>2, <3>1, <3>2, <3>3 DEF RaidNow
  <2>3. QED BY <2>1, <2>2
<1>11. QueueNow'
  <2>1. ASSUME NEW i \in DOMAIN queue'
        PROVE  queue'[i].attempt \in 1..2 /\ asked'[queue'[i].raid] = queue'[i].attempt - 1
    <3>1. CASE i = 1
      BY <1>2, <1>4, <1>5, <3>1
    <3>2. CASE i # 1
      BY <1>2, <1>3, <1>5, <3>2 DEF QueueNow
    <3>3. QED BY <3>1, <3>2
  <2>2. QED BY <2>1 DEF QueueNow
<1>12. QueueIsBounded'
  BY <1>1, <1>3, <1>5, <1>6 DEF QueueIsBounded
<1>13. QED BY <1>10, <1>11, <1>12, RaidsNext DEF RaidNow

(* The head leaves the queue, in which its raid waits no more.             *)
LEMMA TailRaids ==
    ASSUME EnhancedInv, Running, queue # <<>>, queue' = Tail(queue),
           NEW n \in Raids, n = Head(queue).raid
    PROVE  /\ Waiting(n)' = {}
           /\ \A r \in Raids : r # n =>
                /\ Waiting(r)' # {} <=> Waiting(r) # {}
                /\ \A i, j \in Waiting(r)' : i = j
           /\ \A i \in DOMAIN queue' :
                /\ i + 1 \in DOMAIN queue /\ queue'[i] = queue[i + 1]
                /\ queue'[i].raid # n
           /\ Len(queue') = Len(queue) - 1
<1>1. /\ \A r \in Raids : RaidNow(r)
      /\ Len(queue) \in Nat /\ queue \in Seq(Waits)
  BY RaidsNow
<1>2. /\ 1 \in DOMAIN queue /\ Head(queue) = queue[1]
      /\ Len(queue') = Len(queue) - 1
      /\ DOMAIN queue = 1..Len(queue) /\ DOMAIN queue' = 1..(Len(queue) - 1)
      /\ \A i \in DOMAIN queue' : i + 1 \in DOMAIN queue /\ queue'[i] = queue[i + 1]
  BY <1>1, HeadIs
<1>3. 1 \in Waiting(n)
  BY <1>2 DEF Waiting
<1>4. \A i, j \in Waiting(n) : i = j
  BY <1>1 DEF RaidNow
<1>5. \A i \in DOMAIN queue' : queue'[i].raid # n
  <2>1. SUFFICES ASSUME NEW i \in DOMAIN queue', queue'[i].raid = n PROVE FALSE
    OBVIOUS
  <2>2. i + 1 \in Waiting(n)
    BY <1>2, <2>1 DEF Waiting
  <2>3. i + 1 = 1 /\ i \in 1..(Len(queue) - 1)
    BY <1>2, <1>3, <1>4, <2>2
  <2>4. QED BY <1>1, <2>3
<1>6. ASSUME NEW r \in Raids, r # n
      PROVE  /\ Waiting(r)' # {} <=> Waiting(r) # {}
             /\ \A i, j \in Waiting(r)' : i = j
  <2>1. ASSUME NEW i \in Waiting(r)' PROVE i \in Nat /\ i + 1 \in Waiting(r)
    BY <1>1, <1>2 DEF Waiting
  <2>2. ASSUME NEW i \in Waiting(r) PROVE i - 1 \in Waiting(r)'
    <3>1. i \in 1..Len(queue) /\ queue[i].raid = r /\ i # 1
      BY <1>2, <1>6 DEF Waiting
    <3>2. i - 1 \in DOMAIN queue' /\ (i - 1) + 1 = i
      BY <1>1, <1>2, <3>1
    <3>3. queue'[i - 1] = queue[i]
      BY <1>2, <3>2
    <3>4. QED BY <3>1, <3>2, <3>3 DEF Waiting
  <2>3. \A i, j \in Waiting(r)' : i = j
    <3>1. SUFFICES ASSUME NEW i \in Waiting(r)', NEW j \in Waiting(r)' PROVE i = j
      OBVIOUS
    <3>2. i \in Nat /\ j \in Nat /\ i + 1 \in Waiting(r) /\ j + 1 \in Waiting(r)
      BY <2>1
    <3>3. i + 1 = j + 1
      BY <1>1, <3>2 DEF RaidNow
    <3>4. QED BY <3>2, <3>3
  <2>4. QED BY <2>1, <2>2, <2>3
<1>7. Waiting(n)' = {}
  BY <1>5 DEF Waiting
<1>8. QED BY <1>2, <1>5, <1>6, <1>7

(* An answer settles the row of the raid in flight.                        *)
LEMMA SettledRaids ==
    ASSUME EnhancedInv, Running, NEW l \in {"advance", "last"}, RaidSettled(l) PROVE RaidsAgree'
<1>13. CASE Early
  BY <1>13, EndedRaids DEF Early, Die, RaidSettled, TookRaid
<1> SUFFICES ASSUME ~Early PROVE RaidsAgree'
  BY <1>13
<1>0. PICK n \in Raids : n = aux.job.raid
  BY RaidAnswered DEF RaidSettled
<1>1. /\ InFlight(n) /\ aux' = Idle
      /\ aux.job.attempt \in 1..2 /\ asked[n] = aux.job.attempt /\ Waiting(n) = {}
  BY <1>0, RaidAnswered DEF RaidSettled
<1>2. UNCHANGED <<queue, asked, latched>> /\ exit = "none"
  BY DEF RaidSettled, TookRaid, Running
<1>3. /\ \A r \in Raids : RaidNow(r) /\ asked[r] \in Nat
      /\ QueueNow
      /\ Len(queue) \in Nat /\ QueueLimit \in Nat \ {0}
      /\ Len(queue) <= QueueLimit + 1
  BY RaidsNow
<1>4. Settled(n, Outcome, aux.job.attempt)
  BY <1>0, <1>1, ContextFinalized DEF RaidSettled
<1>5. /\ contexts'[n].status \in {"complete", "failed"} /\ contexts'[n].attempts = asked[n]
      /\ \A r \in Raids : r # n => contexts'[r] = contexts[r]
  <2>1. contexts \in [Raids -> [status : ContextStatus, attempts : Nat]]
    BY DEF EnhancedInv, TypeOK
  <2>2. QED BY <1>1, <1>4, <2>1 DEF Settled, Outcome
<1>6. \A r \in Raids : ~InFlight(r)'
  BY <1>1, NoneInFlight
<1>7. \A r \in Raids : r # n => ~InFlight(r)
  BY <1>0 DEF InFlight
<1>8. \A r \in Raids : Waiting(r)' = Waiting(r)
  BY <1>2 DEF Waiting
<1>9. ASSUME NEW r \in Raids PROVE RaidNow(r)'
  <2>1. CASE r = n
    <3>1. Waiting(n)' = {} /\ ~InFlight(n)' /\ asked'[n] <= 2
      BY <1>1, <1>2, <1>6, <1>8
    <3>2. RaidNow(n)'
      BY <1>2, <1>5, <3>1 DEF RaidNow
    <3>3. QED BY <2>1, <3>2
  <2>2. CASE r # n
    <3>1. RaidNow(r) /\ ~InFlight(r) /\ ~InFlight(r)' /\ Waiting(r)' = Waiting(r)
      BY <1>3, <1>6, <1>7, <1>8, <2>2
    <3>2. contexts'[r] = contexts[r]
      BY <1>5, <2>2
    <3>3. QED BY <1>2, <3>1, <3>2 DEF RaidNow
  <2>3. QED BY <2>1, <2>2
<1>10. QueueNow'
  BY <1>2, <1>3 DEF QueueNow
<1>11. QueueIsBounded'
  BY <1>2, <1>3, <1>6 DEF QueueIsBounded
<1>12. QED BY <1>9, <1>10, <1>11, RaidsNext DEF RaidNow

(* The worker takes the raid at the head.                                  *)
LEMMA AskedRaids ==
    ASSUME EnhancedInv, Running, AskRaid PROVE RaidsAgree'
<1>0. /\ queue # <<>> /\ queue' = Tail(queue) /\ aux = Idle
      /\ UNCHANGED <<contexts, latched>> /\ exit = "none"
  BY DEF AskRaid, RaidReady, LaneFree, Rest, Running
<1>1. PICK n \in Raids : n = Head(queue).raid
  BY <1>0, HeadIs DEF EnhancedInv, TypeOK
<1>2. /\ Head(queue).attempt \in 1..2 /\ asked[n] = Head(queue).attempt - 1
      /\ contexts[n].status = "in_progress"
  BY <1>0, <1>1, HeadWaits
<1>3. /\ aux'.state = "asking"
      /\ aux'.job = [raid |-> n, attempt |-> Head(queue).attempt]
      /\ asked' = [asked EXCEPT ![n] = @ + 1]
  BY <1>1 DEF AskRaid
<1>4. /\ \A r \in Raids : RaidNow(r) /\ asked[r] \in Nat
      /\ QueueNow
      /\ \A i \in DOMAIN queue : queue[i].raid \in Raids
      /\ Len(queue) \in Nat /\ QueueLimit \in Nat \ {0}
      /\ Len(queue) <= QueueLimit + 1
  BY RaidsNow
<1>5. /\ Waiting(n)' = {}
      /\ \A r \in Raids : r # n =>
            /\ Waiting(r)' # {} <=> Waiting(r) # {}
            /\ \A i, j \in Waiting(r)' : i = j
      /\ \A i \in DOMAIN queue' :
            /\ i + 1 \in DOMAIN queue /\ queue'[i] = queue[i + 1]
            /\ queue'[i].raid # n
      /\ Len(queue') = Len(queue) - 1
  BY <1>0, <1>1, TailRaids
<1>6. /\ InFlight(n)' /\ aux'.job.attempt = Head(queue).attempt
      /\ \A r \in Raids : InFlight(r)' <=> r = n
  <2>1. aux' # Idle
    BY <1>3, Nothing
  <2>2. ~IsPresence(aux'.job) /\ aux'.job.raid = n /\ aux'.job.attempt = Head(queue).attempt
    BY <1>3 DEF IsPresence
  <2>3. QED BY <2>1, <2>2 DEF InFlight, IsPresence
<1>7. /\ asked'[n] = Head(queue).attempt
      /\ \A r \in Raids : r # n => asked'[r] = asked[r]
  <2>1. asked \in [Raids -> Nat]
    BY DEF EnhancedInv, TypeOK
  <2>2. asked'[n] = asked[n] + 1 /\ \A r \in Raids : r # n => asked'[r] = asked[r]
    BY <1>3, <2>1
  <2>3. QED BY <1>2, <2>2
<1>8. ASSUME NEW r \in Raids PROVE RaidNow(r)'
  <2>1. CASE r = n
    <3>1. contexts'[n].status = "in_progress"
      BY <1>0, <1>2
    <3>2. aux'.job.attempt \in 1..2 /\ asked'[n] = aux'.job.attempt /\ asked'[n] <= 2
      BY <1>2, <1>6, <1>7
    <3>3. RaidNow(n)'
      BY <1>5, <1>6, <3>1, <3>2 DEF RaidNow
    <3>4. QED BY <2>1, <3>3
  <2>2. CASE r # n
    <3>1. RaidNow(r) /\ ~InFlight(r) /\ ~InFlight(r)' /\ asked'[r] = asked[r]
      BY <1>0, <1>4, <1>6, <1>7, <2>2, NoneInFlight
    <3>2. QED BY <1>0, <1>5, <2>2, <3>1 DEF RaidNow
  <2>3. QED BY <2>1, <2>2
<1>9. QueueNow'
  BY <1>4, <1>5, <1>7 DEF QueueNow
<1>10. QueueIsBounded'
  BY <1>4, <1>5 DEF QueueIsBounded
<1>11. QED BY <1>8, <1>9, <1>10, RaidsNext DEF RaidNow

(* The stop settles the raid at the head.                                  *)
LEMMA InterruptedRaids ==
    ASSUME EnhancedInv, Running, InterruptRaid PROVE RaidsAgree'
<1>12. CASE Early
  <2>1. aux' = Idle
    BY DEF InterruptRaid, work, EnhancedInv, Ends, At
  <2>2. QED BY <1>12, <2>1, EndedRaids DEF Early, Die, InterruptRaid
<1> SUFFICES ASSUME ~Early PROVE RaidsAgree'
  BY <1>12
<1>0. /\ queue # <<>> /\ queue' = Tail(queue) /\ aux = Idle /\ aux' = Idle
      /\ UNCHANGED <<asked, latched>> /\ exit = "none"
  BY DEF InterruptRaid, work, Running, EnhancedInv, Ends, At
<1>1. PICK n \in Raids : n = Head(queue).raid
  BY <1>0, HeadIs DEF EnhancedInv, TypeOK
<1>2. /\ Head(queue).attempt \in 1..2 /\ asked[n] = Head(queue).attempt - 1
      /\ Waiting(n) # {}
  BY <1>0, <1>1, HeadWaits
<1>3. /\ \A r \in Raids : RaidNow(r) /\ asked[r] \in Nat
      /\ QueueNow
      /\ \A i \in DOMAIN queue : queue[i].raid \in Raids
      /\ Len(queue) \in Nat /\ QueueLimit \in Nat \ {0}
      /\ Len(queue) <= QueueLimit + 1
  BY RaidsNow
<1>4. /\ Waiting(n)' = {}
      /\ \A r \in Raids : r # n =>
            /\ Waiting(r)' # {} <=> Waiting(r) # {}
            /\ \A i, j \in Waiting(r)' : i = j
      /\ \A i \in DOMAIN queue' :
            /\ i + 1 \in DOMAIN queue /\ queue'[i] = queue[i + 1]
            /\ queue'[i].raid # n
      /\ Len(queue') = Len(queue) - 1
  BY <1>0, <1>1, TailRaids
<1>5. Settled(n, "interrupted", Before(Head(queue).attempt))
  BY <1>1, <1>2, ContextFinalized DEF InterruptRaid
<1>6. /\ contexts'[n].status = "interrupted" /\ contexts'[n].attempts = asked[n]
      /\ \A r \in Raids : r # n => contexts'[r] = contexts[r]
  <2>1. contexts \in [Raids -> [status : ContextStatus, attempts : Nat]]
    BY DEF EnhancedInv, TypeOK
  <2>2. Before(Head(queue).attempt) = asked[n]
    BY <1>2 DEF Before
  <2>3. QED BY <1>5, <2>1, <2>2 DEF Settled
<1>7. \A r \in Raids : ~InFlight(r) /\ ~InFlight(r)'
  BY <1>0, NoneInFlight
<1>8. ASSUME NEW r \in Raids PROVE RaidNow(r)'
  <2>1. CASE r = n
    <3>1. asked'[n] <= 2 /\ asked'[n] = asked[n]
      BY <1>0, <1>3 DEF RaidNow
    <3>2. RaidNow(n)'
      BY <1>4, <1>6, <1>7, <3>1 DEF RaidNow
    <3>3. QED BY <2>1, <3>2
  <2>2. CASE r # n
    <3>1. RaidNow(r) /\ contexts'[r] = contexts[r]
      BY <1>3, <1>6, <2>2
    <3>2. QED BY <1>0, <1>4, <1>7, <2>2, <3>1 DEF RaidNow
  <2>3. QED BY <2>1, <2>2
<1>9. QueueNow'
  BY <1>0, <1>3, <1>4 DEF QueueNow
<1>10. QueueIsBounded'
  BY <1>3, <1>4, <1>7 DEF QueueIsBounded
<1>11. QED BY <1>8, <1>9, <1>10, RaidsNext DEF RaidNow

(* The raids agree after every step.                                       *)
LEMMA RaidsKept ==
    ASSUME EnhancedInv, Running, Next PROVE RaidsAgree'
<1>1. CASE Raiding
  BY <1>1, ExpiresRaids, StoredRaids, FailsRaids, FatalRaids, RetriedRaids, SettledRaids,
     AskedRaids, InterruptedRaids DEF Raiding
<1>2. QED BY <1>1, Steps, MildRaids, SettlingRaids, GatheringRaids, AnswerRaids

-----------------------------------------------------------------------------
(* The pages of the active snapshot.                                       *)

(* Steps that leave the pages alone.                                       *)
LEMMA PageFrame ==
    ASSUME EnhancedInv, Running, UNCHANGED <<active, snapshots>>,
           active # NoActive => available',
           Reading' <=> Reading, Reading => aux'.job = aux.job
    PROVE  Pages' /\ CompleteIsWhole'
<1>1. Pages /\ CompleteIsWhole /\ exit = "none"
  BY DEF EnhancedInv, Running
<1>2. CompleteIsWhole'
  BY <1>1 DEF CompleteIsWhole
<1>3. ReadingOurs' <=> ReadingOurs
  BY DEF ReadingOurs
<1>4. active # NoActive => Page' = Page
  BY <1>1, <1>3 DEF Page, Pages, ReadingOurs, Running, EnhancedInv, TypeOK, Actives
<1>5. Pages'
  BY <1>1, <1>3, <1>4 DEF Pages, ReadingOurs, Running
<1>6. QED BY <1>2, <1>5

(* The coordinator's pieces leave the pages alone.                         *)
LEMMA MildPages ==
    ASSUME EnhancedInv, Running, Mild PROVE Pages' /\ CompleteIsWhole'
<1>1. UNCHANGED <<active, snapshots, aux>>
  BY MildKeeps
<1>2. active # NoActive => available' = available
  <2>1. CASE StartEnhanced
    BY <2>1 DEF StartEnhanced, At, EnhancedInv, Ends
  <2>2. CASE \/ Gap \/ PresenceExpires \/ ClockFails \/ AskStop \/ StorageFails
             \/ PollStopped \/ PollSilent \/ PollInDoubt \/ PollFatal
    BY <2>2 DEF Gap, PresenceExpires, ClockFails, AskStop, StorageFails,
                PollStopped, PollSilent, PollInDoubt, PollFatal
  <2>3. ASSUME NEW s, NEW b1, NEW b2, PollSaved(s, b1, b2) PROVE available' = available
    BY <2>3 DEF PollSaved
  <2>4. CASE \/ PumpFails \/ Pumped \/ NoAnswer("advance") \/ NoAnswer("last")
             \/ CheckActive \/ LaneTaken \/ AskNothing \/ Finish \/ Interrupted \/ Close
    BY <2>4 DEF PumpFails, Pumped, NoAnswer, CheckActive, LaneTaken, AskNothing, Finish,
                Interrupted, Close
  <2>5. QED BY <2>1, <2>2, <2>3, <2>4 DEF Mild
<1>3. active # NoActive => available
  BY DEF EnhancedInv, Pages
<1>4. Reading' <=> Reading
  BY <1>1 DEF Reading
<1>5. QED BY <1>1, <1>2, <1>3, <1>4, PageFrame

(* Raids leave the pages alone.                                            *)
LEMMA RaidingPages ==
    ASSUME EnhancedInv, Running, Raiding PROVE Pages' /\ CompleteIsWhole'
<1>1. UNCHANGED <<active, snapshots, available>>
  BY RaidingKeeps DEF taking
<1>2. active # NoActive => available
  BY DEF EnhancedInv, Pages
<1>3. aux' = aux \/ (~Reading /\ ~Reading')
  <2>1. CASE RetryExpires \/ InterruptRaid
    BY <2>1 DEF RetryExpires, InterruptRaid, work
  <2>2. ASSUME NEW m \in Raids, RaidStored(m) \/ RaidFails(m) PROVE aux' = aux
    BY <2>2 DEF RaidStored, RaidFails, work
  <2>3. ASSUME NEW l \in {"advance", "last"}, RaidFatal(l) \/ RaidRetried(l) \/ RaidSettled(l)
        PROVE  ~Reading /\ ~Reading'
    BY <2>3 DEF RaidFatal, RaidRetried, RaidSettled, TookRaid, Reading
  <2>4. ASSUME AskRaid PROVE ~Reading /\ ~Reading'
    <3>1. aux = Idle
      BY <2>4 DEF AskRaid, LaneFree
    <3>2. aux'.job = [raid |-> Head(queue).raid, attempt |-> Head(queue).attempt]
      BY <2>4 DEF AskRaid
    <3>3. ~IsPresence(aux'.job)
      BY <3>2 DEF IsPresence
    <3>4. QED BY <3>1, <3>3 DEF Reading, IsPresence
  <2>5. QED BY <2>1, <2>2, <2>3, <2>4 DEF Raiding
<1>4. (Reading' <=> Reading) /\ (Reading => aux'.job = aux.job)
  BY <1>3 DEF Reading
<1>5. QED BY <1>1, <1>2, <1>4, PageFrame

(* An answer changes no job.                                               *)
LEMMA AnswerPages ==
    ASSUME EnhancedInv, Running, AuxAnswers PROVE Pages' /\ CompleteIsWhole'
<1>1. /\ UNCHANGED <<active, snapshots, available>>
      /\ aux # Idle /\ aux'.job = aux.job /\ aux'.state = "done"
  BY Nothing DEF AuxAnswers, taking
<1>2. aux' # Idle
  BY <1>1, Nothing
<1>3. Reading' <=> Reading
  BY <1>1, <1>2 DEF Reading, IsPresence
<1>4. active # NoActive => available
  BY DEF EnhancedInv, Pages
<1>5. QED BY <1>1, <1>3, <1>4, PageFrame

(* A snapshot is complete with its own pages, all of them.                 *)
LEMMA SettlingPages ==
    ASSUME EnhancedInv, Running, Settling PROVE Pages' /\ CompleteIsWhole'
<1>1. PICK status \in {"complete", "partial", "rejected", "interrupted"},
           members \in SUBSET (Nat \X Nat) : Settlement(status, members)
  BY Settles
<1>2. active.snapshot \in DOMAIN snapshots /\ Pages /\ CompleteIsWhole /\ exit = "none"
  BY <1>1, ActiveRow DEF Settlement, EnhancedInv, Running
<1>3. ASSUME NEW i \in DOMAIN snapshots', snapshots'[i].status = "complete"
      PROVE  /\ ~snapshots'[i].broken
             /\ \E n \in 1..MaxPages : snapshots'[i].members = {i} \X (1..n)
  <2>1. CASE i = active.snapshot
    BY <1>1, <1>3, <2>1 DEF Settlement
  <2>2. CASE i # active.snapshot
    BY <1>1, <1>2, <1>3, <2>2 DEF Settlement, CompleteIsWhole
  <2>3. QED BY <2>1, <2>2
<1>4. CompleteIsWhole'
  BY <1>3 DEF CompleteIsWhole
<1>5. Reading' => aux' = aux
  BY <1>1 DEF Settlement, Reading
<1>6. Reading' => aux'.job.snapshot \in 1..Len(snapshots')
  BY <1>1, <1>2, <1>5 DEF Settlement, Pages, Reading, Running
<1>7. Pages'
  BY <1>1, <1>6 DEF Settlement, Pages
<1>8. QED BY <1>4, <1>7

(* The worker's answer is an answer to the job it was given.               *)
LEMMA IgnoredPages ==
    ASSUME EnhancedInv, Running, NEW l \in {"advance", "last"},
           PresenceIgnored(l) \/ PresenceFatal(l)
    PROVE  Pages' /\ CompleteIsWhole'
<1>1. /\ aux' = Idle /\ UNCHANGED <<active, snapshots, available>>
      /\ Pages /\ CompleteIsWhole /\ exit = "none"
  BY DEF PresenceIgnored, PresenceFatal, TookPresence, taking, EnhancedInv, Running
<1>2. CompleteIsWhole'
  BY <1>1 DEF CompleteIsWhole
<1>3. ~Reading' /\ ~ReadingOurs'
  BY <1>1 DEF Reading, ReadingOurs
<1>4. CASE PresenceFatal(l)
  BY <1>2, <1>4 DEF PresenceFatal, Die, Pages, Running
<1>5. CASE PresenceIgnored(l)
  <2>1. active # NoActive => ~ReadingOurs
    BY <1>5 DEF PresenceIgnored, Ours, ReadingOurs
  <2>2. active # NoActive => active.page # 0 /\ active.page \in Nat
    BY <1>1, <2>1 DEF Pages, Running, EnhancedInv, TypeOK, Actives
  <2>3. active # NoActive => Page' = Page
    BY <1>1, <2>2 DEF Page
  <2>4. Pages'
    BY <1>1, <1>3, <2>2, <2>3 DEF Pages, Running
  <2>5. QED BY <1>2, <2>4
<1>6. QED BY <1>4, <1>5

(* The page after one gathered waits.                                      *)
LEMMA NextPages ==
    ASSUME EnhancedInv, Running, NEW l \in {"advance", "last"}, PresenceNext(l)
    PROVE  /\ active # NoActive /\ active' # NoActive
           /\ active'.stream = active.stream /\ active'.generation = active.generation
           /\ Pages' /\ CompleteIsWhole'
<1>1. /\ active # NoActive /\ Reading /\ Ours /\ aux' = Idle
      /\ UNCHANGED <<snapshots, available>>
      /\ Pages /\ CompleteIsWhole /\ exit = "none"
  BY Nothing DEF PresenceNext, Ours, TookPresence, Answered, Reading, EnhancedInv, Running
<1>2. active \in Actives /\ active.snapshot > 0
  BY <1>1, ActiveRow DEF EnhancedInv, ActiveIsOpen
<1>3. /\ aux.job.page \in 1..MaxPages /\ aux.job.page < MaxPages
      /\ Gathered = {active.snapshot} \X (1..aux.job.page)
      /\ MaxPages \in Nat
  BY <1>1, GatheredIs, EnhancedAssumption DEF PresenceNext, EnhancedAssumption
<1>4. /\ active'.snapshot = active.snapshot
      /\ active'.stream = active.stream /\ active'.generation = active.generation
      /\ active'.members = Gathered /\ active'.page = aux.job.page + 1
  BY <1>2 DEF PresenceNext, Actives, NextPage
<1>5. active' # NoActive
  BY <1>2, <1>4, Nothing
<1>6. CompleteIsWhole'
  BY <1>1 DEF CompleteIsWhole
<1>7. ~Reading' /\ ~ReadingOurs'
  BY <1>1 DEF Reading, ReadingOurs
<1>8. Page' = aux.job.page + 1 /\ Page' \in 1..MaxPages /\ active'.page # 0
  BY <1>3, <1>4 DEF Page
<1>9. active'.members = {active'.snapshot} \X (1..(Page' - 1))
  BY <1>3, <1>4, <1>8
<1>10. available'
  BY <1>1 DEF Pages, Running
<1>11. Pages'
  BY <1>7, <1>8, <1>9, <1>10 DEF Pages
<1>12. QED BY <1>1, <1>4, <1>5, <1>6, <1>11

(* The first page of a snapshot begun waits.                               *)
LEMMA BegunPages ==
    ASSUME EnhancedInv, Running, BeginPresence PROVE Pages' /\ CompleteIsWhole'
<1>1. /\ UNCHANGED <<aux, available>> /\ available
      /\ Pages /\ CompleteIsWhole /\ exit = "none"
      /\ snapshots \in Seq(Rows) /\ Len(snapshots) \in Nat
  BY BeginOpens, LenProperties DEF BeginPresence, work, EnhancedInv, TypeOK, Running
<1>2. /\ active'.snapshot = Len(snapshots) + 1
      /\ active'.members = {} /\ active'.page = 1
  BY BeginOpens
<1>3. /\ Len(snapshots') = Len(snapshots) + 1
      /\ DOMAIN snapshots' = 1..(Len(snapshots) + 1)
      /\ DOMAIN snapshots = 1..Len(snapshots)
      /\ \A i \in 1..Len(snapshots) : snapshots'[i] = snapshots[i]
      /\ snapshots'[Len(snapshots) + 1].status = "in_progress"
  BY BeginOpens DEF NewSnapshot
<1>4. CompleteIsWhole'
  BY <1>1, <1>3 DEF CompleteIsWhole
<1>5. (Reading' <=> Reading) /\ (Reading => aux.job.snapshot \in 1..Len(snapshots))
  BY <1>1 DEF Reading, Pages, Running
<1>6. ~ReadingOurs'
  BY <1>1, <1>2, <1>5 DEF ReadingOurs
<1>7. Page' = 1 /\ Page' \in 1..MaxPages
  BY <1>2, EnhancedAssumption DEF Page, EnhancedAssumption
<1>8. active'.members = {active'.snapshot} \X (1..(Page' - 1))
  BY <1>2, <1>7
<1>9. Pages'
  BY <1>1, <1>2, <1>3, <1>5, <1>6, <1>7, <1>8 DEF Pages
<1>10. QED BY <1>4, <1>9

(* The page that waited is being read.                                     *)
LEMMA AskedPages ==
    ASSUME EnhancedInv, Running, AskPresence
    PROVE  /\ active' # NoActive
           /\ active'.stream = active.stream /\ active'.generation = active.generation
           /\ Pages' /\ CompleteIsWhole'
<1>1. /\ active # NoActive /\ active \in Actives /\ active.page > 0
      /\ Reading'
      /\ aux'.job = [snapshot |-> active.snapshot, stream |-> active.stream,
                     generation |-> active.generation, page |-> active.page]
      /\ active' = [active EXCEPT !.page = 0]
  BY AskedPage
<1>2. /\ UNCHANGED <<snapshots, available>>
      /\ Pages /\ CompleteIsWhole /\ exit = "none"
  BY DEF AskPresence, EnhancedInv, Running
<1>3. /\ active'.snapshot = active.snapshot /\ active'.stream = active.stream
      /\ active'.generation = active.generation /\ active'.members = active.members
      /\ active'.page = 0
  BY <1>1 DEF Actives
<1>4. active.snapshot = Len(snapshots) /\ Len(snapshots) > 0
  BY <1>1 DEF EnhancedInv, ActiveIsOpen
<1>5. active' # NoActive
  BY <1>3, <1>4, Nothing
<1>6. CompleteIsWhole'
  BY <1>2 DEF CompleteIsWhole
<1>7. ReadingOurs' /\ Page' = active.page
  BY <1>1, <1>3 DEF ReadingOurs, Page
<1>8. /\ available /\ Page = active.page /\ Page \in 1..MaxPages
      /\ active.members = {active.snapshot} \X (1..(Page - 1))
  BY <1>1, <1>2 DEF Pages, Running, Page
<1>9. aux'.job.snapshot \in 1..Len(snapshots')
  <2>1. Len(snapshots) \in Nat
    BY LenProperties DEF EnhancedInv, TypeOK
  <2>2. QED BY <1>1, <1>2, <1>4, <2>1
<1>10. Pages'
  BY <1>1, <1>2, <1>3, <1>7, <1>8, <1>9 DEF Pages
<1>11. QED BY <1>3, <1>5, <1>6, <1>10

(* The pages are in order after every step.                                *)
LEMMA PagesKept ==
    ASSUME EnhancedInv, Running, Next PROVE Pages' /\ CompleteIsWhole'
<1>1. CASE Gathering
  BY <1>1, IgnoredPages, NextPages, BegunPages, AskedPages DEF Gathering
<1>2. QED BY <1>1, Steps, MildPages, SettlingPages, RaidingPages, AnswerPages

-----------------------------------------------------------------------------
(* What happened to the active snapshot.                                   *)

(* Steps that leave the stream, the clock and the active snapshot alone.   *)
LEMMA WholeFrame ==
    ASSUME EnhancedInv, Running, UNCHANGED <<tracked, generation, broken>>,
           Running' => \/ at \notin {"pump", "advance", "check"}
                       \/ at' \in {"pump", "advance", "check"},
           active' # NoActive => /\ active # NoActive
                                 /\ active'.stream = active.stream
                                 /\ active'.generation = active.generation
    PROVE  Whole'
BY DEF EnhancedInv, Whole, Running

(* A clock gap or a change of stream shows in the active snapshot.         *)
LEMMA MildWhole ==
    ASSUME EnhancedInv, Running, Mild PROVE Whole'
<1> USE DEF At, Goto, Die, control, target, seen
<1>1. active' = active /\ Whole /\ exit = "none"
  BY MildKeeps DEF EnhancedInv, Running
<1>2. /\ generation \in Nat
      /\ active # NoActive => active.generation \in Nat
  BY DEF EnhancedInv, TypeOK, Actives
<1>3. CASE Gap
  <2>1. generation' = generation + 1 /\ at' = at /\ tracked' = tracked
    BY <1>3 DEF Gap
  <2>2. active # NoActive => active.generation <= generation
    BY <1>1 DEF Whole, Running
  <2>3. active # NoActive => active.generation <= generation' /\ active.generation # generation'
    BY <1>2, <2>1, <2>2
  <2>4. QED BY <1>1, <2>1, <2>3 DEF Whole, Running
<1>4. CASE PresenceExpires \/ AskStop \/ ClockFails \/ StorageFails \/ PumpFails
  <2>1. /\ UNCHANGED <<tracked, generation, broken>>
        /\ at' = at \/ exit' = "failed"
    BY <1>4 DEF PresenceExpires, AskStop, ClockFails, StorageFails, PumpFails
  <2>2. QED BY <1>1, <2>1, WholeFrame DEF Running
<1>5. CASE StartEnhanced \/ LaneTaken \/ AskNothing \/ Finish \/ Interrupted \/ Close
  <2>1. at \notin {"pump", "advance", "check"}
    BY <1>5 DEF StartEnhanced, LaneTaken, AskNothing, Scheduling, Finish, Interrupted, Close
  <2>2. UNCHANGED <<tracked, generation, broken>>
    BY <1>5 DEF StartEnhanced, LaneTaken, AskNothing, Finish, Interrupted, Close
  <2>3. QED BY <1>1, <2>1, <2>2, WholeFrame
<1>6. CASE PollStopped \/ PollSilent \/ PollInDoubt \/ PollFatal
  <2>1. at \notin {"pump", "advance", "check"} /\ UNCHANGED <<tracked, generation, broken>>
    BY <1>6 DEF PollStopped, PollSilent, PollInDoubt, PollFatal
  <2>2. QED BY <1>1, <2>1, WholeFrame
<1>7. ASSUME NEW s \in Streams \cup {None}, NEW b1 \in BOOLEAN, NEW b2 \in BOOLEAN,
             PollSaved(s, b1, b2)
      PROVE  Whole'
  <2>1. /\ at = "poll" /\ at' = "pump" /\ tracked' = s /\ generation' = generation
        /\ broken' <=> (active # NoActive /\ (broken \/ s # tracked))
    BY <1>7 DEF PollSaved
  <2>2. active # NoActive => /\ active.stream = tracked
                             /\ active.generation <= generation
                             /\ broken => active.generation # generation \/ active.stream # tracked
    BY <1>1, <2>1 DEF Whole, Running
  <2>3. QED BY <1>1, <2>1, <2>2 DEF Whole, Running
<1>8. CASE Pumped \/ NoAnswer("advance")
  <2>1. at' \in {"pump", "advance", "check"} /\ UNCHANGED <<tracked, generation, broken>>
    BY <1>8 DEF Pumped, NoAnswer, After
  <2>2. QED BY <1>1, <2>1, WholeFrame
<1>9. CASE NoAnswer("last")
  <2>1. at \notin {"pump", "advance", "check"} /\ UNCHANGED <<tracked, generation, broken>>
    BY <1>9 DEF NoAnswer
  <2>2. QED BY <1>1, <2>1, WholeFrame
<1>10. CASE CheckActive /\ (active = NoActive \/ ~Outdated)
  <2>1. UNCHANGED <<tracked, generation, broken>> /\ (active # NoActive => active.stream = tracked)
    BY <1>10 DEF CheckActive, Outdated
  <2>2. QED BY <1>1, <2>1 DEF Whole, Running
<1>11. QED
  BY <1>3, <1>4, <1>5, <1>6, <1>7, <1>8, <1>9, <1>10 DEF Mild

(* Where a step of a raid leads.                                           *)
LEMMA RaidingLeads ==
    ASSUME EnhancedInv, Running, Raiding
    PROVE  /\ Running' => \/ at \notin {"pump", "advance", "check"}
                          \/ at' \in {"pump", "advance", "check"}
           /\ exit' \in {exit, "failed", "early"}
<1> USE DEF At, Goto, Die, control
<1> DEFINE Led == /\ Running' => \/ at \notin {"pump", "advance", "check"}
                                 \/ at' \in {"pump", "advance", "check"}
                  /\ exit' \in {exit, "failed", "early"}
<1>1. CASE RetryExpires
  BY <1>1 DEF RetryExpires
<1>2. ASSUME NEW m \in Raids, RaidStored(m) \/ RaidFails(m) PROVE Led
  BY <1>2 DEF RaidStored, RaidFails
<1>3. ASSUME NEW l \in {"advance", "last"}, RaidFatal(l) \/ RaidRetried(l) PROVE Led
  <2>1. at = l /\ (exit' = "failed" \/ (at' = After(l) /\ exit' = exit))
    BY <1>3 DEF RaidFatal, RaidRetried, TookRaid, Answered
  <2>2. QED BY <2>1 DEF After, Running
<1>4. ASSUME NEW l \in {"advance", "last"}, RaidSettled(l) PROVE Led
  <2>1. at = l /\ aux.job.raid \in Raids /\ InFlight(aux.job.raid)
    BY <1>4, RaidAnswered DEF RaidSettled, TookRaid, Answered
  <2>2. (at' = After(l) /\ exit' = exit) \/ exit' = "early"
    BY <1>4, <2>1, ContextFinalized DEF RaidSettled, Early
  <2>3. QED BY <2>1, <2>2 DEF After, Running
<1>5. CASE AskRaid
  BY <1>5 DEF AskRaid, Scheduling
<1>6. CASE InterruptRaid
  <2>1. Head(queue).raid \in Raids /\ Waiting(Head(queue).raid) # {}
    BY <1>6, HeadIs, HeadWaits DEF InterruptRaid, EnhancedInv, TypeOK
  <2>2. at = "interrupt" /\ ((at' = "interrupt" /\ exit' = exit) \/ exit' = "early")
    BY <1>6, <2>1, ContextFinalized DEF InterruptRaid, Early
  <2>3. QED BY <2>2 DEF Running
<1>7. QED BY <1>1, <1>2, <1>3, <1>4, <1>5, <1>6 DEF Raiding

(* Where a step of presence leads.                                         *)
LEMMA GatheringLeads ==
    ASSUME EnhancedInv, Running, Gathering
    PROVE  exit' \in {exit, "failed"}
<1> USE DEF Goto, Die
<1>1. ASSUME NEW l \in {"advance", "last"},
             PresenceIgnored(l) \/ PresenceFatal(l) \/ PresenceNext(l)
      PROVE  exit' \in {exit, "failed"}
  BY <1>1 DEF PresenceIgnored, PresenceFatal, PresenceNext
<1>2. CASE BeginPresence
  BY <1>2, BeginOpens
<1>3. CASE AskPresence
  BY <1>3 DEF AskPresence
<1>4. QED BY <1>1, <1>2, <1>3 DEF Gathering

(* A page waits, or is asked for, under the stream tracked.                *)
LEMMA GatheringWhole ==
    ASSUME EnhancedInv, Running, Gathering PROVE Whole'
<1> USE DEF At, Goto, Die, target, seen
<1>1. ASSUME NEW l \in {"advance", "last"},
             PresenceIgnored(l) \/ PresenceFatal(l) \/ PresenceNext(l)
      PROVE  Whole'
  <2>1. /\ UNCHANGED <<tracked, generation, broken>>
        /\ at = l /\ (exit' = "failed" \/ at' = After(l))
    BY <1>1 DEF PresenceIgnored, PresenceFatal, PresenceNext, TookPresence, Answered
  <2>2. Running' => \/ at \notin {"pump", "advance", "check"}
                    \/ at' \in {"pump", "advance", "check"}
    BY <2>1 DEF After, Running
  <2>3. active' # NoActive => /\ active # NoActive
                              /\ active'.stream = active.stream
                              /\ active'.generation = active.generation
    <3>1. CASE PresenceNext(l)
      BY <3>1, NextPages
    <3>2. CASE PresenceIgnored(l) \/ PresenceFatal(l)
      BY <3>2 DEF PresenceIgnored, PresenceFatal, taking
    <3>3. QED BY <1>1, <3>1, <3>2
  <2>4. QED BY <2>1, <2>2, <2>3, WholeFrame
<1>2. CASE BeginPresence
  <2>1. active'.stream = tracked /\ active'.generation = generation /\ ~broken'
    BY <1>2, BeginOpens
  <2>2. UNCHANGED <<tracked, generation>>
    BY <1>2 DEF BeginPresence
  <2>3. generation \in Nat
    BY DEF EnhancedInv, TypeOK
  <2>4. QED BY <2>1, <2>2, <2>3 DEF Whole
<1>3. CASE AskPresence
  <2>1. UNCHANGED <<tracked, generation, broken>> /\ at = "begin" /\ active # NoActive
    BY <1>3, AskedPage DEF AskPresence
  <2>2. QED BY <1>3, <2>1, AskedPages, WholeFrame
<1>4. QED BY <1>1, <1>2, <1>3 DEF Gathering

(* It shows after every step.                                              *)
LEMMA WholeKept ==
    ASSUME EnhancedInv, Running, Next PROVE Whole'
<1>1. CASE Settling
  <2>1. active' = NoActive
    BY <1>1, Settles DEF Settlement
  <2>2. QED BY <2>1 DEF Whole
<1>2. CASE Raiding
  <2>1. UNCHANGED <<tracked, generation, broken, active>>
    BY <1>2, RaidingKeeps DEF taking
  <2>2. QED BY <1>2, <2>1, RaidingLeads, WholeFrame
<1>3. CASE AuxAnswers
  <2>1. UNCHANGED <<tracked, generation, broken, active, at>>
    BY <1>3 DEF AuxAnswers, target, seen, taking, control
  <2>2. QED BY <2>1, WholeFrame
<1>4. QED BY <1>1, <1>2, <1>3, Steps, MildWhole, GatheringWhole

-----------------------------------------------------------------------------
(* Health, and the end.                                                    *)

Healths == HealthyIsAvailable /\ HealthyRestsOnComplete

(* Steps that leave health and what it rests on alone.                     *)
LEMMA HealthFrame ==
    ASSUME EnhancedInv, Running,
           health' = "healthy" => /\ health = "healthy"
                                  /\ UNCHANGED <<available, active, snapshots>>
                                  /\ live'
    PROVE  Healths'
BY DEF EnhancedInv, HealthyIsAvailable, HealthyRestsOnComplete, Healths, Running

(* Whatever puts the broadcast in doubt takes the good health back.        *)
LEMMA MildHealth ==
    ASSUME EnhancedInv, Running, Mild PROVE Healths'
<1> USE DEF Doubt, seen, HealthyIsAvailable
<1>1. UNCHANGED <<active, snapshots>> /\ (health = "healthy" => available /\ live)
  BY MildKeeps DEF EnhancedInv, HealthyRestsOnComplete, Running
<1> DEFINE Led == health' = "healthy" => health = "healthy" /\ available' = available /\ live'
<1>2. Led
  <2>1. CASE Gap \/ PollStopped \/ PollInDoubt \/ PollFatal
    <3>1. Doubt \/ UNCHANGED <<live, health>>
      BY <2>1 DEF Gap, PollStopped, PollInDoubt, PollFatal
    <3>2. available' = available
      BY <2>1 DEF Gap, PollStopped, PollInDoubt, PollFatal
    <3>3. QED BY <1>1, <3>1, <3>2
  <2>2. CASE PresenceExpires \/ ClockFails \/ AskStop \/ StorageFails \/ PollSilent
    BY <1>1, <2>2 DEF PresenceExpires, ClockFails, AskStop, StorageFails, PollSilent
  <2>3. CASE StartEnhanced
    BY <2>3 DEF StartEnhanced
  <2>4. ASSUME NEW s \in Streams \cup {None}, NEW b1 \in BOOLEAN, NEW b2 \in BOOLEAN,
               PollSaved(s, b1, b2)
        PROVE  Led
    <3>1. /\ available' = available /\ live' <=> (s # None /\ ~b2)
          /\ health' = IF ~available THEN health
                       ELSE IF b2 THEN "error"
                       ELSE IF s = None THEN "paused"
                       ELSE IF b1 THEN "error" ELSE health
      BY <2>4 DEF PollSaved
    <3>2. QED BY <1>1, <3>1
  <2>5. CASE PumpFails \/ Pumped \/ NoAnswer("advance") \/ NoAnswer("last")
    BY <1>1, <2>5 DEF PumpFails, Pumped, NoAnswer
  <2>6. CASE CheckActive /\ (active = NoActive \/ ~Outdated)
    BY <1>1, <2>6 DEF CheckActive
  <2>7. CASE LaneTaken \/ AskNothing \/ Finish \/ Interrupted
    BY <1>1, <2>7 DEF LaneTaken, AskNothing, Finish, Interrupted
  <2>8. CASE Close
    BY <1>1, <2>8 DEF Close
  <2>9. QED BY <2>1, <2>2, <2>3, <2>4, <2>5, <2>6, <2>7, <2>8 DEF Mild
<1>3. QED BY <1>1, <1>2, HealthFrame

(* Only a complete snapshot of a live broadcast makes health good.         *)
LEMMA SettlingHealth ==
    ASSUME EnhancedInv, Running, Settling PROVE Healths'
<1>1. PICK status \in {"complete", "partial", "rejected", "interrupted"},
           members \in SUBSET (Nat \X Nat) : Settlement(status, members)
  BY Settles
<1>2. /\ active # NoActive /\ available /\ exit = "none"
      /\ active.snapshot = Len(snapshots) /\ Len(snapshots) > 0
      /\ health # "healthy"
  BY <1>1, ActiveRow
     DEF Settlement, EnhancedInv, Pages, ActiveIsOpen, HealthyRestsOnComplete, Running
<1>3. available' = available /\ live' = live /\ active' = NoActive
  BY <1>1 DEF Settlement
<1>4. HealthyIsAvailable'
  BY <1>2, <1>3 DEF HealthyIsAvailable
<1>5. HealthyRestsOnComplete'
  <2>1. SUFFICES ASSUME exit' = "none", health' = "healthy"
                 PROVE  /\ live' /\ active' = NoActive
                        /\ snapshots' # <<>> /\ snapshots'[Len(snapshots')].status = "complete"
    BY DEF HealthyRestsOnComplete
  <2>2. status = "complete"
    BY <1>1, <1>2, <2>1 DEF Settlement
  <2>3. live /\ snapshots'[Len(snapshots')].status = "complete" /\ Len(snapshots') > 0
    BY <1>1, <1>2, <2>2 DEF Settlement
  <2>4. snapshots' # <<>>
    BY <1>1, <2>3, EmptySeq DEF Settlement
  <2>5. QED BY <1>3, <2>3, <2>4
<1>6. QED BY <1>4, <1>5 DEF Healths

(* An attempt under way is not good health.                                *)
LEMMA GatheringHealth ==
    ASSUME EnhancedInv, Running, Gathering PROVE Healths'
<1>1. health = "healthy" => live /\ active = NoActive
  BY DEF EnhancedInv, HealthyRestsOnComplete, Running
<1>2. ASSUME NEW l \in {"advance", "last"},
             PresenceIgnored(l) \/ PresenceFatal(l)
      PROVE  Healths'
  BY <1>1, <1>2, HealthFrame DEF PresenceIgnored, PresenceFatal, TookPresence, taking
<1>3. ASSUME NEW l \in {"advance", "last"}, PresenceNext(l) PROVE Healths'
  BY <1>1, <1>3, HealthFrame DEF PresenceNext, Ours
<1>4. CASE BeginPresence
  <2>1. /\ active = NoActive /\ exit' = "failed" /\ health' = health /\ available' = available
        \/ health' = "starting"
    BY <1>4, BeginOpens DEF BeginPresence
  <2>2. QED
    BY <1>4, <2>1 DEF Healths, HealthyIsAvailable, HealthyRestsOnComplete, EnhancedInv
<1>5. CASE AskPresence
  BY <1>1, <1>5, AskedPage, HealthFrame DEF AskPresence, seen
<1>6. QED BY <1>2, <1>3, <1>4, <1>5 DEF Gathering

(* Presence reads healthy for good reason after every step.                *)
LEMMA HealthKept ==
    ASSUME EnhancedInv, Running, Next PROVE Healths'
<1>1. health = "healthy" => live
  BY DEF EnhancedInv, HealthyRestsOnComplete, Running
<1>2. CASE Raiding
  BY <1>1, <1>2, RaidingKeeps, HealthFrame DEF taking
<1>3. CASE AuxAnswers
  BY <1>1, <1>3, HealthFrame DEF AuxAnswers, taking, seen
<1>4. QED BY <1>2, <1>3, Steps, MildHealth, SettlingHealth, GatheringHealth

(* Only the close of an orderly stop ends clean, and nothing is refused.   *)
LEMMA CleanIsClose ==
    ASSUME EnhancedInv, Running, Next
    PROVE  exit' # "refused" /\ (exit' = "clean" => Close /\ ~latched)
<1> USE DEF Goto, Die, control
<1>1. exit = "none"
  BY DEF Running
<1> DEFINE Led == exit' # "refused" /\ (exit' = "clean" => Close /\ ~latched)
<1>2. CASE Mild
  <2>1. CASE Gap \/ PresenceExpires \/ ClockFails \/ AskStop \/ StorageFails \/ StartEnhanced
    BY <1>1, <2>1 DEF Gap, PresenceExpires, ClockFails, AskStop, StorageFails, StartEnhanced
  <2>2. CASE PollStopped \/ PollSilent \/ PollInDoubt \/ PollFatal
    BY <1>1, <2>2 DEF PollStopped, PollSilent, PollInDoubt, PollFatal
  <2>3. ASSUME NEW s, NEW b1, NEW b2, PollSaved(s, b1, b2) PROVE Led
    BY <1>1, <2>3 DEF PollSaved
  <2>4. CASE PumpFails \/ Pumped \/ NoAnswer("advance") \/ NoAnswer("last")
    BY <1>1, <2>4 DEF PumpFails, Pumped, NoAnswer
  <2>5. CASE CheckActive /\ (active = NoActive \/ ~Outdated)
    BY <1>1, <2>5 DEF CheckActive
  <2>6. CASE LaneTaken \/ AskNothing \/ Finish \/ Interrupted
    BY <1>1, <2>6 DEF LaneTaken, AskNothing, Finish, Interrupted
  <2>7. CASE Close
    BY <2>7 DEF Close
  <2>8. QED BY <1>2, <2>1, <2>2, <2>3, <2>4, <2>5, <2>6, <2>7 DEF Mild
<1>3. CASE Settling
  <2>1. exit' \in {exit, "failed"}
    BY <1>3, Settles DEF Settlement
  <2>2. QED BY <1>1, <2>1
<1>4. CASE Gathering
  BY <1>1, <1>4, GatheringLeads
<1>5. CASE Raiding
  BY <1>1, <1>5, RaidingLeads
<1>6. CASE AuxAnswers
  BY <1>1, <1>6 DEF AuxAnswers
<1>7. QED BY <1>2, <1>3, <1>4, <1>5, <1>6, Steps

(* A close finds nothing open, and nothing else ends clean.                *)
LEMMA StopKept ==
    ASSUME EnhancedInv, Running, Next PROVE NeverRefused' /\ CleanStopSettlesAll'
<1>1. NeverRefused'
  BY CleanIsClose DEF NeverRefused
<1>2. ASSUME exit' = "clean"
      PROVE  /\ \A i \in DOMAIN snapshots' : ~Open(i)'
             /\ \A m \in Raids : contexts'[m].status # "in_progress"
  <2>1. Close /\ ~latched
    BY <1>2, CleanIsClose
  <2>2. UNCHANGED <<snapshots, contexts>>
    BY <2>1 DEF Close, taking, raiding
  <2>3. active = NoActive /\ queue = <<>> /\ aux = Idle
    BY <2>1 DEF Close, At, EnhancedInv, Ends
  <2>4. \A i \in DOMAIN snapshots : ~Open(i)
    <3>1. DOMAIN snapshots = 1..Len(snapshots)
      BY LenProperties DEF EnhancedInv, TypeOK
    <3>2. QED BY <2>3, <3>1, Nothing DEF EnhancedInv, ActiveIsOpen
  <2>5. ASSUME NEW m \in Raids PROVE contexts[m].status # "in_progress"
    <3>1. DOMAIN queue = 1..Len(queue) /\ Len(queue) = 0
      BY <2>3, LenProperties, EmptySeq DEF EnhancedInv, TypeOK
    <3>2. Waiting(m) = {} /\ ~InFlight(m)
      BY <2>3, <3>1, NoneInFlight DEF Waiting
    <3>3. RaidNow(m)
      BY RaidsNow
    <3>4. QED BY <2>1, <3>2, <3>3 DEF RaidNow
  <2>6. QED BY <2>2, <2>4, <2>5 DEF Open
<1>3. CleanStopSettlesAll'
  BY <1>2 DEF CleanStopSettlesAll
<1>4. QED BY <1>1, <1>3

-----------------------------------------------------------------------------
(* The invariant.                                                          *)

(* The invariant holds at the start.                                       *)
LEMMA EnhancedInit == Init => EnhancedInv
<1> SUFFICES ASSUME Init PROVE EnhancedInv
  OBVIOUS
<1> USE DEF Init
<1>1. TypeOK
  BY EmptySeq DEF TypeOK, Labels, Auxes, ContextStatus
<1>2. Ends
  BY DEF Ends, Running, At
<1>3. Len(queue) = 0 /\ DOMAIN queue = {} /\ DOMAIN snapshots = {}
  <2>1. queue \in Seq(Waits) /\ snapshots \in Seq(Rows) /\ queue = <<>> /\ snapshots = <<>>
    BY EmptySeq
  <2>2. QED BY <2>1, LenProperties, EmptySeq
<1>4. ActiveIsOpen
  BY <1>3 DEF ActiveIsOpen
<1>5. \A m \in Raids : ~InFlight(m) /\ Waiting(m) = {}
  BY <1>3 DEF InFlight, Waiting
<1>6. OneOwner /\ Attempts /\ AttemptsAreHonest
  BY <1>3, <1>5 DEF OneOwner, Attempts, AttemptsAreHonest
<1>7. QueueIsBounded
  BY <1>3, <1>5, EnhancedAssumption DEF QueueIsBounded, EnhancedAssumption
<1>8. Pages /\ Whole /\ CompleteIsWhole
  BY <1>3 DEF Pages, Whole, CompleteIsWhole, Reading
<1>9. HealthyIsAvailable /\ HealthyRestsOnComplete /\ NeverRefused /\ CleanStopSettlesAll
  BY DEF HealthyIsAvailable, HealthyRestsOnComplete, NeverRefused, CleanStopSettlesAll
<1>10. QED
  BY <1>1, <1>2, <1>4, <1>6, <1>7, <1>8, <1>9 DEF EnhancedInv

(* The invariant survives every step.                                      *)
LEMMA EnhancedStep == EnhancedInv /\ [Next]_vars => EnhancedInv'
<1>1. ASSUME EnhancedInv, UNCHANGED vars PROVE EnhancedInv'
  <2> USE <1>1 DEF vars, control, target, seen, work, raiding, taking, EnhancedInv, Running, At, Open,
                   Waiting, InFlight, Reading, ReadingOurs, Page, IsPresence
  <2>1. TypeOK' /\ Ends'
    BY DEF TypeOK, Ends
  <2>2. ActiveIsOpen' /\ Pages' /\ Whole' /\ CompleteIsWhole'
    BY DEF ActiveIsOpen, Pages, Whole, CompleteIsWhole
  <2>3. OneOwner' /\ Attempts' /\ AttemptsAreHonest' /\ QueueIsBounded'
    BY DEF OneOwner, Attempts, AttemptsAreHonest, QueueIsBounded
  <2>4. HealthyIsAvailable' /\ HealthyRestsOnComplete' /\ NeverRefused' /\ CleanStopSettlesAll'
    BY DEF HealthyIsAvailable, HealthyRestsOnComplete, NeverRefused, CleanStopSettlesAll
  <2>5. QED BY <2>1, <2>2, <2>3, <2>4
<1>2. ASSUME EnhancedInv, Next PROVE EnhancedInv'
  <2>1. Running
    BY <1>2, Moving
  <2>2. Ends'
    BY <1>2, <2>1, Steps, MildEnds, WorkEnds
  <2>3. TypeOK'
    BY <1>2, <2>1, TypesKept
  <2>4. QED
    BY <1>2, <2>1, <2>2, <2>3, OpenKept, RaidsKept, PagesKept, WholeKept, HealthKept, StopKept
       DEF EnhancedInv, RaidsAgree, Healths
<1>3. QED BY <1>1, <1>2

(* The invariant holds throughout, for every set of streams and raids,     *)
(* every page limit and every length of the queue.                         *)
THEOREM EnhancedIsInductive == Spec => []EnhancedInv
<1>1. QED BY EnhancedInit, EnhancedStep, PTL DEF Spec

(* A raid waits or is being asked for at most once, and only while its row *)
(* is open; an open row has an owner, short of a failed write.             *)
THEOREM RaidsHaveOneOwner == Spec => []OneOwner
<1>1. EnhancedInv => OneOwner
  BY DEF EnhancedInv
<1>2. QED BY <1>1, EnhancedIsInductive, PTL

(* A final row counts the requests sent for its raid, two at most, however *)
(* it was settled.                                                         *)
THEOREM RaidAttemptsAreHonest == Spec => []AttemptsAreHonest
<1>1. EnhancedInv => AttemptsAreHonest
  BY DEF EnhancedInv
<1>2. QED BY <1>1, EnhancedIsInductive, PTL

(* Retries go ahead of a full queue, and it has one place for them: the    *)
(* requests that wait or are under way are QueueLimit + 1 at most.         *)
THEOREM RaidQueueIsBounded == Spec => []QueueIsBounded
<1>1. EnhancedInv => QueueIsBounded
  BY DEF EnhancedInv
<1>2. QED BY <1>1, EnhancedIsInductive, PTL

(* A complete snapshot has every one of its pages and no other, from one   *)
(* clock generation and one stream.                                        *)
THEOREM SnapshotsAreWhole == Spec => []CompleteIsWhole
<1>1. EnhancedInv => CompleteIsWhole
  BY DEF EnhancedInv
<1>2. QED BY <1>1, EnhancedIsInductive, PTL

(* Presence reads healthy only while the broadcast is live and the last    *)
(* snapshot complete.                                                      *)
THEOREM HealthIsEarned == Spec => []HealthyRestsOnComplete
<1>1. EnhancedInv => HealthyRestsOnComplete
  BY DEF EnhancedInv
<1>2. QED BY <1>1, EnhancedIsInductive, PTL

(* No statement finds its row final already.                               *)
THEOREM StatementsAreAccepted == Spec => []NeverRefused
<1>1. EnhancedInv => NeverRefused
  BY DEF EnhancedInv
<1>2. QED BY <1>1, EnhancedIsInductive, PTL

(* An orderly stop leaves no attempt open.                                 *)
THEOREM StopSettles == Spec => []CleanStopSettlesAll
<1>1. EnhancedInv => CleanStopSettlesAll
  BY DEF EnhancedInv
<1>2. QED BY <1>1, EnhancedIsInductive, PTL

(* Types.                                                                  *)
THEOREM EnhancedIsTyped == Spec => []TypeOK
<1>1. EnhancedInv => TypeOK
  BY DEF EnhancedInv
<1>2. QED BY <1>1, EnhancedIsInductive, PTL

-----------------------------------------------------------------------------
(* Attempts follow one another, and settled rows stay.                     *)

(* Two lengths that count the same places are equal.                       *)
LEMMA SameLength ==
    ASSUME NEW a \in Nat, NEW b \in Nat, 1..a = 1..b PROVE a = b
<1>1. CASE a > b
  <2>1. a \in 1..a /\ a \notin 1..b
    BY <1>1
  <2>2. QED BY <2>1
<1>2. CASE b > a
  <2>1. b \in 1..b /\ b \notin 1..a
    BY <1>2
  <2>2. QED BY <2>1
<1>3. QED BY <1>1, <1>2

(* What is shown of any rows is a sequence as long.                        *)
LEMMA ShownIs ==
    ASSUME NEW rows \in Seq(Rows), NEW shown,
           shown = [i \in DOMAIN rows |->
                      IF rows[i].status = "in_progress" THEN "open" ELSE "resolved"]
    PROVE  /\ shown \in Seq({"open", "resolved"}) /\ Len(shown) = Len(rows)
           /\ Len(rows) \in Nat
           /\ \A i \in 1..Len(rows) :
                 shown[i] = IF rows[i].status = "in_progress" THEN "open" ELSE "resolved"
<1>1. DOMAIN rows = 1..Len(rows) /\ Len(rows) \in Nat
  BY LenProperties
<1>2. shown \in [1..Len(rows) -> {"open", "resolved"}]
  BY <1>1
<1>3. shown \in Seq({"open", "resolved"})
  BY <1>1, <1>2, SeqDef
<1>4. Len(shown) = Len(rows)
  <2>1. DOMAIN shown = 1..Len(shown) /\ Len(shown) \in Nat
    BY <1>3, LenProperties
  <2>2. DOMAIN shown = 1..Len(rows)
    BY <1>1
  <2>3. QED BY <1>1, <2>1, <2>2, SameLength
<1>5. QED BY <1>1, <1>3, <1>4

(* Types, before and after the step.                                       *)
LEMMA RowsTyped ==
    ASSUME EnhancedInv, EnhancedInv'
    PROVE  snapshots \in Seq(Rows) /\ snapshots' \in Seq(Rows)
BY DEF EnhancedInv, TypeOK

(* The ledger sees nothing while the rows stay.                            *)
LEMMA SameRowsShown == ASSUME snapshots' = snapshots PROVE Shown' = Shown
BY DEF Shown, Open

(* A settlement resolves the last row of the ledger.                       *)
LEMMA SettlingShown ==
    ASSUME EnhancedInv, EnhancedInv', Running, Settling PROVE Attempted!Resolve
<1>1. PICK status \in {"complete", "partial", "rejected", "interrupted"},
           members \in SUBSET (Nat \X Nat) : Settlement(status, members)
  BY Settles
<1> DEFINE n == Len(snapshots)
<1>2. n \in Nat /\ n > 0 /\ active.snapshot = n /\ n \in DOMAIN snapshots /\ Open(n)
  BY <1>1, ActiveRow, LenProperties DEF Settlement, EnhancedInv, ActiveIsOpen, TypeOK
<1>3. Len(snapshots') = n
  BY <1>1 DEF Settlement
<1>4. /\ Shown \in Seq({"open", "resolved"}) /\ Len(Shown) = n
      /\ \A i \in 1..n : Shown[i] = IF Open(i) THEN "open" ELSE "resolved"
  BY RowsTyped, ShownIs DEF Shown, Open
<1>5. /\ Shown' \in Seq({"open", "resolved"}) /\ Len(Shown') = n
      /\ \A i \in 1..n :
            Shown'[i] = IF snapshots'[i].status = "in_progress" THEN "open" ELSE "resolved"
  <2>1. snapshots' \in Seq(Rows)
    BY RowsTyped
  <2>2. /\ Shown' \in Seq({"open", "resolved"}) /\ Len(Shown') = Len(snapshots')
        /\ \A i \in 1..Len(snapshots') :
              Shown'[i] = IF snapshots'[i].status = "in_progress" THEN "open" ELSE "resolved"
    BY <2>1, ShownIs DEF Shown, Open
  <2>3. QED BY <1>3, <2>2
<1>6. /\ snapshots'[n].status # "in_progress"
      /\ \A i \in 1..n : i # n => (Open(i)' <=> Open(i))
  <2>1. DOMAIN snapshots = 1..n
    BY RowsTyped, LenProperties
  <2>2. QED BY <1>1, <1>2, <2>1 DEF Settlement, Open
<1>7. /\ [Shown EXCEPT ![n] = "resolved"] \in Seq({"open", "resolved"})
      /\ Len([Shown EXCEPT ![n] = "resolved"]) = n
      /\ \A i \in 1..n : [Shown EXCEPT ![n] = "resolved"][i] =
                            IF i = n THEN "resolved" ELSE Shown[i]
  BY <1>2, <1>4, ExceptSeq
<1>8. Shown' = [Shown EXCEPT ![n] = "resolved"]
  <2>1. ASSUME NEW i \in 1..n PROVE Shown'[i] = [Shown EXCEPT ![n] = "resolved"][i]
    <3>1. CASE i = n
      <4>1. n \in 1..n /\ Shown'[n] = "resolved"
        BY <1>2, <1>5, <1>6
      <4>2. [Shown EXCEPT ![n] = "resolved"][n] = "resolved"
        BY <1>7, <4>1
      <4>3. QED BY <3>1, <4>1, <4>2
    <3>2. CASE i # n
      <4>1. Shown'[i] = Shown[i]
        BY <1>4, <1>5, <1>6, <3>2 DEF Open
      <4>2. QED BY <1>7, <3>2, <4>1
    <3>3. QED BY <3>1, <3>2
  <2>2. QED BY <1>5, <1>7, <2>1, SeqEqual
<1>9. Shown[n] = "open"
  BY <1>2, <1>4
<1>10. QED BY <1>2, <1>4, <1>8, <1>9 DEF Attempted!Resolve

(* A snapshot begun is a row opened, and every earlier one is resolved.    *)
LEMMA BeginShown ==
    ASSUME EnhancedInv, EnhancedInv', Running, BeginPresence PROVE Attempted!Open
<1> DEFINE n == Len(snapshots)
<1>1. /\ active = NoActive /\ Len(snapshots') = n + 1
      /\ \A i \in 1..n : snapshots'[i] = snapshots[i]
      /\ snapshots'[n + 1].status = "in_progress"
  BY BeginOpens DEF NewSnapshot
<1>2. /\ Shown \in Seq({"open", "resolved"}) /\ Len(Shown) = n /\ n \in Nat
      /\ \A i \in 1..n : Shown[i] = IF Open(i) THEN "open" ELSE "resolved"
  BY RowsTyped, ShownIs DEF Shown, Open
<1>3. /\ Shown' \in Seq({"open", "resolved"}) /\ Len(Shown') = n + 1
      /\ \A i \in 1..(n + 1) :
            Shown'[i] = IF snapshots'[i].status = "in_progress" THEN "open" ELSE "resolved"
  <2>1. snapshots' \in Seq(Rows)
    BY RowsTyped
  <2>2. /\ Shown' \in Seq({"open", "resolved"}) /\ Len(Shown') = Len(snapshots')
        /\ \A i \in 1..Len(snapshots') :
              Shown'[i] = IF snapshots'[i].status = "in_progress" THEN "open" ELSE "resolved"
    BY <2>1, ShownIs DEF Shown, Open
  <2>3. QED BY <1>1, <2>2
<1>4. /\ snapshots'[n + 1].status = "in_progress"
      /\ \A i \in 1..n : Open(i)' <=> Open(i)
  BY <1>1 DEF Open
<1>5. /\ Append(Shown, "open") \in Seq({"open", "resolved"})
      /\ Len(Append(Shown, "open")) = n + 1
      /\ \A i \in 1..n : Append(Shown, "open")[i] = Shown[i]
      /\ Append(Shown, "open")[n + 1] = "open"
  BY <1>2, AppendProperties
<1>6. Shown' = Append(Shown, "open")
  <2>1. ASSUME NEW i \in 1..(n + 1) PROVE Shown'[i] = Append(Shown, "open")[i]
    <3>1. CASE i = n + 1
      BY <1>2, <1>3, <1>4, <1>5, <3>1
    <3>2. CASE i # n + 1
      <4>1. i \in 1..n
        BY <1>2, <3>2
      <4>2. Shown'[i] = Shown[i]
        BY <1>2, <1>3, <1>4, <4>1 DEF Open
      <4>3. QED BY <1>5, <4>1, <4>2
    <3>3. QED BY <3>1, <3>2
  <2>2. QED BY <1>3, <1>5, <2>1, SeqEqual
<1>7. \A i \in 1..n : ~Open(i)
  <2>1. DOMAIN snapshots = 1..n
    BY RowsTyped, LenProperties
  <2>2. QED BY <1>1, <2>1, Nothing DEF EnhancedInv, ActiveIsOpen
<1>8. \A i \in 1..Len(Shown) : Shown[i] = "resolved"
  BY <1>2, <1>7
<1>9. QED BY <1>6, <1>8 DEF Attempted!Open

(* The steps that touch no row of a snapshot.                              *)
LEMMA OtherRows ==
    ASSUME EnhancedInv, Running, Next, ~Settling, ~BeginPresence PROVE snapshots' = snapshots
<1>1. CASE Mild
  BY <1>1, MildKeeps
<1>2. CASE Gathering
  BY <1>2 DEF Gathering, PresenceIgnored, PresenceFatal, PresenceNext, AskPresence, taking
<1>3. CASE Raiding
  BY <1>3, RaidingKeeps DEF taking
<1>4. CASE AuxAnswers
  BY <1>4 DEF AuxAnswers, taking
<1>5. QED BY <1>1, <1>2, <1>3, <1>4, Steps

(* Every step is one of the ledger or none.                                *)
LEMMA AttemptedStep ==
    EnhancedInv /\ EnhancedInv' /\ [Next]_vars => [Attempted!Next]_(Shown)
<1> SUFFICES ASSUME EnhancedInv, EnhancedInv', [Next]_vars
             PROVE  Attempted!Open \/ Attempted!Resolve \/ Shown' = Shown
  BY DEF Attempted!Next
<1>1. CASE UNCHANGED vars
  BY <1>1, SameRowsShown DEF vars, taking
<1>2. CASE Next
  BY <1>2, Moving, SettlingShown, BeginShown, OtherRows, SameRowsShown
<1>3. QED BY <1>1, <1>2

(* Presence implements the ledger of consecutive attempts: a snapshot is   *)
(* begun only when every earlier one is settled, only the last is ever     *)
(* settled, and none is reopened, although answers come late, for another  *)
(* snapshot, after a clock gap or at the stop.                             *)
THEOREM SnapshotsRefineLedger == Spec => SnapshotsAreALedger
<1>1. Init => Attempted!Init
  <2> SUFFICES ASSUME Init PROVE Shown = << >>
    BY DEF Attempted!Init
  <2>1. snapshots = << >> /\ snapshots \in Seq(Rows)
    BY EmptySeq DEF Init
  <2>2. Shown \in Seq({"open", "resolved"}) /\ Len(Shown) = 0
    BY <2>1, ShownIs, EmptySeq DEF Shown, Open
  <2>3. QED BY <2>2, EmptySeq, SeqEqual
<1>2. EnhancedInv /\ (EnhancedInv)' /\ [Next]_vars => [Attempted!Next]_(Shown)
  BY AttemptedStep
<1>3. QED BY <1>1, <1>2, EnhancedIsInductive, PTL DEF Spec, SnapshotsAreALedger, Attempted!Spec

(* The rows of the raids that are settled stay, and nothing is asked.      *)
LEMMA SettledRaidsStay ==
    ASSUME EnhancedInv, Running, Next, NEW m \in Raids, Final(m)
    PROVE  contexts'[m] = contexts[m] /\ asked'[m] = asked[m]
<1> USE DEF Final
<1>1. contexts \in [Raids -> [status : ContextStatus, attempts : Nat]] /\ asked \in [Raids -> Nat]
  BY DEF EnhancedInv, TypeOK
<1>2. CASE Mild
  BY <1>2, MildKeeps
<1>3. CASE Settling
  BY <1>3, Settles DEF Settlement
<1>4. CASE Gathering
  BY <1>4 DEF Gathering, PresenceIgnored, PresenceFatal, PresenceNext, TookPresence,
     BeginPresence, AskPresence, raiding
<1>5. CASE AuxAnswers
  BY <1>5 DEF AuxAnswers, raiding
<1>6. CASE Raiding
  <2>1. CASE RetryExpires
    BY <2>1 DEF RetryExpires
  <2>2. ASSUME NEW r \in Raids, RaidStored(r) \/ RaidFails(r)
        PROVE  contexts'[m] = contexts[m] /\ asked'[m] = asked[m]
    BY <1>1, <2>2 DEF RaidStored, RaidFails, Settled
  <2>3. ASSUME NEW l \in {"advance", "last"}, RaidFatal(l) \/ RaidRetried(l)
        PROVE  contexts'[m] = contexts[m] /\ asked'[m] = asked[m]
    BY <2>3 DEF RaidFatal, RaidRetried, TookRaid
  <2>4. ASSUME NEW l \in {"advance", "last"}, RaidSettled(l)
        PROVE  contexts'[m] = contexts[m] /\ asked'[m] = asked[m]
    <3>1. contexts[aux.job.raid].status = "in_progress" /\ aux.job.raid \in Raids
      BY <2>4, RaidAnswered DEF RaidSettled
    <3>2. QED BY <1>1, <2>4, <3>1 DEF RaidSettled, FinalizeContext, Early, Settled, TookRaid
  <2>5. CASE AskRaid
    <3>1. queue # << >> /\ contexts[Head(queue).raid].status = "in_progress"
      BY <2>5, HeadWaits DEF AskRaid, RaidReady
    <3>2. QED BY <1>1, <2>5, <3>1 DEF AskRaid
  <2>6. CASE InterruptRaid
    <3>1. contexts[Head(queue).raid].status = "in_progress"
      BY <2>6, HeadWaits DEF InterruptRaid
    <3>2. QED BY <1>1, <2>6, <3>1 DEF InterruptRaid, FinalizeContext, Early, Settled
  <2>7. QED BY <1>6, <2>1, <2>2, <2>3, <2>4, <2>5, <2>6 DEF Raiding
<1>7. QED BY <1>2, <1>3, <1>4, <1>5, <1>6, Steps

(* The settled rows of the snapshots stay.                                 *)
LEMMA SettledSnapshotsStay ==
    ASSUME EnhancedInv, Running, Next, NEW i \in DOMAIN snapshots, ~Open(i)
    PROVE  snapshots'[i] = snapshots[i]
<1>1. CASE Settling
  <2>1. PICK status \in {"complete", "partial", "rejected", "interrupted"},
             members \in SUBSET (Nat \X Nat) : Settlement(status, members)
    BY <1>1, Settles
  <2>2. i # active.snapshot
    BY <2>1, ActiveRow DEF Settlement
  <2>3. QED BY <2>1, <2>2 DEF Settlement
<1>2. CASE BeginPresence
  BY <1>2, BeginOpens
<1>3. QED BY <1>1, <1>2, OtherRows

(* What is settled is settled for good: no late page, answer, gap or stop  *)
(* rewrites a final row, and no request goes out for a raid whose context  *)
(* is final, whatever retries were queued.                                 *)
THEOREM SettledStays == Spec => SettledForGood
<1> DEFINE Stays ==
        /\ \A i \in DOMAIN snapshots : ~Open(i) => snapshots'[i] = snapshots[i]
        /\ \A m \in Raids : Final(m) => contexts'[m] = contexts[m] /\ asked'[m] = asked[m]
<1>1. EnhancedInv /\ [Next]_vars => [Stays]_vars
  BY Moving, SettledRaidsStay, SettledSnapshotsStay
<1>2. QED BY <1>1, EnhancedIsInductive, PTL DEF Spec, SettledForGood

-----------------------------------------------------------------------------
(* What presence hears of the broadcast.                                   *)

(* Taking an answer or settling a row changes none of it.                  *)
LEMMA TakingHearsNothing ==
    ASSUME NEW l \in {"advance", "last"}, TakeAnswer(l)
    PROVE  UNCHANGED <<tracked, live, generation>>
BY DEF TakeAnswer, PresenceIgnored, PresenceVoid, PresenceFatal, PresenceFailed, PresenceNext,
   PresenceCut, PresenceComplete, RaidFatal, RaidRetried, RaidSettled, TookPresence, TookRaid,
   target, seen

(* Nor does any other step but those of the polling half and a gap.        *)
LEMMA OthersHearNothing ==
    ASSUME Next,
           ~Gap, ~PollStopped, ~PollInDoubt, ~PollFatal,
           ~(\E s \in Streams \cup {None}, staleBefore, staleAfter \in BOOLEAN :
                PollSaved(s, staleBefore, staleAfter))
    PROVE  UNCHANGED <<tracked, live, generation>>
<1> USE DEF target, seen
<1>1. CASE PresenceExpires \/ RetryExpires \/ ClockFails \/ AskStop \/ StorageFails
  BY <1>1 DEF PresenceExpires, RetryExpires, ClockFails, AskStop, StorageFails
<1>2. CASE \E m \in Raids : RaidStored(m) \/ RaidFails(m)
  BY <1>2 DEF RaidStored, RaidFails
<1>3. CASE StartEnhanced \/ PollSilent \/ PumpFails \/ Pumped \/ NoAnswer("advance")
           \/ NoAnswer("last")
  <2>1. StartEnhanced => UNCHANGED <<tracked, live, generation>>
    BY DEF StartEnhanced
  <2>2. QED BY <1>3, <2>1 DEF PollSilent, PumpFails, Pumped, NoAnswer
<1>4. CASE TakeAnswer("advance") \/ TakeAnswer("last")
  BY <1>4, TakingHearsNothing
<1>5. CASE CheckActive \/ BeginPresence
  BY <1>5 DEF CheckActive, BeginPresence
<1>6. CASE AskPresence \/ AskRaid \/ AskNothing \/ LaneTaken
  BY <1>6 DEF AskPresence, AskRaid, AskNothing, LaneTaken
<1>7. CASE Finish \/ InterruptPresence \/ InterruptRaid \/ Interrupted \/ Close \/ AuxAnswers
  BY <1>7 DEF Finish, InterruptPresence, InterruptRaid, Interrupted, Close, AuxAnswers
<1>8. QED BY <1>1, <1>2, <1>3, <1>4, <1>5, <1>6, <1>7 DEF Next, Coordinator, Environment

(* So what is heard is what Broadcast tells.                               *)
LEMMA HeardStep == ASSUME [Next]_vars PROVE [Heard!Next]_(Heard!told)
<1> USE DEF Heard!Next, Heard!told, Heard!Gap, Heard!Doubt, Heard!Saved
<1>1. CASE UNCHANGED vars
  BY <1>1 DEF vars, target, seen
<1>2. CASE Gap
  BY <1>2 DEF Gap, Doubt, target
<1>3. CASE PollStopped \/ PollInDoubt \/ PollFatal
  BY <1>3 DEF PollStopped, PollInDoubt, PollFatal, Doubt, target
<1>4. ASSUME NEW s \in Streams \cup {None}, NEW staleBefore \in BOOLEAN,
             NEW staleAfter \in BOOLEAN, PollSaved(s, staleBefore, staleAfter)
      PROVE  Heard!Next
  <2>1. tracked' = s /\ generation' = generation /\ live' = (s # None /\ ~staleAfter)
    BY <1>4 DEF PollSaved
  <2>2. live' \in {FALSE, s # None}
    BY <1>4, <2>1
  <2>3. QED BY <2>1, <2>2
<1>5. QED BY <1>1, <1>2, <1>3, <1>4, OthersHearNothing

(* Presence and raid context are modelled next to a polling half that does *)
(* what Broadcast says and no more: the same that PollingCollector is      *)
(* shown to implement, so that the two modules speak of one coordinator    *)
(* (_save, _chat_polling, _invalidate_clock).                              *)
THEOREM PresenceRefinesBroadcast == Spec => PresenceHears
<1>1. Init => Heard!Init
  BY DEF Init, Heard!Init
<1>2. QED BY <1>1, HeardStep, PTL DEF Spec, PresenceHears, Heard!Spec

(* Whenever presence hears that the broadcast is live there is one to take *)
(* a snapshot of: it follows from Broadcast alone                          *)
(* (_begin_presence_if_due).                                               *)
THEOREM LiveIsTracked == Spec => []Heard!Known
<1>1. Heard!Init => Heard!Known
  BY DEF Heard!Init, Heard!Known
<1>2. Heard!Known /\ [Heard!Next]_(Heard!told) => (Heard!Known)'
  BY DEF Heard!Known, Heard!Next, Heard!told, Heard!Gap, Heard!Doubt, Heard!Saved
<1>3. QED BY <1>1, <1>2, PresenceRefinesBroadcast, PTL DEF PresenceHears, Heard!Spec

-----------------------------------------------------------------------------
(* The way to the end once a stop has been asked for.                      *)

(* Every piece but the end has something after it.                         *)
LEMMA EndIsLast ==
    ASSUME at \in Labels PROVE Remaining(at) \in 0..10 /\ (at # "ended" => Remaining(at) > 0)
BY DEF Labels, Remaining

(* The piece after an answer is taken.                                     *)
LEMMA TakenGoesOn ==
    ASSUME NEW l \in {"advance", "last"}, TakeAnswer(l) PROVE at = l /\ at' \in {After(l), "ended"}
<1> USE DEF Goto, Die, Refuse, At
<1>1. CASE PresenceIgnored(l) \/ PresenceFatal(l) \/ PresenceNext(l)
  BY <1>1 DEF PresenceIgnored, PresenceFatal, PresenceNext, TookPresence, Answered
<1>2. CASE PresenceVoid(l) \/ PresenceFailed(l) \/ PresenceCut(l) \/ PresenceComplete(l)
  BY <1>2 DEF PresenceVoid, PresenceFailed, PresenceCut, PresenceComplete, TookPresence, Answered,
              FinalizePresence
<1>3. CASE RaidFatal(l) \/ RaidRetried(l) \/ RaidSettled(l)
  BY <1>3 DEF RaidFatal, RaidRetried, RaidSettled, TookRaid, Answered, FinalizeContext,
              Early
<1>4. QED BY <1>1, <1>2, <1>3 DEF TakeAnswer

(* A piece that is reached after the stop is nearer the end.               *)
LEMMA StoppedGoesOn ==
    ASSUME TypeOK, [Next]_vars, stop, at' # at PROVE Remaining(at') < Remaining(at)
<1> USE DEF At, Goto, Die, Refuse
<1>1. CASE at' = "ended"
  <2>1. Remaining(at') = 0 /\ at \in Labels
    BY <1>1 DEF Remaining, TypeOK
  <2>2. QED BY <1>1, <2>1, EndIsLast
<1>2. CASE Environment \/ AuxAnswers \/ UNCHANGED vars
  <2>1. at' = "ended" \/ (at = "pump" /\ at' = "advance")
    BY <1>2 DEF Environment, Gap, PresenceExpires, RetryExpires, ClockFails, AskStop, StorageFails,
                RaidStored, RaidFails, Receiving, AuxAnswers, vars, control
  <2>2. QED BY <1>1, <2>1 DEF Remaining
<1>3. CASE StartEnhanced
  BY <1>1, <1>3 DEF StartEnhanced, Remaining
<1>4. CASE \/ PollStopped \/ PollSilent \/ PollInDoubt \/ PollFatal
           \/ \E s \in Streams \cup {None}, staleBefore, staleAfter \in BOOLEAN :
                  PollSaved(s, staleBefore, staleAfter)
  <2>1. at = "poll" /\ at' = "finish"
    BY <1>4 DEF PollStopped, PollSilent, PollInDoubt, PollFatal, PollSaved
  <2>2. QED BY <2>1 DEF Remaining
<1>5. CASE PumpFails \/ Pumped
  <2>1. at' = "ended" \/ (at = "pump" /\ at' = "advance")
    BY <1>5 DEF PumpFails, Pumped, Receiving
  <2>2. QED BY <1>1, <2>1 DEF Remaining
<1>6. ASSUME NEW l \in {"advance", "last"}, TakeAnswer(l) \/ NoAnswer(l)
      PROVE  Remaining(at') < Remaining(at)
  <2>1. at = l /\ at' \in {After(l), "ended"}
    BY <1>6, TakenGoesOn DEF NoAnswer
  <2>2. QED BY <1>1, <2>1 DEF After, Remaining
<1>7. CASE CheckActive
  <2>1. at = "check" /\ at' \in {"begin", "ended"}
    BY <1>7 DEF CheckActive, FinalizePresence
  <2>2. QED BY <2>1 DEF Remaining
<1>8. CASE BeginPresence
  <2>1. at' = "ended"
    BY <1>8 DEF BeginPresence, control
  <2>2. QED BY <1>1, <2>1
<1>9. CASE AskPresence \/ AskRaid \/ AskNothing \/ LaneTaken
  <2>1. at = "begin" /\ at' = "poll"
    BY <1>9 DEF AskPresence, AskRaid, AskNothing, LaneTaken, Scheduling
  <2>2. QED BY <2>1 DEF Remaining
<1>10. CASE Finish \/ Interrupted \/ Close
  <2>1. \/ at = "finish" /\ at' = "last"
        \/ at = "interrupt" /\ at' = "close"
        \/ at' = "ended"
    BY <1>10 DEF Finish, Interrupted, Close
  <2>2. QED BY <1>1, <2>1 DEF Remaining
<1>11. CASE InterruptPresence \/ InterruptRaid
  <2>1. at' = "ended"
    BY <1>11 DEF InterruptPresence, InterruptRaid, FinalizePresence, FinalizeContext, Early
  <2>2. QED BY <1>1, <2>1
<1>12. QED BY <1>2, <1>3, <1>4, <1>5, <1>6, <1>7, <1>8, <1>9, <1>10, <1>11 DEF Next, Coordinator

(* And nothing is asked for on the way, nor queued but by a raid that is   *)
(* still received.                                                         *)
LEMMA StoppedAsksNothing ==
    ASSUME EnhancedInv, [Next]_vars, stop
    PROVE  /\ asked' = asked /\ (aux = Idle => aux' = Idle)
           /\ at' = at => Len(queue') <= Len(queue) \/ at = "pump"
<1> DEFINE Same == UNCHANGED <<asked, queue>> /\ (aux = Idle => aux' = Idle)
<1>0. queue \in Seq(Waits) /\ Len(queue) \in Nat
  BY DEF EnhancedInv, TypeOK
<1>1. Same => Len(queue') <= Len(queue)
  BY <1>0
<1>2. CASE UNCHANGED vars
  BY <1>1, <1>2 DEF vars, raiding, work
<1>3. CASE Mild
  BY <1>1, <1>3, MildKeeps
<1>4. CASE Settling /\ Running
  BY <1>1, <1>4, Settles, Nothing DEF Settlement, Reading
<1>5. CASE Gathering
  <2>1. ~AskPresence
    BY DEF AskPresence, LaneFree
  <2>2. QED BY <1>1, <1>5, <2>1 DEF Gathering, PresenceIgnored, PresenceFatal, PresenceNext,
               TookPresence, BeginPresence, raiding, work
<1>6. CASE AuxAnswers
  BY <1>1, <1>6, Nothing DEF AuxAnswers, raiding
<1>7. CASE RetryExpires
  <2>1. Len(queue') = Len(queue) /\ UNCHANGED <<asked, aux>>
    BY <1>0, <1>7 DEF RetryExpires, work
  <2>2. QED BY <1>0, <2>1
<1>8. CASE \E m \in Raids : RaidStored(m) \/ RaidFails(m)
  BY <1>8 DEF RaidStored, RaidFails, Receiving, At, work
<1>9. ASSUME NEW l \in {"advance", "last"}, RaidFatal(l) \/ RaidRetried(l) \/ RaidSettled(l)
      PROVE  /\ asked' = asked /\ (aux = Idle => aux' = Idle)
             /\ at' = at => Len(queue') <= Len(queue) \/ at = "pump"
  <2>1. asked' = asked /\ aux' = Idle
    BY <1>9 DEF RaidFatal, RaidRetried, RaidSettled, TookRaid
  <2>2. queue' = queue \/ at' # at
    BY <1>9, TakenGoesOn DEF RaidFatal, RaidRetried, RaidSettled, TakeAnswer, Goto, After
  <2>3. QED BY <1>0, <2>1, <2>2
<1>10. CASE AskRaid
  BY <1>10 DEF AskRaid, LaneFree
<1>11. CASE InterruptRaid
  <2>1. asked' = asked /\ aux' = aux /\ queue # << >> /\ queue' = Tail(queue)
    BY <1>11 DEF InterruptRaid, work
  <2>2. Len(queue') <= Len(queue)
    BY <1>0, <2>1
  <2>3. QED BY <2>1, <2>2
<1>12. Next => Running
  BY Moving
<1>13. QED BY <1>2, <1>3, <1>4, <1>5, <1>6, <1>7, <1>8, <1>9, <1>10, <1>11, <1>12, Steps
           DEF Raiding

(* After a stop the way is straight: no request, no poll, every piece      *)
(* nearer the end, and the open rows settled on the way (run,              *)
(* _advance_enhanced, _shutdown_enhanced).                                 *)
THEOREM CollectionStopsStraight == Spec => StopIsStraight
<1>1. EnhancedInv /\ [Next]_vars
        => [stop =>
              /\ asked' = asked /\ (aux = Idle => aux' = Idle)
              /\ IF at' = at THEN Len(queue') <= Len(queue) \/ at = "pump"
                 ELSE Remaining(at') < Remaining(at)]_vars
  BY StoppedAsksNothing, StoppedGoesOn DEF EnhancedInv
<1>2. QED BY <1>1, EnhancedIsInductive, PTL DEF Spec, StopIsStraight

-----------------------------------------------------------------------------
(* The attempt under way goes forward.                                     *)

(* The page an attempt is at, where it may be looked for.                  *)
LEMMA PageIs ==
    ASSUME EnhancedInv, Running, active # NoActive
    PROVE  /\ active \in Actives
           /\ active.page > 0 => Page = active.page
           /\ active.page = 0 => Page = aux.job.page /\ ReadingOurs
           /\ Page \in Nat
BY DEF EnhancedInv, TypeOK, Pages, Page, Actives

(* No step takes the attempt back.                                         *)
LEMMA PagesGoOn ==
    ASSUME EnhancedInv, Next, active # NoActive, active' # NoActive, exit' = "none"
    PROVE  /\ active'.snapshot = active.snapshot /\ active'.stream = active.stream
           /\ active'.generation = active.generation
           /\ active.members \subseteq active'.members /\ Page' >= Page
<1>0. Running
  BY Moving
<1>1. /\ active \in Actives /\ Page \in Nat
      /\ active.page > 0 => Page = active.page
      /\ active.page = 0 => Page = aux.job.page /\ ReadingOurs
  BY <1>0, PageIs
<1>2. CASE active' = active /\ (active.page = 0 => aux'.job = aux.job)
  <2>1. Page' = Page
    <3>1. CASE active.page > 0
      BY <1>2, <3>1 DEF Page
    <3>2. CASE ~(active.page > 0)
      <4>1. active.page = 0
        BY <1>1, <3>2 DEF Actives
      <4>2. QED BY <1>2, <3>2, <4>1 DEF Page
    <3>3. QED BY <3>1, <3>2
  <2>2. QED BY <1>1, <1>2, <2>1
<1>3. CASE Mild
  BY <1>2, <1>3, MildKeeps
<1>4. CASE Settling
  BY <1>0, <1>4, Settles DEF Settlement
<1>5. CASE Gathering
  <2>1. ASSUME NEW l \in {"advance", "last"}, PresenceIgnored(l) \/ PresenceFatal(l)
        PROVE  active' = active /\ active.page # 0
    BY <1>1, <2>1 DEF PresenceIgnored, PresenceFatal, TookPresence, Ours, ReadingOurs, taking, Die
  <2>2. ASSUME NEW l \in {"advance", "last"}, PresenceNext(l)
        PROVE  /\ active' = [active EXCEPT !.members = Gathered, !.page = aux.job.page + 1]
               /\ ReadingOurs /\ aux.job.page \in Nat
    <3>1. ReadingOurs
      BY <2>2, Nothing DEF PresenceNext, TookPresence, Answered, Ours, ReadingOurs, Reading
    <3>2. aux.job \in PresenceJobs
      BY <3>1, AuxTyped DEF ReadingOurs, Reading, EnhancedInv, TypeOK
    <3>3. QED BY <2>2, <3>1, <3>2 DEF PresenceNext, NextPage, PresenceJobs
  <2>3. ASSUME ReadingOurs PROVE active.page = 0
    BY <1>0, <2>3 DEF EnhancedInv, Pages
  <2>4. CASE \E l \in {"advance", "last"} : PresenceNext(l)
    <3>1. /\ active' = [active EXCEPT !.members = Gathered, !.page = aux.job.page + 1]
          /\ ReadingOurs /\ aux.job.page \in Nat /\ active.page = 0
      BY <2>2, <2>3, <2>4
    <3>2. /\ active'.page = aux.job.page + 1 /\ active'.members = Gathered
          /\ active'.snapshot = active.snapshot /\ active'.stream = active.stream
          /\ active'.generation = active.generation
      BY <1>1, <3>1 DEF Actives
    <3>3. Page' = aux.job.page + 1
      BY <3>1, <3>2 DEF Page
    <3>4. QED BY <1>1, <3>1, <3>2, <3>3 DEF Gathered
  <2>5. CASE AskPresence
    <3>1. /\ active.page > 0 /\ active' = [active EXCEPT !.page = 0]
          /\ aux'.job.page = active.page
      BY <2>5 DEF AskPresence, PresenceTurn, PageWaits
    <3>2. active'.page = 0
      BY <1>1, <3>1 DEF Actives
    <3>3. Page' = active.page
      BY <3>1, <3>2 DEF Page
    <3>4. QED BY <1>1, <3>1, <3>3 DEF Actives
  <2>6. ~BeginPresence
    BY DEF BeginPresence, PresenceDue
  <2>7. QED BY <1>2, <1>5, <2>1, <2>4, <2>5, <2>6 DEF Gathering
<1>6. CASE AuxAnswers
  <2>1. active' = active /\ aux'.job = aux.job
    BY <1>6 DEF AuxAnswers, taking
  <2>2. QED BY <1>2, <2>1
<1>7. CASE Raiding
  <2>1. active' = active
    BY <1>7 DEF Raiding, RetryExpires, RaidStored, RaidFails, RaidFatal, RaidRetried, RaidSettled,
       TookRaid, AskRaid, InterruptRaid, taking
  <2>2. aux' = aux \/ ~Reading
    BY <1>7 DEF Raiding, RetryExpires, RaidStored, RaidFails, RaidFatal, RaidRetried, RaidSettled,
       TookRaid, AskRaid, InterruptRaid, LaneFree, Reading, work
  <2>3. QED BY <1>1, <1>2, <2>1, <2>2 DEF ReadingOurs
<1>8. QED BY <1>3, <1>4, <1>5, <1>6, <1>7, Steps

(* A snapshot is taken page after page, of one stream in one generation:   *)
(* with MaxPages it is what SnapshotEnds needs besides a free lane         *)
(* (_handle_presence_result, EnhancedWorker).                              *)
THEOREM PagesOnlyAdvance == Spec => PagesAdvance
<1>1. EnhancedInv /\ [Next]_vars
        => [active # NoActive /\ active' # NoActive /\ exit' = "none" =>
              /\ active'.snapshot = active.snapshot /\ active'.stream = active.stream
              /\ active'.generation = active.generation
              /\ active.members \subseteq active'.members /\ Page' >= Page]_vars
  BY PagesGoOn
<1>2. QED BY <1>1, EnhancedIsInductive, PTL DEF Spec, PagesAdvance
=============================================================================
