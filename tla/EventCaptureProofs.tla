------------------------- MODULE EventCaptureProofs -------------------------
(***************************************************************************)
(* CaptureInv is inductive, for every set of sources and any number of     *)
(* outages; the safety properties of EventCapture and the refinement of    *)
(* GapLedger follow from it.                                               *)
(***************************************************************************)
EXTENDS EventCapture, TLAPS

(* The polling states and the health each one rests in.                    *)
LEMMA PollingStatesAre ==
    PollingStates = {"awaiting", "live", "offline", "failed", "stale"}
  BY DEF PollingStates, PollingHealth

(* Resting health is one of the resting reasons, and none of the reasons   *)
(* of an error, of the start or of the stop is one.                        *)
LEMMA RestingFacts ==
    /\ \A s \in Sources, p \in PollingStates : Resting(s, p) \in RestingReasons
    /\ RestingReasons \subseteq Reasons
    /\ RestingReasons \cap ({"none", "initializing", "invalid_notification",
          "subscription_revoked", "orderly_shutdown"} \cup LossReasons) = {}
    /\ {"none", "initializing", "invalid_notification",
          "subscription_revoked", "orderly_shutdown"} \cup LossReasons \subseteq Reasons
<1>1. RestingReasons = {"awaiting_stream_status", "capture_ready",
          "offline_observed", "poll_failed", "poll_stale"}
  BY PollingStatesAre DEF RestingReasons, PollingHealth
<1>2. \A p \in PollingStates : PollingHealth[p] \in RestingReasons
  BY DEF RestingReasons
<1>3. RestingReasons \subseteq Reasons
  BY DEF RestingReasons, Reasons
<1>4. \A s \in Sources, p \in PollingStates : Resting(s, p) \in RestingReasons
  BY <1>1, <1>2 DEF Resting
<1>5. QED BY <1>1, <1>3, <1>4 DEF Reasons, LossReasons

(* SetHealth pointwise, and the type of the rows it leaves.                *)
LEMMA SetHealthFacts ==
  ASSUME NEW set \in SUBSET Sources, NEW want \in [Sources -> Reasons],
         NEW before \in [Sources -> Reasons], NEW lost,
         SetHealth(set, want, before, lost)
  PROVE  /\ health' \in [Sources -> Reasons]
         /\ \A s \in set \ lost : health'[s] = want[s]
         /\ \A s \in Sources : s \notin set \ lost => health'[s] = before[s]
  BY DEF SetHealth

(* Resolving the open row keeps the ledger, and so does opening one.       *)
LEMMA ResolveKeepsLedger ==
  ASSUME gaps \in Seq({"open", "resolved"}), OneOpenGap, openGap # 0,
         gaps' = [gaps EXCEPT ![openGap] = "resolved"], openGap' = 0
  PROVE  gaps' \in Seq({"open", "resolved"}) /\ OneOpenGap'
<1>1. gaps' \in Seq({"open", "resolved"}) /\ Len(gaps') = Len(gaps)
  BY DEF OneOpenGap
<1>2. \A g \in 1..Len(gaps) : gaps'[g] = IF g = openGap THEN "resolved" ELSE gaps[g]
  BY DEF OneOpenGap
<1>3. QED BY <1>1, <1>2 DEF OneOpenGap

(* Opening a gap is a step of the ledger.                                  *)
LEMMA OpenKeepsLedger ==
  ASSUME gaps \in Seq({"open", "resolved"}), OneOpenGap, openGap = 0,
         gaps' = Append(gaps, "open"), openGap' = Len(gaps) + 1
  PROVE  gaps' \in Seq({"open", "resolved"}) /\ OneOpenGap'
<1>1. gaps' \in Seq({"open", "resolved"}) /\ Len(gaps') = Len(gaps) + 1
  OBVIOUS
<1>2. \A g \in 1..Len(gaps) : gaps'[g] = gaps[g]
  OBVIOUS
<1>3. gaps'[Len(gaps) + 1] = "open"
  OBVIOUS
<1>4. QED BY <1>1, <1>2, <1>3 DEF OneOpenGap

(* Begin's first row and nothing else: the initial state is sound.         *)
LEMMA InitInv == Init => CaptureInv
<1> SUFFICES ASSUME Init PROVE CaptureInv
  OBVIOUS
<1>1. TypeOK
  <2>1. health \in [Sources -> Reasons]
    BY RestingFacts DEF Init
  <2>2. gaps \in Seq({"open", "resolved"})
    BY DEF Init
  <2>3. polling \in PollingStates
    BY PollingStatesAre DEF Init
  <2>4. QED BY <2>1, <2>2, <2>3 DEF Init, TypeOK
<1>2. Agreement
  BY DEF Init, Agreement
<1>3. \A s \in Sources : health[s] \notin RestingReasons
  BY RestingFacts DEF Init
<1>4. Coverage
  BY <1>3 DEF Init, Coverage
<1>5. OneOpenGap
  BY DEF Init, OneOpenGap
<1>6. QED BY <1>1, <1>2, <1>4, <1>5 DEF CaptureInv

(* An observe keeps the ledger, or latches.                                *)
LEMMA ObserveKeepsLedger ==
  ASSUME TypeOK, OneOpenGap, NEW live, NEW r, NEW h, NEW bad, NEW lost, NEW gapLost,
         Observe(live, r, r, h, bad, lost, gapLost)
  PROVE  /\ gaps' \in Seq({"open", "resolved"})
         /\ OneOpenGap' \/ storageFailed'
<1>1. CASE openGap # 0 /\ live # {} /\ ~gapLost
  <2>1. gaps' = [gaps EXCEPT ![openGap] = "resolved"] /\ openGap' = 0
    BY <1>1 DEF Observe
  <2>2. QED BY <1>1, <2>1, ResolveKeepsLedger DEF TypeOK
<1>2. CASE openGap # 0 /\ live # {} /\ gapLost
  <2>1. gaps' = gaps /\ storageFailed'
    BY <1>2 DEF Observe
  <2>2. QED BY <2>1 DEF TypeOK
<1>3. CASE ~(openGap # 0 /\ live # {})
  <2>1. gaps' = gaps /\ openGap' = openGap
    BY <1>3 DEF Observe
  <2>2. OneOpenGap'
    BY <2>1 DEF OneOpenGap
  <2>3. QED BY <2>1, <2>2 DEF TypeOK
<1>4. QED BY <1>1, <1>2, <1>3

(* The other variables an observe changes.                                 *)
LEMMA ObserveTypes ==
  ASSUME TypeOK, NEW live \in SUBSET Sources, NEW r \in SUBSET Sources,
         NEW h \in [Sources -> Reasons], NEW bad, NEW lost, NEW gapLost,
         Observe(live, r, r, h, bad, lost, gapLost)
  PROVE  /\ ready' \in SUBSET Sources /\ up' = ready'
         /\ health' \in [Sources -> Reasons]
         /\ openGap' \in Nat
         /\ storageFailed' \in BOOLEAN
<1>1. ready' \in SUBSET Sources /\ up' = ready'
  BY DEF Observe
<1>2. health' \in [Sources -> Reasons]
  BY RestingFacts DEF Observe, SetHealth, TypeOK
<1>3. openGap' \in Nat
  BY DEF Observe, TypeOK
<1>4. storageFailed' = (lost # {} \/ gapLost)
  BY Zenon DEF Observe
<1>5. storageFailed' \in BOOLEAN
  BY Zenon, <1>4
<1>6. QED BY <1>1, <1>2, <1>3, <1>5

(* A step that ends in an observe keeps the coverage, if the dispatch left *)
(* ready sources subscribed and the rows true.                             *)
LEMMA ObserveKeepsCoverage ==
  ASSUME TypeOK, OneOpenGap,
         NEW live \in SUBSET Sources, NEW r \in SUBSET Sources,
         NEW h \in [Sources -> Reasons], NEW bad \in SUBSET Sources,
         NEW lost, NEW gapLost \in BOOLEAN,
         Observe(live, r, r, h, bad, lost, gapLost),
         polling' = polling, held' = bad, socket = "up", socket' = socket,
         revoked' \subseteq failed', revoked' \subseteq Sources,
         r \cup live \subseteq ids' \ failed', openGap # 0 => r = {},
         \A s \in revoked' : h[s] = "subscription_revoked",
         \A s \in Sources : h[s] \in RestingReasons =>
            s \in r \ bad /\ h[s] = Resting(s, polling)
  PROVE  ~storageFailed' => Coverage' /\ OneOpenGap'
<1> SUFFICES ASSUME ~storageFailed' PROVE Coverage' /\ OneOpenGap'
  OBVIOUS
<1>0. lost = {}
  <2>1. storageFailed' = (lost # {} \/ gapLost)
    BY Zenon DEF Observe
  <2>2. QED BY Zenon, <2>1
<1>1. /\ ready' = r \cup live
      /\ \A s \in (live \ r) \ bad : health'[s] = Resting(s, polling)
      /\ \A s \in Sources : s \notin (live \ r) \ bad => health'[s] = h[s]
      /\ openGap' = 0 \/ (openGap' = openGap /\ live = {})
      /\ OneOpenGap'
  <2>1. OneOpenGap'
    BY ObserveKeepsLedger
  <2>2. ready' = r \cup live /\ (openGap' = 0 \/ (openGap' = openGap /\ live = {}))
    BY DEF Observe
  <2>3. /\ \A s \in (live \ r) \ bad : health'[s] = Resting(s, polling)
        /\ \A s \in Sources : s \notin (live \ r) \ bad => health'[s] = h[s]
    BY <1>0 DEF Observe, SetHealth
  <2>4. QED BY <2>1, <2>2, <2>3
<1>2. ready' \subseteq ids' \ failed' /\ (openGap' # 0 => ready' = {})
  BY <1>1
<1>3. \A s \in revoked' : health'[s] = "subscription_revoked"
  BY <1>1
<1>4. ASSUME NEW s \in Sources, health'[s] \in RestingReasons
      PROVE  s \in ready' \ held' /\ health'[s] = Resting(s, polling)
  BY <1>1, <1>4
<1>5. \A s \in Sources : Resting(s, polling') = Resting(s, polling)
  OBVIOUS
<1>6. RestingReasons' = RestingReasons
  BY DEF RestingReasons
<1>7. Coverage'
  <2>1. \A s \in Sources : health'[s] \in RestingReasons =>
          s \in ready' \ held' /\ health'[s] = Resting(s, polling')
    BY <1>4, <1>5
  <2>2. QED BY <1>2, <1>3, <2>1 DEF Coverage, RestingReasons, Resting
<1>8. QED BY <1>1, <1>7

-----------------------------------------------------------------------------
(* The steps, one lemma for each group of actions that touch the same part *)
(* of the state.                                                           *)

(* Begin: the first rows are those of no source that is ready.             *)
LEMMA BeginKeeps ==
  ASSUME CaptureInv, NEW lost \in SUBSET Sources, Begin(lost)
  PROVE  CaptureInv'
<1>1. /\ health' \in [Sources -> Reasons]
      /\ lost = {} => \A s \in Sources : health'[s] = "initializing"
  BY RestingFacts DEF Begin, SetHealth, CaptureInv, TypeOK
<1>2. UNCHANGED <<session, ready, openGap, sinks, gaps, history>>
      /\ phase' = "running" /\ phase = "new"
      /\ storageFailed' \in BOOLEAN /\ (~storageFailed' => lost = {})
  BY DEF Begin
<1>3. TypeOK'
  BY <1>1, <1>2 DEF CaptureInv, TypeOK, session, sinks, history
<1>4. Agreement'
  BY <1>2 DEF CaptureInv, Agreement, session, sinks, history
<1>5. ASSUME Writable' PROVE Coverage' /\ OneOpenGap'
  <2>1. lost = {} /\ revoked = {} /\ ~storageFailed
    BY <1>2, <1>5 DEF Writable, CaptureInv, Agreement
  <2>2. Coverage /\ OneOpenGap
    BY <1>2, <2>1 DEF CaptureInv, Writable
  <2>3. OneOpenGap'
    BY <1>2, <2>2 DEF OneOpenGap
  <2>4. \A s \in Sources : health'[s] \notin RestingReasons'
    BY <1>1, <2>1, RestingFacts DEF RestingReasons
  <2>5. QED BY <1>2, <2>1, <2>2, <2>3, <2>4 DEF Coverage, session, sinks, history
<1>6. QED BY <1>3, <1>4, <1>5 DEF CaptureInv

(* The steps that end in an observe.                                       *)
LEMMA TickKeeps ==
  ASSUME CaptureInv, NEW lost, NEW gapLost \in BOOLEAN, Tick(lost, gapLost)
  PROVE  CaptureInv'
<1>1. /\ TypeOK /\ Agreement /\ Coverage /\ OneOpenGap /\ ready = up
      /\ socket = "up" /\ ready \in SUBSET Sources /\ health \in [Sources -> Reasons]
      /\ held \in SUBSET Sources
  BY DEF CaptureInv, Writable, Tick, CanStep, TypeOK, Agreement
<1>2. LiveNow \in SUBSET Sources /\ LiveNow \subseteq ids \ failed
  <2>1. LiveNow = {} \/ LiveNow = ids \ failed
    BY DEF LiveNow, Live
  <2>2. ids \in SUBSET Sources
    BY <1>1 DEF TypeOK
  <2>3. QED BY <2>1, <2>2
<1>3. Observe(LiveNow, ready, ready, health, held, lost, gapLost)
  BY <1>1 DEF Tick
<1>4. UNCHANGED <<phase, session, held, polling, history>>
  BY DEF Tick
<1>5. gaps' \in Seq({"open", "resolved"})
  BY <1>1, <1>3, ObserveKeepsLedger
<1>6. /\ ready' \in SUBSET Sources /\ up' = ready'
      /\ health' \in [Sources -> Reasons]
      /\ openGap' \in Nat /\ storageFailed' \in BOOLEAN
  BY <1>1, <1>2, <1>3, ObserveTypes
<1>7. TypeOK'
  BY <1>1, <1>4, <1>5, <1>6 DEF TypeOK, session, history
<1>8. Agreement'
  BY <1>1, <1>4, <1>6 DEF Agreement, session, history, Tick, CanStep
<1>9. /\ revoked' \subseteq failed' /\ revoked' \subseteq Sources /\ revoked' = revoked
      /\ ready \cup LiveNow \subseteq ids' \ failed'
      /\ polling' = polling /\ held' = held /\ socket' = socket
  BY <1>1, <1>2, <1>4 DEF session, history, Agreement, Coverage, TypeOK
<1>10. /\ openGap # 0 => ready = {}
       /\ \A s \in revoked' : health[s] = "subscription_revoked"
       /\ \A s \in Sources : health[s] \in RestingReasons =>
             s \in ready \ held /\ health[s] = Resting(s, polling)
  BY <1>1, <1>9 DEF Coverage
<1>11. ~storageFailed' => Coverage' /\ OneOpenGap'
  BY <1>1, <1>2, <1>3, <1>9, <1>10, ObserveKeepsCoverage
<1>12. QED BY <1>7, <1>8, <1>11 DEF CaptureInv, Writable

(* A keepalive keeps the invariant.                                        *)
LEMMA KeepaliveKeeps ==
  ASSUME CaptureInv, NEW lost, NEW gapLost \in BOOLEAN, Keepalive(lost, gapLost)
  PROVE  CaptureInv'
<1>1. /\ TypeOK /\ Agreement /\ Coverage /\ OneOpenGap /\ ready = up
      /\ socket = "up" /\ ready \in SUBSET Sources /\ health \in [Sources -> Reasons]
      /\ held \in SUBSET Sources /\ ids \ failed \in SUBSET Sources
  BY DEF CaptureInv, Writable, Keepalive, HasFrame, CanStep, TypeOK, Agreement
<1>2. Observe(ids \ failed, ready, ready, health, held, lost, gapLost)
  BY <1>1 DEF Keepalive
<1>3. /\ UNCHANGED <<phase, welcomed, socket, ids, failed, awaiting, handover,
                      held, polling, history>>
      /\ responsive' = TRUE /\ inGrace' = FALSE
  BY DEF Keepalive
<1>4. gaps' \in Seq({"open", "resolved"})
  BY <1>1, <1>2, ObserveKeepsLedger
<1>5. /\ ready' \in SUBSET Sources /\ up' = ready'
      /\ health' \in [Sources -> Reasons]
      /\ openGap' \in Nat /\ storageFailed' \in BOOLEAN
  BY <1>1, <1>2, ObserveTypes
<1>6. TypeOK'
  BY <1>1, <1>3, <1>4, <1>5 DEF TypeOK, history
<1>7. Agreement'
  BY <1>1, <1>3, <1>5 DEF Agreement, history, Keepalive, HasFrame, CanStep
<1>8. /\ revoked' \subseteq failed' /\ revoked' \subseteq Sources /\ revoked' = revoked
      /\ ready \cup (ids \ failed) \subseteq ids' \ failed'
      /\ polling' = polling /\ held' = held /\ socket' = socket
  BY <1>1, <1>3 DEF history, Agreement, Coverage, TypeOK
<1>9. /\ openGap # 0 => ready = {}
      /\ \A s \in revoked' : health[s] = "subscription_revoked"
      /\ \A s \in Sources : health[s] \in RestingReasons =>
            s \in ready \ held /\ health[s] = Resting(s, polling)
  BY <1>1, <1>8 DEF Coverage
<1>10. ~storageFailed' => Coverage' /\ OneOpenGap'
  BY <1>1, <1>2, <1>8, <1>9, ObserveKeepsCoverage
<1>11. QED BY <1>6, <1>7, <1>10 DEF CaptureInv, Writable

(* A notification keeps the invariant.                                     *)
LEMMA NotificationKeeps ==
  ASSUME CaptureInv, NEW s \in Sources, NEW submit, NEW drained \in BOOLEAN,
         NEW lost, NEW gapLost \in BOOLEAN,
         Notification(s, submit, drained, lost, gapLost)
  PROVE  CaptureInv'
<1> DEFINE live == IF drained THEN {} ELSE ids \ failed
           want == Wanted(s, submit)
           bad  == Held(s, submit)
<1>1. /\ TypeOK /\ Agreement /\ Coverage /\ OneOpenGap /\ ready = up
      /\ socket = "up" /\ ready \in SUBSET Sources /\ health \in [Sources -> Reasons]
      /\ held \in SUBSET Sources /\ live \in SUBSET Sources
      /\ live \subseteq ids \ failed /\ phase = "running"
  BY DEF CaptureInv, Writable, Notification, Delivers, HasFrame, CanStep, TypeOK, Agreement
<1>2. Observe(live, ready, ready, want, bad, lost, gapLost) /\ held' = bad
  BY <1>1 DEF Notification
<1>3. /\ UNCHANGED <<phase, welcomed, socket, ids, failed, awaiting, handover,
                      polling, history>>
      /\ responsive' = TRUE /\ inGrace' = FALSE
      /\ s \notin revoked
  BY DEF Notification, Delivers
<1>4. bad \in SUBSET Sources
  BY <1>1 DEF Held
<1>5. want \in [Sources -> Reasons]
  BY <1>1, RestingFacts DEF Wanted, TypeOK
<1>6. \A t \in revoked : want[t] = "subscription_revoked"
  BY <1>1, <1>3 DEF Wanted, Coverage, TypeOK
<1>7. \A t \in Sources : want[t] \in RestingReasons =>
          t \in ready \ bad /\ want[t] = Resting(t, polling)
  BY <1>1, RestingFacts DEF Wanted, Held, Coverage
<1>8. /\ ready' \in SUBSET Sources /\ up' = ready'
      /\ health' \in [Sources -> Reasons]
      /\ openGap' \in Nat /\ storageFailed' \in BOOLEAN
  BY <1>1, <1>2, <1>5, ObserveTypes
<1>9. gaps' \in Seq({"open", "resolved"})
  BY <1>1, <1>2, ObserveKeepsLedger
<1> HIDE DEF live, want, bad
<1>10. TypeOK'
  BY <1>1, <1>2, <1>3, <1>4, <1>8, <1>9 DEF TypeOK, history
<1>11. Agreement'
  BY <1>1, <1>3, <1>8 DEF Agreement, history
<1>12. /\ revoked' \subseteq failed' /\ revoked' \subseteq Sources /\ revoked' = revoked
       /\ ready \cup live \subseteq ids' \ failed'
       /\ polling' = polling /\ socket' = socket
  BY <1>1, <1>3 DEF history, Agreement, Coverage, TypeOK
<1>13. openGap # 0 => ready = {}
  BY <1>1 DEF Coverage
<1>14. \A t \in revoked' : want[t] = "subscription_revoked"
  BY <1>6, <1>12
<1>15. ~storageFailed' => Coverage' /\ OneOpenGap'
  BY <1>1, <1>2, <1>4, <1>5, <1>7, <1>12, <1>13, <1>14, ObserveKeepsCoverage
<1>16. QED BY <1>10, <1>11, <1>15 DEF CaptureInv, Writable

(* A revocation takes the source out of what is ready before the observe.  *)
LEMMA RevocationKeeps ==
  ASSUME CaptureInv, NEW s \in Sources, NEW drained \in BOOLEAN,
         NEW lost, NEW gapLost \in BOOLEAN, Revocation(s, drained, lost, gapLost)
  PROVE  CaptureInv'
<1> DEFINE live == IF drained THEN {} ELSE Live(responsive, inGrace, ids, failed \cup {s})
           r    == ready \ {s}
           want == [health EXCEPT ![s] = "subscription_revoked"]
<1>1. /\ TypeOK /\ Agreement /\ Coverage /\ OneOpenGap /\ ready = up
      /\ socket = "up" /\ health \in [Sources -> Reasons] /\ phase = "running"
      /\ held \in SUBSET Sources /\ r \in SUBSET Sources
  BY DEF CaptureInv, Writable, Revocation, Revoked, HasFrame, CanStep, TypeOK, Agreement
<1>2. live \in SUBSET Sources /\ live \subseteq ids \ (failed \cup {s})
  <2>1. live = {} \/ live = ids \ (failed \cup {s})
    BY DEF Live
  <2>2. QED BY <1>1, <2>1 DEF TypeOK
<1>3. Observe(live, r, r, want, held, lost, gapLost)
  BY <1>1 DEF Revocation
<1>4. /\ UNCHANGED <<phase, welcomed, socket, responsive, inGrace, ids, awaiting,
                      handover, held, polling, fatal, closed>>
      /\ failed' = failed \cup {s} /\ revoked' = revoked \cup {s}
  <2>1. Revoked(s)
    BY DEF Revocation
  <2>2. polling' = polling
    BY DEF Revocation, Revoked
  <2>3. QED BY <2>1, <2>2 DEF Revoked
<1>5. want \in [Sources -> Reasons]
  BY <1>1, RestingFacts
<1>6. \A t \in revoked' : want[t] = "subscription_revoked"
  BY <1>1, <1>4 DEF Coverage, TypeOK
<1>7. \A t \in Sources : want[t] \in RestingReasons =>
          t \in r \ held /\ want[t] = Resting(t, polling)
  BY <1>1, RestingFacts DEF Coverage
<1>8. openGap # 0 => r = {}
  BY <1>1 DEF Coverage
<1>9. ready \subseteq ids \ failed
  BY <1>1 DEF Coverage
<1> HIDE DEF live, want
<1>10. /\ ready' \in SUBSET Sources /\ up' = ready'
       /\ health' \in [Sources -> Reasons]
       /\ openGap' \in Nat /\ storageFailed' \in BOOLEAN
  BY <1>1, <1>2, <1>3, <1>5, ObserveTypes
<1>11. gaps' \in Seq({"open", "resolved"})
  BY <1>1, <1>3, ObserveKeepsLedger
<1>12. TypeOK'
  BY <1>1, <1>4, <1>10, <1>11 DEF TypeOK
<1>13. Agreement'
  BY <1>1, <1>4, <1>10 DEF Agreement
<1>14. /\ revoked' \subseteq failed' /\ revoked' \subseteq Sources
       /\ r \cup live \subseteq ids' \ failed'
       /\ polling' = polling /\ held' = held /\ socket' = socket
  BY <1>1, <1>2, <1>4, <1>9 DEF Agreement, TypeOK
<1> HIDE DEF r
<1>15. ~storageFailed' => Coverage' /\ OneOpenGap'
  BY <1>1, <1>2, <1>3, <1>5, <1>6, <1>7, <1>8, <1>14, ObserveKeepsCoverage
<1>16. QED BY <1>12, <1>13, <1>15 DEF CaptureInv, Writable

(* The frames whose write is lost close the latch; what is left to keep is *)
(* the types and the agreement.                                            *)
LEMMA LostFrameKeeps ==
  ASSUME CaptureInv, NEW s \in Sources, NEW submit,
         RevocationLost(s) \/ NotificationLost(s, submit)
  PROVE  CaptureInv'
<1>1. CASE RevocationLost(s)
  <2>1. TypeOK'
    BY <1>1 DEF RevocationLost, Revoked, CaptureInv, TypeOK, rows
  <2>2. Agreement'
    BY <1>1 DEF RevocationLost, Revoked, HasFrame, CanStep, CaptureInv, Agreement
  <2>3. ~Writable'
    BY <1>1 DEF RevocationLost, Writable
  <2>4. QED BY <2>1, <2>2, <2>3 DEF CaptureInv
<1>2. CASE NotificationLost(s, submit)
  <2>1. held' \in SUBSET Sources
    BY <1>2 DEF NotificationLost, Held, CaptureInv, TypeOK
  <2>2. TypeOK'
    BY <1>2, <2>1 DEF NotificationLost, CaptureInv, TypeOK, rows, history
  <2>3. Agreement'
    BY <1>2 DEF NotificationLost, Delivers, HasFrame, CanStep, CaptureInv, Agreement, history
  <2>4. ~Writable'
    BY <1>2 DEF NotificationLost, Writable
  <2>5. QED BY <2>2, <2>3, <2>4 DEF CaptureInv
<1>3. QED BY <1>1, <1>2

(* Losing the transport: the ready sources, and no other, get the error    *)
(* row, and there is an open gap row unless its write was lost.            *)
LEMMA LoseKeeps ==
  ASSUME CaptureInv, NEW code \in LossReasons, NEW errors, NEW lost,
         NEW gapLost \in BOOLEAN, Lose(code, errors, lost, gapLost)
  PROVE  CaptureInv'
<1>1. /\ TypeOK /\ Agreement /\ Coverage /\ OneOpenGap /\ ready = up
      /\ phase = "running" /\ ~storageFailed
      /\ ready \in SUBSET Sources /\ health \in [Sources -> Reasons]
  BY DEF CaptureInv, Writable, Lose, CanStep, TypeOK, Agreement
<1>2. /\ UNCHANGED <<phase, welcomed, inGrace, held, polling, history>>
      /\ socket' = "down" /\ responsive' = FALSE /\ ids' = {}
      /\ failed' = failed \cup errors /\ awaiting' = {} /\ handover' = FALSE
      /\ errors \subseteq awaiting
  BY DEF Lose
<1>3. /\ ready' = {} /\ up' = {}
      /\ SetHealth(ready, [s \in Sources |-> code], health, lost)
      /\ gapLost => openGap = 0
      /\ IF openGap = 0 /\ ~gapLost
           THEN gaps' = Append(gaps, "open") /\ openGap' = Len(gaps) + 1
           ELSE UNCHANGED <<gaps, openGap>>
  BY <1>1 DEF Lose, TransportLost
<1>4. storageFailed' = (lost # {} \/ gapLost)
  BY Zenon DEF Lose, TransportLost
<1>5. storageFailed' \in BOOLEAN /\ (~storageFailed' => lost = {} /\ ~gapLost)
  BY Zenon, <1>4
<1>6. /\ gaps' \in Seq({"open", "resolved"}) /\ openGap' \in Nat
      /\ ~gapLost => OneOpenGap' /\ openGap' # 0
  <2>1. CASE openGap = 0 /\ ~gapLost
    <3>1. gaps' = Append(gaps, "open") /\ openGap' = Len(gaps) + 1
      BY <1>3, <2>1
    <3>2. gaps' \in Seq({"open", "resolved"}) /\ OneOpenGap'
      BY <1>1, <2>1, <3>1, OpenKeepsLedger DEF TypeOK
    <3>3. Len(gaps) \in Nat
      BY <1>1 DEF TypeOK
    <3>4. QED BY <3>1, <3>2, <3>3
  <2>2. CASE ~(openGap = 0 /\ ~gapLost)
    <3>1. UNCHANGED <<gaps, openGap>>
      BY <1>3, <2>2
    <3>2. QED BY <1>1, <2>2, <3>1 DEF TypeOK, OneOpenGap
  <2>3. QED BY <2>1, <2>2
<1>7. health' \in [Sources -> Reasons]
  BY <1>1, <1>3, RestingFacts DEF SetHealth
<1>8. TypeOK'
  BY <1>1, <1>2, <1>3, <1>5, <1>6, <1>7 DEF TypeOK, history
<1>9. Agreement'
  BY <1>1, <1>2, <1>3 DEF Agreement, history
<1>10. ASSUME ~storageFailed' PROVE Coverage' /\ OneOpenGap'
  <2>1. lost = {} /\ ~gapLost
    BY <1>5, <1>10
  <2>2. /\ \A s \in ready : health'[s] = code
        /\ \A s \in Sources : s \notin ready => health'[s] = health[s]
    BY <1>1, <1>3, <2>1 DEF SetHealth
  <2>3. \A s \in revoked' : health'[s] = "subscription_revoked"
    BY <1>1, <1>2, <2>2 DEF Coverage, Agreement, TypeOK, history
  <2>4. \A s \in Sources : health'[s] \notin RestingReasons
    BY <1>1, <2>2, RestingFacts DEF Coverage
  <2>5. RestingReasons' = RestingReasons
    BY DEF RestingReasons
  <2>6. Coverage'
    BY <1>2, <1>3, <1>6, <2>1, <2>3, <2>4, <2>5 DEF Coverage
  <2>7. QED BY <1>6, <2>1, <2>6
<1>11. QED BY <1>8, <1>9, <1>10 DEF CaptureInv, Writable

(* A step that writes nothing keeps the invariant if it keeps the types    *)
(* and the agreement, and leaves every ready source its subscription.      *)
LEMMA QuietKeeps ==
  ASSUME CaptureInv, UNCHANGED <<router, sinks, rows, revoked>>,
         TypeOK', Agreement', Writable' => Writable,
         Writable => ready \subseteq ids' \ failed',
         socket' = "down" => socket = "down"
  PROVE  CaptureInv'
<1> SUFFICES ASSUME Writable' PROVE Coverage' /\ OneOpenGap'
  BY DEF CaptureInv
<1>1. Writable /\ Coverage /\ OneOpenGap
  BY DEF CaptureInv
<1>2. OneOpenGap'
  BY <1>1 DEF OneOpenGap, router, rows
<1>3. RestingReasons' = RestingReasons /\ \A s \in Sources : Resting(s, polling') = Resting(s, polling)
  BY DEF RestingReasons, sinks
<1>4. Coverage'
  BY <1>1, <1>3 DEF Coverage, Resting, router, sinks, rows
<1>5. QED BY <1>2, <1>4

(* The connection steps that write nothing.  Reconnect drops the confirmed *)
(* subscriptions, which is sound because nothing is ready in an open gap.  *)
LEMMA ConnectionKeeps ==
  ASSUME CaptureInv, NEW s \in Sources, NEW ok \in BOOLEAN,
         \/ EnterGrace \/ Welcome \/ SetupResult(s, ok) \/ Reconnect
         \/ RequestHandover \/ Handover
  PROVE  CaptureInv'
<1>1. /\ TypeOK /\ Agreement /\ Coverage /\ Writable
      /\ ready \subseteq ids \ failed
      /\ socket = "down" => ready = {}
  BY DEF CaptureInv, Writable, EnterGrace, Welcome, SetupResult, Reconnect,
         RequestHandover, Handover, HasFrame, CanStep, Coverage
<1>2. UNCHANGED <<router, sinks, rows, revoked>> /\ phase' = phase
  BY DEF EnterGrace, Welcome, SetupResult, Reconnect, RequestHandover, Handover, history
<1>3. socket' = "down" => socket = "down"
  BY DEF EnterGrace, Welcome, SetupResult, Reconnect, RequestHandover, Handover
<1>4. TypeOK'
  <2>1. /\ {socket', socket} \subseteq {"up", "down"}
        /\ fatal' = fatal /\ closed' = closed
        /\ ids' \in SUBSET Sources /\ failed' \in SUBSET Sources
        /\ awaiting' \in SUBSET Sources
    BY <1>1 DEF TypeOK, EnterGrace, Welcome, SetupResult, Reconnect, RequestHandover,
           Handover, history
  <2>2. /\ welcomed' \in BOOLEAN /\ responsive' \in BOOLEAN
        /\ inGrace' \in BOOLEAN /\ handover' \in BOOLEAN
    BY <1>1 DEF TypeOK, EnterGrace, Welcome, SetupResult, Reconnect, RequestHandover,
           Handover
  <2>3. QED BY <1>1, <1>2, <2>1, <2>2 DEF TypeOK, router, sinks, rows
<1>5. Agreement' /\ ready \subseteq ids' \ failed'
  <2>1. CASE EnterGrace \/ RequestHandover \/ Handover
    BY <1>1, <2>1 DEF EnterGrace, RequestHandover, Handover, Agreement,
         router, sinks, history, HasFrame, CanStep
  <2>2. CASE Welcome
    BY <1>1, <2>2 DEF Welcome, CanStep, Agreement, router, sinks, history
  <2>3. CASE SetupResult(s, ok)
    BY <1>1, <2>3 DEF SetupResult, CanStep, Agreement, TypeOK, router, sinks, history
  <2>4. CASE Reconnect
    BY <1>1, <2>4 DEF Reconnect, CanStep, Agreement, router, sinks, history
  <2>5. QED BY <2>1, <2>2, <2>3, <2>4
<1>6. QED BY <1>1, <1>2, <1>3, <1>4, <1>5, QuietKeeps

(* A poll moves chat from one resting reason to another, and no other row. *)
LEMMA PollingKeeps ==
  ASSUME CaptureInv, NEW state \in PollingStates, NEW lost, Polling(state, lost)
  PROVE  CaptureInv'
<1> DEFINE resting == [s \in Sources |-> Resting(s, state)]
<1>1. /\ TypeOK /\ Agreement /\ ready = up /\ phase = "running"
      /\ health \in [Sources -> Reasons]
  BY DEF CaptureInv, Polling, TypeOK, Agreement
<1>2. /\ UNCHANGED <<session, router, up, held, gaps, history>> /\ polling' = state
      /\ SetHealth((ChatSources \cap up) \ held, resting, health, lost)
      /\ phase' = (IF lost # {} THEN "ended" ELSE phase)
  BY DEF Polling
<1>3. resting \in [Sources -> Reasons]
  BY RestingFacts
<1>4. health' \in [Sources -> Reasons]
  BY <1>1, <1>2, <1>3 DEF SetHealth
<1>5. TypeOK'
  BY <1>1, <1>2, <1>4 DEF TypeOK, session, router, history
<1>6. Agreement'
  BY <1>1, <1>2 DEF Agreement, session, router, history
<1>7. ASSUME Writable' PROVE Coverage' /\ OneOpenGap'
  <2>1. Writable /\ Coverage /\ OneOpenGap /\ lost = {}
    BY <1>1, <1>2, <1>7 DEF Writable, CaptureInv, router
  <2>2. /\ \A s \in (ChatSources \cap up) \ held : health'[s] = Resting(s, state)
        /\ \A s \in Sources : s \notin (ChatSources \cap up) \ held => health'[s] = health[s]
    BY <1>2, <2>1 DEF SetHealth, Sources
  <2>3. OneOpenGap'
    BY <1>2, <2>1 DEF OneOpenGap, router
  <2>4. \A s \in revoked' : health'[s] = "subscription_revoked"
    BY <1>1, <1>2, <2>1, <2>2 DEF Coverage, Agreement, TypeOK, history
  <2>5. ASSUME NEW s \in Sources, health'[s] \in RestingReasons
        PROVE  s \in ready \ held /\ health'[s] = Resting(s, state)
    <3>1. CASE s \in (ChatSources \cap up) \ held
      BY <1>1, <2>2, <3>1
    <3>2. CASE s \notin (ChatSources \cap up) \ held
      <4>1. s \in ready \ held /\ health'[s] = Resting(s, polling)
        BY <2>1, <2>2, <2>5, <3>2 DEF Coverage
      <4>2. s \notin ChatSources
        BY <1>1, <3>2, <4>1
      <4>3. QED BY <4>1, <4>2 DEF Resting
    <3>3. QED BY <3>1, <3>2
  <2>6. RestingReasons' = RestingReasons /\ ready' = ready /\ held' = held
    BY <1>2 DEF RestingReasons, router
  <2>7. \A s \in Sources : health'[s] \in RestingReasons' =>
            s \in ready' \ held' /\ health'[s] = Resting(s, polling')
    BY <1>2, <2>5, <2>6
  <2>8. Coverage'
    BY <1>2, <2>1, <2>4, <2>7 DEF Coverage, Resting, session, router
  <2>9. QED BY <2>3, <2>8
<1>8. QED BY <1>5, <1>6, <1>7 DEF CaptureInv

(* The steps that end the run leave well-typed rows behind, and after each *)
(* of them no row is written any more.                                     *)
LEMMA EndKeeps ==
  ASSUME CaptureInv, NEW lost \in SUBSET Sources, NEW confirmed \in BOOLEAN,
         \/ Fatal \/ StopRequired \/ HeartbeatFails \/ RouterUnstopped
         \/ CloseRun(confirmed) \/ RouterStop(lost) \/ MultiStop(lost)
  PROVE  CaptureInv'
<1>1. TypeOK /\ Agreement /\ health \in [Sources -> Reasons]
  BY DEF CaptureInv, TypeOK
<1>2. /\ phase' \in {"running", "fatal", "closing", "clean", "ended"}
      /\ phase # "new"
      /\ UNCHANGED <<session, ready, openGap, sinks, gaps, revoked>>
  BY <1>1 DEF Fatal, StopRequired, HeartbeatFails, RouterUnstopped, CloseRun, RouterStop,
         MultiStop, CanStep, router, rows, history, TypeOK
<1>3. storageFailed' \in BOOLEAN
  <2>1. storageFailed' = storageFailed \/ storageFailed' = TRUE \/ storageFailed' = (lost # {})
    BY Zenon DEF Fatal, StopRequired, HeartbeatFails, RouterUnstopped, CloseRun, RouterStop,
       MultiStop, router
  <2>2. storageFailed \in BOOLEAN
    BY <1>1 DEF TypeOK
  <2>3. QED BY Zenon, <2>1, <2>2
<1>4. health' \in [Sources -> Reasons]
  <2>1. CASE Fatal \/ StopRequired \/ HeartbeatFails \/ RouterUnstopped \/ CloseRun(confirmed)
    BY <1>1, <2>1 DEF Fatal, StopRequired, HeartbeatFails, RouterUnstopped, CloseRun, rows
  <2>2. CASE RouterStop(lost)
    BY <1>1, <2>2, RestingFacts DEF RouterStop, SetHealth
  <2>3. CASE MultiStop(lost)
    BY <1>1, <2>3, RestingFacts DEF MultiStop
  <2>4. QED BY <2>1, <2>2, <2>3
<1>5. fatal' \in BOOLEAN /\ closed' \in BOOLEAN
  <2>1. fatal' = fatal \/ fatal' = TRUE
    BY Zenon DEF Fatal, StopRequired, HeartbeatFails, RouterUnstopped, CloseRun, RouterStop,
       MultiStop, history
  <2>2. closed' = closed \/ closed' \in BOOLEAN \/ closed' = (lost = {})
    BY Zenon DEF Fatal, StopRequired, HeartbeatFails, RouterUnstopped, CloseRun, RouterStop,
       MultiStop, history
  <2>3. fatal \in BOOLEAN /\ closed \in BOOLEAN
    BY <1>1 DEF TypeOK
  <2>4. QED BY Zenon, <2>1, <2>2, <2>3
<1>6. TypeOK'
  BY <1>1, <1>2, <1>3, <1>4, <1>5 DEF TypeOK, session, sinks
<1>7. Agreement'
  BY <1>1, <1>2 DEF Agreement, session, sinks
<1>8. ~Writable'
  <2>1. CASE HeartbeatFails
    BY <2>1 DEF HeartbeatFails, Writable
  <2>2. CASE ~HeartbeatFails
    BY <1>2, <2>2 DEF Fatal, StopRequired, RouterUnstopped, CloseRun, RouterStop, MultiStop,
       Writable
  <2>3. QED BY <2>1, <2>2
<1>9. QED BY <1>6, <1>7, <1>8 DEF CaptureInv

(* Stuttering.                                                             *)
LEMMA StutterKeeps ==
  ASSUME CaptureInv, UNCHANGED vars
  PROVE  CaptureInv'
  BY DEF CaptureInv, TypeOK, Agreement, Writable, Coverage, OneOpenGap, Resting,
         RestingReasons, vars, session, router, sinks, rows, history

(* One step of the capture, whichever it is.                               *)
LEMMA NextKeeps == CaptureInv /\ [Next]_vars => CaptureInv'
<1> SUFFICES ASSUME CaptureInv, [Next]_vars PROVE CaptureInv'
  OBVIOUS
<1>1. CASE HeadOfStep
  BY <1>1, TickKeeps DEF HeadOfStep
<1>2. CASE Frame
  BY <1>2, KeepaliveKeeps, RevocationKeeps, NotificationKeeps, LostFrameKeeps DEF Frame
<1>3. CASE Connection
  <2>1. \E s : s \in Sources
    BY CaptureAssumption
  <2>2. QED BY <1>3, <2>1, ConnectionKeeps, LoseKeeps DEF Connection
<1>4. CASE Lifecycle
  <2>1. {} \in SUBSET Sources /\ TRUE \in BOOLEAN
    OBVIOUS
  <2>2. QED BY <1>4, <2>1, BeginKeeps, PollingKeeps, EndKeeps DEF Lifecycle
<1>5. QED BY <1>1, <1>2, <1>3, <1>4, StutterKeeps DEF Next

-----------------------------------------------------------------------------
(* The run's state is always sound: for any sources and any number of      *)
(* outages, every variable has its type, the router and the sinks agree on *)
(* what is ready, and while writes succeed the rows follow the session.    *)
THEOREM CaptureIsSound == Spec => []CaptureInv
  BY InitInv, NextKeeps, PTL DEF Spec

(* No good health row without a confirmed, unrevoked, gap-free source.     *)
THEOREM GoodHealthAlways == Spec => []GoodHealthIsCovered
<1>1. CaptureInv => GoodHealthIsCovered
  <2>1. ASSUME CaptureInv, Recording, NEW s \in Sources, health[s] \in RestingReasons
        PROVE  /\ s \in ids \ failed /\ s \notin held
               /\ socket = "up" /\ openGap = 0
               /\ health[s] = Resting(s, polling)
    <3>1. Coverage /\ socket \in {"up", "down"}
      BY <2>1 DEF CaptureInv, Writable, Recording, TypeOK
    <3>2. s \in ready \ held /\ health[s] = Resting(s, polling)
      BY <2>1, <3>1 DEF Coverage
    <3>3. QED BY <3>1, <3>2 DEF Coverage
  <2>2. QED BY <2>1 DEF GoodHealthIsCovered
<1>2. QED BY <1>1, CaptureIsSound, PTL

(* No outage without its open row, and one open row at most.               *)
THEOREM OutageAlwaysRecorded == Spec => []OutageIsRecorded
<1>1. CaptureInv => OutageIsRecorded
  BY DEF CaptureInv, OutageIsRecorded, Recording, Writable, Coverage, OneOpenGap
<1>2. QED BY <1>1, CaptureIsSound, PTL

(* A revoked source stays reported as revoked.                             *)
THEOREM RevocationAlwaysSticky == Spec => []RevocationIsSticky
<1>1. CaptureInv => RevocationIsSticky
  BY DEF CaptureInv, RevocationIsSticky, Recording, Writable, Coverage
<1>2. QED BY <1>1, CaptureIsSound, PTL

-----------------------------------------------------------------------------
(* The refinement of the gap ledger.                                       *)

(* An observe resolves the last row, which is open, or leaves the rows.    *)
LEMMA ObserveResolves ==
  ASSUME CaptureInv, Writable, NEW live, NEW r, NEW u, NEW h, NEW bad, NEW lost,
         NEW gapLost, Observe(live, r, u, h, bad, lost, gapLost)
  PROVE  Ledger!Resolve \/ gaps' = gaps
<1>1. /\ openGap \in Nat /\ gaps \in Seq({"open", "resolved"}) /\ Len(gaps) \in Nat
      /\ openGap \in 0..Len(gaps) /\ (openGap # 0 => openGap = Len(gaps))
      /\ \A g \in 1..Len(gaps) : gaps[g] = "open" <=> g = openGap
  BY DEF CaptureInv, TypeOK, OneOpenGap
<1>2. gaps' = gaps \/ (openGap # 0 /\ gaps' = [gaps EXCEPT ![openGap] = "resolved"])
  BY DEF Observe
<1>3. QED BY <1>1, <1>2 DEF Ledger!Resolve

(* A loss opens a row when every earlier one is resolved.                  *)
LEMMA LossOpens ==
  ASSUME CaptureInv, Writable, NEW code, NEW lost, NEW gapLost,
         TransportLost(code, lost, gapLost)
  PROVE  Ledger!Open \/ gaps' = gaps
<1>1. /\ gaps \in Seq({"open", "resolved"}) /\ Len(gaps) \in Nat
      /\ \A g \in 1..Len(gaps) : gaps[g] = "open" <=> g = openGap
  BY DEF CaptureInv, TypeOK, OneOpenGap
<1>2. gaps' = gaps \/ (openGap = 0 /\ gaps' = Append(gaps, "open"))
  BY DEF TransportLost
<1>3. ASSUME openGap = 0 PROVE \A g \in 1..Len(gaps) : gaps[g] = "resolved"
  <2>1. ASSUME NEW g \in 1..Len(gaps) PROVE gaps[g] \in {"open", "resolved"}
    BY <1>1, <2>1
  <2>2. QED BY <1>1, <1>3, <2>1
<1>4. QED BY <1>2, <1>3 DEF Ledger!Open

(* Every step of the capture is a step of the ledger, or none.             *)
LEMMA LedgerStep == CaptureInv /\ [Next]_vars => [Ledger!Next]_gaps
<1> SUFFICES ASSUME CaptureInv, [Next]_vars
             PROVE  Ledger!Open \/ Ledger!Resolve \/ gaps' = gaps
  BY DEF Ledger!Next
<1>1. CASE HeadOfStep
  <2>1. PICK lost \in SUBSET Sources, gapLost \in BOOLEAN : Tick(lost, gapLost)
    BY <1>1 DEF HeadOfStep
  <2>2. Writable /\ Observe(LiveNow, ready, up, health, held, lost, gapLost)
    BY <2>1 DEF Tick, CanStep, Writable
  <2>3. QED BY <2>2, ObserveResolves
<1>2. CASE Frame
  <2>1. Writable
    BY <1>2, ZenonT(60) DEF Frame, Keepalive, Revocation, Revoked, Notification,
           Delivers, RevocationLost, NotificationLost, HasFrame, CanStep, Writable
  <2>2. ASSUME NEW lost \in SUBSET Sources, NEW gapLost \in BOOLEAN,
               Keepalive(lost, gapLost)
        PROVE  Ledger!Resolve \/ gaps' = gaps
    <3>1. Observe(ids \ failed, ready, up, health, held, lost, gapLost)
      BY <2>2 DEF Keepalive
    <3>2. QED BY <2>1, <3>1, ObserveResolves
  <2>3. ASSUME NEW s \in Sources, NEW drained \in BOOLEAN,
               NEW lost \in SUBSET Sources, NEW gapLost \in BOOLEAN,
               Revocation(s, drained, lost, gapLost)
        PROVE  Ledger!Resolve \/ gaps' = gaps
    <3> DEFINE live == IF drained THEN {}
                         ELSE Live(responsive, inGrace, ids, failed \cup {s})
    <3>1. Observe(live, ready \ {s}, up \ {s},
                  [health EXCEPT ![s] = "subscription_revoked"], held, lost, gapLost)
      BY <2>3 DEF Revocation
    <3> HIDE DEF live
    <3>2. QED BY <2>1, <3>1, ObserveResolves
  <2>4. ASSUME NEW s \in Sources, NEW drained \in BOOLEAN, NEW submit,
               NEW lost \in SUBSET Sources, NEW gapLost \in BOOLEAN,
               Notification(s, submit, drained, lost, gapLost)
        PROVE  Ledger!Resolve \/ gaps' = gaps
    <3> DEFINE live == IF drained THEN {} ELSE ids \ failed
    <3>1. Observe(live, ready, up, Wanted(s, submit), held', lost, gapLost)
      BY <2>4 DEF Notification
    <3> HIDE DEF live
    <3>2. QED BY <2>1, <3>1, ObserveResolves
  <2>5. ASSUME NEW s \in Sources, NEW submit,
               RevocationLost(s) \/ NotificationLost(s, submit)
        PROVE  gaps' = gaps
    BY <2>5 DEF RevocationLost, NotificationLost, rows
  <2>6. QED BY <1>2, <2>2, <2>3, <2>4, <2>5 DEF Frame
<1>3. CASE Connection
  <2>1. ASSUME NEW code \in LossReasons, NEW errors \in SUBSET Sources,
               NEW lost \in SUBSET Sources, NEW gapLost \in BOOLEAN,
               Lose(code, errors, lost, gapLost)
        PROVE  Ledger!Open \/ gaps' = gaps
    <3>1. Writable /\ TransportLost(code, lost, gapLost)
      BY <2>1 DEF Lose, CanStep, Writable
    <3>2. QED BY <3>1, LossOpens
  <2>2. ASSUME NEW s \in Sources, NEW ok \in BOOLEAN,
               \/ EnterGrace \/ Welcome \/ SetupResult(s, ok) \/ Reconnect
               \/ RequestHandover \/ Handover
        PROVE  gaps' = gaps
    BY <2>2 DEF EnterGrace, Welcome, SetupResult, Reconnect, RequestHandover, Handover, rows
  <2>3. \E s : s \in Sources
    BY CaptureAssumption
  <2>4. QED BY <1>3, <2>1, <2>2, <2>3 DEF Connection
<1>4. CASE Lifecycle
  BY <1>4 DEF Lifecycle, Fatal, StopRequired, HeartbeatFails, RouterUnstopped, CloseRun,
     Begin, RouterStop, MultiStop, Polling, rows
<1>5. CASE UNCHANGED vars
  BY <1>5 DEF vars, rows
<1>6. QED BY <1>1, <1>2, <1>3, <1>4, <1>5 DEF Next

(* The run's rows are a ledger of consecutive outages: whatever the loop,  *)
(* the coordinator and the failing writes do, a gap row is only appended   *)
(* after every earlier one is resolved, and only the last is resolved.     *)
THEOREM GapsRefineLedger == Spec => GapsAreALedger
<1>1. Init => Ledger!Init
  BY DEF Init, Ledger!Init
<1>2. QED BY <1>1, LedgerStep, CaptureIsSound, PTL DEF Spec, GapsAreALedger, Ledger!Spec

-----------------------------------------------------------------------------
(* The session: what the capture assumes of the loop, SocketRecovery proves*)
(* of it, and what the capture itself does keeps the same promise.         *)

(* A frame, the head of a step, the coordinator or the end of the run: at  *)
(* most another source turns bad.                                          *)
LEMMA FrameKeepsSession ==
  ASSUME HeadOfStep \/ Frame \/ Lifecycle
  PROVE  UNCHANGED <<socket, ids>> /\ failed \subseteq failed'
<1>1. CASE HeadOfStep
  BY <1>1 DEF HeadOfStep, Tick, session
<1>2. CASE Frame
  BY <1>2, ZenonT(60) DEF Frame, Keepalive, Revocation, Revoked, Notification,
     RevocationLost, NotificationLost
<1>3. CASE Lifecycle
  BY <1>3 DEF Lifecycle, Fatal, StopRequired, HeartbeatFails, RouterUnstopped, CloseRun,
     Begin, RouterStop, MultiStop, Polling, session
<1>4. QED BY <1>1, <1>2, <1>3

(* An acknowledgement confirms nothing outside a session, nor a bad source.*)
LEMMA SetupKeepsSession ==
  ASSUME CaptureInv, NEW s \in Sources, NEW ok \in BOOLEAN, SetupResult(s, ok)
  PROVE  Sessions!News
<1>1. socket' = socket /\ failed \subseteq failed'
  BY DEF SetupResult
<1>2. socket = "up"
  BY DEF CaptureInv, Agreement, TypeOK, SetupResult
<1>3. ids \subseteq ids' /\ (ids' \ ids) \cap failed = {}
  BY DEF SetupResult
<1>4. QED BY <1>1, <1>2, <1>3 DEF Sessions!News

(* Every step of the capture is a step of the session ledger, or none.     *)
LEMMA SessionStep == CaptureInv /\ [Next]_vars => [Sessions!Next]_(Sessions!ledger)
<1> SUFFICES ASSUME CaptureInv, [Next]_vars
             PROVE  Sessions!News \/ Sessions!End \/ Sessions!Begin
  BY DEF Sessions!Next
<1>1. ASSUME UNCHANGED <<socket, ids>>, failed \subseteq failed' PROVE Sessions!News
  BY <1>1 DEF Sessions!News
<1>2. CASE HeadOfStep \/ Frame \/ Lifecycle
  BY <1>1, <1>2, FrameKeepsSession
<1>3. ASSUME NEW code, NEW errors \in SUBSET Sources, NEW lost, NEW gapLost,
             Lose(code, errors, lost, gapLost)
      PROVE  Sessions!News \/ Sessions!End
  <2>1. socket' = "down" /\ ids' = {} /\ failed \subseteq failed'
    BY <1>3 DEF Lose
  <2>2. CASE socket = "up"
    BY <2>1, <2>2 DEF Sessions!End
  <2>3. CASE socket = "down"
    <3>1. ids = {}
      BY <2>3 DEF CaptureInv, Agreement
    <3>2. QED BY <2>1, <2>3, <3>1 DEF Sessions!News
  <2>4. QED BY <2>2, <2>3 DEF CaptureInv, TypeOK
<1>4. CASE Reconnect
  BY <1>4 DEF Reconnect, Sessions!Begin
<1>5. CASE Welcome \/ EnterGrace \/ RequestHandover \/ Handover
  BY <1>1, <1>5 DEF Welcome, EnterGrace, RequestHandover, Handover
<1>6. CASE Connection
  BY <1>3, <1>4, <1>5, <1>6, SetupKeepsSession DEF Connection
<1>7. CASE UNCHANGED vars
  BY <1>1, <1>7 DEF vars, session
<1>8. QED BY <1>2, <1>6, <1>7 DEF Next

(* A lost socket takes every confirmation with it, only a new session      *)
(* confirms again, and neither a reconnect nor a late acknowledgement ever *)
(* confirms a source that was refused or revoked: the capture implements   *)
(* the session ledger that SocketRecovery implements.                      *)
THEOREM SessionsRefineLedger == Spec => SessionsAreALedger
<1>1. Init => Sessions!Init
  BY DEF Init, Sessions!Init
<1>2. QED BY <1>1, SessionStep, CaptureIsSound, PTL
          DEF Spec, SessionsAreALedger, Sessions!Spec

-----------------------------------------------------------------------------
(* How a run is closed.                                                    *)

(* While the loop runs no source is told of a stop and the run is open; and*)
(* once the stop is over, a latch that is still open vouches for its rows: *)
(* all of them are written, or an exception kept it from writing any.      *)
CloseInv ==
    /\ phase \in {"new", "running"} => ~fatal
    /\ phase \in {"new", "running", "fatal"} => ~closed /\ Told = {}
    /\ phase = "closing" =>
          ~closed /\ (storageFailed \/ Told = Sources \/ (fatal /\ Told = {}))
    /\ CloseFollowsStops

(* What is told is in the health rows, source by source.                   *)
LEMMA ToldFacts ==
    /\ Told = {} <=> \A s \in Sources : health[s] # "orderly_shutdown"
    /\ Told = Sources <=> \A s \in Sources : health[s] = "orderly_shutdown"
  BY DEF Told

(* Rows that tell of no stop, replaced by such rows, tell of none.         *)
LEMMA UntoldKept ==
  ASSUME NEW set, NEW want, NEW before, NEW lost, SetHealth(set, want, before, lost),
         \A s \in set \cap Sources : want[s] # "orderly_shutdown",
         \A s \in Sources : before[s] # "orderly_shutdown"
  PROVE  \A s \in Sources : health'[s] # "orderly_shutdown"
  BY DEF SetHealth

(* Where polling and capture put a source is never a stop.                 *)
LEMMA RestingTellsNothing ==
    \A s \in Sources, p \in PollingStates :
        Resting(s, p) # "orderly_shutdown" /\ "orderly_shutdown" \notin LossReasons
  BY RestingFacts DEF LossReasons

(* An observe tells no source of a stop.                                   *)
LEMMA ObserveTellsNothing ==
  ASSUME TypeOK, NEW live, NEW r, NEW u, NEW h, NEW bad, NEW lost, NEW gapLost,
         live \subseteq Sources, Observe(live, r, u, h, bad, lost, gapLost),
         \A s \in Sources : h[s] # "orderly_shutdown"
  PROVE  \A s \in Sources : health'[s] # "orderly_shutdown"
<1> DEFINE want == [s \in Sources |-> Resting(s, polling)]
<1>1. SetHealth((live \ r) \ bad, want, h, lost)
  BY DEF Observe
<1>2. \A s \in Sources : want[s] # "orderly_shutdown"
  BY RestingTellsNothing DEF TypeOK
<1> HIDE DEF want
<1>3. QED BY <1>1, <1>2, UntoldKept

(* Nor does the head of a step or a frame.                                 *)
LEMMA FramesTellNothing ==
  ASSUME CaptureInv, HeadOfStep \/ Frame, \A s \in Sources : health[s] # "orderly_shutdown"
  PROVE  \A s \in Sources : health'[s] # "orderly_shutdown"
<1> TypeOK /\ ids \ failed \subseteq Sources /\ health \in [Sources -> Reasons]
  BY DEF CaptureInv, TypeOK
<1>1. ASSUME NEW lost, NEW gapLost, Tick(lost, gapLost)
      PROVE  \A s \in Sources : health'[s] # "orderly_shutdown"
  BY <1>1, ObserveTellsNothing DEF Tick, LiveNow, Live
<1>2. ASSUME NEW lost, NEW gapLost, Keepalive(lost, gapLost)
      PROVE  \A s \in Sources : health'[s] # "orderly_shutdown"
  <2>1. Observe(ids \ failed, ready, up, health, held, lost, gapLost)
    BY <1>2 DEF Keepalive
  <2>2. QED BY <2>1, ObserveTellsNothing
<1>3. ASSUME NEW t \in Sources, NEW drained, NEW lost, NEW gapLost,
             Revocation(t, drained, lost, gapLost)
      PROVE  \A s \in Sources : health'[s] # "orderly_shutdown"
  <2> DEFINE live == IF drained THEN {} ELSE Live(responsive, inGrace, ids, failed \cup {t})
             told == [health EXCEPT ![t] = "subscription_revoked"]
  <2>1. Observe(live, ready \ {t}, up \ {t}, told, held, lost, gapLost)
    BY <1>3 DEF Revocation
  <2>2. live \subseteq Sources /\ \A s \in Sources : told[s] # "orderly_shutdown"
    BY DEF Live, TypeOK
  <2> HIDE DEF live, told
  <2>3. QED BY <2>1, <2>2, ObserveTellsNothing
<1>4. ASSUME NEW t \in Sources, NEW submit, NEW drained, NEW lost, NEW gapLost,
             Notification(t, submit, drained, lost, gapLost)
      PROVE  \A s \in Sources : health'[s] # "orderly_shutdown"
  <2> DEFINE live == IF drained THEN {} ELSE ids \ failed
             told == Wanted(t, submit)
             bad  == Held(t, submit)
  <2>1. Observe(live, ready, up, told, bad, lost, gapLost)
    BY <1>4 DEF Notification
  <2>2. \A s \in Sources : told[s] # "orderly_shutdown"
    BY RestingTellsNothing DEF Wanted, TypeOK
  <2>3. live \subseteq Sources
    OBVIOUS
  <2> HIDE DEF live, told, bad
  <2>4. QED BY <2>1, <2>2, <2>3, ObserveTellsNothing
<1>5. ASSUME NEW t, NEW submit, RevocationLost(t) \/ NotificationLost(t, submit)
      PROVE  health' = health
  BY <1>5 DEF RevocationLost, NotificationLost, rows
<1>6. QED BY <1>1, <1>2, <1>3, <1>4, <1>5 DEF HeadOfStep, Frame

(* Nor does a step of the connection: a lost transport gives its own code. *)
LEMMA ConnectionTellsNothing ==
  ASSUME Connection, \A s \in Sources : health[s] # "orderly_shutdown"
  PROVE  \A s \in Sources : health'[s] # "orderly_shutdown"
<1>1. ASSUME NEW code \in LossReasons, NEW errors, NEW lost, NEW gapLost,
             Lose(code, errors, lost, gapLost)
      PROVE  \A s \in Sources : health'[s] # "orderly_shutdown"
  <2>1. SetHealth(ready, [s \in Sources |-> code], health, lost)
    BY <1>1 DEF Lose, TransportLost
  <2>2. \A s \in Sources : [t \in Sources |-> code][s] # "orderly_shutdown"
    BY DEF LossReasons
  <2>3. QED BY <2>1, <2>2, UntoldKept
<1>2. ASSUME NEW s \in Sources, NEW ok \in BOOLEAN,
             \/ EnterGrace \/ Welcome \/ SetupResult(s, ok) \/ Reconnect
             \/ RequestHandover \/ Handover
      PROVE  health' = health
  BY <1>2 DEF EnterGrace, Welcome, SetupResult, Reconnect, RequestHandover, Handover, rows
<1>3. \E s : s \in Sources
  BY CaptureAssumption
<1>4. QED BY <1>1, <1>2, <1>3 DEF Connection

(* The loop's own steps leave the run open and untold.                     *)
LEMMA LoopLeavesOpen ==
  ASSUME CaptureInv, CloseInv, HeadOfStep \/ Frame \/ Connection
  PROVE  CloseInv'
<1>1. phase = "running" /\ UNCHANGED <<phase, fatal, closed>>
  <2>1. CASE HeadOfStep
    BY <2>1 DEF HeadOfStep, Tick, CanStep, history
  <2>2. CASE Frame
    BY <2>2, ZenonT(60) DEF Frame, Keepalive, Revocation, Revoked, Notification,
       Delivers, RevocationLost, NotificationLost, HasFrame, CanStep, history
  <2>3. CASE Connection
    BY <2>3, ZenonT(60) DEF Connection, Welcome, EnterGrace, Reconnect, RequestHandover,
       Handover, SetupResult, Lose, HasFrame, CanStep, history
  <2>4. QED BY <2>1, <2>2, <2>3
<1>2. ~closed /\ \A s \in Sources : health[s] # "orderly_shutdown"
  BY <1>1, ToldFacts DEF CloseInv
<1>3. Told' = {}
  <2>1. \A s \in Sources : health'[s] # "orderly_shutdown"
    BY <1>2, FramesTellNothing, ConnectionTellsNothing
  <2>2. QED BY <2>1 DEF Told
<1>4. QED BY <1>1, <1>2, <1>3 DEF CloseInv, CloseFollowsStops

(* The start, a poll and every way the run can end.                        *)
LEMMA LifecycleCloses ==
  ASSUME CaptureInv, CloseInv, Lifecycle
  PROVE  CloseInv'
<1> TypeOK /\ health \in [Sources -> Reasons]
  BY DEF CaptureInv, TypeOK
<1>1. CASE Fatal \/ StopRequired \/ HeartbeatFails \/ RouterUnstopped
  <2>1. UNCHANGED <<health, closed>> /\ Told' = Told
    BY <1>1 DEF Fatal, StopRequired, HeartbeatFails, RouterUnstopped, rows, history, Told
  <2>2. CASE Fatal
    BY <2>1, <2>2 DEF Fatal, CanStep, CloseInv, CloseFollowsStops
  <2>3. CASE StopRequired
    BY <2>1, <2>3 DEF StopRequired, CloseInv, CloseFollowsStops
  <2>4. CASE HeartbeatFails
    BY <2>1, <2>4 DEF HeartbeatFails, CanStep, CloseInv, CloseFollowsStops, history
  <2>5. CASE RouterUnstopped
    BY <2>1, <2>5 DEF RouterUnstopped, CloseInv, CloseFollowsStops
  <2>6. QED BY <1>1, <2>2, <2>3, <2>4, <2>5
<1>2. ASSUME NEW confirmed \in BOOLEAN, CloseRun(confirmed) PROVE CloseInv'
  <2>1. /\ phase = "closing" /\ ~storageFailed /\ UNCHANGED <<health, fatal>>
        /\ phase' = IF confirmed /\ ~fatal THEN "clean" ELSE "ended"
        /\ confirmed => closed'
    BY <1>2 DEF CloseRun, rows
  <2>2. Told' = Told /\ (Told = Sources \/ (fatal /\ Told = {}))
    BY <2>1 DEF CloseInv, Told
  <2>3. QED BY <2>1, <2>2 DEF CloseInv, CloseFollowsStops
<1>3. ASSUME NEW lost \in SUBSET Sources, Begin(lost) PROVE CloseInv'
  <2> DEFINE first == [s \in Sources |-> "initializing"]
  <2>1. /\ SetHealth(Sources, first, health, lost) /\ closed' = closed
        /\ phase = "new" /\ phase' = "running" /\ fatal' = fatal
    BY <1>3 DEF Begin, history
  <2>2. \A s \in Sources : first[s] # "orderly_shutdown" /\ health[s] # "orderly_shutdown"
    BY <2>1, ToldFacts DEF CloseInv
  <2> HIDE DEF first
  <2>3. Told' = {}
    BY <2>1, <2>2, UntoldKept DEF Told
  <2>4. QED BY <2>1, <2>3 DEF CloseInv, CloseFollowsStops
<1>4. ASSUME NEW lost \in SUBSET Sources, NEW state \in PollingStates, Polling(state, lost)
      PROVE  CloseInv'
  <2> DEFINE resting == [s \in Sources |-> Resting(s, state)]
  <2>1. /\ SetHealth((ChatSources \cap up) \ held, resting, health, lost)
        /\ UNCHANGED <<fatal, closed>> /\ phase = "running" /\ phase' \in {"running", "ended"}
    BY <1>4 DEF Polling, history
  <2>2. \A s \in Sources : resting[s] # "orderly_shutdown" /\ health[s] # "orderly_shutdown"
    BY <2>1, ToldFacts, RestingTellsNothing DEF CloseInv
  <2> HIDE DEF resting
  <2>3. Told' = {}
    BY <2>1, <2>2, UntoldKept DEF Told
  <2>4. QED BY <2>1, <2>3 DEF CloseInv, CloseFollowsStops
<1>5. ASSUME NEW lost \in SUBSET Sources, RouterStop(lost) PROVE CloseInv'
  <2>1. /\ SetHealth(Sources, [s \in Sources |-> "orderly_shutdown"], health, lost)
        /\ phase \in {"running", "fatal"} /\ phase' = "closing" /\ closed' = closed
    BY <1>5 DEF RouterStop, history
  <2>2. storageFailed' \/ lost = {}
    <3>1. storageFailed' = (lost # {})
      BY Zenon, <1>5 DEF RouterStop
    <3>2. QED BY Zenon, <3>1
  <2>3. lost = {} => \A s \in Sources : health'[s] = "orderly_shutdown"
    BY <2>1 DEF SetHealth
  <2>4. lost = {} => Told' = Sources
    BY <2>3 DEF Told
  <2>5. QED BY <2>1, <2>2, <2>4 DEF CloseInv, CloseFollowsStops
<1>6. ASSUME NEW lost \in SUBSET Sources, MultiStop(lost) PROVE CloseInv'
  <2>1. /\ phase = "running" /\ fatal' = fatal
        /\ phase' = IF lost = {} THEN "clean" ELSE "ended"
        /\ lost = {} => \A s \in Sources : health'[s] = "orderly_shutdown"
    BY <1>6 DEF MultiStop, CanStep
  <2>2. closed' <=> lost = {}
    <3>1. closed' = (lost = {})
      BY Zenon, <1>6 DEF MultiStop
    <3>2. QED BY Zenon, <3>1
  <2>3. lost = {} => Told' = Sources
    BY <2>1 DEF Told
  <2>4. QED BY <2>1, <2>2, <2>3 DEF CloseInv, CloseFollowsStops
<1>7. QED BY <1>1, <1>2, <1>3, <1>4, <1>5, <1>6 DEF Lifecycle

(* A run that the database holds to be closed has told all of its sources, *)
(* or an exception kept it from telling any: a lost row of the stop, a lost*)
(* heartbeat or any lost write before them keeps the run open (collect,    *)
(* RecoveringProbe.run, PollingCollector._stop_run).                       *)
THEOREM CloseAlwaysFollows == Spec => []CloseFollowsStops
<1>1. Init => CloseInv
  BY DEF Init, CloseInv, CloseFollowsStops, Told
<1>2. CaptureInv /\ CloseInv /\ [Next]_vars => CloseInv'
  <2> SUFFICES ASSUME CaptureInv, CloseInv, [Next]_vars PROVE CloseInv'
    OBVIOUS
  <2>1. CASE UNCHANGED vars
    BY <2>1 DEF vars, router, rows, history, CloseInv, CloseFollowsStops, Told
  <2>2. QED BY <2>1, LoopLeavesOpen, LifecycleCloses DEF Next
<1>3. CloseInv => CloseFollowsStops
  BY DEF CloseInv
<1>4. QED BY <1>1, <1>2, <1>3, CaptureIsSound, PTL DEF Spec

(* Types.                                                                  *)
THEOREM CaptureIsTyped == Spec => []TypeOK
<1>1. CaptureInv => TypeOK
  BY DEF CaptureInv
<1>2. QED BY <1>1, CaptureIsSound, PTL

-----------------------------------------------------------------------------
(* What is ready is reported.                                              *)

(* Nothing is ready before the first rows.                                 *)
Fresh == phase = "new" => ready = {}

(* An observe reports what comes up, next to what the rows say already.    *)
LEMMA ObserveReports ==
  ASSUME NEW live \in SUBSET Sources, NEW r \in SUBSET Sources, NEW u, NEW h, NEW bad,
         NEW lost, NEW gapLost \in BOOLEAN, Observe(live, r, u, h, bad, lost, gapLost),
         polling' = polling, held' = bad, ~storageFailed',
         \A s \in r \ bad : h[s] = Resting(s, polling)
  PROVE  ready' = r \cup live /\ ReadyIsReported'
<1>1. lost = {}
  <2>1. storageFailed' = (lost # {} \/ gapLost)
    BY Zenon DEF Observe
  <2>2. QED BY Zenon, <2>1
<1>2. /\ ready' = r \cup live
      /\ \A s \in (live \ r) \ bad : health'[s] = Resting(s, polling)
      /\ \A s \in Sources : s \notin (live \ r) \ bad => health'[s] = h[s]
  BY <1>1 DEF Observe, SetHealth
<1>3. \A s \in ready' \ held' : health'[s] = Resting(s, polling)
  BY <1>2
<1>4. \A s : Resting(s, polling)' = Resting(s, polling)
  BY DEF Resting
<1>5. QED BY <1>2, <1>3, <1>4 DEF ReadyIsReported, Resting

(* A frame, or the head of a step.                                         *)
LEMMA FramesReport ==
  ASSUME CaptureInv, ReadyIsReported, HeadOfStep \/ Frame, Recording'
  PROVE  ReadyIsReported'
<1> ~storageFailed' /\ TypeOK /\ ready = up /\ ready \in SUBSET Sources
  BY DEF Recording, CaptureInv, Agreement, TypeOK
<1>1. Recording
  BY ZenonT(60) DEF HeadOfStep, Tick, Frame, Keepalive, Revocation, Revoked, Notification,
     Delivers, RevocationLost, NotificationLost, HasFrame, CanStep, Recording
<1>2. \A s \in ready \ held : health[s] = Resting(s, polling)
  BY <1>1 DEF ReadyIsReported
<1>3. ids \ failed \in SUBSET Sources /\ health \in [Sources -> Reasons]
  BY DEF TypeOK
<1>4. ASSUME NEW lost, NEW gapLost \in BOOLEAN, Tick(lost, gapLost) PROVE ReadyIsReported'
  <2>1. LiveNow \in SUBSET Sources
    BY <1>3 DEF LiveNow, Live
  <2>2. /\ Observe(LiveNow, ready, up, health, held, lost, gapLost)
        /\ polling' = polling /\ held' = held
    BY <1>4 DEF Tick
  <2>3. QED BY <1>2, <2>1, <2>2, ObserveReports
<1>5. ASSUME NEW lost, NEW gapLost \in BOOLEAN, Keepalive(lost, gapLost) PROVE ReadyIsReported'
  <2>1. /\ Observe(ids \ failed, ready, up, health, held, lost, gapLost)
        /\ polling' = polling /\ held' = held
    BY <1>5 DEF Keepalive
  <2>2. QED BY <1>2, <1>3, <2>1, ObserveReports
<1>6. ASSUME NEW s \in Sources, NEW drained \in BOOLEAN, NEW lost, NEW gapLost \in BOOLEAN,
             Revocation(s, drained, lost, gapLost)
      PROVE  ReadyIsReported'
  <2> DEFINE live == IF drained THEN {} ELSE Live(responsive, inGrace, ids, failed \cup {s})
             told == [health EXCEPT ![s] = "subscription_revoked"]
  <2>1. /\ Observe(live, ready \ {s}, up \ {s}, told, held, lost, gapLost)
        /\ polling' = polling /\ held' = held
    BY <1>6 DEF Revocation, Revoked
  <2>2. live \in SUBSET Sources
    BY DEF Live, TypeOK
  <2>3. \A t \in (ready \ {s}) \ held : told[t] = Resting(t, polling)
    BY <1>2, <1>3
  <2> HIDE DEF live, told
  <2>4. QED BY <2>1, <2>2, <2>3, ObserveReports
<1>7. ASSUME NEW s \in Sources, NEW submit \in Submits(s), NEW drained \in BOOLEAN, NEW lost,
             NEW gapLost \in BOOLEAN, Notification(s, submit, drained, lost, gapLost)
      PROVE  ReadyIsReported'
  <2> DEFINE live == IF drained THEN {} ELSE ids \ failed
             told == Wanted(s, submit)
             bad  == Held(s, submit)
  <2>1. /\ Observe(live, ready, up, told, bad, lost, gapLost)
        /\ polling' = polling /\ held' = bad
    BY <1>7 DEF Notification
  <2>2. live \in SUBSET Sources
    BY <1>3
  <2>3. \A t \in ready \ bad : told[t] = Resting(t, polling)
    BY <1>2, <1>3, <1>7 DEF Wanted, Held, Notification
  <2> HIDE DEF live, told, bad
  <2>4. QED BY <2>1, <2>2, <2>3, ObserveReports
<1>8. ASSUME NEW s \in Sources, NEW submit, RevocationLost(s) \/ NotificationLost(s, submit)
      PROVE  FALSE
  BY <1>8 DEF RevocationLost, NotificationLost
<1>9. QED BY <1>4, <1>5, <1>6, <1>7, <1>8 DEF HeadOfStep, Frame

(* The coordinator and the ends of the run.                                *)
LEMMA LifecycleReports ==
  ASSUME CaptureInv, Fresh, ReadyIsReported, Lifecycle, Recording'
  PROVE  ReadyIsReported'
<1>1. ~Fatal /\ ~StopRequired /\ ~HeartbeatFails /\ ~RouterUnstopped
  BY DEF Fatal, StopRequired, HeartbeatFails, RouterUnstopped, Recording
<1>2. ASSUME NEW lost, NEW confirmed, RouterStop(lost) \/ MultiStop(lost) \/ CloseRun(confirmed)
      PROVE  FALSE
  BY <1>2 DEF RouterStop, MultiStop, CloseRun, Recording
<1>3. ASSUME NEW lost, Begin(lost) PROVE ReadyIsReported'
  <2>1. ready' = {}
    BY <1>3 DEF Begin, Fresh
  <2>2. QED BY <2>1 DEF ReadyIsReported
<1>4. ASSUME NEW lost \in SUBSET Sources, NEW state \in PollingStates, Polling(state, lost)
      PROVE  ReadyIsReported'
  <2>1. /\ lost = {} /\ polling' = state
        /\ UNCHANGED <<ready, held, storageFailed>> /\ phase = "running"
    BY <1>4 DEF Polling, Recording, router
  <2>2. /\ Recording /\ ready = up /\ ready \subseteq Sources
        /\ health \in [Sources -> Reasons]
    BY <2>1 DEF Recording, CaptureInv, Agreement, TypeOK
  <2>3. \A s \in ready \ held : health[s] = Resting(s, polling)
    BY <2>2 DEF ReadyIsReported
  <2>4. \A s \in Sources :
            health'[s] = IF s \in (ChatSources \cap up) \ held THEN Resting(s, state) ELSE health[s]
    BY <1>4, <2>1 DEF Polling, SetHealth
  <2>5. \A s \in Sources \ ChatSources : Resting(s, state) = Resting(s, polling)
    BY DEF Resting
  <2>6. \A s \in ready \ held : health'[s] = Resting(s, state)
    BY <2>2, <2>3, <2>4, <2>5
  <2>7. QED BY <2>1, <2>6 DEF ReadyIsReported, Resting
<1>5. QED BY <1>1, <1>2, <1>3, <1>4 DEF Lifecycle

(* The sessions' own steps and losses.                                     *)
LEMMA ConnectionReports ==
  ASSUME ReadyIsReported, Connection, Recording'
  PROVE  ReadyIsReported'
<1>1. ASSUME NEW code, NEW errors, NEW lost, NEW gapLost, Lose(code, errors, lost, gapLost)
      PROVE  ReadyIsReported'
  <2>1. ready' = {}
    BY <1>1 DEF Lose, TransportLost
  <2>2. QED BY <2>1 DEF ReadyIsReported
<1>2. ASSUME NEW s \in Sources, NEW ok \in BOOLEAN,
             \/ EnterGrace \/ Welcome \/ SetupResult(s, ok) \/ Reconnect
             \/ RequestHandover \/ Handover
      PROVE  ReadyIsReported'
  <2>1. UNCHANGED <<phase, router, sinks, rows>>
    BY <1>2 DEF EnterGrace, Welcome, SetupResult, Reconnect, RequestHandover, Handover, router,
                sinks, rows
  <2>2. QED BY <2>1 DEF ReadyIsReported, Recording, Resting, router, sinks, rows
<1>3. \E s : s \in Sources
  BY CaptureAssumption
<1>4. QED BY <1>1, <1>2, <1>3 DEF Connection

(* Nothing gets ready before the run has begun.                            *)
LEMMA FreshKeeps == ASSUME Fresh, [Next]_vars PROVE Fresh'
<1>1. CASE HeadOfStep \/ Frame
  <2>1. phase' = "running"
    BY <1>1, ZenonT(60) DEF HeadOfStep, Tick, Frame, Keepalive, Revocation, Revoked, Notification,
       Delivers, RevocationLost, NotificationLost, HasFrame, CanStep
  <2>2. QED BY <2>1 DEF Fresh
<1>2. CASE Connection
  <2>1. phase' = "running"
    BY <1>2, ZenonT(60) DEF Connection, EnterGrace, Welcome, SetupResult, Reconnect,
       RequestHandover, Handover, Lose, HasFrame, CanStep
  <2>2. QED BY <2>1 DEF Fresh
<1>3. CASE Lifecycle
  <2>1. phase' # "new"
    BY <1>3 DEF Lifecycle, Fatal, StopRequired, HeartbeatFails, RouterUnstopped, CloseRun,
       Begin, RouterStop, MultiStop, Polling, CanStep
  <2>2. QED BY <2>1 DEF Fresh
<1>4. CASE UNCHANGED vars
  BY <1>4 DEF vars, router, Fresh
<1>5. QED BY <1>1, <1>2, <1>3, <1>4 DEF Next

(* Every step of a run that goes on recording reports what is ready.       *)
LEMMA ReportsKept ==
  ASSUME CaptureInv, Fresh, ReadyIsReported, [Next]_vars PROVE ReadyIsReported'
<1>1. CASE ~Recording'
  BY <1>1 DEF ReadyIsReported
<1>2. CASE Recording' /\ Next
  BY <1>2, FramesReport, ConnectionReports, LifecycleReports DEF Next
<1>3. CASE UNCHANGED vars
  BY <1>3 DEF vars, router, sinks, rows, ReadyIsReported, Recording, Resting
<1>4. QED BY <1>1, <1>2, <1>3

(* No edge is missed: a ready source without a held notification always    *)
(* reads as it should, whatever came between (EventRouter.observe,         *)
(* EventSink.submit, ChatSink._set_polling).                               *)
THEOREM ReadyAlwaysReported == Spec => []ReadyIsReported
<1>1. Init => Fresh /\ ReadyIsReported
  BY DEF Init, Fresh, ReadyIsReported
<1>2. CaptureInv /\ Fresh /\ ReadyIsReported /\ [Next]_vars => Fresh' /\ ReadyIsReported'
  BY FreshKeeps, ReportsKept
<1>3. QED BY <1>1, <1>2, CaptureIsSound, PTL DEF Spec

(* One step is enough: LiveIsReported needs no more than that the loop     *)
(* takes the head of its step again (EventRouter.observe).                 *)
THEOREM EachStepReports == Spec => StepReports
<1>1. ASSUME CaptureInv, (ReadyIsReported)', HeadOfStep, Recording',
             NEW s \in LiveNow \ held
      PROVE  health'[s] = Resting(s, polling)
  <2>1. PICK lost \in SUBSET Sources, gapLost \in BOOLEAN : Tick(lost, gapLost)
    BY <1>1 DEF HeadOfStep
  <2>2. s \in ready' \ held' /\ polling' = polling
    BY <2>1 DEF Tick, Observe
  <2>3. QED BY <1>1, <2>2 DEF ReadyIsReported, Resting
<1>2. CaptureInv /\ (ReadyIsReported)' /\ [Next]_vars
        => [HeadOfStep /\ Recording' =>
              \A s \in LiveNow \ held : health'[s] = Resting(s, polling)]_vars
  BY <1>1
<1>3. QED BY <1>2, CaptureIsSound, ReadyAlwaysReported, PTL DEF Spec, StepReports
=============================================================================
