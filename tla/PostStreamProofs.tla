-------------------------- MODULE PostStreamProofs --------------------------
(***************************************************************************)
(* PostInv is inductive for any number of commands and any history of the  *)
(* data, so that a packet follows its row whatever fails between two       *)
(* steps; and the rows keep ReviewLedger, which no lock protects.          *)
(***************************************************************************)
EXTENDS PostStream, TLAPS

-----------------------------------------------------------------------------
(* There is a first version.                                               *)
LEMMA FirstVersion == 1 \in Versions
<1>1. Len(History) \in Nat /\ Len(History) # 0
  BY PostAssumption
<1>2. QED BY <1>1 DEF Versions

(* The order of the statuses.                                              *)
LEMMA RankValues ==
    /\ Rank("none") = 0 /\ Rank("blocked") = 1 /\ Rank("refresh_pending") = 1
    /\ Rank("review_pending") = 2 /\ Rank("approved") = 3 /\ Rank("rejected") = 3
    /\ \A s \in Statuses : Rank(s) \in 0..3
BY DEF Rank, Decided, Statuses

(* A manifest that agrees with its row.                                    *)
LEMMA EntryTyped ==
    ASSUME NEW s \in Statuses
    PROVE  /\ Entry(s) \in Manifests /\ Entry(s) # None /\ Behind(Entry(s), s)
           /\ s \in {"review_pending"} \cup Decided => Entry(s).refreshed
<1> DEFINE X == {"review_pending"} \cup Decided
<1>1. Entry(s) \in Manifests /\ Entry(s).status = s
  BY DEF Entry, Manifests
<1>2. Entry(s) # None
  BY <1>1, PostAssumption
<1>3. Rank(Entry(s).status) <= Rank(s)
  BY <1>1, RankValues
<1>4. Entry(s).refreshed = (s \in X)
  BY DEF Entry
<1>5. s \in X => Rank(s) >= 2
  BY RankValues DEF Decided
<1>6. Behind(Entry(s), s)
  BY <1>3, <1>4, <1>5, Zenon DEF Behind
<1>7. s \in X => Entry(s).refreshed
  BY <1>4, Zenon
<1>8. QED BY <1>1, <1>2, <1>6, <1>7

(* A new analysis is blocked or waits for a refresh.                       *)
LEMMA FirstTyped ==
    ASSUME NEW u PROVE First(u) \in {"blocked", "refresh_pending"} /\ First(u) \in Statuses
BY DEF First, Statuses

(* Its manifest is behind any row there is.                                *)
LEMMA FirstBehind ==
    ASSUME NEW u, NEW s \in Statuses, s # "none"
    PROVE  Behind(Entry(First(u)), s)
<1>1. Rank(s) >= 1
  BY RankValues, s \in Statuses DEF Statuses, Decided
<1>2. Entry(First(u)).status = First(u) /\ ~Entry(First(u)).refreshed
  BY FirstTyped DEF Entry, Decided
<1>3. QED BY <1>1, <1>2, FirstTyped, RankValues DEF Behind

(* What a record command ends in.                                          *)
LEMMA OutcomeTyped ==
    ASSUME NEW word \in {"refresh", "approve", "reject"}
    PROVE  /\ Outcome(word) \in Statuses \ {"none", "blocked", "refresh_pending"}
           /\ word = "refresh" => Outcome(word) = "review_pending"
           /\ word # "refresh" => Outcome(word) \in Decided
           /\ Rank(Outcome(word)) = (IF word = "refresh" THEN 2 ELSE 3)
<1>1. word # "refresh" => Outcome(word) \in {"approved", "rejected"}
  BY DEF Outcome, Decisions
<1>2. word = "refresh" => Outcome(word) = "review_pending"
  BY DEF Outcome
<1>3. QED BY <1>1, <1>2, RankValues DEF Statuses, Decided

(* assess or prepare takes the lock, and has written nothing.              *)
LEMMA StartKeeps ==
    ASSUME PostInv, NEW c \in Commands, NEW word \in Verbs, Start(c, word)
    PROVE  PostInv'
<1>1. TypeOK'
  BY DEF PostInv, TypeOK, Preparing, Recording, Verbs, Start, Goto, packet
<1>2. Locking'
  BY PostAssumption DEF PostInv, TypeOK, Locking, Preparing, Recording, Start,
      Goto, packet
<1>3. Prepared'
  BY DEF PostInv, TypeOK, Locking, Prepared, Recording, Start, Goto, packet
<1>4. RecordingInv'
  BY DEF PostInv, TypeOK, RecordingInv, Recording, Verbs, Start, Goto, packet
<1>5. Alone'
  BY DEF PostInv, TypeOK, Alone, Locking, RecordingInv, Recording, Start,
      Goto, packet
<1>6. PacketFollowsRow'
  BY DEF PostInv, TypeOK, PacketFollowsRow, Prepared, Recording, Start, Goto,
      packet
<1>7. Fresh'
  BY DEF PostInv, TypeOK, Fresh, Start, Goto, packet
<1> QED BY <1>1, <1>2, <1>3, <1>4, <1>5, <1>6, <1>7 DEF PostInv

(* What it judges.                                                         *)
LEMMA ReadEvidenceKeeps ==
    ASSUME PostInv, NEW c \in Commands, ReadEvidence(c)
    PROVE  PostInv'
<1>1. TypeOK'
  BY DEF PostInv, TypeOK, Preparing, Recording, Verbs, ReadEvidence, Goto,
      packet
<1>2. Locking'
  BY DEF PostInv, TypeOK, Locking, Preparing, Recording, ReadEvidence, Goto,
      packet
<1>3. Prepared'
  BY DEF PostInv, TypeOK, Locking, Prepared, Recording, ReadEvidence, Goto,
      packet
<1>4. RecordingInv'
  BY DEF PostInv, TypeOK, RecordingInv, Recording, Verbs, ReadEvidence, Goto,
      packet
<1>5. Alone'
  BY DEF PostInv, TypeOK, Alone, Locking, RecordingInv, Recording,
      ReadEvidence, Goto, packet
<1>6. PacketFollowsRow'
  BY DEF PostInv, TypeOK, PacketFollowsRow, Prepared, Recording, ReadEvidence,
      Goto, packet
<1>7. Fresh'
  BY DEF PostInv, TypeOK, Fresh, ReadEvidence, Goto, packet
<1> QED BY <1>1, <1>2, <1>3, <1>4, <1>5, <1>6, <1>7 DEF PostInv

(* What it files the judgement under.                                      *)
LEMMA ReadFingerprintKeeps ==
    ASSUME PostInv, NEW c \in Commands, ReadFingerprint(c)
    PROVE  PostInv'
<1>1. TypeOK'
  BY DEF PostInv, TypeOK, Preparing, Recording, Verbs, ReadFingerprint, Goto,
      packet
<1>2. Locking'
  BY DEF PostInv, TypeOK, Locking, Preparing, Recording, ReadFingerprint,
      Goto, packet
<1>3. Prepared'
  BY DEF PostInv, TypeOK, Locking, Prepared, Recording, ReadFingerprint, Goto,
      packet
<1>4. RecordingInv'
  BY DEF PostInv, TypeOK, RecordingInv, Recording, Verbs, ReadFingerprint,
      Goto, packet
<1>5. Alone'
  BY DEF PostInv, TypeOK, Alone, Locking, RecordingInv, Recording,
      ReadFingerprint, Goto, packet
<1>6. PacketFollowsRow'
  BY DEF PostInv, TypeOK, PacketFollowsRow, Prepared, Recording,
      ReadFingerprint, Goto, packet
<1>7. Fresh'
  BY DEF PostInv, TypeOK, Fresh, ReadFingerprint, Goto, packet
<1> QED BY <1>1, <1>2, <1>3, <1>4, <1>5, <1>6, <1>7 DEF PostInv

(* With the lock, what it looks up stays as it found it.                   *)
LEMMA LookUpKeeps ==
    ASSUME PostInv, NEW c \in Commands, LookUp(c)
    PROVE  PostInv'
<1>1. TypeOK'
  BY DEF PostInv, TypeOK, Preparing, Recording, Verbs, LookUp, Goto, packet
<1>2. Locking'
  BY DEF PostInv, TypeOK, Locking, Preparing, Recording, LookUp, Goto, packet
<1>3. Prepared'
  BY DEF PostInv, TypeOK, Locking, Prepared, Recording, LookUp, Goto, packet
<1>4. RecordingInv'
  BY DEF PostInv, TypeOK, RecordingInv, Recording, Verbs, LookUp, Goto, packet
<1>5. Alone'
  BY DEF PostInv, TypeOK, Alone, Locking, RecordingInv, Recording, LookUp,
      Goto, packet
<1>6. PacketFollowsRow'
  BY DEF PostInv, TypeOK, PacketFollowsRow, Prepared, Recording, LookUp, Goto,
      packet
<1>7. Fresh'
  BY DEF PostInv, TypeOK, Fresh, LookUp, Goto, packet
<1> QED BY <1>1, <1>2, <1>3, <1>4, <1>5, <1>6, <1>7 DEF PostInv

(* A briefing more.                                                        *)
LEMMA WriteBriefingKeeps ==
    ASSUME PostInv, NEW c \in Commands, WriteBriefing(c)
    PROVE  PostInv'
<1>1. TypeOK'
  BY DEF PostInv, TypeOK, Preparing, Recording, Verbs, WriteBriefing, Goto
<1>2. Locking'
  BY DEF PostInv, TypeOK, Locking, Preparing, Recording, WriteBriefing, Goto
<1>3. Prepared'
  BY DEF PostInv, TypeOK, Locking, Prepared, Recording, WriteBriefing, Goto
<1>4. RecordingInv'
  BY DEF PostInv, TypeOK, RecordingInv, Recording, Verbs, WriteBriefing, Goto
<1>5. Alone'
  BY DEF PostInv, TypeOK, Alone, Locking, RecordingInv, Recording,
      WriteBriefing, Goto
<1>6. PacketFollowsRow'
  BY DEF PostInv, TypeOK, PacketFollowsRow, Prepared, Recording,
      WriteBriefing, Goto
<1>7. Fresh'
  BY DEF PostInv, TypeOK, Fresh, WriteBriefing, Goto
<1> QED BY <1>1, <1>2, <1>3, <1>4, <1>5, <1>6, <1>7 DEF PostInv

(* A record command that meets another one disturbs the analysis.          *)
LEMMA LoadKeeps ==
    ASSUME PostInv, NEW c \in Commands, NEW word \in Verbs, NEW v \in Versions, Load(c, word, v)
    PROVE  PostInv'
<1>1. TypeOK'
  BY DEF PostInv, TypeOK, Preparing, Recording, Verbs, Load, Goto, Disturb,
      packet, Eligible
<1>2. Locking'
  BY DEF PostInv, TypeOK, Locking, Preparing, Recording, Load, Goto, packet,
      Eligible
<1>3. Prepared'
  BY DEF PostInv, TypeOK, Locking, Prepared, Recording, Load, Goto, Disturb,
      packet, Eligible
<1>4. RecordingInv'
  BY RankValues DEF PostInv, TypeOK, RecordingInv, Recording, Verbs, Load,
      Goto, Disturb, packet, Eligible
<1>5. Alone'
  BY DEF PostInv, TypeOK, Alone, Locking, RecordingInv, Recording, Load, Goto,
      Disturb, packet, Eligible
<1>6. PacketFollowsRow'
  BY DEF PostInv, TypeOK, PacketFollowsRow, Prepared, Recording, Load, Goto,
      Disturb, packet, Eligible
<1>7. Fresh'
  BY DEF PostInv, TypeOK, Fresh, Load, Goto, packet, Eligible
<1> QED BY <1>1, <1>2, <1>3, <1>4, <1>5, <1>6, <1>7 DEF PostInv

(* Without a connection a command holds no lock.                           *)
LEMMA DisconnectKeeps ==
    ASSUME PostInv, NEW c \in Commands, Disconnect(c)
    PROVE  PostInv'
<1>1. TypeOK'
  BY DEF PostInv, TypeOK, Preparing, Recording, Verbs, Disconnect, Free,
      packet
<1>2. Locking'
  BY DEF PostInv, TypeOK, Locking, Preparing, Recording, Disconnect, Free,
      packet
<1>3. Prepared'
  BY DEF PostInv, TypeOK, Locking, Prepared, Recording, Disconnect, Free,
      packet
<1>4. RecordingInv'
  BY DEF PostInv, TypeOK, RecordingInv, Recording, Verbs, Disconnect, Free,
      packet
<1>5. Alone'
  BY DEF PostInv, TypeOK, Alone, Locking, RecordingInv, Recording, Disconnect,
      Free, packet
<1>6. PacketFollowsRow'
  BY DEF PostInv, TypeOK, PacketFollowsRow, Prepared, Recording, Disconnect,
      Free, packet
<1>7. Fresh'
  BY DEF PostInv, TypeOK, Fresh, Disconnect, Free, packet
<1> QED BY <1>1, <1>2, <1>3, <1>4, <1>5, <1>6, <1>7 DEF PostInv

(* A prepare without its connection may write over a manifest: it is       *)
(* disturbed then, and still behind its row.                               *)
LEMMA WriteManifestKeeps ==
    ASSUME PostInv, NEW c \in Commands, WriteManifest(c)
    PROVE  PostInv'
<1> DEFINE t == target[c]
           m == Entry(First(seen[c]))
<1>1. m \in Manifests /\ m # None /\ t \in Versions
  BY FirstTyped, EntryTyped DEF PostInv, TypeOK
<1>2. manifest' = [manifest EXCEPT ![t] = m] /\ UNCHANGED status
  BY DEF WriteManifest
<1>3. online[c] => status[t] = "none"
  BY DEF PostInv, Prepared, WriteManifest
<1>4. disturbed' = (IF ~online[c] THEN disturbed \cup {t} ELSE disturbed)
  BY DEF WriteManifest, Disturb
<1>5. TypeOK'
  BY <1>1, <1>2, <1>4 DEF PostInv, TypeOK, WriteManifest, Goto, Preparing
<1>6. Locking'
  BY DEF PostInv, TypeOK, Locking, WriteManifest, Goto, Preparing
<1>7. Prepared'
  BY <1>1, <1>2, <1>3, <1>4, FirstTyped DEF PostInv, TypeOK, Locking, Prepared,
     WriteManifest, Goto, Preparing
<1>8. RecordingInv'
  BY DEF PostInv, TypeOK, RecordingInv, WriteManifest, Goto, Recording
<1>9. Alone'
  <2> SUFFICES ASSUME NEW d \in Commands, at'[d] \in Recording,
                      target'[d] \notin disturbed'
               PROVE  /\ \A b \in Commands :
                            at'[b] \in Recording /\ target'[b] = target'[d] => b = d
                      /\ Eligible(verb'[d], status'[target'[d]]) \/ at'[d] = "back"
                      /\ at'[d] = "update" => copy'[d] = manifest'[target'[d]]
                      /\ at'[d] = "back" =>
                            /\ status'[target'[d]] = Outcome(verb'[d])
                            /\ verb'[d] # "refresh" => copy'[d].refreshed
    BY DEF Alone
  <2>1. d # c /\ at'[d] = at[d] /\ target' = target /\ target[d] \notin disturbed
    BY <1>4 DEF PostInv, TypeOK, WriteManifest, Goto, Recording
  <2>2. status[target[d]] # "none"
    BY <2>1, RankValues DEF PostInv, RecordingInv
  <2>3. target[d] # t
    BY <1>3, <1>4, <2>1, <2>2
  <2>4. manifest'[target[d]] = manifest[target[d]]
    BY <1>2, <2>1, <2>3 DEF PostInv, TypeOK
  <2>5. \A b \in Commands : at'[b] \in Recording => at[b] = at'[b]
    BY DEF PostInv, TypeOK, WriteManifest, Goto, Recording
  <2>6. QED BY <2>1, <2>4, <2>5 DEF PostInv, Alone, WriteManifest
<1>10. PacketFollowsRow'
  <2> SUFFICES ASSUME NEW v \in Versions, status'[v] # "none"
               PROVE  /\ manifest'[v] # None /\ Behind(manifest'[v], status'[v])
                      /\ status'[v] # "blocked" => v \in briefings'
                      /\ \/ v \in disturbed'
                         \/ \E d \in Commands : at'[d] = "back" /\ target'[d] = v
                         \/ manifest'[v] = Entry(status'[v])
    BY DEF PacketFollowsRow
  <2>1. status[v] # "none" /\ status[v] \in Statuses
    BY <1>2 DEF PostInv, TypeOK
  <2>2. CASE v = t
    <3>1. manifest'[v] = m /\ v \in disturbed'
      BY <1>2, <1>3, <1>4, <2>1, <2>2 DEF PostInv, TypeOK
    <3>2. QED BY <1>1, <1>2, <2>1, <3>1, FirstBehind DEF PostInv, PacketFollowsRow,
                 WriteManifest
  <2>3. CASE v # t
    <3>1. manifest'[v] = manifest[v] /\ disturbed \subseteq disturbed'
      BY <1>2, <1>4, <2>3 DEF PostInv, TypeOK
    <3>2. \A d \in Commands : at[d] = "back" => at'[d] = "back" /\ target'[d] = target[d]
      BY DEF PostInv, TypeOK, WriteManifest, Goto
    <3>3. QED BY <1>2, <2>1, <3>1, <3>2 DEF PostInv, PacketFollowsRow, WriteManifest
  <2>4. QED BY <2>2, <2>3
<1>11. Fresh'
  <2>1. Behind(m, "blocked")
    BY FirstBehind DEF Statuses
  <2>2. QED BY <1>1, <1>2, <2>1 DEF PostInv, TypeOK, Fresh
<1> QED BY <1>5, <1>6, <1>7, <1>8, <1>9, <1>10, <1>11 DEF PostInv

(* The row appears with its packet behind it.                              *)
LEMMA InsertKeeps ==
    ASSUME PostInv, NEW c \in Commands, Insert(c)
    PROVE  PostInv'
<1> DEFINE t == target[c]
<1>1. t \in Versions /\ status[t] = "none" /\ lock = c
  BY DEF PostInv, TypeOK, Locking, Prepared, Insert, Preparing
<1>2. status' = [status EXCEPT ![t] = First(seen[c])]
  BY <1>1 DEF Insert, PostInv, TypeOK
<1>3. First(seen[c]) \in {"blocked", "refresh_pending"}
  BY FirstTyped
<1>4. TypeOK'
  BY <1>1, <1>2, FirstTyped DEF PostInv, TypeOK, Insert, Goto, Preparing
<1>5. Locking'
  BY DEF PostInv, TypeOK, Locking, Insert, Goto, Preparing
<1>6. Prepared'
  BY <1>1, <1>2 DEF PostInv, TypeOK, Locking, Prepared, Insert, Goto, Preparing
<1>7. ASSUME NEW d \in Commands, at[d] \in Recording
      PROVE  target[d] # t
  BY <1>1, <1>7, RankValues DEF PostInv, RecordingInv
<1>8. \A d \in Commands : at'[d] \in Recording => at'[d] = at[d]
  BY DEF PostInv, TypeOK, Insert, Goto, Recording
<1>9. \A v \in Versions : v # t => status'[v] = status[v]
  BY <1>2 DEF PostInv, TypeOK
<1>10. RecordingInv'
  BY <1>7, <1>8, <1>9 DEF PostInv, TypeOK, RecordingInv, Insert
<1>11. Alone'
  BY <1>7, <1>8, <1>9 DEF PostInv, TypeOK, Alone, Insert
<1>12. PacketFollowsRow'
  <2> SUFFICES ASSUME NEW v \in Versions, status'[v] # "none"
               PROVE  /\ manifest'[v] # None /\ Behind(manifest'[v], status'[v])
                      /\ status'[v] # "blocked" => v \in briefings'
                      /\ \/ v \in disturbed'
                         \/ \E d \in Commands : at'[d] = "back" /\ target'[d] = v
                         \/ manifest'[v] = Entry(status'[v])
    BY DEF PacketFollowsRow
  <2>1. UNCHANGED <<manifest, briefings, disturbed, target>>
    BY DEF Insert
  <2>2. CASE v = t
    <3>1. status'[v] = First(seen[c])
      BY <1>2, <2>2 DEF PostInv, TypeOK
    <3>2. manifest[t] # None /\ Behind(manifest[t], "blocked")
      BY <1>1 DEF PostInv, Prepared, Fresh, Insert
    <3>3. Behind(manifest[t], First(seen[c]))
      BY <1>3, <3>2, RankValues DEF Behind
    <3>4. First(seen[c]) # "blocked" => t \in briefings
      BY DEF PostInv, Prepared, Insert
    <3>5. t \in disturbed \/ manifest[t] = Entry(First(seen[c]))
      BY DEF PostInv, Prepared, Insert
    <3>6. QED BY <2>1, <2>2, <3>1, <3>2, <3>3, <3>4, <3>5
  <2>3. CASE v # t
    <3>1. \A d \in Commands : at[d] = "back" => at'[d] = "back"
      BY DEF PostInv, TypeOK, Insert, Goto
    <3>2. QED BY <1>9, <2>1, <2>3, <3>1 DEF PostInv, PacketFollowsRow
  <2>4. QED BY <2>2, <2>3
<1>13. Fresh'
  BY <1>9, <1>2, <1>3 DEF PostInv, TypeOK, Fresh, Insert
<1> QED BY <1>4, <1>5, <1>6, <1>10, <1>11, <1>12, <1>13 DEF PostInv

(* What is read is behind the row.                                         *)
LEMMA ReadManifestKeeps ==
    ASSUME PostInv, NEW c \in Commands, ReadManifest(c)
    PROVE  PostInv'
<1> DEFINE t == target[c]
<1>1. t \in Versions /\ copy' = [copy EXCEPT ![c] = manifest[t]] /\ manifest[t] # None
  BY DEF PostInv, TypeOK, ReadManifest
<1>2. status[t] # "none" /\ Behind(manifest[t], status[t])
  BY <1>1, RankValues DEF PostInv, RecordingInv, PacketFollowsRow, ReadManifest, Recording
<1>3. TypeOK' /\ Locking'
  BY <1>1 DEF PostInv, TypeOK, Locking, ReadManifest, Goto, packet, Preparing, Recording
<1>4. Prepared'
  BY DEF PostInv, TypeOK, Prepared, ReadManifest, Goto, packet
<1>5. RecordingInv'
  <2> SUFFICES ASSUME NEW d \in Commands, at'[d] \in Recording
               PROVE  /\ verb[d] \in {"refresh", "approve", "reject"}
                      /\ Rank(status[target[d]]) >= (IF verb[d] = "refresh" THEN 1 ELSE 2)
                      /\ status[target[d]] # "blocked"
                      /\ at'[d] \in {"update", "back"} =>
                            copy'[d] # None /\ Behind(copy'[d], status[target[d]])
                      /\ at'[d] = "back" =>
                            Rank(status[target[d]]) >= (IF verb[d] = "refresh" THEN 2 ELSE 3)
    BY DEF RecordingInv, ReadManifest, packet
  <2>1. at[d] \in Recording
    BY DEF PostInv, TypeOK, ReadManifest, Goto, Recording
  <2>2. CASE d = c
    <3>1. copy'[d] = manifest[t] /\ at'[d] = "update"
      BY <1>1, <2>2 DEF PostInv, TypeOK, ReadManifest, Goto
    <3>2. QED BY <1>1, <1>2, <2>1, <2>2, <3>1 DEF PostInv, RecordingInv
  <2>3. CASE d # c
    <3>1. copy'[d] = copy[d] /\ at'[d] = at[d]
      BY <1>1, <2>3 DEF PostInv, TypeOK, ReadManifest, Goto
    <3>2. QED BY <2>1, <3>1 DEF PostInv, RecordingInv
  <2>4. QED BY <2>2, <2>3
<1>6. Alone'
  BY <1>1 DEF PostInv, TypeOK, Alone, ReadManifest, Goto, packet, Recording
<1>7. PacketFollowsRow' /\ Fresh'
  BY DEF PostInv, TypeOK, PacketFollowsRow, Fresh, ReadManifest, Goto, packet
<1> QED BY <1>3, <1>4, <1>5, <1>6, <1>7 DEF PostInv

(* The row moves on, or from one decision to the other, and what others    *)
(* have read stays behind it.                                              *)
LEMMA UpdateKeeps ==
    ASSUME PostInv, NEW c \in Commands, Update(c)
    PROVE  PostInv'
<1> DEFINE t == target[c]
           s == Outcome(verb[c])
<1>1. /\ t \in Versions /\ at[c] \in Recording
      /\ verb[c] \in {"refresh", "approve", "reject"}
      /\ status' = [status EXCEPT ![t] = s] /\ status[t] \in Statuses
  BY DEF PostInv, TypeOK, RecordingInv, Update, Recording
<1>2. s \in Statuses \ {"none", "blocked", "refresh_pending"}
  BY <1>1, OutcomeTyped
<1>3. /\ Rank(status[t]) >= 1 /\ Rank(status[t]) <= Rank(s)
      /\ status[t] # "none" /\ status[t] # "blocked"
  <2>1. Rank(status[t]) >= 1 /\ status[t] # "blocked"
    BY <1>1, RankValues DEF PostInv, RecordingInv
  <2>2. CASE verb[c] = "refresh"
    <3>1. status[t] \notin Decided
      BY <2>2 DEF Update, Clashes
    <3>2. Rank(status[t]) <= 2
      BY <1>1, <3>1, RankValues DEF Statuses
    <3>3. QED BY <1>1, <2>1, <2>2, <3>2, OutcomeTyped, RankValues
  <2>3. CASE verb[c] # "refresh"
    BY <1>1, <2>1, <2>3, OutcomeTyped, RankValues
  <2>4. QED BY <2>2, <2>3
<1>4. \A v \in Versions : v # t => status'[v] = status[v]
  BY <1>1 DEF PostInv, TypeOK
<1>5. status'[t] = s
  BY <1>1 DEF PostInv, TypeOK
<1>6. UNCHANGED <<manifest, briefings, disturbed, target, copy, verb, online, seen>>
  BY DEF Update
<1>7. \A d \in Commands : d # c => at'[d] = at[d]
  BY DEF PostInv, TypeOK, Update, Goto
<1>8. at'[c] = "back"
  BY DEF PostInv, TypeOK, Update, Goto
<1>9. TypeOK'
  BY <1>1, <1>2 DEF PostInv, TypeOK, Update, Goto, Recording
<1>10. Locking'
  BY DEF PostInv, TypeOK, Locking, Update, Goto, Preparing
<1>11. Prepared'
  BY <1>3, <1>4, <1>6, <1>7, <1>8 DEF PostInv, TypeOK, Prepared
<1>12. ASSUME NEW d \in Commands
       PROVE  /\ Rank(status'[target[d]]) >= Rank(status[target[d]])
              /\ status[target[d]] \notin {"none", "blocked"} =>
                    status'[target[d]] \notin {"none", "blocked"}
  <2>1. target[d] \in Versions /\ Rank(status[target[d]]) \in 0..3
    BY RankValues DEF PostInv, TypeOK
  <2>2. QED BY <1>2, <1>3, <1>4, <1>5, <2>1
<1>13. RecordingInv'
  <2> SUFFICES ASSUME NEW d \in Commands, at'[d] \in Recording
               PROVE  /\ verb[d] \in {"refresh", "approve", "reject"}
                      /\ Rank(status'[target[d]]) >= (IF verb[d] = "refresh" THEN 1 ELSE 2)
                      /\ status'[target[d]] # "blocked"
                      /\ at'[d] \in {"update", "back"} =>
                            copy[d] # None /\ Behind(copy[d], status'[target[d]])
                      /\ at'[d] = "back" =>
                            Rank(status'[target[d]]) >= (IF verb[d] = "refresh" THEN 2 ELSE 3)
    BY <1>6 DEF RecordingInv
  <2>1. at[d] \in Recording /\ (at'[d] \in {"update", "back"} => at[d] \in {"update", "back"})
    BY <1>1, <1>7, <1>8 DEF Update
  <2>2. /\ verb[d] \in {"refresh", "approve", "reject"}
        /\ Rank(status[target[d]]) >= (IF verb[d] = "refresh" THEN 1 ELSE 2)
        /\ status[target[d]] # "blocked"
        /\ at[d] \in {"update", "back"} =>
              copy[d] # None /\ Behind(copy[d], status[target[d]])
        /\ at[d] = "back" =>
              Rank(status[target[d]]) >= (IF verb[d] = "refresh" THEN 2 ELSE 3)
    BY <2>1 DEF PostInv, RecordingInv
  <2>3. /\ Rank(status[target[d]]) \in 0..3 /\ Rank(status'[target[d]]) \in 0..3
        /\ status[target[d]] # "none" /\ target[d] \in Versions
    BY <1>9, <2>2, RankValues, <1>6 DEF PostInv, TypeOK
  <2>4. ASSUME at[d] \in {"update", "back"}
        PROVE  Behind(copy[d], status'[target[d]])
    <3>1. Rank(copy[d].status) \in 0..3
      BY <2>2, <2>4, RankValues DEF PostInv, TypeOK, Manifests
    <3>2. QED BY <1>12, <2>2, <2>3, <2>4, <3>1 DEF Behind
  <2>5. at'[d] = "back" /\ d = c =>
           Rank(status'[target[d]]) >= (IF verb[d] = "refresh" THEN 2 ELSE 3)
    BY <1>1, <1>5, OutcomeTyped
  <2>6. QED BY <1>7, <1>12, <2>1, <2>2, <2>3, <2>4, <2>5
<1>14. Alone'
  <2> SUFFICES ASSUME NEW d \in Commands, at'[d] \in Recording, target[d] \notin disturbed
               PROVE  /\ \A b \in Commands :
                            at'[b] \in Recording /\ target[b] = target[d] => b = d
                      /\ Eligible(verb[d], status'[target[d]]) \/ at'[d] = "back"
                      /\ at'[d] = "update" => copy[d] = manifest[target[d]]
                      /\ at'[d] = "back" =>
                            /\ status'[target[d]] = Outcome(verb[d])
                            /\ verb[d] # "refresh" => copy[d].refreshed
    BY <1>6 DEF Alone
  <2>1. at[d] \in Recording /\ \A b \in Commands : at'[b] \in Recording => at[b] \in Recording
    BY <1>1, <1>7
  <2>2. \A b \in Commands : at[b] \in Recording /\ target[b] = target[d] => b = d
    BY <2>1 DEF PostInv, Alone
  <2>3. CASE d # c
    <3>1. target[d] # t /\ target[d] \in Versions
      BY <1>1, <2>2, <2>3 DEF PostInv, TypeOK
    <3>2. QED BY <1>4, <1>7, <2>1, <2>2, <2>3, <3>1 DEF PostInv, Alone
  <2>4. CASE d = c
    <3>1. Eligible(verb[c], status[t]) /\ copy[c] = manifest[t]
      BY <2>1, <2>4 DEF PostInv, Alone, Update
    <3>2. manifest[t] = Entry(status[t])
      <4>1. ~ \E b \in Commands : at[b] = "back" /\ target[b] = t
        BY <2>2, <2>4 DEF Update, Recording
      <4>2. QED BY <1>1, <1>3, <2>4, <4>1 DEF PostInv, PacketFollowsRow
    <3>3. verb[c] # "refresh" => copy[c].refreshed
      BY <1>1, <3>1, <3>2, EntryTyped DEF Eligible
    <3>4. QED BY <1>5, <1>8, <2>1, <2>2, <2>4, <3>3
  <2>5. QED BY <2>3, <2>4
<1>15. PacketFollowsRow'
  <2> SUFFICES ASSUME NEW v \in Versions, status'[v] # "none"
               PROVE  /\ manifest[v] # None /\ Behind(manifest[v], status'[v])
                      /\ status'[v] # "blocked" => v \in briefings
                      /\ \/ v \in disturbed
                         \/ \E d \in Commands : at'[d] = "back" /\ target[d] = v
                         \/ manifest[v] = Entry(status'[v])
    BY <1>6 DEF PacketFollowsRow
  <2>1. CASE v = t
    <3>1. manifest[t] # None /\ Behind(manifest[t], status[t]) /\ t \in briefings
      BY <1>1, <1>3 DEF PostInv, PacketFollowsRow
    <3>2. Rank(manifest[t].status) \in 0..3 /\ Rank(status[t]) \in 0..3 /\ Rank(s) \in 0..3
      BY <1>1, <1>2, <3>1, RankValues DEF PostInv, TypeOK, Manifests
    <3>3. Behind(manifest[t], s)
      BY <1>3, <3>1, <3>2 DEF Behind
    <3>4. QED BY <1>5, <1>8, <2>1, <3>1, <3>3
  <2>2. CASE v # t
    <3>1. \A d \in Commands : at[d] = "back" => at'[d] = "back"
      BY <1>7, <1>8
    <3>2. QED BY <1>4, <2>2, <3>1 DEF PostInv, PacketFollowsRow
  <2>3. QED BY <2>1, <2>2
<1>16. Fresh'
  BY <1>2, <1>4, <1>5, <1>6 DEF PostInv, Fresh
<1> QED BY <1>9, <1>10, <1>11, <1>13, <1>14, <1>15, <1>16 DEF PostInv

(* Alone, the manifest is brought up to its row; else it stays behind it.  *)
LEMMA WriteBackKeeps ==
    ASSUME PostInv, NEW c \in Commands, WriteBack(c)
    PROVE  PostInv'
<1> DEFINE t == target[c]
           m == IF verb[c] = "refresh" THEN Entry("review_pending")
                ELSE [copy[c] EXCEPT !.status = Outcome(verb[c])]
<1>1. /\ t \in Versions /\ at[c] \in Recording
      /\ verb[c] \in {"refresh", "approve", "reject"}
      /\ manifest' = [manifest EXCEPT ![t] = m]
      /\ status[t] \in Statuses /\ status[t] # "blocked"
      /\ Rank(status[t]) >= (IF verb[c] = "refresh" THEN 2 ELSE 3)
      /\ copy[c] # None /\ copy[c] \in Manifests
  BY DEF PostInv, TypeOK, RecordingInv, WriteBack, Recording
<1>2. m \in Manifests /\ m # None
  <2>1. m \in Manifests
    BY <1>1, EntryTyped, OutcomeTyped DEF Manifests, Statuses
  <2>2. QED BY <2>1, PostAssumption
<1>3. status[t] # "none"
  BY <1>1, RankValues
<1>4. Behind(m, status[t])
  <2>1. Rank(m.status) = (IF verb[c] = "refresh" THEN 2 ELSE 3)
    BY <1>1, OutcomeTyped, RankValues DEF Entry, Manifests
  <2>2. QED BY <1>1, <2>1, RankValues DEF Behind
<1>5. /\ UNCHANGED <<data, status, briefings, disturbed>>
      /\ \A d \in Commands : d # c => /\ at'[d] = at[d] /\ verb'[d] = verb[d]
                                      /\ online'[d] = online[d] /\ seen'[d] = seen[d]
                                      /\ target'[d] = target[d] /\ copy'[d] = copy[d]
      /\ at'[c] = "idle"
  BY DEF PostInv, TypeOK, WriteBack, End, Goto
<1>6. \A v \in Versions : v # t => manifest'[v] = manifest[v]
  BY <1>1 DEF PostInv, TypeOK
<1>7. manifest'[t] = m
  BY <1>1 DEF PostInv, TypeOK
<1>8. TypeOK'
  BY <1>1, <1>2, FirstVersion DEF PostInv, TypeOK, WriteBack, End, Goto, Free, Verbs
<1>9. Locking'
  BY DEF PostInv, TypeOK, Locking, WriteBack, End, Goto, Free, Preparing
<1>10. Prepared'
  BY <1>2, <1>3, <1>5, <1>6, <1>7 DEF PostInv, TypeOK, Prepared
<1>11. RecordingInv'
  BY <1>5 DEF PostInv, TypeOK, RecordingInv, Recording
<1>12. Alone'
  BY <1>1, <1>5, <1>6 DEF PostInv, TypeOK, Alone, Recording
<1>13. PacketFollowsRow'
  <2> SUFFICES ASSUME NEW v \in Versions, status[v] # "none"
               PROVE  /\ manifest'[v] # None /\ Behind(manifest'[v], status[v])
                      /\ status[v] # "blocked" => v \in briefings
                      /\ \/ v \in disturbed
                         \/ \E d \in Commands : at'[d] = "back" /\ target'[d] = v
                         \/ manifest'[v] = Entry(status[v])
    BY <1>5 DEF PacketFollowsRow
  <2>1. CASE v = t
    <3>1. ASSUME t \notin disturbed PROVE m = Entry(status[t])
      <4>1. status[t] = Outcome(verb[c]) /\ (verb[c] # "refresh" => copy[c].refreshed)
        BY <1>1, <3>1 DEF PostInv, Alone, WriteBack
      <4>2. CASE verb[c] = "refresh"
        BY <1>1, <4>1, <4>2, OutcomeTyped
      <4>3. CASE verb[c] # "refresh"
        <5>1. status[t] \in Decided
          BY <1>1, <4>1, <4>3, OutcomeTyped
        <5>2. Entry(status[t]) = [status |-> status[t], refreshed |-> TRUE]
          BY <5>1 DEF Entry
        <5>3. m = [status |-> status[t], refreshed |-> TRUE]
          BY <1>1, <4>1, <4>3 DEF Manifests
        <5>4. QED BY <5>2, <5>3
      <4>4. QED BY <4>2, <4>3
    <3>2. t \in briefings
      BY <1>1, <1>3 DEF PostInv, PacketFollowsRow
    <3>3. QED BY <1>2, <1>4, <1>7, <2>1, <3>1, <3>2
  <2>2. CASE v # t
    <3>1. \A d \in Commands : at[d] = "back" /\ target[d] = v =>
             at'[d] = "back" /\ target'[d] = v
      BY <1>5, <2>2
    <3>2. QED BY <1>6, <2>2, <3>1 DEF PostInv, PacketFollowsRow
  <2>3. QED BY <2>1, <2>2
<1>14. Fresh'
  BY <1>3, <1>5, <1>6 DEF PostInv, TypeOK, Fresh
<1> QED BY <1>8, <1>9, <1>10, <1>11, <1>12, <1>13, <1>14 DEF PostInv

(* A command that ends leaves the packet; what it was about to write back  *)
(* is disturbed.                                                           *)
LEMMA EndKeeps ==
    ASSUME PostInv, NEW c \in Commands, End(c), UNCHANGED <<data, packet>>,
           disturbed' \in SUBSET Versions, disturbed \subseteq disturbed',
           at[c] = "back" => target[c] \in disturbed'
    PROVE  PostInv'
<1>1. TypeOK'
  BY FirstVersion DEF PostInv, TypeOK, End, Goto, Free, packet, Verbs
<1>2. Locking'
  BY DEF PostInv, TypeOK, Locking, End, Goto, Free, Preparing
<1>3. Prepared'
  BY DEF PostInv, TypeOK, Prepared, End, Goto, packet
<1>4. RecordingInv'
  BY DEF PostInv, TypeOK, RecordingInv, Recording, End, Goto, packet
<1>5. Alone'
  BY DEF PostInv, TypeOK, Alone, Recording, End, Goto, packet
<1>6. PacketFollowsRow'
  <2>1. \A d \in Commands : d # c => at'[d] = at[d] /\ target'[d] = target[d]
    BY DEF PostInv, TypeOK, End, Goto
  <2>2. QED BY <2>1 DEF PostInv, TypeOK, PacketFollowsRow, packet
<1>7. Fresh'
  BY DEF PostInv, Fresh, packet
<1> QED BY <1>1, <1>2, <1>3, <1>4, <1>5, <1>6, <1>7 DEF PostInv

(* The ways a command ends.                                                *)
LEMMA EndingsKeep ==
    ASSUME PostInv, NEW c \in Commands, Unlock(c) \/ Refused(c) \/ Broken(c) \/ Fail(c)
    PROVE  PostInv'
<1>1. End(c) /\ UNCHANGED <<data, packet>>
  BY DEF Unlock, Refused, Broken, Fail
<1>2. /\ disturbed' \in SUBSET Versions /\ disturbed \subseteq disturbed'
      /\ at[c] = "back" => target[c] \in disturbed'
  BY DEF PostInv, TypeOK, Unlock, Refused, Broken, Fail, Disturb, Asking
<1>3. QED BY <1>1, <1>2, EndKeeps

(* More rows.                                                              *)
LEMMA CollectKeeps == ASSUME PostInv, Collect PROVE PostInv'
<1>1. TypeOK'
  <2>1. data' \in Versions
    BY PostAssumption DEF PostInv, TypeOK, Collect, Versions
  <2>2. QED BY <2>1 DEF PostInv, TypeOK, Collect, packet, command
<1>2. Locking' /\ Prepared' /\ RecordingInv' /\ Alone'
  BY DEF PostInv, Locking, Prepared, RecordingInv, Alone, Collect, packet, command
<1>3. PacketFollowsRow' /\ Fresh'
  BY DEF PostInv, PacketFollowsRow, Fresh, Collect, packet, command
<1> QED BY <1>1, <1>2, <1>3 DEF PostInv

-----------------------------------------------------------------------------
(* No packet yet and nobody at work.                                       *)
LEMMA InitKeeps == Init => PostInv
<1> SUFFICES ASSUME Init PROVE PostInv
  OBVIOUS
<1>1. TypeOK
  BY FirstVersion DEF Init, TypeOK, Statuses, Verbs
<1>2. Locking /\ Prepared /\ RecordingInv /\ Alone
  BY DEF Init, Locking, Prepared, RecordingInv, Alone, Preparing, Recording
<1>3. PacketFollowsRow /\ Fresh
  BY DEF Init, PacketFollowsRow, Fresh
<1> QED BY <1>1, <1>2, <1>3 DEF PostInv

(* Each step keeps the invariant.                                          *)
LEMMA StepKeeps == PostInv /\ [Next]_vars => PostInv'
<1> SUFFICES ASSUME PostInv, [Next]_vars PROVE PostInv'
  OBVIOUS
<1>1. ASSUME NEW c \in Commands, NEW word \in Verbs, Start(c, word) PROVE PostInv'
  BY <1>1, StartKeeps
<1>2. ASSUME NEW c \in Commands, NEW word \in Verbs, NEW v \in Versions, Load(c, word, v)
      PROVE  PostInv'
  BY <1>2, LoadKeeps
<1>3. ASSUME NEW c \in Commands, Step(c) PROVE PostInv'
  BY <1>3, ReadEvidenceKeeps, ReadFingerprintKeeps, LookUpKeeps, WriteManifestKeeps,
     WriteBriefingKeeps, InsertKeeps, EndingsKeep, ReadManifestKeeps, UpdateKeeps,
     WriteBackKeeps DEF Step
<1>4. ASSUME NEW c \in Commands, Disconnect(c) \/ Fail(c) PROVE PostInv'
  BY <1>4, DisconnectKeeps, EndingsKeep
<1>5. CASE UNCHANGED vars
  <2> USE <1>5 DEF PostInv, vars, packet, command
  <2>1. TypeOK' /\ Locking' /\ Prepared'
    BY DEF TypeOK, Locking, Prepared
  <2>2. RecordingInv' /\ Alone'
    BY DEF RecordingInv, Alone
  <2>3. PacketFollowsRow' /\ Fresh'
    BY DEF PacketFollowsRow, Fresh
  <2> QED BY <2>1, <2>2, <2>3
<1>6. QED
  BY <1>1, <1>2, <1>3, <1>4, <1>5, CollectKeeps DEF Next

(* The invariant holds for any number of commands and any history.         *)
THEOREM WorkflowIsSound == Spec => []PostInv
BY InitKeeps, StepKeeps, PTL DEF Spec

(* Types.                                                                  *)
THEOREM WorkflowIsTyped == Spec => []TypeOK
<1>1. PostInv => TypeOK
  BY DEF PostInv
<1>2. QED BY <1>1, WorkflowIsSound, PTL

(* The packet is there, behind its row or level with it (prepare,          *)
(* record_refresh, record_review).                                         *)
THEOREM PacketsFollowRows == Spec => []PacketFollowsRow
<1>1. PostInv => PacketFollowsRow
  BY DEF PostInv
<1>2. QED BY <1>1, WorkflowIsSound, PTL

-----------------------------------------------------------------------------
(* A row appears as a new analysis does.                                   *)
LEMMA InsertShows ==
    ASSUME PostInv, NEW c \in Commands, Insert(c)
    PROVE  [Ledger!Next]_status
<1>1. target[c] \in Versions /\ status[target[c]] = "none"
  BY DEF PostInv, TypeOK, Prepared, Insert
<1>2. status' = [status EXCEPT ![target[c]] = First(seen[c])]
  BY <1>1 DEF Insert, PostInv, TypeOK
<1>3. <<"none", First(seen[c])>> \in Ledger!Moves
  BY FirstTyped DEF Ledger!Moves
<1>4. PICK m \in Ledger!Moves : m = <<"none", First(seen[c])>>
  BY <1>3
<1>5. m[2] = First(seen[c])
  BY <1>4
<1>6. Ledger!Move(target[c], m[2])
  BY <1>1, <1>2, <1>3, <1>5 DEF Ledger!Move
<1>7. QED BY <1>1, <1>6 DEF Ledger!Next

(* An update moves the row on, changes a decision for the other one, or    *)
(* repeats what is there.                                                  *)
LEMMA UpdateShows ==
    ASSUME PostInv, NEW c \in Commands, Update(c)
    PROVE  [Ledger!Next]_status
<1> DEFINE t == target[c]
           s == Outcome(verb[c])
<1>1. /\ t \in Versions /\ status[t] \in Statuses /\ status[t] # "blocked"
      /\ verb[c] \in {"refresh", "approve", "reject"}
      /\ Rank(status[t]) >= (IF verb[c] = "refresh" THEN 1 ELSE 2)
      /\ status' = [status EXCEPT ![t] = s]
  BY DEF PostInv, TypeOK, RecordingInv, Update, Recording
<1>2. s = status[t] \/ <<status[t], s>> \in Ledger!Moves
  <2>1. CASE verb[c] = "refresh"
    <3>1. s = "review_pending" /\ status[t] \notin Decided
      BY <1>1, <2>1, OutcomeTyped DEF Update, Clashes
    <3>2. status[t] \in {"refresh_pending", "review_pending"}
      BY <1>1, <3>1, <2>1, RankValues DEF Statuses
    <3>3. QED BY <3>1, <3>2 DEF Ledger!Moves
  <2>2. CASE verb[c] # "refresh"
    <3>1. s \in {"approved", "rejected"}
      BY <1>1, <2>2, OutcomeTyped DEF Decided
    <3>2. status[t] \in {"review_pending", "approved", "rejected"}
      BY <1>1, <2>2, RankValues DEF Statuses, Decided
    <3>3. QED BY <3>1, <3>2 DEF Ledger!Moves
  <2>3. QED BY <2>1, <2>2
<1>3. CASE s = status[t]
  BY <1>1, <1>3 DEF PostInv, TypeOK
<1>4. CASE <<status[t], s>> \in Ledger!Moves
  <2>1. PICK m \in Ledger!Moves : m = <<status[t], s>>
    BY <1>4
  <2>2. m[2] = s
    BY <2>1
  <2>3. Ledger!Move(t, m[2])
    BY <1>1, <1>4, <2>2 DEF Ledger!Move
  <2>4. QED BY <1>1, <2>3 DEF Ledger!Next
<1>5. QED BY <1>2, <1>3, <1>4

(* Every step is one of the ledger or none.                                *)
LEMMA LedgerStep == PostInv /\ [Next]_vars => [Ledger!Next]_status
<1> SUFFICES ASSUME PostInv, [Next]_vars PROVE [Ledger!Next]_status
  OBVIOUS
<1>1. ASSUME NEW c \in Commands, NEW word \in Verbs, Start(c, word) PROVE UNCHANGED status
  BY <1>1 DEF Start, packet
<1>2. ASSUME NEW c \in Commands, NEW word \in Verbs, NEW v \in Versions, Load(c, word, v)
      PROVE  UNCHANGED status
  BY <1>2 DEF Load, packet
<1>3. ASSUME NEW c \in Commands, Step(c) PROVE [Ledger!Next]_status
  <2>1. CASE ReadEvidence(c) \/ ReadFingerprint(c) \/ LookUp(c)
    BY <2>1 DEF ReadEvidence, ReadFingerprint, LookUp, packet
  <2>2. CASE WriteManifest(c) \/ WriteBriefing(c) \/ WriteBack(c) \/ ReadManifest(c)
    BY <2>2 DEF WriteManifest, WriteBriefing, WriteBack, ReadManifest, packet
  <2>3. CASE Unlock(c) \/ Refused(c) \/ Broken(c)
    BY <2>3 DEF Unlock, Refused, Broken, packet
  <2>4. QED BY <1>3, <2>1, <2>2, <2>3, InsertShows, UpdateShows DEF Step
<1>4. ASSUME NEW c \in Commands, Disconnect(c) \/ Fail(c) PROVE UNCHANGED status
  BY <1>4 DEF Disconnect, Fail, packet
<1>5. CASE UNCHANGED vars \/ Collect
  BY <1>5 DEF vars, Collect, packet
<1>6. QED
  BY <1>1, <1>2, <1>3, <1>4, <1>5 DEF Next

(* The rows keep the ledger, locks or not.                                 *)
THEOREM RowsKeepLedger == Spec => KeepsLedger
<1>1. Init => Ledger!Init
  BY DEF Init, Ledger!Init
<1>2. QED BY <1>1, LedgerStep, WorkflowIsSound, PTL DEF Spec, KeepsLedger, Ledger!Spec

-----------------------------------------------------------------------------
(* A row has its manifest, and so have the record commands of the row.     *)
THEOREM ManifestsAreThere == Spec => []ManifestToRead
<1>1. PostInv => ManifestToRead
  <2> SUFFICES ASSUME PostInv, NEW c \in Commands, at[c] \in Recording
               PROVE  manifest[target[c]] # None
    BY DEF ManifestToRead
  <2>1. /\ target[c] \in Versions
        /\ Rank(status[target[c]]) >= (IF verb[c] = "refresh" THEN 1 ELSE 2)
    BY DEF PostInv, TypeOK, RecordingInv
  <2>2. status[target[c]] # "none"
    BY <2>1, RankValues
  <2>3. QED BY <2>1, <2>2 DEF PostInv, PacketFollowsRow
<1>2. QED BY <1>1, WorkflowIsSound, PTL

(* A manifest of a new analysis replaces one of its start at most.         *)
LEMMA WriteManifestAdvances ==
    ASSUME PostInv, NEW c \in Commands, WriteManifest(c),
           target[c] \notin disturbed', manifest[target[c]] # None
    PROVE  /\ manifest'[target[c]] # None
           /\ NeverBehind(manifest[target[c]], manifest'[target[c]])
<1> DEFINE t == target[c]
           m == Entry(First(seen[c]))
<1>1. t \in Versions /\ manifest[t] \in Manifests
  BY DEF PostInv, TypeOK
<1>2. status[t] = "none"
  BY DEF PostInv, TypeOK, Prepared, WriteManifest, Disturb
<1>3. Rank(manifest[t].status) <= 1 /\ ~manifest[t].refreshed
  BY <1>1, <1>2, RankValues DEF PostInv, Fresh, Behind, Manifests
<1>4. manifest'[t] = m
  BY <1>1 DEF WriteManifest, PostInv, TypeOK
<1>5. m # None /\ m.status = First(seen[c])
  BY FirstTyped, EntryTyped DEF Entry
<1>6. Rank(m.status) = 1
  BY <1>5, FirstTyped, RankValues
<1>7. QED BY <1>1, <1>3, <1>4, <1>5, <1>6, RankValues DEF NeverBehind, Manifests

(* A manifest brought up to its row replaces one behind it.                *)
LEMMA WriteBackAdvances ==
    ASSUME PostInv, NEW c \in Commands, WriteBack(c), target[c] \notin disturbed'
    PROVE  /\ manifest'[target[c]] # None
           /\ NeverBehind(manifest[target[c]], manifest'[target[c]])
<1> DEFINE t == target[c]
           m == IF verb[c] = "refresh" THEN Entry("review_pending")
                ELSE [copy[c] EXCEPT !.status = Outcome(verb[c])]
<1>1. /\ t \in Versions /\ at[c] \in Recording /\ at[c] = "back" /\ t \notin disturbed
      /\ verb[c] \in {"refresh", "approve", "reject"}
      /\ manifest'[t] = m /\ copy[c] \in Manifests
      /\ Rank(status[t]) >= 2
  BY DEF PostInv, TypeOK, RecordingInv, WriteBack, Recording
<1>2. status[t] = Outcome(verb[c]) /\ (verb[c] # "refresh" => copy[c].refreshed)
  BY <1>1 DEF PostInv, Alone
<1>3. status[t] # "none"
  BY <1>1, RankValues
<1>4. manifest[t] # None /\ manifest[t] \in Manifests /\ Behind(manifest[t], status[t])
  BY <1>1, <1>3 DEF PostInv, TypeOK, PacketFollowsRow
<1>5. m \in Manifests /\ m.status = status[t] /\ m.refreshed
  <2>1. CASE verb[c] = "refresh"
    <3>1. m = Entry("review_pending") /\ status[t] = "review_pending"
      BY <1>2, <2>1 DEF Outcome
    <3>2. m \in Manifests /\ m.refreshed /\ m.status = "review_pending"
      BY <3>1, EntryTyped DEF Entry, Statuses
    <3>3. QED BY <3>1, <3>2
  <2>2. CASE verb[c] # "refresh"
    <3>1. Outcome(verb[c]) \in Statuses
      BY <1>1, OutcomeTyped
    <3>2. QED BY <1>1, <1>2, <2>2, <3>1 DEF Manifests
  <2>3. QED BY <2>1, <2>2
<1>6. m # None
  BY <1>5, PostAssumption
<1>7. QED BY <1>1, <1>4, <1>5, <1>6 DEF NeverBehind, Behind

(* What leaves the manifests alone takes nothing back.                     *)
LEMMA SameAdvances ==
    ASSUME PostInv, NEW v \in Versions, manifest[v] # None, manifest'[v] = manifest[v]
    PROVE  manifest'[v] # None /\ NeverBehind(manifest[v], manifest'[v])
<1>1. Rank(manifest[v].status) \in 0..3
  BY RankValues DEF PostInv, TypeOK, Manifests
<1>2. QED BY <1>1 DEF NeverBehind

(* Only two steps write a manifest, each that of its own analysis.         *)
LEMMA PacketStep ==
    ASSUME PostInv, [Next]_vars, NEW v \in Versions \ disturbed', manifest[v] # None
    PROVE  manifest'[v] # None /\ NeverBehind(manifest[v], manifest'[v])
<1>1. ASSUME NEW c \in Commands, Step(c)
      PROVE  manifest'[v] # None /\ NeverBehind(manifest[v], manifest'[v])
  <2>1. CASE WriteManifest(c) \/ WriteBack(c)
    <3>1. CASE v = target[c]
      BY <2>1, <3>1, WriteManifestAdvances, WriteBackAdvances
    <3>2. CASE v # target[c]
      <4>1. manifest'[v] = manifest[v]
        BY <2>1, <3>2 DEF WriteManifest, WriteBack, PostInv, TypeOK
      <4>2. QED BY <4>1, SameAdvances
    <3>3. QED BY <3>1, <3>2
  <2>2. CASE \/ ReadEvidence(c) \/ ReadFingerprint(c) \/ LookUp(c) \/ WriteBriefing(c)
             \/ Insert(c) \/ Unlock(c) \/ ReadManifest(c) \/ Update(c) \/ Refused(c)
             \/ Broken(c)
    <3>1. manifest' = manifest
      BY <2>2 DEF ReadEvidence, ReadFingerprint, LookUp, WriteBriefing, Insert, Unlock,
         ReadManifest, Update, Refused, Broken, packet
    <3>2. QED BY <3>1, SameAdvances
  <2>3. QED BY <1>1, <2>1, <2>2 DEF Step
<1>2. CASE \/ \E c \in Commands :
                \/ \E word \in Verbs : Start(c, word) \/ \E u \in Versions : Load(c, word, u)
                \/ Disconnect(c) \/ Fail(c)
           \/ Collect \/ UNCHANGED vars
  <2>1. manifest' = manifest
    BY <1>2 DEF Start, Load, Disconnect, Fail, Collect, vars, packet
  <2>2. QED BY <2>1, SameAdvances
<1>3. QED BY <1>1, <1>2 DEF Next

(* What an undisturbed manifest says is never unsaid (_atomic_write).      *)
THEOREM PacketsGoForward == Spec => PacketsAdvance
<1>1. PostInv /\ [Next]_vars =>
        [\A v \in Versions \ disturbed' :
            manifest[v] # None =>
               manifest'[v] # None /\ NeverBehind(manifest[v], manifest'[v])]_vars
  BY PacketStep
<1>2. QED BY <1>1, WorkflowIsSound, PTL DEF Spec, PacketsAdvance

-----------------------------------------------------------------------------
(* How a step moves the command that takes it.                             *)
LEMMA StepMoves ==
    ASSUME PostInv, NEW c \in Commands, Step(c)
    PROVE  /\ \A d \in Commands \ {c} : at'[d] = at[d]
           /\ Todo(at'[c]) < Todo(at[c])
<1> DEFINE Moved(p) == at' = [at EXCEPT ![c] = p]
<1>1. ASSUME NEW p, Moved(p), Todo(p) < Todo(at[c])
      PROVE  /\ \A d \in Commands \ {c} : at'[d] = at[d]
             /\ Todo(at'[c]) < Todo(at[c])
  BY <1>1 DEF PostInv, TypeOK
<1> HIDE DEF Moved
<1>2. CASE ReadEvidence(c) \/ ReadFingerprint(c) \/ LookUp(c)
  <2>1. \/ at[c] = "evidence" /\ (Moved("unlock") \/ Moved("fingerprint"))
        \/ at[c] = "fingerprint" /\ Moved("lookup")
        \/ at[c] = "lookup" /\ (Moved("manifest") \/ Moved("unlock"))
    BY <1>2 DEF ReadEvidence, ReadFingerprint, LookUp, Goto, Moved
  <2>2. QED BY <1>1, <2>1 DEF Todo
<1>3. CASE WriteManifest(c) \/ WriteBriefing(c) \/ Insert(c)
  <2>1. \/ at[c] = "manifest" /\ (Moved("insert") \/ Moved("briefing"))
        \/ at[c] = "briefing" /\ Moved("insert")
        \/ at[c] = "insert" /\ Moved("unlock")
    BY <1>3 DEF WriteManifest, WriteBriefing, Insert, Goto, Moved
  <2>2. QED BY <1>1, <2>1 DEF Todo
<1>4. CASE ReadManifest(c) \/ Update(c)
  <2>1. \/ at[c] = "copy" /\ Moved("update")
        \/ at[c] = "update" /\ Moved("back")
    BY <1>4 DEF ReadManifest, Update, Goto, Moved
  <2>2. QED BY <1>1, <2>1 DEF Todo
<1>5. CASE Unlock(c) \/ Refused(c) \/ WriteBack(c) \/ Broken(c)
  <2>1. Moved("idle") /\ at[c] \in {"unlock", "update", "back"} \cup Asking
    BY <1>5 DEF Unlock, Refused, WriteBack, Broken, End, Goto, Moved
  <2>2. Todo("idle") < Todo(at[c])
    BY <2>1 DEF Todo, Asking
  <2>3. QED BY <1>1, <2>1, <2>2
<1> QED BY <1>2, <1>3, <1>4, <1>5 DEF Step

(* Whatever happens, a command at work stays where it is or gets on.       *)
LEMMA CommandStep ==
    ASSUME PostInv, [Next]_vars, NEW d \in Commands, at[d] # "idle", at'[d] # at[d]
    PROVE  Todo(at'[d]) < Todo(at[d])
<1>1. ASSUME NEW c \in Commands, Step(c) PROVE Todo(at'[d]) < Todo(at[d])
  BY <1>1, StepMoves
<1>2. ASSUME NEW c \in Commands, NEW word \in Verbs, NEW v \in Versions,
             Start(c, word) \/ Load(c, word, v)
      PROVE  FALSE
  BY <1>2 DEF Start, Load, Goto, PostInv, TypeOK
<1>3. ASSUME NEW c \in Commands, Disconnect(c) \/ Fail(c)
      PROVE  Todo(at'[d]) < Todo(at[d])
  <2>1. d = c /\ at'[d] = "idle"
    BY <1>3 DEF Disconnect, Fail, End, Goto, PostInv, TypeOK
  <2>2. at[d] \in Preparing \cup Recording
    BY DEF PostInv, TypeOK
  <2>3. QED BY <2>1, <2>2 DEF Todo, Preparing, Recording
<1>4. CASE Collect \/ UNCHANGED vars
  BY <1>4 DEF Collect, vars, command
<1>5. QED BY <1>1, <1>2, <1>3, <1>4, FirstVersion DEF Next

(* A command only goes forward, and so ends after seven steps at most:     *)
(* what is left of LockIsFreed without fairness (assess, prepare,          *)
(* record_refresh, record_review).                                         *)
THEOREM CommandsGoForward == Spec => CommandsAdvance
<1>1. PostInv /\ [Next]_vars =>
        [\A c \in Commands :
            at[c] # "idle" /\ at'[c] # at[c] => Todo(at'[c]) < Todo(at[c])]_vars
  BY CommandStep
<1>2. QED BY <1>1, WorkflowIsSound, PTL DEF Spec, CommandsAdvance
=============================================================================
