----------------------------- MODULE PostStream -----------------------------
(***************************************************************************)
(* The post-stream workflow (post_stream.py) for one stream: commands run  *)
(* as processes of their own, each with its own connection.  assess and    *)
(* prepare hold an advisory lock of that connection; record-refresh and    *)
(* review take none.  Collectors go on writing rows.                       *)
(*                                                                         *)
(* `data` numbers what the database holds about the stream: History[data]  *)
(* is the evidence there is then, and the number stands for the input      *)
(* fingerprint and for the analysis ID made of it.  A command's evidence,  *)
(* and its fingerprint, are read at one moment each.  Of the row of an     *)
(* analysis workflow_status is kept: reviewed_at is set with a decision.   *)
(* Of its manifest, workflow_status and whether the refresh is recorded.   *)
(***************************************************************************)
EXTENDS QualityGate, Sequences

CONSTANTS
    Commands,  \* processes
    History,   \* the evidence, after each change of the data
    None       \* no process, no manifest

Versions == 1..Len(History)

VARIABLES
    data,       \* what the database holds
    lock,       \* the command whose connection holds the advisory lock
    status,     \* workflow_status of the row of each analysis, or "none"
    manifest,   \* its manifest.json
    briefings,  \* the analyses with a briefing.md
    at,         \* of each command: the step it takes next
    verb,       \* ... what it was called for
    online,     \* ... whether it still has its connection
    seen,       \* ... the version of the evidence it judges
    target,     \* ... the analysis it works on
    copy,       \* ... the manifest it has read
    disturbed   \* ghost: analyses whose manifest two commands or a loss got at

packet  == <<status, manifest, briefings>>
command == <<at, verb, online, seen, target, copy>>
vars    == <<data, lock, packet, command, disturbed>>

Verbs     == {"assess", "prepare", "refresh", "approve", "reject"}
Decisions == [approve |-> "approved", reject |-> "rejected"]
Decided   == {"approved", "rejected"}
Statuses  == {"none", "blocked", "refresh_pending", "review_pending"} \cup Decided
Manifests == [status : Statuses, refreshed : BOOLEAN]

ASSUME PostAssumption ==
    /\ History \in Seq(Evidence) /\ History # << >>
    /\ None \notin Commands \cup Manifests

Preparing == {"evidence", "fingerprint", "lookup", "manifest", "briefing", "insert", "unlock"}
Recording == {"copy", "update", "back"}
Asking    == {"evidence", "fingerprint", "lookup", "insert", "update"}

Init ==
    /\ data = 1 /\ lock = None
    /\ status = [v \in Versions |-> "none"]
    /\ manifest = [v \in Versions |-> None] /\ briefings = {}
    /\ at = [c \in Commands |-> "idle"] /\ verb = [c \in Commands |-> "assess"]
    /\ online = [c \in Commands |-> FALSE]
    /\ seen = [c \in Commands |-> 1] /\ target = [c \in Commands |-> 1]
    /\ copy = [c \in Commands |-> None]
    /\ disturbed = {}

-----------------------------------------------------------------------------
Goto(c, place) == at' = [at EXCEPT ![c] = place]

Free(c) == lock' = IF lock = c THEN None ELSE lock

(* The process ends, with its connection and all it knew.                  *)
End(c) ==
    /\ Goto(c, "idle") /\ Free(c)
    /\ online' = [online EXCEPT ![c] = FALSE]
    /\ verb' = [verb EXCEPT ![c] = "assess"]
    /\ seen' = [seen EXCEPT ![c] = 1] /\ target' = [target EXCEPT ![c] = 1]
    /\ copy' = [copy EXCEPT ![c] = None]

(* What is written of an analysis when it is new.                          *)
First(u) == IF Verdict(History[u]) = "blocked" THEN "blocked" ELSE "refresh_pending"

Entry(s) == [status |-> s, refreshed |-> s \in {"review_pending"} \cup Decided]

(* The prepare of this analysis that has lost its connection, or the       *)
(* record command that another one overtakes.                              *)
Disturb(v, condition) == disturbed' = IF condition THEN disturbed \cup {v} ELSE disturbed

(* assess and prepare: resolve_stream finds the stream, and the lock is    *)
(* free; a command that finds it taken raises.                             *)
Start(c, word) ==
    /\ at[c] = "idle" /\ lock = None /\ word \in {"assess", "prepare"}
    /\ lock' = c /\ Goto(c, "evidence")
    /\ verb' = [verb EXCEPT ![c] = word] /\ online' = [online EXCEPT ![c] = TRUE]
    /\ UNCHANGED <<data, packet, seen, target, copy, disturbed>>

ReadEvidence(c) ==
    /\ at[c] = "evidence" /\ online[c]
    /\ seen' = [seen EXCEPT ![c] = data]
    /\ Goto(c, IF verb[c] = "assess" THEN "unlock" ELSE "fingerprint")
    /\ UNCHANGED <<data, lock, packet, verb, online, target, copy, disturbed>>

ReadFingerprint(c) ==
    /\ at[c] = "fingerprint" /\ online[c]
    /\ target' = [target EXCEPT ![c] = data] /\ Goto(c, "lookup")
    /\ UNCHANGED <<data, lock, packet, verb, online, seen, copy, disturbed>>

(* Slip: the reuse of an analysis returns past the unlock.                 *)
LookUpAndKeep(c) ==
    /\ at[c] = "lookup" /\ online[c]
    /\ Goto(c, IF status[target[c]] = "none" THEN "manifest" ELSE "idle")
    /\ UNCHANGED <<data, lock, packet, verb, online, seen, target, copy, disturbed>>

(* An analysis that exists is reused.  A new one that is not blocked is    *)
(* summarised at once, which changes nothing.                              *)
LookUp(c) ==
    /\ at[c] = "lookup" /\ online[c]
    /\ Goto(c, IF status[target[c]] = "none" THEN "manifest" ELSE "unlock")
    /\ UNCHANGED <<data, lock, packet, verb, online, seen, target, copy, disturbed>>

(* The manifest is replaced whole (_atomic_write); no database is asked.   *)
WriteManifest(c) ==
    /\ at[c] = "manifest"
    /\ manifest' = [manifest EXCEPT ![target[c]] = Entry(First(seen[c]))]
    /\ Goto(c, IF First(seen[c]) = "blocked" THEN "insert" ELSE "briefing")
    /\ Disturb(target[c], ~online[c])
    /\ UNCHANGED <<data, lock, status, briefings, verb, online, seen, target, copy>>

WriteBriefing(c) ==
    /\ at[c] = "briefing"
    /\ briefings' = briefings \cup {target[c]} /\ Goto(c, "insert")
    /\ UNCHANGED <<data, lock, status, manifest, verb, online, seen, target, copy, disturbed>>

(* ON CONFLICT DO NOTHING.                                                 *)
Insert(c) ==
    /\ at[c] = "insert" /\ online[c]
    /\ status' = [status EXCEPT ![target[c]] = IF @ = "none" THEN First(seen[c]) ELSE @]
    /\ Goto(c, "unlock")
    /\ UNCHANGED <<data, lock, manifest, briefings, verb, online, seen, target, copy, disturbed>>

Unlock(c) ==
    /\ at[c] = "unlock" /\ End(c)
    /\ UNCHANGED <<data, packet, disturbed>>

-----------------------------------------------------------------------------
(* Slip: a decision needs no recorded refresh.                             *)
EligibleEarly(word, s) == s \in {"refresh_pending", "review_pending"}

(* The statuses each record command starts from.                           *)
Eligible(word, s) ==
    IF word = "refresh" THEN s \in {"refresh_pending", "review_pending"}
    ELSE s = "review_pending"

(* record-refresh and review find the row of an analysis ID and look at    *)
(* its status there; one that is not eligible raises.                      *)
Load(c, word, v) ==
    /\ at[c] = "idle" /\ word \in {"refresh", "approve", "reject"}
    /\ status[v] # "none" /\ Eligible(word, status[v])
    /\ Goto(c, "copy")
    /\ verb' = [verb EXCEPT ![c] = word] /\ online' = [online EXCEPT ![c] = TRUE]
    /\ target' = [target EXCEPT ![c] = v]
    /\ Disturb(v, \E d \in Commands : at[d] \in Recording /\ target[d] = v)
    /\ UNCHANGED <<data, lock, packet, seen, copy>>

ReadManifest(c) ==
    /\ at[c] = "copy" /\ manifest[target[c]] # None
    /\ copy' = [copy EXCEPT ![c] = manifest[target[c]]] /\ Goto(c, "update")
    /\ UNCHANGED <<data, lock, packet, verb, online, seen, target, disturbed>>

(* What a record command makes of the row and of the manifest.             *)
Outcome(word) == IF word = "refresh" THEN "review_pending" ELSE Decisions[word]

(* Slip: there is no CHECK of the decision.                                *)
NeverClashes(c) == FALSE

(* The row has a decision already: a refresh of it violates the CHECK that *)
(* a reviewed_at goes with one.                                            *)
Clashes(c) == verb[c] = "refresh" /\ status[target[c]] \in Decided

(* UPDATE ... WHERE analysis_id: the status may have changed since.        *)
Update(c) ==
    /\ at[c] = "update" /\ online[c] /\ ~Clashes(c)
    /\ status' = [status EXCEPT ![target[c]] = Outcome(verb[c])]
    /\ Goto(c, "back")
    /\ UNCHANGED <<data, lock, manifest, briefings, verb, online, seen, target, copy, disturbed>>

Refused(c) ==
    /\ at[c] = "update" /\ online[c] /\ Clashes(c)
    /\ End(c)
    /\ UNCHANGED <<data, packet, disturbed>>

(* Slip: the review writes the manifest as it would be prepared.           *)
WriteAnew(c) ==
    /\ at[c] = "back"
    /\ manifest' = [manifest EXCEPT ![target[c]] =
          IF verb[c] = "refresh" THEN Entry("review_pending")
          ELSE [Entry("refresh_pending") EXCEPT !.status = Outcome(verb[c])]]
    /\ End(c)
    /\ UNCHANGED <<data, status, briefings, disturbed>>

(* The copy is completed and replaces the manifest.                        *)
WriteBack(c) ==
    /\ at[c] = "back"
    /\ manifest' = [manifest EXCEPT ![target[c]] =
          IF verb[c] = "refresh" THEN Entry("review_pending")
          ELSE [copy[c] EXCEPT !.status = Outcome(verb[c])]]
    /\ End(c)
    /\ UNCHANGED <<data, status, briefings, disturbed>>

(* The next question to the database fails, and the command with it.       *)
Broken(c) ==
    /\ at[c] \in Asking /\ ~online[c]
    /\ End(c)
    /\ UNCHANGED <<data, packet, disturbed>>

Step(c) ==
    \/ ReadEvidence(c) \/ ReadFingerprint(c) \/ LookUp(c) \/ WriteManifest(c)
    \/ WriteBriefing(c) \/ Insert(c) \/ Unlock(c)
    \/ ReadManifest(c) \/ Update(c) \/ Refused(c) \/ WriteBack(c) \/ Broken(c)

-----------------------------------------------------------------------------
(* The server ends a session: its lock is free, and the process does not   *)
(* know yet.                                                               *)
Disconnect(c) ==
    /\ online[c] /\ online' = [online EXCEPT ![c] = FALSE]
    /\ Free(c)
    /\ UNCHANGED <<data, packet, at, verb, seen, target, copy, disturbed>>

(* A statement or a write fails, or the process is killed.  PostgreSQL     *)
(* frees the lock of a process that ends.                                  *)
Fail(c) ==
    /\ at[c] # "idle" /\ End(c)
    /\ Disturb(target[c], at[c] = "back")
    /\ UNCHANGED <<data, packet>>

(* A collector, or its recovery, writes a row the fingerprint covers.      *)
Collect ==
    /\ data < Len(History) /\ data' = data + 1
    /\ UNCHANGED <<lock, packet, command, disturbed>>

Next ==
    \/ \E c \in Commands :
          \/ \E word \in Verbs : Start(c, word) \/ \E v \in Versions : Load(c, word, v)
          \/ Step(c) \/ Disconnect(c) \/ Fail(c)
    \/ Collect

Spec == Init /\ [][Next]_vars

(* Statements time out after thirty seconds and nothing waits for another  *)
(* command, so a command that is not killed takes its steps.               *)
FairSpec == Spec /\ \A c \in Commands : WF_vars(Step(c))

-----------------------------------------------------------------------------
TypeOK ==
    /\ data \in Versions /\ lock \in Commands \cup {None}
    /\ status \in [Versions -> Statuses]
    /\ manifest \in [Versions -> Manifests \cup {None}]
    /\ {briefings, disturbed} \subseteq SUBSET Versions
    /\ at \in [Commands -> {"idle"} \cup Preparing \cup Recording]
    /\ verb \in [Commands -> Verbs] /\ online \in [Commands -> BOOLEAN]
    /\ seen \in [Commands -> Versions] /\ target \in [Commands -> Versions]
    /\ copy \in [Commands -> Manifests \cup {None}]

(* Only the command that holds the lock is connected and preparing.        *)
Locking ==
    /\ lock # None => at[lock] \in Preparing /\ online[lock]
    /\ \A c \in Commands : at[c] \in Preparing /\ online[c] => lock = c
    /\ \A c \in Commands : at[c] = "idle" => ~online[c]

Rank(s) == CASE s = "none" -> 0
             [] s \in {"blocked", "refresh_pending"} -> 1
             [] s = "review_pending" -> 2
             [] s \in Decided -> 3

(* A manifest says no more than its row.                                   *)
Behind(m, s) == Rank(m.status) <= Rank(s) /\ (m.refreshed => Rank(s) >= 2)

(* A prepare has written what the row it inserts will speak of.            *)
Prepared ==
    \A c \in Commands :
        /\ at[c] \in {"briefing", "insert"} => manifest[target[c]] # None
        /\ at[c] = "insert" /\ First(seen[c]) # "blocked" => target[c] \in briefings
        /\ at[c] \in {"manifest", "briefing", "insert"} /\ online[c] =>
              status[target[c]] = "none"
        /\ at[c] \in {"briefing", "insert"} /\ online[c] =>
              target[c] \in disturbed \/ manifest[target[c]] = Entry(First(seen[c]))

(* A record command works on a row that has come as far as it needs.       *)
RecordingInv ==
    \A c \in Commands :
        at[c] \in Recording =>
            /\ verb[c] \in {"refresh", "approve", "reject"}
            /\ Rank(status[target[c]]) >= (IF verb[c] = "refresh" THEN 1 ELSE 2)
            /\ status[target[c]] # "blocked"
            /\ at[c] \in {"update", "back"} =>
                  copy[c] # None /\ Behind(copy[c], status[target[c]])
            /\ at[c] = "back" =>
                  Rank(status[target[c]]) >= (IF verb[c] = "refresh" THEN 2 ELSE 3)

(* Alone with an analysis, a record command has its manifest in hand.      *)
Alone ==
    \A c \in Commands :
        at[c] \in Recording /\ target[c] \notin disturbed =>
            /\ \A d \in Commands : at[d] \in Recording /\ target[d] = target[c] => d = c
            /\ Eligible(verb[c], status[target[c]]) \/ at[c] = "back"
            /\ at[c] = "update" => copy[c] = manifest[target[c]]
            /\ at[c] = "back" =>
                  /\ status[target[c]] = Outcome(verb[c])
                  /\ verb[c] # "refresh" => copy[c].refreshed

(* An analysis has its packet: a manifest, and a briefing unless blocked.  *)
(* The manifest never runs ahead of the row, and, unless it was disturbed  *)
(* or is about to be written back, it says what the row says.              *)
PacketFollowsRow ==
    \A v \in Versions : status[v] # "none" =>
        /\ manifest[v] # None /\ Behind(manifest[v], status[v])
        /\ status[v] # "blocked" => v \in briefings
        /\ \/ v \in disturbed
           \/ \E c \in Commands : at[c] = "back" /\ target[c] = v
           \/ manifest[v] = Entry(status[v])

(* What is not in the table yet is at its start.                           *)
Fresh ==
    \A v \in Versions : status[v] = "none" /\ manifest[v] # None => Behind(manifest[v], "blocked")

PostInv ==
    TypeOK /\ Locking /\ Prepared /\ RecordingInv /\ Alone /\ PacketFollowsRow /\ Fresh

(* The rows move as ReviewLedger says, although the record commands take   *)
(* no lock and update without a second look at the status: what they found *)
(* and the CHECKs of the table are enough.                                 *)
Ledger == INSTANCE ReviewLedger
KeepsLedger == Ledger!Spec

(* No early return, failure or lost session leaves the stream locked.      *)
LockIsFreed == lock # None ~> lock = None

(* A record command finds the manifest of the row it has found, so that    *)
(* its read never fails for want of a file (record_refresh, record_review).*)
ManifestToRead ==
    \A c \in Commands : at[c] \in Recording => manifest[target[c]] # None

(* A manifest is replaced as a whole, by commands that take no lock: one   *)
(* that was not disturbed never goes back behind what it said, and a       *)
(* recorded refresh stays recorded (prepare, record_refresh,               *)
(* record_review, _atomic_write).                                          *)
NeverBehind(m, n) == Rank(m.status) <= Rank(n.status) /\ (m.refreshed => n.refreshed)

PacketsAdvance ==
    [][\A v \in Versions \ disturbed' :
          manifest[v] # None => manifest'[v] # None /\ NeverBehind(manifest[v], manifest'[v])]_vars

(* The steps a command still has to take, its own end included.            *)
Todo(place) == CASE place = "evidence"              -> 7
                 [] place = "fingerprint"           -> 6
                 [] place = "lookup"                -> 5
                 [] place = "manifest"              -> 4
                 [] place \in {"briefing", "copy"}  -> 3
                 [] place \in {"insert", "update"}  -> 2
                 [] place \in {"unlock", "back"}    -> 1
                 [] OTHER                           -> 0

(* A command never goes back to a step it has left, and no other command   *)
(* moves it: seven steps after its start it has ended (assess, prepare,    *)
(* record_refresh, record_review: no loop and no retry).                   *)
CommandsAdvance ==
    [][\A c \in Commands :
          at[c] # "idle" /\ at'[c] # at[c] => Todo(at'[c]) < Todo(at[c])]_vars
=============================================================================
