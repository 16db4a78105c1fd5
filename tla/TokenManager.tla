---------------------------- MODULE TokenManager ----------------------------
(***************************************************************************)
(* The token manager one process shares among its threads                  *)
(* (twitch_auth.py), the file it keeps its tokens in, the authorization    *)
(* helper that writes the first ones (authorize_twitch.py), and the side   *)
(* of Twitch that issues and refuses tokens.                               *)
(*                                                                         *)
(* Every operation holds the lock from its first look at `_blocked` to its *)
(* return, so at most one is under way: `op` is its kind, `at` what it     *)
(* waits for.  A pair holds an access and a refresh token.  A refresh may  *)
(* return the refresh token it was asked with, or a new one in whose place *)
(* the old one dies.  Twitch answers (`wire`) before the process hears of  *)
(* it, so that a crash or a lost connection may fall in between.  A token  *)
(* nobody holds any more may be issued again under the same name.          *)
(***************************************************************************)
EXTENDS Naturals

CONSTANTS
    Tokens,   \* names of tokens
    None      \* no token

ASSUME TokenAssumption == None \notin Tokens

VARIABLES
    up,         \* the process runs
    op,         \* the operation that holds the lock: "none", "due" or "helix"
    at,         \* the answer it waits for, or "save"
    attempt,    \* of a Helix operation: the first request or the second
    mem,        \* _tokens
    age,        \* _validated_at: "none", "fresh" or "due"
    blocked,    \* _blocked
    wire,       \* Twitch's answer, not yet read
    given,      \* the pair of the last answer to a refresh
    file,       \* the token file
    valid,      \* access tokens Twitch accepts
    grants,     \* refresh tokens Twitch accepts
    confirmed,  \* ghost: the access token of the last successful validation
    applied,    \* ghost: how often Twitch carried out the request under way
    stranded    \* ghost: a rotated refresh token was lost on its way to the file

request == <<op, at, attempt>>
memory  == <<mem, age, blocked, confirmed>>
twitch  == <<valid, grants>>
vars    == <<up, request, memory, wire, given, file, twitch, applied, stranded>>

Pairs   == [access : Tokens, refresh : Tokens]
Waits   == {"validate", "refresh", "revalidate", "send"}
Answers == {"none", "ok", "mismatch", "unauthorized", "rejected", "incomplete", "pair"}

Init ==
    \E a, r \in Tokens :
        /\ a # r
        /\ up = TRUE /\ op = "none" /\ at = "idle" /\ attempt = 1
        /\ mem = [access |-> a, refresh |-> r] /\ file = mem /\ given = mem
        /\ age = "none" /\ blocked = FALSE /\ wire = "none"
        /\ valid = {a} /\ grants = {r}
        /\ confirmed = None /\ applied = 0 /\ stranded = FALSE

-----------------------------------------------------------------------------
(* What the steps are made of: the next request, a return or a raise that  *)
(* leaves the manager usable, and one that does not.                       *)
Ask(place) == at' = place /\ wire' = "none"
Return == op' = "none" /\ Ask("idle")
Block == blocked' = TRUE /\ Return

(* A new refresh token is with Twitch and not yet in the file.             *)
Carrying == at = "save" \/ (at = "refresh" /\ wire \in {"pair", "incomplete"})

(* It goes no further: what the file still holds may be dead by now.       *)
Drop == stranded' = (stranded \/ (Carrying /\ file.refresh \notin grants))

(* Slip: only a Helix request looks at `_blocked`.                         *)
BeginUnlooked(kind, force) ==
    /\ up /\ op = "none" /\ (blocked => kind = "due")
    /\ op' = kind /\ attempt' = 1 /\ applied' = 0
    /\ \/ (force \/ age # "fresh") /\ Ask("validate")
       \/ ~force /\ age = "fresh" /\ kind = "helix" /\ Ask("send")
    /\ UNCHANGED <<up, memory, given, file, twitch, stranded>>

(* validate_if_due, has_scope, helix_get and helix_post take the lock.  A  *)
(* call of a blocked manager raises and changes nothing, and so does one   *)
(* of validate_if_due that is not due.                                     *)
Begin(kind, force) ==
    /\ up /\ op = "none" /\ ~blocked
    /\ op' = kind /\ attempt' = 1 /\ applied' = 0
    /\ \/ (force \/ age # "fresh") /\ Ask("validate")
       \/ ~force /\ age = "fresh" /\ kind = "helix" /\ Ask("send")
    /\ UNCHANGED <<up, memory, given, file, twitch, stranded>>

(* _validate: the identity and the core scopes are those expected.         *)
Validated ==
    /\ at \in {"validate", "revalidate"} /\ wire = "ok"
    /\ age' = "fresh" /\ confirmed' = mem.access
    /\ \/ op = "helix" /\ Ask("send") /\ UNCHANGED op
       \/ op = "due" /\ Return
    /\ UNCHANGED <<up, attempt, mem, blocked, given, file, twitch, applied, stranded>>

(* ... or they are not, which blocks.                                      *)
Mismatched ==
    /\ at \in {"validate", "revalidate"} /\ wire = "mismatch"
    /\ Block
    /\ UNCHANGED <<up, attempt, mem, age, confirmed, given, file, twitch, applied, stranded>>

(* Slips: the old validation is kept, and a refusal is counted nowhere.    *)
RefusedTrusting ==
    /\ wire = "unauthorized"
    /\ at = "validate" \/ (at = "send" /\ attempt = 1)
    /\ attempt' = (IF at = "send" THEN 2 ELSE attempt) /\ Ask("refresh")
    /\ UNCHANGED <<up, op, memory, given, file, twitch, applied, stranded>>

RefusedUncounted ==
    /\ wire = "unauthorized" /\ at \in {"validate", "send"}
    /\ age' = "none" /\ Ask("refresh")
    /\ UNCHANGED <<up, op, attempt, mem, blocked, confirmed, given, file, twitch,
                   applied, stranded>>

(* _refresh begins when a token is refused: by the validation that was     *)
(* due, or by the first request.                                           *)
Refused ==
    /\ wire = "unauthorized"
    /\ \/ at = "validate" /\ UNCHANGED attempt
       \/ at = "send" /\ attempt = 1 /\ attempt' = 2
    /\ age' = "none" /\ Ask("refresh")
    /\ UNCHANGED <<up, op, mem, blocked, confirmed, given, file, twitch, applied, stranded>>

(* The token just refreshed is refused too: the caller gets the error.     *)
RefusedAgain ==
    /\ wire = "unauthorized"
    /\ at = "revalidate" \/ (at = "send" /\ attempt = 2)
    /\ Return
    /\ UNCHANGED <<up, attempt, memory, given, file, twitch, applied, stranded>>

(* The refresh is rejected, or what came back is not a pair of tokens.     *)
RefreshFails ==
    /\ at = "refresh" /\ wire \in {"rejected", "incomplete"}
    /\ Block /\ Drop
    /\ UNCHANGED <<up, attempt, mem, age, confirmed, given, file, twitch, applied>>

Refreshed ==
    /\ at = "refresh" /\ wire = "pair"
    /\ at' = "save"
    /\ UNCHANGED <<up, op, attempt, memory, wire, given, file, twitch, applied, stranded>>

(* Slip: the pair is taken and not written.                                *)
SaveLater ==
    /\ at = "save"
    /\ mem' = given
    /\ Ask("revalidate")
    /\ UNCHANGED <<up, op, attempt, age, blocked, confirmed, given, file, twitch,
                   applied, stranded>>

(* save_tokens replaces the file in one step; only then does the manager   *)
(* take the tokens, and have them validated.                               *)
Save ==
    /\ at = "save"
    /\ file' = given /\ mem' = given
    /\ Ask("revalidate")
    /\ UNCHANGED <<up, op, attempt, age, blocked, confirmed, given, twitch, applied, stranded>>

SaveFails ==
    /\ at = "save"
    /\ Block /\ Drop
    /\ UNCHANGED <<up, attempt, mem, age, confirmed, given, file, twitch, applied>>

(* The request was carried out.                                            *)
Served ==
    /\ at = "send" /\ wire = "ok"
    /\ Return
    /\ UNCHANGED <<up, attempt, memory, given, file, twitch, applied, stranded>>

(* Slip: a lost answer is asked for again.                                 *)
AsksAgain ==
    /\ at \in Waits
    /\ IF at = "send" THEN Ask("send") /\ UNCHANGED <<op, stranded>> ELSE Return /\ Drop
    /\ UNCHANGED <<up, attempt, memory, given, file, twitch, applied>>

(* A timeout, a lost connection or another HTTP error: request_json raises *)
(* and nothing is tried again, whether Twitch had answered or not.         *)
NoAnswer ==
    /\ at \in Waits
    /\ Return /\ Drop
    /\ UNCHANGED <<up, attempt, memory, given, file, twitch, applied>>

Step == \/ Validated \/ Mismatched \/ Refused \/ RefusedAgain \/ RefreshFails
        \/ Refreshed \/ Save \/ SaveFails \/ Served \/ NoAnswer

-----------------------------------------------------------------------------
(* Twitch.  It accepts tokens it knows, and may refuse any: the account or *)
(* the permissions may have changed.                                       *)
AnswersValidation ==
    /\ at \in {"validate", "revalidate"} /\ wire = "none"
    /\ \/ mem.access \in valid /\ wire' \in {"ok", "mismatch"}
       \/ mem.access \notin valid /\ wire' = "unauthorized"
    /\ UNCHANGED <<up, request, memory, given, file, twitch, applied, stranded>>

Unused == Tokens \ (valid \cup grants \cup
                    {mem.access, mem.refresh, file.access, file.refresh, confirmed})

AnswersRefresh ==
    /\ at = "refresh" /\ wire = "none"
    /\ \/ /\ mem.refresh \in grants
          /\ \E a \in Unused : \E r \in {mem.refresh} \cup (Unused \ {a}) :
                /\ given' = [access |-> a, refresh |-> r]
                /\ valid' = valid \cup {a}
                /\ grants' = (grants \ {mem.refresh}) \cup {r}
          /\ wire' \in {"pair", "incomplete"}
       \/ wire' = "rejected" /\ UNCHANGED <<given, twitch>>
    /\ UNCHANGED <<up, request, memory, file, applied, stranded>>

AnswersRequest ==
    /\ at = "send" /\ wire = "none"
    /\ \/ mem.access \in valid /\ wire' = "ok" /\ applied' = applied + 1
       \/ wire' = "unauthorized" /\ UNCHANGED applied
    /\ UNCHANGED <<up, request, memory, given, file, twitch, stranded>>

Expire ==
    /\ \E t \in valid : valid' = valid \ {t}
    /\ UNCHANGED <<up, request, memory, wire, given, file, grants, applied, stranded>>

(* The account disconnects the application.                                *)
Revoke ==
    /\ grants # {} /\ grants' = {} /\ valid' = {}
    /\ UNCHANGED <<up, request, memory, wire, given, file, applied, stranded>>

-----------------------------------------------------------------------------
(* An hour passes.                                                         *)
Age ==
    /\ up /\ age = "fresh" /\ age' = "due"
    /\ UNCHANGED <<up, request, mem, blocked, confirmed, wire, given, file, twitch,
                   applied, stranded>>

(* The process ends, in order or not.                                      *)
Crash ==
    /\ up /\ up' = FALSE
    /\ Return /\ Drop
    /\ UNCHANGED <<attempt, memory, given, file, twitch, applied>>

(* load: a new manager takes what the file holds and trusts nothing.       *)
Start ==
    /\ ~up /\ up' = TRUE
    /\ mem' = file /\ age' = "none" /\ blocked' = FALSE /\ confirmed' = None
    /\ UNCHANGED <<request, wire, given, file, twitch, applied, stranded>>

(* The helper exchanges a code for a new pair and replaces the file, while *)
(* no collector runs; a helper that fails leaves the old file.             *)
Authorize ==
    /\ ~up
    /\ \E a \in Unused : \E r \in Unused \ {a} :
          /\ file' = [access |-> a, refresh |-> r]
          /\ valid' = valid \cup {a} /\ grants' = grants \cup {r}
    /\ stranded' = FALSE
    /\ UNCHANGED <<up, request, memory, wire, given, applied>>

Next ==
    \/ Begin("helix", FALSE) \/ \E force \in BOOLEAN : Begin("due", force)
    \/ Step
    \/ AnswersValidation \/ AnswersRefresh \/ AnswersRequest \/ Expire \/ Revoke
    \/ Age \/ Crash \/ Start \/ Authorize

Spec == Init /\ [][Next]_vars

(* Every request has a timeout of twenty seconds and nothing else waits.   *)
FairSpec == Spec /\ WF_vars(Step)

-----------------------------------------------------------------------------
TypeOK ==
    /\ {up, blocked, stranded} \subseteq BOOLEAN
    /\ op \in {"none", "due", "helix"} /\ attempt \in 1..2
    /\ at \in {"idle", "save"} \cup Waits
    /\ {mem, file, given} \subseteq Pairs
    /\ age \in {"none", "fresh", "due"}
    /\ wire \in Answers
    /\ {valid, grants} \subseteq SUBSET Tokens
    /\ confirmed \in Tokens \cup {None} /\ applied \in Nat

(* What is under way, and which answers may be on the wire for it.         *)
Flow ==
    /\ op = "none" <=> at = "idle"
    /\ ~up => op = "none"
    /\ at = "send" => op = "helix"
    /\ at = "idle" => wire = "none"
    /\ at = "save" <=> (wire = "pair" /\ at # "refresh")
    /\ at = "refresh" => wire \in {"none", "rejected", "incomplete", "pair"}
    /\ at \in {"validate", "revalidate", "send"} =>
          wire \in {"none", "ok", "mismatch", "unauthorized"}

(* A blocked manager asks nothing of Twitch until it is started again.     *)
Silence == blocked => op = "none"

(* The tokens in use are in the file.                                      *)
OnDisk == up => mem = file

(* A validation counts for the tokens it was of, a Helix request goes out  *)
(* under a validation only, and there is none while tokens are replaced.   *)
Validation ==
    /\ up /\ age # "none" => confirmed = mem.access
    /\ at = "send" => age # "none"
    /\ at \in {"refresh", "save", "revalidate"} => age = "none"

(* Until its answer is read, the request has been carried out never, and   *)
(* then at most once: a second request follows only a refusal.             *)
Once ==
    /\ applied <= 1
    /\ op # "none" /\ applied = 1 => at = "send" /\ wire = "ok"

(* The refresh token Twitch accepts is missing from the file only while    *)
(* it is on its way there.                                                 *)
Rescue ==
    /\ file.refresh \in grants \/ grants = {} \/ stranded \/ Carrying
    /\ Carrying /\ wire = "pair" => given.refresh \in grants \/ grants = {}

TokenInv == TypeOK /\ Flow /\ Silence /\ OnDisk /\ Validation /\ Once /\ Rescue

-----------------------------------------------------------------------------
(* A Helix request carries an access token whose identity and permissions  *)
(* this process has confirmed: a refreshed token is never used on the word *)
(* of the validation of the old one (twitch_auth.py, _helix_request).      *)
SentIsConfirmed == at = "send" => confirmed = mem.access

(* A request is carried out at most once, although a refused one is sent   *)
(* again and an answer may be lost (helix_post: "never blindly retried").  *)
AppliedOnce == applied <= 1

(* A process that starts now finds a refresh token Twitch accepts, unless  *)
(* the account has withdrawn the authorization, or a rotated token was     *)
(* lost between Twitch and the file: by a crash, a lost or unusable        *)
(* answer, or a failed write.  A refresh whose validation fails loses      *)
(* nothing (the comment in _refresh).                                      *)
RestartCanRefresh ==
    op = "none" => file.refresh \in grants \/ grants = {} \/ stranded

(* Every operation returns or raises, however often Twitch refuses: the    *)
(* lock is never held for ever.                                            *)
OperationsEnd == op # "none" ~> op = "none"

(* What an operation may still have ahead of it: the waits up to the Helix *)
(* request, and once more those from the refresh on while its first        *)
(* request is not refused; each wait is an answer and its reading.         *)
Ahead(place) == CASE place = "validate"   -> 5
                  [] place = "refresh"    -> 4
                  [] place = "save"       -> 3
                  [] place = "revalidate" -> 2
                  [] place = "send"       -> 1
                  [] OTHER                -> 0
Left == IF op = "none" THEN 0
        ELSE 2 * (Ahead(at) + IF attempt = 1 THEN 4 ELSE 0) + IF wire = "none" THEN 1 ELSE 0

(* Nineteen steps at most are ahead of an operation under way, seven of    *)
(* them requests to Twitch, and at least one is.                           *)
EffortIsBounded == op # "none" => Left \in 1..19

(* An operation never starts over: each thing that happens to it brings it *)
(* nearer to its end, and it ends as the operation it began as             *)
(* (twitch_auth.py, _helix_request: one refresh, one second request).      *)
OperationsAdvance ==
    [][op # "none" /\ (request' # request \/ wire' # wire)
          => op' = "none" \/ (op' = op /\ Left' < Left)]_vars
=============================================================================
