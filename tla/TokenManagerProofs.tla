------------------------- MODULE TokenManagerProofs -------------------------
(***************************************************************************)
(* TokenInv is inductive for any set of tokens: it holds whatever answers, *)
(* failures and crashes fall between the requests of an operation.  The    *)
(* safety properties of TokenManager follow from it.                       *)
(***************************************************************************)
EXTENDS TokenManager, TLAPS

-----------------------------------------------------------------------------
(* The first state: two tokens Twitch knows, in the file and in memory.    *)
LEMMA InitKeeps == Init => TokenInv
<1> SUFFICES ASSUME Init PROVE TokenInv
  OBVIOUS
<1>1. \E a, r \in Tokens : /\ mem = [access |-> a, refresh |-> r]
                          /\ valid = {a} /\ grants = {r}
  BY DEF Init
<1>2. /\ mem \in Pairs /\ grants = {mem.refresh}
      /\ valid \subseteq Tokens /\ grants \subseteq Tokens
  BY <1>1 DEF Pairs
<1>3. file = mem /\ given = mem /\ wire = "none" /\ at = "idle" /\ op = "none"
  BY DEF Init
<1>4. TypeOK
  <2>1. {mem, file, given} \subseteq Pairs /\ {valid, grants} \subseteq SUBSET Tokens
    BY <1>2, <1>3
  <2>2. {up, blocked, stranded} \subseteq BOOLEAN
    BY DEF Init
  <2>3. QED BY <2>1, <2>2 DEF TypeOK, Init, Waits, Answers
<1>5. Flow /\ Silence /\ OnDisk /\ Validation /\ Once /\ Rescue
  BY <1>2, <1>3 DEF Init, Flow, Silence, OnDisk, Validation, Once, Rescue, Carrying
<1> QED BY <1>4, <1>5 DEF TokenInv

(* An operation begins.                                                    *)
LEMMA BeginKeeps ==
    ASSUME TokenInv, NEW kind \in {"due", "helix"}, NEW force \in BOOLEAN, Begin(kind, force)
    PROVE  TokenInv'
<1>1. TypeOK'
  BY TokenAssumption DEF TokenInv, TypeOK, Flow, Pairs, Waits, Answers, Begin,
      Ask, memory, twitch
<1>2. Flow'
  BY DEF TokenInv, TypeOK, Flow, Waits, Answers, Begin, Ask, memory, twitch
<1>3. Silence'
  BY DEF TokenInv, Flow, Silence, Begin, Ask, memory, twitch
<1>4. OnDisk'
  BY DEF TokenInv, OnDisk, Flow, Begin, Ask, memory, twitch
<1>5. Validation'
  BY DEF TokenInv, Validation, Flow, Begin, Ask, memory, twitch
<1>6. Once'
  BY DEF TokenInv, TypeOK, Once, Flow, Begin, Ask, memory, twitch
<1>7. Rescue'
  BY DEF TokenInv, TypeOK, Flow, Rescue, OnDisk, Carrying, Pairs, Begin, Ask,
      memory, twitch
<1> QED BY <1>1, <1>2, <1>3, <1>4, <1>5, <1>6, <1>7 DEF TokenInv

(* The validation succeeds: it counts for the tokens in use.               *)
LEMMA ValidatedKeeps ==
    ASSUME TokenInv, Validated
    PROVE  TokenInv'
<1>1. TypeOK'
  BY TokenAssumption DEF TokenInv, TypeOK, Flow, Pairs, Waits, Answers,
      Validated, Ask, Return, twitch
<1>2. Flow'
  BY DEF TokenInv, TypeOK, Flow, Waits, Answers, Validated, Ask, Return,
      twitch
<1>3. Silence'
  BY DEF TokenInv, Flow, Silence, Validated, Ask, Return, twitch
<1>4. OnDisk'
  BY DEF TokenInv, OnDisk, Flow, Validated, Ask, Return, twitch
<1>5. Validation'
  BY DEF TokenInv, Validation, Flow, Validated, Ask, Return, twitch
<1>6. Once'
  BY DEF TokenInv, TypeOK, Once, Flow, Validated, Ask, Return, twitch
<1>7. Rescue'
  BY DEF TokenInv, TypeOK, Flow, Rescue, OnDisk, Carrying, Pairs, Validated,
      Ask, Return, twitch
<1> QED BY <1>1, <1>2, <1>3, <1>4, <1>5, <1>6, <1>7 DEF TokenInv

(* The validation finds another account.                                   *)
LEMMA MismatchedKeeps ==
    ASSUME TokenInv, Mismatched
    PROVE  TokenInv'
BY TokenAssumption DEF TokenInv, TypeOK, Flow, Pairs, Waits, Answers, Silence,
    OnDisk, Validation, Once, Rescue, Carrying, Mismatched, Ask, Return,
    Block, twitch

(* A token is refused, and with it the validation it had.                  *)
LEMMA RefusedKeeps ==
    ASSUME TokenInv, Refused
    PROVE  TokenInv'
<1>1. TypeOK'
  BY TokenAssumption DEF TokenInv, TypeOK, Flow, Pairs, Waits, Answers,
      Refused, Ask, twitch
<1>2. Flow'
  BY DEF TokenInv, TypeOK, Flow, Waits, Answers, Refused, Ask, twitch
<1>3. Silence'
  BY DEF TokenInv, Flow, Silence, Refused, Ask, twitch
<1>4. OnDisk'
  BY DEF TokenInv, OnDisk, Flow, Refused, Ask, twitch
<1>5. Validation'
  BY DEF TokenInv, Validation, Flow, Refused, Ask, twitch
<1>6. Once'
  BY DEF TokenInv, TypeOK, Once, Flow, Refused, Ask, twitch
<1>7. Rescue'
  BY DEF TokenInv, TypeOK, Flow, Rescue, OnDisk, Carrying, Pairs, Refused,
      Ask, twitch
<1> QED BY <1>1, <1>2, <1>3, <1>4, <1>5, <1>6, <1>7 DEF TokenInv

(* The refreshed token is refused.                                         *)
LEMMA RefusedAgainKeeps ==
    ASSUME TokenInv, RefusedAgain
    PROVE  TokenInv'
BY TokenAssumption DEF TokenInv, TypeOK, Flow, Pairs, Waits, Answers, Silence,
    OnDisk, Validation, Once, Rescue, Carrying, RefusedAgain, Ask, Return,
    memory, twitch

(* The refresh fails.                                                      *)
LEMMA RefreshFailsKeeps ==
    ASSUME TokenInv, RefreshFails
    PROVE  TokenInv'
<1>1. TypeOK'
  BY TokenAssumption DEF TokenInv, TypeOK, Flow, Pairs, Waits, Answers,
      RefreshFails, Ask, Return, Block, Drop, Carrying, twitch
<1>2. Flow'
  BY DEF TokenInv, TypeOK, Flow, Waits, Answers, RefreshFails, Ask, Return,
      Block, Drop, Carrying, twitch
<1>3. Silence'
  BY DEF TokenInv, Flow, Silence, RefreshFails, Ask, Return, Block, Drop,
      Carrying, twitch
<1>4. OnDisk'
  BY DEF TokenInv, OnDisk, Flow, RefreshFails, Ask, Return, Block, Drop,
      Carrying, twitch
<1>5. Validation'
  BY DEF TokenInv, Validation, Flow, RefreshFails, Ask, Return, Block, Drop,
      Carrying, twitch
<1>6. Once'
  BY DEF TokenInv, TypeOK, Once, Flow, RefreshFails, Ask, Return, Block, Drop,
      Carrying, twitch
<1>7. Rescue'
  BY DEF TokenInv, TypeOK, Flow, Rescue, OnDisk, Carrying, Pairs,
      RefreshFails, Ask, Return, Block, Drop, twitch
<1> QED BY <1>1, <1>2, <1>3, <1>4, <1>5, <1>6, <1>7 DEF TokenInv

(* The refresh succeeds.                                                   *)
LEMMA RefreshedKeeps ==
    ASSUME TokenInv, Refreshed
    PROVE  TokenInv'
BY TokenAssumption DEF TokenInv, TypeOK, Flow, Pairs, Waits, Answers, Silence,
    OnDisk, Validation, Once, Rescue, Carrying, Refreshed, memory, twitch

(* Tokens are replaced in the file and in memory together.                 *)
LEMMA SaveKeeps ==
    ASSUME TokenInv, Save
    PROVE  TokenInv'
<1>1. TypeOK'
  BY TokenAssumption DEF TokenInv, TypeOK, Flow, Pairs, Waits, Answers, Save,
      Ask, twitch
<1>2. Flow'
  BY DEF TokenInv, TypeOK, Flow, Waits, Answers, Save, Ask, twitch
<1>3. Silence'
  BY DEF TokenInv, Flow, Silence, Save, Ask, twitch
<1>4. OnDisk'
  BY DEF TokenInv, OnDisk, Flow, Save, Ask, twitch
<1>5. Validation'
  BY DEF TokenInv, Validation, Flow, Save, Ask, twitch
<1>6. Once'
  BY DEF TokenInv, TypeOK, Once, Flow, Save, Ask, twitch
<1>7. Rescue'
  BY DEF TokenInv, TypeOK, Flow, Rescue, OnDisk, Carrying, Pairs, Save, Ask,
      twitch
<1> QED BY <1>1, <1>2, <1>3, <1>4, <1>5, <1>6, <1>7 DEF TokenInv

(* The file cannot be replaced.                                            *)
LEMMA SaveFailsKeeps ==
    ASSUME TokenInv, SaveFails
    PROVE  TokenInv'
<1>1. TypeOK'
  BY TokenAssumption DEF TokenInv, TypeOK, Flow, Pairs, Waits, Answers,
      SaveFails, Ask, Return, Block, Drop, Carrying, twitch
<1>2. Flow'
  BY DEF TokenInv, TypeOK, Flow, Waits, Answers, SaveFails, Ask, Return,
      Block, Drop, Carrying, twitch
<1>3. Silence'
  BY DEF TokenInv, Flow, Silence, SaveFails, Ask, Return, Block, Drop,
      Carrying, twitch
<1>4. OnDisk'
  BY DEF TokenInv, OnDisk, Flow, SaveFails, Ask, Return, Block, Drop,
      Carrying, twitch
<1>5. Validation'
  BY DEF TokenInv, Validation, Flow, SaveFails, Ask, Return, Block, Drop,
      Carrying, twitch
<1>6. Once'
  BY DEF TokenInv, TypeOK, Once, Flow, SaveFails, Ask, Return, Block, Drop,
      Carrying, twitch
<1>7. Rescue'
  BY DEF TokenInv, TypeOK, Flow, Rescue, OnDisk, Carrying, Pairs, SaveFails,
      Ask, Return, Block, Drop, twitch
<1> QED BY <1>1, <1>2, <1>3, <1>4, <1>5, <1>6, <1>7 DEF TokenInv

(* The answer to a request is read.                                        *)
LEMMA ServedKeeps ==
    ASSUME TokenInv, Served
    PROVE  TokenInv'
BY TokenAssumption DEF TokenInv, TypeOK, Flow, Pairs, Waits, Answers, Silence,
    OnDisk, Validation, Once, Rescue, Carrying, Served, Ask, Return, memory,
    twitch

(* An answer never comes.                                                  *)
LEMMA NoAnswerKeeps ==
    ASSUME TokenInv, NoAnswer
    PROVE  TokenInv'
<1>1. TypeOK'
  BY TokenAssumption DEF TokenInv, TypeOK, Flow, Pairs, Waits, Answers,
      NoAnswer, Ask, Return, Drop, Carrying, memory, twitch
<1>2. Flow'
  BY DEF TokenInv, TypeOK, Flow, Waits, Answers, NoAnswer, Ask, Return, Drop,
      Carrying, memory, twitch
<1>3. Silence'
  BY DEF TokenInv, Flow, Silence, NoAnswer, Ask, Return, Drop, Carrying,
      memory, twitch
<1>4. OnDisk'
  BY DEF TokenInv, OnDisk, Flow, NoAnswer, Ask, Return, Drop, Carrying,
      memory, twitch
<1>5. Validation'
  BY DEF TokenInv, Validation, Flow, NoAnswer, Ask, Return, Drop, Carrying,
      memory, twitch
<1>6. Once'
  BY DEF TokenInv, TypeOK, Once, Flow, NoAnswer, Ask, Return, Drop, Carrying,
      memory, twitch
<1>7. Rescue'
  BY DEF TokenInv, TypeOK, Flow, Rescue, OnDisk, Carrying, Pairs, NoAnswer,
      Ask, Return, Drop, memory, twitch
<1> QED BY <1>1, <1>2, <1>3, <1>4, <1>5, <1>6, <1>7 DEF TokenInv

(* Twitch answers a validation.                                            *)
LEMMA AnswersValidationKeeps ==
    ASSUME TokenInv, AnswersValidation
    PROVE  TokenInv'
BY TokenAssumption DEF TokenInv, TypeOK, Flow, Pairs, Waits, Answers, Silence,
    OnDisk, Validation, Once, Rescue, Carrying, AnswersValidation, request,
    memory, twitch

(* Twitch issues a pair: the new refresh token is on its way.              *)
LEMMA AnswersRefreshKeeps ==
    ASSUME TokenInv, AnswersRefresh
    PROVE  TokenInv'
<1>1. TypeOK'
  BY TokenAssumption DEF TokenInv, TypeOK, Flow, Pairs, Waits, Answers,
      AnswersRefresh, Unused, request, memory, twitch
<1>2. Flow'
  BY DEF TokenInv, TypeOK, Flow, Waits, Answers, AnswersRefresh, Unused,
      request, memory, twitch
<1>3. Silence'
  BY DEF TokenInv, Flow, Silence, AnswersRefresh, Unused, request, memory,
      twitch
<1>4. OnDisk'
  BY DEF TokenInv, OnDisk, Flow, AnswersRefresh, Unused, request, memory,
      twitch
<1>5. Validation'
  BY DEF TokenInv, Validation, Flow, AnswersRefresh, Unused, request, memory,
      twitch
<1>6. Once'
  BY DEF TokenInv, TypeOK, Once, Flow, AnswersRefresh, Unused, request,
      memory, twitch
<1>7. Rescue'
  BY DEF TokenInv, TypeOK, Flow, Rescue, OnDisk, Carrying, Pairs,
      AnswersRefresh, Unused, request, memory, twitch
<1> QED BY <1>1, <1>2, <1>3, <1>4, <1>5, <1>6, <1>7 DEF TokenInv

(* Twitch carries out a request, or refuses it.                            *)
LEMMA AnswersRequestKeeps ==
    ASSUME TokenInv, AnswersRequest
    PROVE  TokenInv'
<1>1. TypeOK'
  BY TokenAssumption DEF TokenInv, TypeOK, Flow, Pairs, Waits, Answers,
      AnswersRequest, request, memory, twitch
<1>2. Flow'
  BY DEF TokenInv, TypeOK, Flow, Waits, Answers, AnswersRequest, request,
      memory, twitch
<1>3. Silence'
  BY DEF TokenInv, Flow, Silence, AnswersRequest, request, memory, twitch
<1>4. OnDisk'
  BY DEF TokenInv, OnDisk, Flow, AnswersRequest, request, memory, twitch
<1>5. Validation'
  BY DEF TokenInv, Validation, Flow, AnswersRequest, request, memory, twitch
<1>6. Once'
  BY DEF TokenInv, TypeOK, Once, Flow, AnswersRequest, request, memory, twitch
<1>7. Rescue'
  BY DEF TokenInv, TypeOK, Flow, Rescue, OnDisk, Carrying, Pairs,
      AnswersRequest, request, memory, twitch
<1> QED BY <1>1, <1>2, <1>3, <1>4, <1>5, <1>6, <1>7 DEF TokenInv

(* A token expires.                                                        *)
LEMMA ExpireKeeps ==
    ASSUME TokenInv, Expire
    PROVE  TokenInv'
BY TokenAssumption DEF TokenInv, TypeOK, Flow, Pairs, Waits, Answers, Silence,
    OnDisk, Validation, Once, Rescue, Carrying, Expire, request, memory

(* The account withdraws the authorization.                                *)
LEMMA RevokeKeeps ==
    ASSUME TokenInv, Revoke
    PROVE  TokenInv'
BY TokenAssumption DEF TokenInv, TypeOK, Flow, Pairs, Waits, Answers, Silence,
    OnDisk, Validation, Once, Rescue, Carrying, Revoke, request, memory

(* A validation becomes due.                                               *)
LEMMA AgeKeeps ==
    ASSUME TokenInv, Age
    PROVE  TokenInv'
BY TokenAssumption DEF TokenInv, TypeOK, Flow, Pairs, Waits, Answers, Silence,
    OnDisk, Validation, Once, Rescue, Carrying, Age, request, twitch

(* The process ends.                                                       *)
LEMMA CrashKeeps ==
    ASSUME TokenInv, Crash
    PROVE  TokenInv'
<1>1. TypeOK'
  BY TokenAssumption DEF TokenInv, TypeOK, Flow, Pairs, Waits, Answers, Crash,
      Ask, Return, Drop, Carrying, memory, twitch
<1>2. Flow'
  BY DEF TokenInv, TypeOK, Flow, Waits, Answers, Crash, Ask, Return, Drop,
      Carrying, memory, twitch
<1>3. Silence'
  BY DEF TokenInv, Flow, Silence, Crash, Ask, Return, Drop, Carrying, memory,
      twitch
<1>4. OnDisk'
  BY DEF TokenInv, OnDisk, Flow, Crash, Ask, Return, Drop, Carrying, memory,
      twitch
<1>5. Validation'
  BY DEF TokenInv, Validation, Flow, Crash, Ask, Return, Drop, Carrying,
      memory, twitch
<1>6. Once'
  BY DEF TokenInv, TypeOK, Once, Flow, Crash, Ask, Return, Drop, Carrying,
      memory, twitch
<1>7. Rescue'
  BY DEF TokenInv, TypeOK, Flow, Rescue, OnDisk, Carrying, Pairs, Crash, Ask,
      Return, Drop, memory, twitch
<1> QED BY <1>1, <1>2, <1>3, <1>4, <1>5, <1>6, <1>7 DEF TokenInv

(* A process starts from the file.                                         *)
LEMMA StartKeeps ==
    ASSUME TokenInv, Start
    PROVE  TokenInv'
<1>1. TypeOK'
  BY TokenAssumption DEF TokenInv, TypeOK, Flow, Pairs, Waits, Answers, Start,
      request, twitch
<1>2. Flow'
  BY DEF TokenInv, TypeOK, Flow, Waits, Answers, Start, request, twitch
<1>3. Silence'
  BY DEF TokenInv, Flow, Silence, Start, request, twitch
<1>4. OnDisk'
  BY DEF TokenInv, OnDisk, Flow, Start, request, twitch
<1>5. Validation'
  BY DEF TokenInv, Validation, Flow, Start, request, twitch
<1>6. Once'
  BY DEF TokenInv, TypeOK, Once, Flow, Start, request, twitch
<1>7. Rescue'
  BY DEF TokenInv, TypeOK, Flow, Rescue, OnDisk, Carrying, Pairs, Start,
      request, twitch
<1> QED BY <1>1, <1>2, <1>3, <1>4, <1>5, <1>6, <1>7 DEF TokenInv

(* The helper writes a first pair.                                         *)
LEMMA AuthorizeKeeps ==
    ASSUME TokenInv, Authorize
    PROVE  TokenInv'
<1>1. TypeOK'
  <2>1. PICK a \in Tokens, r \in Tokens : file' = [access |-> a, refresh |-> r]
                 /\ valid' = valid \cup {a} /\ grants' = grants \cup {r}
    BY DEF Authorize, Unused
  <2>2. file' \in Pairs /\ valid' \subseteq Tokens /\ grants' \subseteq Tokens
    BY <2>1 DEF TokenInv, TypeOK, Pairs
  <2>3. QED BY <2>2 DEF TokenInv, TypeOK, Waits, Answers, Authorize, request, memory
<1>2. Flow'
  BY DEF TokenInv, TypeOK, Flow, Waits, Answers, Authorize, Unused, request,
      memory
<1>3. Silence'
  BY DEF TokenInv, Flow, Silence, Authorize, Unused, request, memory
<1>4. OnDisk'
  BY DEF TokenInv, OnDisk, Flow, Authorize, Unused, request, memory
<1>5. Validation'
  BY DEF TokenInv, Validation, Flow, Authorize, Unused, request, memory
<1>6. Once'
  BY DEF TokenInv, TypeOK, Once, Flow, Authorize, Unused, request, memory
<1>7. Rescue'
  BY DEF TokenInv, TypeOK, Flow, Rescue, OnDisk, Carrying, Pairs, Authorize,
      Unused, request, memory
<1> QED BY <1>1, <1>2, <1>3, <1>4, <1>5, <1>6, <1>7 DEF TokenInv

(* Each step keeps the invariant.                                          *)
LEMMA StepKeeps == TokenInv /\ [Next]_vars => TokenInv'
<1> SUFFICES ASSUME TokenInv, [Next]_vars PROVE TokenInv'
  OBVIOUS
<1>1. CASE Begin("helix", FALSE)
  BY <1>1, BeginKeeps
<1>2. CASE \E force \in BOOLEAN : Begin("due", force)
  BY <1>2, BeginKeeps
<1>3. CASE Step
  BY <1>3, ValidatedKeeps, MismatchedKeeps, RefusedKeeps, RefusedAgainKeeps,
     RefreshFailsKeeps, RefreshedKeeps, SaveKeeps, SaveFailsKeeps, ServedKeeps,
     NoAnswerKeeps DEF Step
<1>4. CASE AnswersValidation \/ AnswersRefresh \/ AnswersRequest
  BY <1>4, AnswersValidationKeeps, AnswersRefreshKeeps, AnswersRequestKeeps
<1>5. CASE Expire \/ Revoke \/ Age
  BY <1>5, ExpireKeeps, RevokeKeeps, AgeKeeps
<1>6. CASE Crash \/ Start \/ Authorize
  BY <1>6, CrashKeeps, StartKeeps, AuthorizeKeeps
<1>7. CASE UNCHANGED vars
  <2> USE <1>7 DEF TokenInv, vars, request, memory, twitch
  <2>1. TypeOK' /\ Flow'
    BY DEF TypeOK, Flow
  <2>2. Silence' /\ OnDisk' /\ Validation' /\ Once' /\ Rescue'
    BY DEF Silence, OnDisk, Validation, Once, Rescue, Carrying
  <2> QED BY <2>1, <2>2
<1>8. QED
  BY <1>1, <1>2, <1>3, <1>4, <1>5, <1>6, <1>7 DEF Next

-----------------------------------------------------------------------------
(* The invariant holds of the manager, its file and Twitch together.       *)
THEOREM ManagerIsSound == Spec => []TokenInv
BY InitKeeps, StepKeeps, PTL DEF Spec

(* Types.                                                                  *)
THEOREM ManagerIsTyped == Spec => []TypeOK
<1>1. TokenInv => TypeOK
  BY DEF TokenInv
<1>2. QED BY <1>1, ManagerIsSound, PTL

(* A Helix request goes out under a validation of the very token it        *)
(* carries, refreshed or not (_helix_request).                             *)
THEOREM RequestsAreConfirmed == Spec => []SentIsConfirmed
<1>1. TokenInv => SentIsConfirmed
  BY DEF TokenInv, Flow, Validation, SentIsConfirmed
<1>2. QED BY <1>1, ManagerIsSound, PTL

(* A request is carried out once at most, whatever answer is lost.         *)
THEOREM RequestsAreOnce == Spec => []AppliedOnce
<1>1. TokenInv => AppliedOnce
  BY DEF TokenInv, Once, AppliedOnce
<1>2. QED BY <1>1, ManagerIsSound, PTL

(* The file always holds a way back, except after the losses named.        *)
THEOREM FileIsAWayBack == Spec => []RestartCanRefresh
<1>1. TokenInv => RestartCanRefresh
  BY DEF TokenInv, Flow, Rescue, Carrying, RestartCanRefresh
<1>2. QED BY <1>1, ManagerIsSound, PTL

-----------------------------------------------------------------------------
(* An operation gets nearer to its end with every step: what is left of    *)
(* OperationsEnd once fairness is taken away from it.                      *)

(* The steps of the operation itself.                                      *)
LEMMA StepAdvances ==
    ASSUME TokenInv, Step
    PROVE  op' = "none" \/ (op' = op /\ Left' < Left)
<1> USE DEF TokenInv, TypeOK, Flow
<1>1. CASE Validated
  BY <1>1 DEF Validated, Return, Ask, Left, Ahead
<1>2. CASE Refused
  BY <1>2 DEF Refused, Ask, Left, Ahead
<1>3. CASE Refreshed
  BY <1>3 DEF Refreshed, Left, Ahead
<1>4. CASE Save
  BY <1>4 DEF Save, Ask, Left, Ahead
<1>5. CASE \/ Mismatched \/ RefusedAgain \/ RefreshFails \/ SaveFails \/ Served \/ NoAnswer
  BY <1>5 DEF Mismatched, RefusedAgain, RefreshFails, SaveFails, Served, NoAnswer,
     Block, Return
<1> QED BY <1>1, <1>2, <1>3, <1>4, <1>5 DEF Step

(* An answer of Twitch: it is still to be read.                            *)
LEMMA AnswerAdvances ==
    ASSUME TokenInv, AnswersValidation \/ AnswersRefresh \/ AnswersRequest
    PROVE  op' = op /\ Left' < Left
<1>1. /\ UNCHANGED request /\ wire = "none" /\ wire' # "none" /\ op # "none"
  BY DEF TokenInv, Flow, AnswersValidation, AnswersRefresh, AnswersRequest, request
<1>2. Ahead(at)' = Ahead(at) /\ Ahead(at) \in 0..5
  BY <1>1 DEF Ahead, request
<1> QED BY <1>1, <1>2 DEF Left, request, TokenInv, TypeOK

(* A step of the operation, an answer, or an end: nothing else touches an  *)
(* operation under way.                                                    *)
LEMMA OperationAdvances ==
    ASSUME TokenInv, [Next]_vars, op # "none", request' # request \/ wire' # wire
    PROVE  op' = "none" \/ (op' = op /\ Left' < Left)
<1>1. CASE Step
  BY <1>1, StepAdvances
<1>2. CASE AnswersValidation \/ AnswersRefresh \/ AnswersRequest
  BY <1>2, AnswerAdvances
<1>3. CASE Expire \/ Revoke \/ Age
  BY <1>3 DEF Expire, Revoke, Age
<1>4. CASE Crash
  BY <1>4 DEF Crash, Return
<1>5. CASE Start \/ Authorize
  BY <1>5 DEF TokenInv, Flow, Start, Authorize
<1>6. CASE Begin("helix", FALSE) \/ \E force \in BOOLEAN : Begin("due", force)
  BY <1>6 DEF Begin
<1>7. CASE UNCHANGED vars
  BY <1>7 DEF vars, request
<1> QED BY <1>1, <1>2, <1>3, <1>4, <1>5, <1>6, <1>7 DEF Next

(* At most nineteen steps are ahead of an operation, seven of them         *)
(* requests: _helix_request refreshes once and asks twice.                 *)
THEOREM EffortStaysBounded == Spec => []EffortIsBounded
<1>1. TokenInv => EffortIsBounded
  <2> SUFFICES ASSUME TokenInv, op # "none" PROVE Left \in 1..19
    BY DEF EffortIsBounded
  <2>1. Ahead(at) \in 1..5
    BY DEF TokenInv, TypeOK, Flow, Waits, Ahead
  <2>2. QED BY <2>1 DEF Left, TokenInv, TypeOK
<1>2. QED BY <1>1, ManagerIsSound, PTL

(* Every step of an operation brings it nearer to its end, so that the     *)
(* lock is given back after a bounded number of them, whatever Twitch      *)
(* answers and however often it refuses (_helix_request, _refresh).        *)
THEOREM OperationsGetDone == Spec => OperationsAdvance
<1>1. TokenInv /\ [Next]_vars =>
        [op # "none" /\ (request' # request \/ wire' # wire)
            => op' = "none" \/ (op' = op /\ Left' < Left)]_vars
  BY OperationAdvances
<1>2. QED BY <1>1, ManagerIsSound, PTL DEF Spec, OperationsAdvance
=============================================================================
