---------------------------- MODULE SafirClient ----------------------------
(***************************************************************************)
(* One call of BaleSafirClient.send_data (core.py lines 592-715) and the   *)
(* Safir service it posts to: the retry loop against answers that are      *)
(* lost, late, or errors of a gateway after Safir has already accepted the *)
(* message.  This is the inside of the single action Send of               *)
(* BatchProcessing; upload_file posts once and is that module's Upload.    *)
(*                                                                         *)
(* Safir is external.  As README.md lines 102-104 tell, it accepts one      *)
(* request_id once, and answers 2xx without an error code only to what it  *)
(* has accepted.                                                           *)
(***************************************************************************)
EXTENDS Integers

CONSTANTS HttpStatuses,   \* the HTTP statuses an answer may have
          MaxRetries      \* the largest max_retries a batch may ask for

ASSUME HttpAssumption == HttpStatuses \subseteq 100..599
ASSUME RetriesAssumption == MaxRetries \in Nat

\* Error codes after ERROR_CODES has named them; "other" stands for every code
\* without a meaning of its own, "not_object" for a JSON body that is no object.
Codes == {"", "InternalServerError", "RateLimitExceeded", "NotBaleUser",
          "PaymentRequired", "InvalidPhone", "other", "not_object"}

Answers == [http : HttpStatuses, code : Codes]
NoAnswer == [http |-> 0, code |-> ""]

Success(answer) == answer.http \in 200..299 /\ answer.code = ""

Statuses == {"sent", "failed", "invalid_phone", "not_bale_user", "rate_limited",
             "payment_required", "config_error"}

\* last_result before the first answer.
NoResult == [status |-> "failed", http |-> 0, code |-> "", retry_count |-> 0]

VARIABLES
    configured,    \* the client has an API key and a bot id
    max_retries,   \* of the batch
    pc,            \* position in send_data
    attempt,       \* the loop variable
    answer,        \* the answer to the current POST that has reached the client
    last_result,
    wire,          \* attempts whose POST may still reach Safir
    known,         \* Safir: the request ids it has accepted
    delivered      \* Safir: messages it has taken on

client == <<pc, attempt, answer, last_result>>
safir == <<known, delivered>>
vars == <<configured, max_retries, client, wire, safir>>

Init ==
    /\ configured \in BOOLEAN
    /\ max_retries \in 0..MaxRetries
    /\ pc = "start"
    /\ attempt = 0
    /\ answer = NoAnswer
    /\ last_result = NoResult
    /\ wire = {}
    /\ known = {}
    /\ delivered = 0

-----------------------------------------------------------------------------
\* Classification of an answer.

\* Mutant: every 2xx is a success.
StatusByHttp(http, code) ==
    IF http \in 200..299 THEN "sent"
    ELSE IF http = 429 THEN "rate_limited"
    ELSE IF http = 402 THEN "payment_required"
    ELSE "failed"

\* _status: the order of the tests decides between a code and an HTTP status
\* that disagree.
Status(http, code) ==
    IF http \in 200..299 /\ code = "" THEN "sent"
    ELSE IF code = "NotBaleUser" THEN "not_bale_user"
    ELSE IF http = 429 \/ code = "RateLimitExceeded" THEN "rate_limited"
    ELSE IF http = 402 \/ code = "PaymentRequired" THEN "payment_required"
    ELSE IF code = "InvalidPhone" THEN "invalid_phone"
    ELSE "failed"

\* Mutant: only the HTTP status is looked at.
TransientByHttp(http, code) == http \in {429, 500, 502, 503, 504}

Transient(http, code) ==
    \/ http \in {429, 500, 502, 503, 504}
    \/ code \in {"RateLimitExceeded", "InternalServerError"}

\* Mutant: a request id of its own for every attempt.
RequestIdOfAttempt(a) == a

\* _stable_request_id is computed once per row: the payload of every attempt
\* carries the same id.
RequestId(a) == 0

-----------------------------------------------------------------------------
\* The client.

Start ==
    /\ pc = "start"
    /\ IF configured
         THEN pc' = "post" /\ UNCHANGED last_result
         ELSE pc' = "returned"
              /\ last_result' = [NoResult EXCEPT !.status = "config_error"]
    /\ UNCHANGED <<configured, max_retries, attempt, answer, wire, safir>>

Post ==
    /\ pc = "post"
    /\ pc' = "wait"
    /\ wire' = wire \cup {attempt}
    /\ answer' = NoAnswer
    /\ UNCHANGED <<configured, max_retries, attempt, last_result, safir>>

\* A parsed answer: return it, or back off when it is transient.  A JSON body
\* that is no object has no "get": AttributeError leaves send_data.
Receive ==
    /\ pc = "wait"
    /\ answer # NoAnswer
    /\ IF answer.code = "not_object"
         THEN pc' = "raised" /\ UNCHANGED last_result
         ELSE /\ last_result' = [status |-> Status(answer.http, answer.code),
                                 http |-> answer.http, code |-> answer.code,
                                 retry_count |-> attempt]
              /\ pc' = IF Transient(answer.http, answer.code) /\ attempt < max_retries
                         THEN "backoff" ELSE "returned"
    /\ UNCHANGED <<configured, max_retries, attempt, answer, wire, safir>>

\* Mutant: requests.post without a timeout.
WaitForever == FALSE /\ UNCHANGED vars

\* Mutant: the exception path tries once more than the answer path.
NetworkErrorOneMore ==
    /\ pc = "wait"
    /\ answer = NoAnswer
    /\ last_result' = [NoResult EXCEPT !.retry_count = attempt]
    /\ pc' = IF attempt <= max_retries THEN "backoff" ELSE "returned"
    /\ UNCHANGED <<configured, max_retries, attempt, answer, wire, safir>>

\* requests.RequestException: the timeout, or a broken connection.  The POST may
\* still be on its way.
NetworkError ==
    /\ pc = "wait"
    /\ answer = NoAnswer
    /\ last_result' = [NoResult EXCEPT !.retry_count = attempt]
    /\ pc' = IF attempt < max_retries THEN "backoff" ELSE "returned"
    /\ UNCHANGED <<configured, max_retries, attempt, answer, wire, safir>>

\* sleep(min(2**attempt, 8)) and the next round.
Backoff ==
    /\ pc = "backoff"
    /\ pc' = "post"
    /\ attempt' = attempt + 1
    /\ UNCHANGED <<configured, max_retries, answer, last_result, wire, safir>>

Client == Start \/ Post \/ Receive \/ NetworkError \/ Backoff

-----------------------------------------------------------------------------
\* The network and Safir (external).

\* The POST of attempt a is lost on its way.
Lose(a) ==
    /\ a \in wire
    /\ wire' = wire \ {a}
    /\ UNCHANGED <<configured, max_retries, client, safir>>

\* The POST of attempt a arrives.  Safir takes it on once per request id, or
\* does not; the answer is a success only if it did, and reaches the client
\* only while the client still waits for it.
Handle(a) ==
    /\ a \in wire
    /\ wire' = wire \ {a}
    /\ \E accept \in BOOLEAN, ans \in Answers :
          /\ Success(ans) => accept
          /\ known' = IF accept THEN known \cup {RequestId(a)} ELSE known
          /\ delivered' = IF accept /\ RequestId(a) \notin known
                            THEN delivered + 1 ELSE delivered
          /\ answer' \in {answer} \cup (IF a = attempt /\ pc = "wait" THEN {ans} ELSE {})
    /\ UNCHANGED <<configured, max_retries, pc, attempt, last_result>>

Done == pc \in {"returned", "raised"} /\ wire = {} /\ UNCHANGED vars

Next == Client \/ (\E a \in wire : Lose(a) \/ Handle(a)) \/ Done

\* requests.post has a timeout and sleep ends; Safir owes nothing.
Spec == Init /\ [][Next]_vars
FairSpec == Spec /\ WF_vars(Client)

-----------------------------------------------------------------------------
(* Properties.                                                             *)

TypeOK ==
    /\ configured \in BOOLEAN
    /\ max_retries \in 0..MaxRetries
    /\ pc \in {"start", "post", "wait", "backoff", "returned", "raised"}
    /\ attempt \in 0..max_retries
    /\ answer \in Answers \cup {NoAnswer}
    /\ last_result \in [status : Statuses, http : HttpStatuses \cup {0},
                        code : Codes, retry_count : 0..max_retries]
    /\ wire \subseteq 0..attempt
    /\ known \subseteq {0}
    /\ delivered \in Nat

\* README lines 102-104: the stable request_id keeps one row from being sent
\* twice, whatever is retried, lost, late or answered with an error after it
\* was accepted.
DeliveredAtMostOnce == delivered <= 1

\* README line 106: a row reported as sent has been accepted by Safir.
SentIsDelivered == last_result.status = "sent" => delivered >= 1

\* What core.py 667-678 and 680-689 retry is given up only when every retry is
\* used up: a network error (http 0), a row reported as rate limited, whichever
\* of status and code made it so, and the code of an internal error whatever
\* status it comes with.  The rest of 5xx is SafirClaims' matter.
GivenUpOnlyWhenExhausted ==
    (/\ pc = "returned"
     /\ configured
     /\ \/ last_result.http \in {0, 500, 502, 503, 504}
        \/ last_result.status = "rate_limited"
        \/ last_result.code \in {"RateLimitExceeded", "InternalServerError"}) =>
        last_result.retry_count = max_retries

\* Every call comes back, although Safir may never answer.
CallReturns == <>(pc \in {"returned", "raised"})
=============================================================================
