------------------------- MODULE SafirClientProofs -------------------------
(***************************************************************************)
(* Proofs about SafirClient, for every set of HTTP statuses and every      *)
(* max_retries.                                                            *)
(***************************************************************************)
EXTENDS SafirClient, TLAPS

\* An answer is classified "sent" exactly when it is a success.
LEMMA SentIsSuccess ==
    ASSUME NEW ans \in Answers
    PROVE  /\ Status(ans.http, ans.code) \in Statuses
           /\ Status(ans.http, ans.code) = "sent" <=> Success(ans)
BY DEF Status, Statuses, Success

\* "rate_limited" is a transient outcome: _status and the retry test agree.
LEMMA RateLimitedIsTransient ==
    ASSUME NEW http, NEW code, Status(http, code) = "rate_limited"
    PROVE  Transient(http, code)
BY DEF Status, Transient

\* The absence of an answer is not taken for a success.
LEMMA NoAnswerIsNoSuccess == ~Success(NoAnswer)
<1>1. NoAnswer.http = 0 BY DEF NoAnswer
<1>2. 0 \notin 200..299 OBVIOUS
<1> QED BY <1>1, <1>2 DEF Success

\* The code and the statuses of a result without an answer are of the tables.
LEMMA NoResultType ==
    "" \in Codes /\ {"failed", "config_error"} \subseteq Statuses
BY DEF Codes, Statuses

-----------------------------------------------------------------------------
\* The inductive invariant: a retry is only prepared while there is one left;
\* what Safir has taken on is what it knows; a success, seen or reported, is of
\* a request Safir knows.
Inv ==
    /\ TypeOK
    /\ pc = "backoff" => attempt < max_retries
    /\ delivered = (IF 0 \in known THEN 1 ELSE 0)
    /\ Success(answer) => 0 \in known
    /\ SentIsDelivered
    /\ GivenUpOnlyWhenExhausted

LEMMA InitInv == Init => Inv
<1> SUFFICES ASSUME Init PROVE Inv
  OBVIOUS
<1>1. TypeOK
  <2>1. max_retries \in 0..MaxRetries /\ max_retries \in Nat
    BY RetriesAssumption DEF Init
  <2>2. last_result \in [status : Statuses, http : HttpStatuses \cup {0},
                         code : Codes, retry_count : 0..max_retries]
        <3>1. last_result = [status |-> "failed", http |-> 0, code |-> "", retry_count |-> 0]
      BY Zenon DEF Init, NoResult
    <3>2. 0 \in 0..max_retries BY <2>1
    <3> QED BY <3>1, <3>2, NoResultType
  <2> QED BY <2>1, <2>2 DEF Init, TypeOK
<1>2. ~Success(answer)
  BY NoAnswerIsNoSuccess DEF Init
<1> QED
  BY <1>1, <1>2 DEF Init, Inv, NoResult, SentIsDelivered, GivenUpOnlyWhenExhausted

LEMMA NextInv == Inv /\ [Next]_vars => Inv'
<1> SUFFICES ASSUME Inv, [Next]_vars PROVE Inv'
  OBVIOUS
<1>0. max_retries \in Nat /\ attempt \in Nat /\ delivered \in Nat
  BY RetriesAssumption DEF Inv, TypeOK
<1> USE DEF Inv, TypeOK, SentIsDelivered, GivenUpOnlyWhenExhausted, vars, client, safir
<1>1. CASE Start
  <2>1. last_result' \in {last_result,
             [status |-> "config_error", http |-> 0, code |-> "", retry_count |-> 0]}
    BY <1>1 DEF Start, NoResult
  <2>3. TypeOK'
    <3>1. last_result' \in [status : Statuses, http : HttpStatuses \cup {0},
                            code : Codes, retry_count : 0..max_retries']
      <4> DEFINE r == [status |-> "config_error", http |-> 0, code |-> "",
                       retry_count |-> 0]
      <4>1. CASE last_result' = last_result
        BY <1>1, <4>1 DEF Start
      <4>2. CASE last_result' = r
        <5>1. max_retries' = max_retries /\ 0 \in 0..max_retries BY <1>0, <1>1 DEF Start
        <5> QED BY <4>2, <5>1, NoResultType
      <4> QED BY <2>1, <4>1, <4>2
    <3> QED BY <1>1, <3>1 DEF Start
  <2>4. SentIsDelivered' BY <1>1, <2>1 DEF Start
  <2>5. GivenUpOnlyWhenExhausted' BY <1>1 DEF Start
  <2> QED BY <1>1, <2>3, <2>4, <2>5 DEF Start
<1>2. CASE Post
  <2>1. ~Success(answer') BY <1>2, NoAnswerIsNoSuccess DEF Post
  <2> QED BY <1>0, <1>2, <2>1 DEF Post
<1>3. CASE Receive
  <2>1. answer \in Answers BY <1>3 DEF Receive
  <2>2. CASE answer.code = "not_object" BY <1>3, <2>2 DEF Receive
  <2>3. CASE answer.code # "not_object"
    <3> DEFINE s == Status(answer.http, answer.code)
    <3>1. /\ last_result' = [status |-> s, http |-> answer.http, code |-> answer.code,
                            retry_count |-> attempt]
          /\ UNCHANGED <<configured, max_retries, attempt, answer, wire, known, delivered>>
      BY <1>3, <2>3 DEF Receive
    <3>2. s \in Statuses /\ (s = "sent" <=> Success(answer))
      BY <2>1, SentIsSuccess
    <3>3. s = "rate_limited" => Transient(answer.http, answer.code)
      BY RateLimitedIsTransient
    <3>4. pc' = IF Transient(answer.http, answer.code) /\ attempt < max_retries
                  THEN "backoff" ELSE "returned"
      BY <1>3, <2>3 DEF Receive
    <3>5. last_result' \in [status : Statuses, http : HttpStatuses \cup {0},
                            code : Codes, retry_count : 0..max_retries]
      BY <1>0, <2>1, <3>1, <3>2 DEF Answers
    <3>6. TypeOK' /\ (pc' = "backoff" => attempt' < max_retries')
      BY <3>1, <3>4, <3>5
    <3>7. SentIsDelivered'
      BY <3>1, <3>2
    <3>8. GivenUpOnlyWhenExhausted'
      <4>1. 0 \notin HttpStatuses
        BY HttpAssumption
      <4>2. answer.http \in HttpStatuses /\ answer.http # 0
        BY <2>1, <4>1 DEF Answers
      <4>3. pc' = "returned" /\ Transient(answer.http, answer.code)
              => attempt = max_retries
        BY <1>0, <3>4
      <4> QED BY <3>1, <3>3, <4>2, <4>3 DEF Transient
    <3> QED BY <3>1, <3>6, <3>7, <3>8
  <2> QED BY <2>2, <2>3
<1>4. CASE NetworkError
  <2>1. last_result' = [status |-> "failed", http |-> 0, code |-> "",
                        retry_count |-> attempt]
    BY <1>4 DEF NetworkError, NoResult
  <2>2. pc' \in {"backoff", "returned"} /\ (pc' = "backoff" <=> attempt < max_retries)
    BY <1>4 DEF NetworkError
  <2>3. UNCHANGED <<configured, max_retries, attempt, answer, wire, known, delivered>>
    BY <1>4 DEF NetworkError
  <2>4. last_result' \in [status : Statuses, http : HttpStatuses \cup {0},
                          code : Codes, retry_count : 0..max_retries]
    BY <1>0, <2>1, NoResultType
  <2>5. TypeOK' BY <2>2, <2>3, <2>4
  <2>6. pc' = "returned" => attempt = max_retries BY <1>0, <2>2
  <2>7. SentIsDelivered' /\ GivenUpOnlyWhenExhausted'
    BY <2>1, <2>3, <2>6
  <2> QED BY <2>2, <2>3, <2>5, <2>7
<1>5. CASE Backoff
  <2>1. attempt' \in 0..max_retries' /\ wire' \subseteq 0..attempt'
    BY <1>0, <1>5 DEF Backoff
  <2> QED BY <1>0, <1>5, <2>1 DEF Backoff
<1>6. ASSUME NEW a \in wire, Lose(a) PROVE Inv'
  BY <1>6 DEF Lose
<1>7. ASSUME NEW a \in wire, Handle(a) PROVE Inv'
  <2>1. PICK accept \in BOOLEAN, ans \in Answers :
           /\ Success(ans) => accept
           /\ known' = IF accept THEN known \cup {0} ELSE known
           /\ delivered' = IF accept /\ 0 \notin known THEN delivered + 1 ELSE delivered
           /\ answer' \in {answer, ans}
    BY <1>7 DEF Handle, RequestId
  <2>2. Success(answer') => 0 \in known' BY <2>1
  <2>3. delivered' = (IF 0 \in known' THEN 1 ELSE 0) /\ delivered' >= delivered
    BY <1>0, <2>1
  <2>4. known' \subseteq {0} /\ answer' \in Answers \cup {NoAnswer} BY <2>1
  <2> QED BY <1>0, <1>7, <2>2, <2>3, <2>4 DEF Handle
<1>8. CASE Done \/ UNCHANGED vars
  <2>1. UNCHANGED vars BY <1>8 DEF Done
  <2>2. Success(answer)' = Success(answer) BY <2>1 DEF Success
  <2> QED BY <2>1, <2>2
<1> QED
  BY <1>1, <1>2, <1>3, <1>4, <1>5, <1>6, <1>7, <1>8 DEF Next, Client

LEMMA Invariance == Spec => []Inv
BY InitInv, NextInv, PTL DEF Spec

\* core.py 630-690: the attempts stay within the retries the batch asks for, and
\* every answer and result has one of the codes and statuses of the tables.
THEOREM TypeCorrect == Spec => []TypeOK
<1>1. Inv => TypeOK BY DEF Inv
<1> QED BY <1>1, Invariance, PTL

\* Retries, late arrivals and gateway errors never make Safir take on a message
\* twice, as long as it honours the request id.
THEOREM DeliveredOnce == Spec => []DeliveredAtMostOnce
<1>1. Inv => DeliveredAtMostOnce BY DEF Inv, DeliveredAtMostOnce, TypeOK
<1> QED BY <1>1, Invariance, PTL

\* A row reported as sent has been accepted by Safir.
THEOREM SentMeansDelivered == Spec => []SentIsDelivered
<1>1. Inv => SentIsDelivered BY DEF Inv
<1> QED BY <1>1, Invariance, PTL

\* What the code retries (a network error, 429, 500, 502, 503, 504 and two codes
\* of Safir's) is given up only when no retry is left; which other 5xx are not
\* retried is the run of SafirClaims.
THEOREM TransientIsExhausted == Spec => []GivenUpOnlyWhenExhausted
<1>1. Inv => GivenUpOnlyWhenExhausted BY DEF Inv
<1> QED BY <1>1, Invariance, PTL
=============================================================================
