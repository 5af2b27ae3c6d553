---------------------------- MODULE DiagnosisAgent -----------------------------
(***************************************************************************)
(* The diagnosis agent: it describes a case to a language model, which is  *)
(* not trusted, and turns whatever comes back into a diagnosis: a fault or *)
(* an answer off the schema becomes a fallback that assesses nothing.      *)
(***************************************************************************)
EXTENDS RiskEngine

Categories ==
  {"TRANSIENT_SYSTEM_ERROR", "BALANCE_OR_LIMIT_DEFICIT", "EXPIRED_OR_INVALID_METHOD",
   "PERSISTENT_ISSUER_DECLINE", "SUBSCRIPTION_BILLING_ISSUE", "FIRST_TIME_USER_DROP",
   "INSUFFICIENT_DATA"}

Statuses == {"SUCCESS", "PROVIDER_ERROR", "VALIDATION_ERROR", "TIMEOUT"}

------------------------------------------------------------------------------
(* The prompt: what the model is told of a case *)

InputOf(c) ==
  [kind |-> c.kind, status |-> c.status, codes |-> c.codes, history |-> c.prior,
   captured |-> c.captured]

Mentions(x, code) == \E i \in DOMAIN x.codes : x.codes[i] = code

------------------------------------------------------------------------------
(* Providers. A reply is an HTTP status and the payload its text parses to, or     *)
(* none when the text is no JSON or off the schema.                                *)

Unusable == <<>>
Payloads == {<<category, verdict>> : category \in Categories, verdict \in {Yes, No}}

\* What the mock reads out of the prompt, first match first. It looks for an
\* "attempt number: 3", which the prompt template never writes, so repeated failure
\* is not recognised; and a code counts whichever attempt had it.
MockPayload(x) ==
  LET newcomer == x.captured = 0 /\ x.history <= 1 IN
  IF x.kind = "subscription" THEN <<"SUBSCRIPTION_BILLING_ISSUE", Yes>>
  ELSE IF Mentions(x, "temporary_failure") THEN <<"TRANSIENT_SYSTEM_ERROR", Yes>>
  ELSE IF Mentions(x, "insufficient_funds") THEN <<"BALANCE_OR_LIMIT_DEFICIT", Yes>>
  ELSE IF newcomer THEN <<"FIRST_TIME_USER_DROP", Yes>>
  ELSE <<"INSUFFICIENT_DATA", No>>

MockReply(x) == [http |-> 200, payload |-> MockPayload(x)]

\* A model behind HTTP answers anything, or fails: its own status code, a timeout
\* (408), or any other exception of the client (500).
HTTPReplies ==
  [http : {200}, payload : Payloads \cup {Unusable}]
  \cup [http : {408, 429, 500}, payload : {Unusable}]

------------------------------------------------------------------------------
(* diagnose *)

\* Faulty variant: a failed diagnosis says that the case is lost.
FallbackAsRefusal(status) ==
  [status |-> status, category |-> "INSUFFICIENT_DATA", verdict |-> No]

Fallback(status) ==
  [status |-> status, category |-> "INSUFFICIENT_DATA", verdict |-> Unassessed]

Diagnose(reply) ==
  CASE reply.http = 408 -> Fallback("TIMEOUT")
    [] reply.http \notin {200, 408} -> Fallback("PROVIDER_ERROR")
    [] reply.http = 200 /\ reply.payload = Unusable -> Fallback("VALIDATION_ERROR")
    [] reply.http = 200 /\ reply.payload # Unusable ->
         [status |-> "SUCCESS", category |-> reply.payload[1], verdict |-> reply.payload[2]]

Diagnoses ==
  [status : {"SUCCESS"}, category : Categories, verdict : {Yes, No}]
  \cup [status : Statuses \ {"SUCCESS"}, category : {"INSUFFICIENT_DATA"},
        verdict : {Unassessed}]

------------------------------------------------------------------------------
(* evaluate_diagnoses *)

DiagnosisReport(cases, diagnoses) ==
  LET successful == Cardinality({i \in DOMAIN cases : diagnoses[i].status = "SUCCESS"})
      score == Score(cases, [i \in DOMAIN cases |-> diagnoses[i].verdict])
      baseline == BaselineScore(cases)
  IN [score |-> score, successful |-> successful,
      failed |-> Len(cases) - successful, validity |-> Bps(successful, Len(cases)),
      f1Delta |-> score.f1 - baseline.f1, captureDelta |-> score.capture - baseline.capture]
==============================================================================
