------------------------------ MODULE MCPipeline ------------------------------
(* Small datasets for the pipeline. *)
EXTENDS PipelineProperties

\* What a live model answers: every category, and every kind of failure.
Answer(category, verdict) == [http |-> 200, payload |-> <<category, verdict>>]
Fault(code) == [http |-> code, payload |-> Unusable]

LiveReplies ==
  {Answer("TRANSIENT_SYSTEM_ERROR", Yes), Answer("BALANCE_OR_LIMIT_DEFICIT", Yes),
   Answer("EXPIRED_OR_INVALID_METHOD", No), Answer("PERSISTENT_ISSUER_DECLINE", No),
   Answer("FIRST_TIME_USER_DROP", Yes), Answer("INSUFFICIENT_DATA", No),
   Fault(200), Fault(408), Fault(500)}

\* Histories below, at and above the limits of the rules: newcomer, short, chronic at
\* the edge (25%), proven at the edge (75%).
Histories == {<<0, 0>>, <<1, 0>>, <<4, 0>>, <<4, 1>>, <<4, 3>>}

PaymentCase(history, codes, amount, recoverable) ==
  [kind |-> "payment", customer |-> "alice", amount |-> amount, codes |-> codes,
   prior |-> history[1], captured |-> history[2], status |-> NoStatus,
   recoverable |-> recoverable]

SubscriptionCase(history, amount) ==
  [PaymentCase(history, <<>>, amount, TRUE) EXCEPT
     !.kind = "subscription", !.status = "past_due"]

\* One attempt with every code; a second one after it; and the third, which is too many.
Declines ==
  {<<a>> : a \in FailureCodes} \cup
  {<<"insufficient_funds", a>> : a \in {"generic_decline", "temporary_failure"}} \cup
  {<<"temporary_failure", "generic_decline">>,
   <<"generic_decline", "generic_decline", "temporary_failure">>}

SingleCases ==
  {PaymentCase(h, codes, amount, TRUE) :
     h \in Histories, codes \in Declines, amount \in {4999, 5000}} \cup
  {SubscriptionCase(h, 499) : h \in {<<0, 0>>, <<4, 1>>}}

\* Cases that end differently: retried, deferred, blocked, reviewed, or by the model.
MixedCases ==
  {PaymentCase(<<4, 3>>, <<"temporary_failure">>, 300, TRUE),
   PaymentCase(<<0, 0>>, <<"insufficient_funds">>, 200, FALSE),
   PaymentCase(<<4, 0>>, <<"generic_decline">>, 700, TRUE),
   PaymentCase(<<4, 1>>, <<"generic_decline">>, 400, FALSE),
   PaymentCase(<<4, 1>>, <<"temporary_failure">>, 6000, TRUE)}

\* Recoverable or not, and answered either way: every entry of the confusion matrix.
Triple ==
  <<PaymentCase(<<4, 3>>, <<"temporary_failure">>, 300, TRUE),
    PaymentCase(<<4, 0>>, <<"generic_decline">>, 700, TRUE),
    PaymentCase(<<0, 0>>, <<"insufficient_funds">>, 200, FALSE)>>

SmallBatches ==
  {<<c>> : c \in SingleCases} \cup {p \in MixedCases \X MixedCases : p[1] # p[2]}
  \cup {Triple}

\* Eleven cases of one customer, two more than are approved; one of them, at the edges or
\* in the middle of the batch, is a stranger's, is blocked, or is a subscription.
Crowd ==
  LET plain == PaymentCase(<<4, 3>>, <<"temporary_failure">>, 300, TRUE)
      odd   == {[plain EXCEPT !.customer = "bob"], SubscriptionCase(<<4, 1>>, 499),
                PaymentCase(<<4, 0>>, <<"generic_decline">>, 700, TRUE)}
  IN {[i \in 1 .. 11 |-> IF i = at THEN c ELSE plain] : at \in {1, 6, 11}, c \in odd}

LiveBatches == SmallBatches \cup Crowd

\* Of three cases or more one call at most ends otherwise than in success: which, and
\* how, is free. Of a crowd every diagnosis is the same.
OneSetback ==
  /\ Len(batch) > 2 => Cardinality({k \in DOMAIN records :
                           records[k].status \notin {"ABSENT", "SUCCEEDED"}}) <= 1
  /\ Len(batch) > 3 => \A i \in DOMAIN diagnoses :
                           diagnoses[i] = Diagnose(Answer("TRANSIENT_SYSTEM_ERROR", Yes))

\* One dataset that has everything, for the mock provider.
FullBatch ==
  {<<SubscriptionCase(<<0, 0>>, 499),
     PaymentCase(<<4, 1>>, <<"insufficient_funds", "generic_decline">>, 400, FALSE),
     PaymentCase(<<4, 3>>, <<"temporary_failure">>, 300, TRUE)>>}
==============================================================================
