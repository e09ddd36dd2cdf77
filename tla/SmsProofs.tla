------------------------------- MODULE SmsProofs -------------------------------
(***************************************************************************)
(* Lemmas about Sms, for the specifications that publish to the topic: how *)
(* often a message was delivered, tried and accepted, for every set of     *)
(* deliveries and every number of dispatchers and attempts.                *)
(***************************************************************************)
EXTENDS Sms, FiniteSetTheorems, TLAPS

-----------------------------------------------------------------------------
(* The inductive invariant.  A dispatcher that works on a delivery has it  *)
(* for itself, though another may work on another delivery of the message, *)
(* and the texts are counted where an attempt ends.                        *)

Tried(v) ==
    /\ sms[v] = "none" => attempts[v] = 0
    /\ sms[v] = "queued" => attempts[v] < MaxAttempts
    /\ sms[v] = "dropped" => attempts[v] = MaxAttempts

HasItsDelivery ==
    /\ \A d \in Dispatchers : job[d] # NoDelivery => sms[job[d]] = "running"
    /\ \A d, e \in Dispatchers : d # e /\ job[d] # NoDelivery => job[e] # job[d]

Counted(m) == texts[m] = doubts[m] + Cardinality(Sent(m))

SmsInv ==
    /\ TypeOfSms
    /\ HasItsDelivery
    /\ \A v \in Deliveries : Tried(v)
    /\ \A m \in Messages : Counted(m)

\* What no dispatcher works on is not a delivery, and a delivery is of a message.
LEMMA DeliveryType ==
    /\ NoDelivery \notin Deliveries
    /\ \A v \in Deliveries : v[1] \in Messages
BY SmsAssumption DEF NoDelivery

\* The deliveries that came to a good end are finitely many.
LEMMA SentFinite == \A m : IsFiniteSet(Sent(m)) /\ Cardinality(Sent(m)) \in Nat
<1> SUFFICES ASSUME NEW m PROVE IsFiniteSet(Sent(m)) /\ Cardinality(Sent(m)) \in Nat
  OBVIOUS
<1>1. Sent(m) \subseteq Deliveries
  BY DEF Sent
<1>2. IsFiniteSet(Sent(m))
  BY <1>1, SmsAssumption, FS_Subset
<1>3. QED BY <1>2, FS_CardinalityType

\* Nothing has been published yet.
LEMMA SmsInvInit == SmsInit => SmsInv
<1> SUFFICES ASSUME SmsInit PROVE SmsInv
  OBVIOUS
<1>1. \A m \in Messages : Sent(m) = {}
  BY DEF SmsInit, Sent
<1>2. \A m \in Messages : Counted(m)
  BY <1>1, FS_EmptySet DEF SmsInit, Counted
<1>3. TypeOfSms /\ HasItsDelivery /\ \A v \in Deliveries : Tried(v)
  BY SmsAssumption DEF SmsInit, TypeOfSms, HasItsDelivery, Tried
<1>4. QED BY <1>2, <1>3 DEF SmsInv

\* A message is published.
LEMMA SmsInvPublish ==
    ASSUME SmsInv, NEW m \in Messages, PublishSms(m)
    PROVE  SmsInv' /\ published' = published \cup {m}
<1>1. /\ published' = published \cup {m}
      /\ UNCHANGED <<sms, attempts, config, job, texts, doubts>>
  BY DEF PublishSms
<1>2. QED
  BY <1>1 DEF SmsInv, TypeOfSms, HasItsDelivery, Tried, Counted, Sent

\* A delivery that is not at its good end before or after changes no count.
LEMMA SentSame ==
    ASSUME SmsInv, NEW v \in Deliveries, NEW where, sms' = [sms EXCEPT ![v] = where],
           sms[v] # "sent", where # "sent", UNCHANGED <<texts, doubts>>
    PROVE  \A m \in Messages : Counted(m)'
<1>1. \A m : Sent(m)' = Sent(m)
  BY DEF SmsInv, TypeOfSms, Sent
<1>2. QED BY <1>1 DEF SmsInv, Counted

\* A message is delivered, once more perhaps.
LEMMA SmsInvDeliver ==
    ASSUME SmsInv, NEW v \in Deliveries, Deliver(v)
    PROVE  SmsInv' /\ UNCHANGED published
<1>1. /\ sms[v] = "none" /\ sms' = [sms EXCEPT ![v] = "queued"]
      /\ UNCHANGED <<published, attempts, config, job, texts, doubts>>
  BY DEF Deliver
<1>2. TypeOfSms'
  BY <1>1 DEF SmsInv, TypeOfSms
<1>3. HasItsDelivery'
  BY <1>1 DEF SmsInv, TypeOfSms, HasItsDelivery
<1>4. ASSUME NEW w \in Deliveries PROVE Tried(w)'
  BY <1>1, SmsAssumption DEF SmsInv, TypeOfSms, Tried
<1>5. \A m \in Messages : Counted(m)'
  BY <1>1, SentSame
<1>6. QED BY <1>1, <1>2, <1>3, <1>4, <1>5 DEF SmsInv

\* An idle dispatcher takes a delivery.
LEMMA SmsInvInvoke ==
    ASSUME SmsInv, NEW d \in Dispatchers, NEW v \in Deliveries, Invoke(d, v)
    PROVE  SmsInv' /\ UNCHANGED published
<1>1. /\ job[d] = NoDelivery /\ sms[v] = "queued"
      /\ job' = [job EXCEPT ![d] = v] /\ sms' = [sms EXCEPT ![v] = "running"]
      /\ attempts' = [attempts EXCEPT ![v] = @ + 1]
      /\ UNCHANGED <<published, config, texts, doubts>>
  BY DEF Invoke
<1>2. attempts[v] \in Nat /\ attempts[v] < MaxAttempts /\ MaxAttempts \in Nat
  BY <1>1, SmsAssumption DEF SmsInv, TypeOfSms, Tried
<1>3. attempts'[v] \in 0 .. MaxAttempts
  BY <1>1, <1>2 DEF SmsInv, TypeOfSms
<1>4. TypeOfSms'
  BY <1>1, <1>3 DEF SmsInv, TypeOfSms
<1>5. HasItsDelivery'
  BY <1>1, DeliveryType DEF SmsInv, TypeOfSms, HasItsDelivery
<1>6. ASSUME NEW w \in Deliveries PROVE Tried(w)'
  <2>1. CASE w = v
    BY <1>1, <2>1 DEF SmsInv, TypeOfSms, Tried
  <2>2. CASE w # v
    BY <1>1, <2>2 DEF SmsInv, TypeOfSms, Tried
  <2>3. QED BY <2>1, <2>2
<1>7. \A m \in Messages : Counted(m)'
  BY <1>1, SentSame
<1>8. QED BY <1>1, <1>4, <1>5, <1>6, <1>7 DEF SmsInv

\* The attempt of d ends, one way or the other; Twilio has accepted the text,
\* perhaps without the dispatcher getting to know.
LEMMA SmsInvFinish ==
    ASSUME SmsInv, NEW d \in Dispatchers, job[d] # NoDelivery,
           NEW outcome \in {"queued", "sent", "dropped"}, Finish(d, outcome),
           outcome = "queued" => attempts[job[d]] < MaxAttempts,
           outcome = "dropped" => attempts[job[d]] = MaxAttempts,
           config' \in [Dispatchers -> {"none", "sid", "full"}], UNCHANGED published,
           \/ outcome # "sent" /\ UNCHANGED <<texts, doubts>>
           \/ outcome = "sent" /\ Accept(job[d]) /\ UNCHANGED doubts
           \/ outcome # "sent" /\ Accept(job[d]) /\ Doubt(job[d])
    PROVE  SmsInv' /\ UNCHANGED published
<1>1. PICK v \in Deliveries : v = job[d]
  BY DEF SmsInv, TypeOfSms
<1>2. PICK k \in Messages : k = v[1]
  BY DeliveryType
<1>3. /\ sms[v] = "running"
      /\ sms' = [sms EXCEPT ![v] = outcome] /\ job' = [job EXCEPT ![d] = NoDelivery]
      /\ attempts' = attempts
  BY <1>1 DEF Finish, SmsInv, HasItsDelivery
<1>4. /\ \/ outcome # "sent" /\ UNCHANGED <<texts, doubts>>
         \/ outcome = "sent" /\ texts' = [texts EXCEPT ![k] = @ + 1] /\ UNCHANGED doubts
         \/ /\ outcome # "sent" /\ texts' = [texts EXCEPT ![k] = @ + 1]
            /\ doubts' = [doubts EXCEPT ![k] = @ + 1]
      /\ outcome = "queued" => attempts[v] < MaxAttempts
      /\ outcome = "dropped" => attempts[v] = MaxAttempts
  BY <1>1, <1>2 DEF Accept, Doubt
<1>5. /\ texts' \in [Messages -> Nat] /\ doubts' \in [Messages -> Nat]
      /\ \A m \in Messages \ {k} : texts'[m] = texts[m] /\ doubts'[m] = doubts[m]
  BY <1>4 DEF SmsInv, TypeOfSms
<1>6. TypeOfSms'
  BY <1>3, <1>5 DEF SmsInv, TypeOfSms
<1>7. HasItsDelivery'
  BY <1>1, <1>3, DeliveryType DEF SmsInv, TypeOfSms, HasItsDelivery
<1>8. ASSUME NEW w \in Deliveries PROVE Tried(w)'
  BY <1>3, <1>4 DEF SmsInv, TypeOfSms, Tried
<1>9. ASSUME NEW m \in Messages PROVE Counted(m)'
  <2>1. CASE m # k \/ outcome # "sent"
    <3>1. Sent(m)' = Sent(m)
      BY <1>2, <1>3, <2>1 DEF SmsInv, TypeOfSms, Sent
    <3>2. texts[m] = doubts[m] + Cardinality(Sent(m)) /\ Cardinality(Sent(m)) \in Nat
      BY SentFinite DEF SmsInv, Counted
    <3>3. texts'[m] = doubts'[m] + Cardinality(Sent(m))
      BY <1>4, <1>5, <2>1, <3>2 DEF SmsInv, TypeOfSms
    <3>4. QED BY <3>1, <3>3 DEF Counted
  <2>2. CASE m = k /\ outcome = "sent"
    <3>1. Sent(k)' = Sent(k) \cup {v} /\ v \notin Sent(k)
      BY <1>2, <1>3, <2>2 DEF SmsInv, TypeOfSms, Sent
    <3>2. Cardinality(Sent(k)') = Cardinality(Sent(k)) + 1
      BY <3>1, SentFinite, FS_AddElement
    <3>3. texts[k] = doubts[k] + Cardinality(Sent(k)) /\ Cardinality(Sent(k)) \in Nat
      BY SentFinite DEF SmsInv, Counted
    <3>4. texts'[k] = texts[k] + 1 /\ doubts'[k] = doubts[k]
      BY <1>4, <2>2 DEF SmsInv, TypeOfSms
    <3>5. texts[k] \in Nat /\ doubts[k] \in Nat
      BY DEF SmsInv, TypeOfSms
    <3>6. texts'[k] = doubts'[k] + Cardinality(Sent(k)')
      BY <3>2, <3>3, <3>4, <3>5
    <3>7. QED BY <2>2, <3>6 DEF Counted
  <2>3. QED BY <2>1, <2>2
<1>10. QED BY <1>6, <1>7, <1>8, <1>9 DEF SmsInv

\* The attempt fails: another one follows, or none.
LEMMA SmsInvFail ==
    ASSUME SmsInv, NEW d \in Dispatchers, job[d] # NoDelivery, Fail(d),
           config' \in [Dispatchers -> {"none", "sid", "full"}], UNCHANGED published,
           \/ UNCHANGED <<texts, doubts>>
           \/ Accept(job[d]) /\ Doubt(job[d])
    PROVE  SmsInv' /\ UNCHANGED published
<1>1. attempts[job[d]] \in 0 .. MaxAttempts /\ MaxAttempts \in Nat
  BY SmsAssumption DEF SmsInv, TypeOfSms
<1>2. CASE attempts[job[d]] < MaxAttempts
  <2>1. Finish(d, "queued")
    BY <1>2 DEF Fail
  <2>2. QED BY <1>1, <1>2, <2>1, SmsInvFinish
<1>3. CASE ~(attempts[job[d]] < MaxAttempts)
  <2>1. Finish(d, "dropped")
    BY <1>3 DEF Fail
  <2>2. attempts[job[d]] = MaxAttempts
    BY <1>1, <1>3
  <2>3. QED BY <2>1, <2>2, SmsInvFinish
<1>4. QED BY <1>2, <1>3

\* Only the globals of a dispatcher change.
LEMMA SmsInvConfig ==
    ASSUME SmsInv, NEW d \in Dispatchers, NEW got \in {"none", "sid", "full"},
           config' = [config EXCEPT ![d] = got],
           UNCHANGED <<published, sms, attempts, job, texts, doubts>>
    PROVE  SmsInv'
BY DEF SmsInv, TypeOfSms, HasItsDelivery, Tried, Counted, Sent

\* Every step of the topic and of the dispatchers.
LEMMA SmsInvStep ==
    ASSUME SmsInv, SmsNext
    PROVE  SmsInv' /\ UNCHANGED published
<1> DEFINE Goal == SmsInv' /\ UNCHANGED published
<1>0. config \in [Dispatchers -> {"none", "sid", "full"}]
  BY DEF SmsInv, TypeOfSms
<1>1. ASSUME NEW v \in Deliveries, Deliver(v) PROVE Goal
  BY <1>1, SmsInvDeliver
<1>2. ASSUME NEW d \in Dispatchers, NEW v \in Deliveries, Invoke(d, v) PROVE Goal
  BY <1>2, SmsInvInvoke
<1>3. ASSUME NEW d \in Dispatchers, LoadTwilioConfig(d) PROVE Goal
  <2>1. CASE config' = [config EXCEPT ![d] = "full"] /\ UNCHANGED <<sms, attempts, job>>
    BY <1>3, <2>1, SmsInvConfig DEF LoadTwilioConfig
  <2>2. CASE (\E got \in {"none", "sid"} : config' = [config EXCEPT ![d] = got]) /\ Fail(d)
    BY <1>0, <1>3, <2>2, SmsInvFail DEF LoadTwilioConfig
  <2>3. QED BY <1>3, <2>1, <2>2 DEF LoadTwilioConfig
<1>4. ASSUME NEW d \in Dispatchers, SendSms(d) PROVE Goal
  <2>1. /\ job[d] # NoDelivery /\ UNCHANGED published
        /\ config' \in [Dispatchers -> {"none", "sid", "full"}]
    BY <1>0, <1>4 DEF SendSms
  <2>2. CASE Accept(job[d]) /\ Finish(d, "sent") /\ UNCHANGED doubts
    BY <2>1, <2>2, SmsInvFinish
  <2>3. CASE Accept(job[d]) /\ Fail(d) /\ Doubt(job[d])
    BY <2>1, <2>3, SmsInvFail
  <2>4. CASE Fail(d) /\ UNCHANGED <<texts, doubts>>
    BY <2>1, <2>4, SmsInvFail
  <2>5. QED BY <1>4, <2>2, <2>3, <2>4 DEF SendSms
<1>5. ASSUME NEW d \in Dispatchers, KillDispatcher(d) PROVE Goal
  <2>1. CASE job[d] # NoDelivery /\ Fail(d)
    BY <1>0, <1>5, <2>1, SmsInvFail DEF KillDispatcher
  <2>2. CASE job[d] = NoDelivery /\ UNCHANGED <<sms, attempts, job>>
    BY <1>5, <2>2, SmsInvConfig DEF KillDispatcher
  <2>3. QED BY <1>5, <2>1, <2>2 DEF KillDispatcher
<1>6. QED BY <1>1, <1>2, <1>3, <1>4, <1>5 DEF SmsNext

\* The invariant speaks of these variables only.
LEMMA SmsInvStutter == SmsInv /\ UNCHANGED smsVars => SmsInv'
BY DEF SmsInv, TypeOfSms, HasItsDelivery, Tried, Counted, Sent, smsVars

\* What the counting says of the texts.
LEMMA SmsInvCounts == SmsInv => TypeOfSms /\ OneTextPerAnswer
BY DEF SmsInv, OneTextPerAnswer, Counted, Tried
=============================================================================
