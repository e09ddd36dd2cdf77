---------------------------------- MODULE Sms ----------------------------------
(***************************************************************************)
(* From the SNS topic to Twilio: sms_dispatcher.py.  A message published   *)
(* to the topic becomes an asynchronous invocation of the dispatcher, with *)
(* exactly one record; if the handler raises or its container is killed,   *)
(* Lambda invokes it again, MaxAttempts times in all, and then drops it.   *)
(* SNS and Lambda deliver in any order and, without any failure, more than *)
(* once: the next delivery of a message may come while another one waits,  *)
(* is being served or is over.  The dispatcher keeps no record of what it  *)
(* has sent.                                                               *)
(*                                                                         *)
(* A container of the dispatcher keeps the parameters of the Twilio        *)
(* account in three globals.  It takes them for loaded as soon as the      *)
(* first, the account id, is set.  SNS, Lambda, SSM and Twilio are         *)
(* external: each call may fail, and Twilio may accept a text without the  *)
(* dispatcher getting to know.                                             *)
(***************************************************************************)
EXTENDS Naturals, FiniteSets

CONSTANTS
    Dispatchers,   \* the containers of the sms_dispatcher function
    Messages,      \* what is published, each once
    NoMessage,     \* stands for "no message"
    Deliveries,    \* pairs <<message, number>>: what the topic may deliver
    MaxAttempts    \* the invocations Lambda makes for one event: 3

ASSUME SmsAssumption ==
    /\ NoMessage \notin Messages
    /\ Deliveries \subseteq Messages \X Nat /\ IsFiniteSet(Deliveries)
    /\ MaxAttempts \in Nat \ {0}

NoDelivery == <<NoMessage, 1>>    \* what an idle dispatcher works on

VARIABLES
    published, \* the messages the topic has got
    sms,       \* where a delivery is, see TypeOfSms
    attempts,  \* how often a dispatcher was invoked with it
    config,    \* the globals: "none", "sid" (only the account id), "full"
    job,       \* the delivery each dispatcher works on
    texts,     \* how often Twilio accepted a message
    doubts     \* history: the accepted texts whose attempt failed all the same

smsVars == <<published, sms, attempts, config, job, texts, doubts>>

-----------------------------------------------------------------------------
\* publish_invite_sms.
PublishSms(m) ==
    /\ published' = published \cup {m}
    /\ UNCHANGED <<sms, attempts, config, job, texts, doubts>>

\* SNS hands a message to Lambda, for the first time or once more.
Deliver(v) ==
    /\ v[1] \in published /\ sms[v] = "none"
    /\ sms' = [sms EXCEPT ![v] = "queued"]
    /\ UNCHANGED <<published, attempts, config, job, texts, doubts>>

Invoke(d, v) ==
    /\ job[d] = NoDelivery /\ sms[v] = "queued"
    /\ job' = [job EXCEPT ![d] = v]
    /\ sms' = [sms EXCEPT ![v] = "running"]
    /\ attempts' = [attempts EXCEPT ![v] = @ + 1]
    /\ UNCHANGED <<published, config, texts, doubts>>

Finish(d, outcome) ==
    /\ sms' = [sms EXCEPT ![job[d]] = outcome]
    /\ job' = [job EXCEPT ![d] = NoDelivery]
    /\ UNCHANGED attempts

\* Mutant: the attempts are not limited.
FailUnlimited(d) == Finish(d, "queued")

\* The handler raises, or its container is killed: another attempt, or none.
Fail(d) == Finish(d, IF attempts[job[d]] < MaxAttempts THEN "queued" ELSE "dropped")

\* _load_twilio_config: the parameters are fetched unless the account id is
\* set.  Those that do not exist are left out of the answer and raise KeyError
\* where they are assigned, after the ones before them.
LoadTwilioConfig(d) ==
    /\ job[d] # NoDelivery /\ config[d] = "none"
    /\ \/ /\ config' = [config EXCEPT ![d] = "full"]
          /\ UNCHANGED <<sms, attempts, job>>
       \/ /\ \E got \in {"none", "sid"} : config' = [config EXCEPT ![d] = got]
          /\ Fail(d)
    /\ UNCHANGED <<published, texts, doubts>>

\* Twilio accepts the text that a delivery carries.
Accept(v) == texts' = [texts EXCEPT ![v[1]] = @ + 1]
Doubt(v) == doubts' = [doubts EXCEPT ![v[1]] = @ + 1]

\* Mutant: an error of the request is logged and not raised.
SendSmsQuietly(d) ==
    /\ job[d] # NoDelivery /\ config[d] # "none"
    /\ \/ /\ config[d] = "full"
          /\ Accept(job[d])
          /\ \/ Finish(d, "sent") /\ UNCHANGED doubts
             \/ Fail(d) /\ Doubt(job[d])
       \/ Finish(d, "sent") /\ UNCHANGED <<texts, doubts>>
    /\ UNCHANGED <<published, config>>

\* _send_sms: Twilio accepts the text and answers; accepts it and the answer is
\* lost; or refuses it or is not reached.  It refuses every request of a
\* dispatcher that has the account id only.
SendSms(d) ==
    /\ job[d] # NoDelivery /\ config[d] # "none"
    /\ \/ /\ config[d] = "full"
          /\ Accept(job[d])
          /\ \/ Finish(d, "sent") /\ UNCHANGED doubts
             \/ Fail(d) /\ Doubt(job[d])
       \/ Fail(d) /\ UNCHANGED <<texts, doubts>>
    /\ UNCHANGED <<published, config>>

\* Lambda ends a container, in the middle of its work or not.
KillDispatcher(d) ==
    /\ \/ job[d] # NoDelivery /\ Fail(d)
       \/ job[d] = NoDelivery /\ UNCHANGED <<sms, attempts, job>>
    /\ config' = [config EXCEPT ![d] = "none"]
    /\ UNCHANGED <<published, texts, doubts>>

-----------------------------------------------------------------------------
SmsInit ==
    /\ published = {}
    /\ sms = [v \in Deliveries |-> "none"]
    /\ attempts = [v \in Deliveries |-> 0]
    /\ config = [d \in Dispatchers |-> "none"]
    /\ job = [d \in Dispatchers |-> NoDelivery]
    /\ texts = [m \in Messages |-> 0]
    /\ doubts = [m \in Messages |-> 0]

\* Everything but the publishing.
SmsNext ==
    \/ \E v \in Deliveries : Deliver(v)
    \/ \E d \in Dispatchers :
          \/ \E v \in Deliveries : Invoke(d, v)
          \/ LoadTwilioConfig(d) \/ SendSms(d) \/ KillDispatcher(d)

TypeOfSms ==
    /\ published \subseteq Messages
    /\ sms \in [Deliveries -> {"none", "queued", "running", "sent", "dropped"}]
    /\ attempts \in [Deliveries -> 0 .. MaxAttempts]
    /\ config \in [Dispatchers -> {"none", "sid", "full"}]
    /\ job \in [Dispatchers -> Deliveries \cup {NoDelivery}]
    /\ texts \in [Messages -> Nat]
    /\ doubts \in [Messages -> Nat]

\* The deliveries of a message whose handler returned.
Sent(m) == {v \in Deliveries : v[1] = m /\ sms[v] = "sent"}

\* The texts a member gets are one for each delivery whose handler returned, at
\* whatever dispatcher and however many of them are served at a time, and one
\* for each answer of Twilio that was lost: so a second text needs a second
\* delivery or a lost answer, and a delivery that counts as done was accepted.
\* And none is given up before its attempts are used up.
OneTextPerAnswer ==
    /\ \A m \in Messages : texts[m] = doubts[m] + Cardinality(Sent(m))
    /\ \A v \in Deliveries : sms[v] = "dropped" => attempts[v] = MaxAttempts
=============================================================================
