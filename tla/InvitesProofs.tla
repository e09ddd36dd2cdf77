----------------------------- MODULE InvitesProofs -----------------------------
(***************************************************************************)
(* Theorems about Invites with its dispatcher, for every number of         *)
(* containers, dispatchers, invites, numbers, deliveries and attempts.     *)
(***************************************************************************)
EXTENDS Invites, SmsProofs

-----------------------------------------------------------------------------
(* The inductive invariant: what a handler has checked still holds, unless *)
(* another request for its number came in between.                         *)

\* The stages behind mobile_exists, and those behind pending_exists.
Unknown == {"pending", "publish", "commit"}
Alone == {"publish", "commit"}

Serves(c) ==
    /\ pc[c] \in Sending => req[c].mobile \in Mobiles
    /\ pc[c] \in {"commit", "expire"} => req[c].code \in Codes
    /\ pc[c] = "commit" =>
          req[c].code \in published /\ inviteStatus[req[c].code] = "none"
    /\ pc[c] = "expire" => inviteStatus[req[c].code] # "none"
    /\ pc[c] \in Unknown /\ req[c].mobile \notin met => req[c].mobile \notin members
    /\ pc[c] \in Alone /\ req[c].mobile \notin met => Pending(req[c].mobile) = {}

NobodyShares ==
    \A c, d \in Containers : c # d =>
        /\ pc[c] = "commit" /\ pc[d] = "commit" => req[c].code # req[d].code
        /\ pc[c] \in Sending /\ pc[d] \in Sending /\ req[c].mobile = req[d].mobile =>
              req[c].mobile \in met

\* The parts of TypeOK that are not about the dispatcher.
TypeOfInvites ==
    /\ inviteStatus \in [Codes -> {"none", "pending", "used", "expired"}]
    /\ number \in [Codes -> Mobiles \cup {NoMobile}]
    /\ overdue \subseteq Codes
    /\ members \subseteq Mobiles
    /\ pc \in [Containers -> Sending \cup {"idle", "expire"}]
    /\ req \in [Containers -> Request]
    /\ met \subseteq Mobiles
    /\ stray \subseteq Codes

IInv ==
    /\ SmsInv
    /\ TypeOfInvites
    /\ \A c \in Containers : Serves(c)
    /\ NobodyShares
    /\ OnePendingInvite
    /\ SentIffStored

\* Nothing has been sent yet.
LEMMA IInvInit == Init => IInv
BY SmsInvInit, InvitesAssumption
   DEF Init, SmsInit, IInv, TypeOfInvites, Serves, NobodyShares, OnePendingInvite, SentIffStored,
       Pending, Sending, Unknown, Alone, Request, NoRequest, Codes, NoCode

\* Most steps of a handler change its own request and program counter, and add
\* to the history, but neither the tables nor the messages.
LEMMA IInvFrame ==
    ASSUME IInv, NEW c \in Containers, UNCHANGED <<smsVars, inviteVars, members>>,
           met \subseteq met', met' \subseteq Mobiles,
           stray \subseteq stray', stray' \subseteq Codes,
           pc[c] = "commit" => req[c].code \in stray',
           NEW q \in Request, req' = [req EXCEPT ![c] = q],
           NEW stage \in Sending \cup {"idle", "expire"}, pc' = [pc EXCEPT ![c] = stage],
           stage \in Sending => q.mobile \in Mobiles /\ stage # "commit",
           stage = "expire" => q.code \in Codes /\ inviteStatus[q.code] # "none",
           stage \in Unknown /\ q.mobile \notin met' => q.mobile \notin members,
           stage \in Alone /\ q.mobile \notin met' => Pending(q.mobile) = {},
           \A d \in Containers \ {c} :
              stage \in Sending /\ pc[d] \in Sending /\ req[d].mobile = q.mobile =>
                 q.mobile \in met'
    PROVE  IInv'
<1>1. /\ \A d \in Containers : req'[d] = IF d = c THEN q ELSE req[d]
      /\ \A d \in Containers : pc'[d] = IF d = c THEN stage ELSE pc[d]
      /\ UNCHANGED <<published, inviteStatus, number, overdue, members>>
      /\ \A x : Pending(x)' = Pending(x)
  BY DEF IInv, TypeOfInvites, smsVars, inviteVars, Pending
<1>2. SmsInv'
  BY SmsInvStutter DEF IInv
<1>3. TypeOfInvites'
  BY DEF IInv, TypeOfInvites, inviteVars
<1>4. ASSUME NEW d \in Containers PROVE Serves(d)'
  <2>1. CASE d = c
    BY <1>1, <2>1 DEF Serves
  <2>2. CASE d # c
    BY <1>1, <2>2 DEF IInv, Serves
  <2>3. QED BY <2>1, <2>2
<1>5. NobodyShares'
  BY <1>1 DEF IInv, NobodyShares
<1>6. OnePendingInvite'
  BY <1>1 DEF IInv, OnePendingInvite
<1>7. SentIffStored'
  BY <1>1 DEF IInv, SentIffStored
<1>8. QED BY <1>2, <1>3, <1>4, <1>5, <1>6, <1>7 DEF IInv

\* The handler returns or is killed; a code it published is stray from then on.
LEMMA IInvReturn ==
    ASSUME IInv, NEW c \in Containers, UNCHANGED <<smsVars, inviteVars, members, met>>, Return(c),
           stray \subseteq stray', stray' \subseteq Codes,
           pc[c] = "commit" => req[c].code \in stray'
    PROVE  IInv'
<1>1. /\ NoRequest \in Request /\ req' = [req EXCEPT ![c] = NoRequest]
      /\ pc' = [pc EXCEPT ![c] = "idle"]
      /\ "idle" \notin Sending \cup Unknown \cup Alone
  BY DEF Return, Goto, NoRequest, Request, Sending, Unknown, Alone
<1>2. met' \subseteq Mobiles
  BY DEF IInv, TypeOfInvites
<1>3. QED BY <1>1, <1>2, IInvFrame

\* The handler goes on with the request it has.
LEMMA IInvGoesOn ==
    ASSUME IInv, NEW c \in Containers, UNCHANGED <<smsVars, inviteVars, members, met, req, stray>>,
           pc[c] \in {"member", "pending"}, NEW stage \in {"pending", "publish"}, Goto(c, stage),
           req[c].mobile \notin members,
           stage = "publish" => Pending(req[c].mobile) = {}
    PROVE  IInv'
<1>1. /\ req[c] \in Request /\ req' = [req EXCEPT ![c] = req[c]]
      /\ pc' = [pc EXCEPT ![c] = stage] /\ req[c].mobile \in Mobiles
      /\ met' \subseteq Mobiles /\ stray' \subseteq Codes
  BY DEF IInv, TypeOfInvites, Serves, Goto, Sending
<1>2. \A d \in Containers \ {c} :
         pc[d] \in Sending /\ req[d].mobile = req[c].mobile => req[c].mobile \in met'
  BY DEF IInv, NobodyShares, Sending
<1>3. /\ UNCHANGED <<smsVars, inviteVars, members>> /\ pc[c] # "commit"
      /\ stage \in Sending \cup {"idle", "expire"} /\ stage # "commit" /\ stage # "expire"
      /\ stage \in Alone => stage = "publish"
      /\ met \subseteq met' /\ stray \subseteq stray'
  BY DEF Sending, Alone
<1>4. stage \in Alone => Pending(req[c].mobile) = {}
  BY <1>3
<1>5. QED BY <1>1, <1>2, <1>3, <1>4, IInvFrame

\* insert and publish_invite_sms: the code is published, and the handler has it
\* or has failed.
LEMMA IInvInsertAndPublish ==
    ASSUME IInv, NEW c \in Containers, InsertAndPublish(c) PROVE IInv'
<1>1. /\ pc[c] = "publish" /\ UNCHANGED <<inviteVars, members, met>>
      /\ req[c] \in Request /\ req[c].mobile \in Mobiles
  BY DEF InsertAndPublish, IInv, TypeOfInvites, Serves, Sending
<1>2. CASE Return(c) /\ UNCHANGED <<smsVars, stray>>
  BY <1>1, <1>2, IInvReturn DEF IInv, TypeOfInvites
<1>3. CASE ~(Return(c) /\ UNCHANGED <<smsVars, stray>>)
  <2>1. PICK k \in Codes :
          /\ Fresh(k) /\ PublishSms(k)
          /\ \/ req' = [req EXCEPT ![c].code = k] /\ Goto(c, "commit") /\ UNCHANGED stray
             \/ Return(c) /\ stray' = stray \cup {k}
    BY <1>3 DEF InsertAndPublish
  <2>2. /\ SmsInv' /\ published' = published \cup {k}
        /\ k \notin published /\ inviteStatus[k] = "none"
        /\ \A d \in Containers : req[d].code # k
    BY <2>1, SmsInvPublish DEF Codes, IInv, Fresh
  <2>3. PICK q \in Request, stage \in {"commit", "idle"} :
          /\ req' = [req EXCEPT ![c] = q] /\ pc' = [pc EXCEPT ![c] = stage]
          /\ stage = "commit" => q.code = k /\ q.mobile = req[c].mobile /\ stray' = stray
          /\ stage = "idle" => stray' = stray \cup {k}
    <3>1. CASE req' = [req EXCEPT ![c].code = k] /\ Goto(c, "commit") /\ UNCHANGED stray
      <4> DEFINE r == [req[c] EXCEPT !.code = k]
      <4>1. r \in Request /\ r.code = k /\ r.mobile = req[c].mobile
        BY <1>1 DEF Request
      <4>2. req' = [req EXCEPT ![c] = r] /\ pc' = [pc EXCEPT ![c] = "commit"]
        BY <3>1 DEF Goto, IInv, TypeOfInvites
      <4> HIDE DEF r
      <4>3. QED BY <3>1, <4>1, <4>2
    <3>2. CASE Return(c) /\ stray' = stray \cup {k}
      BY <3>2 DEF Return, Goto, NoRequest, Request
    <3>3. QED BY <2>1, <3>1, <3>2
  <2>4. /\ \A d \in Containers : req'[d] = IF d = c THEN q ELSE req[d]
        /\ \A d \in Containers : pc'[d] = IF d = c THEN stage ELSE pc[d]
        /\ UNCHANGED <<inviteStatus, number, overdue, members, met>>
        /\ \A x : Pending(x)' = Pending(x)
    BY <1>1, <2>3 DEF IInv, TypeOfInvites, inviteVars, Pending
  <2>5. TypeOfInvites'
    BY <2>3, <2>4 DEF IInv, TypeOfInvites, Sending
  <2>6. ASSUME NEW d \in Containers PROVE Serves(d)'
    <3>1. CASE d = c
      BY <1>1, <2>2, <2>3, <2>4, <3>1 DEF IInv, Serves, Sending, Unknown, Alone
    <3>2. CASE d # c
      BY <2>2, <2>4, <3>2 DEF IInv, Serves
    <3>3. QED BY <3>1, <3>2
  <2>7. NobodyShares'
    BY <1>1, <2>2, <2>3, <2>4 DEF IInv, NobodyShares, Sending
  <2>8. OnePendingInvite'
    BY <2>4 DEF IInv, OnePendingInvite
  <2>9. SentIffStored'
    <3> SUFFICES ASSUME NEW l \in Codes
                 PROVE  /\ l \in published' /\ inviteStatus[l] = "none" =>
                              \/ l \in stray'
                              \/ \E d \in Containers : pc'[d] = "commit" /\ req'[d].code = l
                        /\ inviteStatus[l] # "none" => l \in published'
      BY <2>4 DEF SentIffStored
    <3>1. CASE l = k
      BY <2>2, <2>3, <2>4, <3>1
    <3>2. CASE l # k
      BY <1>1, <2>2, <2>3, <2>4, <3>2 DEF IInv, SentIffStored
    <3>3. QED BY <3>1, <3>2
  <2>10. QED BY <2>2, <2>5, <2>6, <2>7, <2>8, <2>9 DEF IInv
<1>4. QED BY <1>2, <1>3

\* The COMMIT that is carried out: the only step that makes an invite pending.
LEMMA IInvStored ==
    ASSUME IInv, NEW c \in Containers, pc[c] = "commit", Return(c),
           inviteStatus' = [inviteStatus EXCEPT ![req[c].code] = "pending"],
           number' = [number EXCEPT ![req[c].code] = req[c].mobile],
           UNCHANGED <<smsVars, overdue, members, met, stray>>
    PROVE  IInv'
<1>0. PICK k \in Codes, x \in Mobiles : k = req[c].code /\ x = req[c].mobile
  BY DEF IInv, Serves, Sending
<1>1. /\ k \in published /\ inviteStatus[k] = "none"
      /\ x \notin met => Pending(x) = {}
  BY <1>0 DEF IInv, Serves, Sending, Alone
<1>2. /\ \A d \in Containers : req'[d] = IF d = c THEN NoRequest ELSE req[d]
      /\ \A d \in Containers : pc'[d] = IF d = c THEN "idle" ELSE pc[d]
      /\ \A l \in Codes : inviteStatus'[l] = IF l = k THEN "pending" ELSE inviteStatus[l]
      /\ \A l \in Codes : number'[l] = IF l = k THEN x ELSE number[l]
      /\ UNCHANGED <<published, overdue, members, met, stray>>
      /\ NoRequest \in Request /\ NoRequest.code = NoCode
  BY <1>0 DEF Return, Goto, IInv, TypeOfInvites, NoRequest, Request, smsVars
<1>3. /\ Pending(x)' = Pending(x) \cup {k}
      /\ \A y : y # x => Pending(y)' = Pending(y)
  BY <1>1, <1>2 DEF Pending
<1>4. \A d \in Containers \ {c} :
         /\ pc[d] = "commit" => req[d].code # k
         /\ pc[d] \in Sending /\ req[d].mobile = x => x \in met
  BY <1>0 DEF IInv, NobodyShares, Sending
<1>5. SmsInv'
  BY SmsInvStutter DEF IInv
<1>6. TypeOfInvites'
  <2>1. /\ inviteStatus' \in [Codes -> {"none", "pending", "used", "expired"}]
        /\ number' \in [Codes -> Mobiles \cup {NoMobile}]
    BY <1>0 DEF IInv, TypeOfInvites
  <2>2. pc' \in [Containers -> Sending \cup {"idle", "expire"}] /\ req' \in [Containers -> Request]
    BY <1>2 DEF IInv, TypeOfInvites, Return, Goto
  <2>3. QED BY <1>2, <2>1, <2>2 DEF IInv, TypeOfInvites
<1>7. ASSUME NEW d \in Containers PROVE Serves(d)'
  <2>1. CASE d = c
    BY <1>2, <2>1 DEF Serves, Sending, Unknown, Alone
  <2>2. CASE d # c
    BY <1>2, <1>3, <1>4, <2>2 DEF IInv, Serves, Sending, Alone
  <2>3. QED BY <2>1, <2>2
<1>8. NobodyShares'
  BY <1>2 DEF IInv, NobodyShares, Sending
<1>9. OnePendingInvite'
  BY <1>1, <1>2, <1>3 DEF IInv, OnePendingInvite
<1>10. SentIffStored'
  <2> SUFFICES ASSUME NEW l \in Codes
               PROVE  /\ l \in published /\ inviteStatus'[l] = "none" =>
                            \/ l \in stray
                            \/ \E d \in Containers : pc'[d] = "commit" /\ req'[d].code = l
                      /\ inviteStatus'[l] # "none" => l \in published
    BY <1>2 DEF SentIffStored
  <2>1. CASE l = k
    BY <1>1, <1>2, <2>1
  <2>2. CASE l # k
    BY <1>0, <1>2, <2>2 DEF IInv, SentIffStored
  <2>3. QED BY <2>1, <2>2
<1>11. QED BY <1>5, <1>6, <1>7, <1>8, <1>9, <1>10 DEF IInv

\* mark_expired and register: an invite that is stored gets another status than
\* pending, and register adds a member.
LEMMA IInvSettled ==
    ASSUME IInv, NEW k \in Codes, inviteStatus[k] # "none",
           NEW status \in {"used", "expired"},
           inviteStatus' = [inviteStatus EXCEPT ![k] = status],
           members \subseteq members', members' \subseteq Mobiles,
           met \subseteq met', met' \subseteq Mobiles,
           \A d \in Containers : pc[d] \in Unknown /\ req[d].mobile \in members' \ members =>
                                    req[d].mobile \in met',
           \A d \in Containers :
              \/ req'[d] = req[d] /\ pc'[d] = pc[d]
              \/ req'[d] = NoRequest /\ pc'[d] = "idle" /\ pc[d] = "expire",
           req' \in [Containers -> Request],
           pc' \in [Containers -> Sending \cup {"idle", "expire"}],
           UNCHANGED <<smsVars, number, overdue, stray>>
    PROVE  IInv'
<1>1. /\ \A l \in Codes : inviteStatus'[l] = IF l = k THEN status ELSE inviteStatus[l]
      /\ UNCHANGED <<published, number, overdue, stray>>
      /\ \A y : Pending(y)' \subseteq Pending(y)
  BY DEF IInv, TypeOfInvites, Pending, smsVars
<1>2. SmsInv'
  BY SmsInvStutter DEF IInv
<1>3. TypeOfInvites'
  BY DEF IInv, TypeOfInvites
<1>4. ASSUME NEW d \in Containers PROVE Serves(d)'
  <2>1. CASE pc'[d] = "idle"
    BY <2>1 DEF Serves, Sending, Unknown, Alone
  <2>2. CASE pc'[d] # "idle"
    BY <1>1, <2>2 DEF IInv, Serves
  <2>3. QED BY <2>1, <2>2
<1>5. NobodyShares'
  BY DEF IInv, NobodyShares, Sending
<1>6. OnePendingInvite'
  BY <1>1 DEF IInv, OnePendingInvite
<1>7. SentIffStored'
  BY <1>1 DEF IInv, SentIffStored
<1>8. QED BY <1>2, <1>3, <1>4, <1>5, <1>6, <1>7 DEF IInv

\* Every step keeps the invariant.
LEMMA IInvStep == IInv /\ [Next]_vars => IInv'
<1> SUFFICES ASSUME IInv, [Next]_vars PROVE IInv'
  OBVIOUS
<1>0. /\ pc \in [Containers -> Sending \cup {"idle", "expire"}] /\ req \in [Containers -> Request]
      /\ met \subseteq Mobiles /\ stray \subseteq Codes /\ members \subseteq Mobiles
  BY DEF IInv, TypeOfInvites
<1>1. ASSUME NEW c \in Containers, Receive(c) PROVE IInv'
  <2>1. PICK x \in Mobiles :
          /\ req' = [req EXCEPT ![c] = [NoRequest EXCEPT !.mobile = x]]
          /\ met' = IF \E d \in Containers : pc[d] \in Sending /\ req[d].mobile = x
                    THEN met \cup {x} ELSE met
    BY <1>1, InvitesAssumption DEF Receive
  <2> DEFINE q == [NoRequest EXCEPT !.mobile = x]
  <2>2. q \in Request /\ q.mobile = x /\ req' = [req EXCEPT ![c] = q]
    BY <2>1 DEF NoRequest, Request
  <2> HIDE DEF q
  <2>3. /\ pc' = [pc EXCEPT ![c] = "member"] /\ pc[c] # "commit"
        /\ "member" \in Sending \ (Unknown \cup Alone)
        /\ UNCHANGED <<smsVars, inviteVars, members, stray>>
    BY <1>1 DEF Receive, Goto, Sending, Unknown, Alone
  <2>4. /\ met \subseteq met' /\ met' \subseteq Mobiles
        /\ \A d \in Containers : pc[d] \in Sending /\ req[d].mobile = x => x \in met'
    BY <1>0, <2>1
  <2>5. QED BY <1>0, <2>2, <2>3, <2>4, IInvFrame
<1>2. ASSUME NEW c \in Containers, MobileExists(c) PROVE IInv'
  BY <1>0, <1>2, IInvReturn, IInvGoesOn DEF MobileExists
<1>3. ASSUME NEW c \in Containers, PendingExists(c) PROVE IInv'
  <2>1. pc[c] = "pending" /\ UNCHANGED <<smsVars, inviteVars, members, met, stray>>
    BY <1>3 DEF PendingExists
  <2>2. CASE Return(c)
    BY <1>0, <2>1, <2>2, IInvReturn
  <2>3. CASE Pending(req[c].mobile) = {} /\ Goto(c, "publish") /\ UNCHANGED req
    <3> DEFINE q == req[c]
    <3>1. /\ q \in Request /\ req' = [req EXCEPT ![c] = q] /\ q.mobile \in Mobiles
          /\ pc' = [pc EXCEPT ![c] = "publish"]
          /\ q.mobile \notin met => q.mobile \notin members
          /\ Pending(q.mobile) = {}
      BY <1>0, <2>1, <2>3 DEF Goto, IInv, Serves, Sending, Unknown
    <3>2. \A d \in Containers \ {c} :
             pc[d] \in Sending /\ req[d].mobile = q.mobile => q.mobile \in met
      BY <2>1 DEF IInv, NobodyShares, Sending
    <3>3. "publish" \in Sending
      BY DEF Sending
    <3> HIDE DEF q
    <3>4. QED BY <1>0, <2>1, <3>1, <3>2, <3>3, IInvFrame
  <2>4. QED BY <1>3, <2>2, <2>3 DEF PendingExists
<1>4. ASSUME NEW c \in Containers, Commit(c) PROVE IInv'
  <2>1. pc[c] = "commit" /\ req[c].code \in Codes /\ Return(c)
        /\ UNCHANGED <<smsVars, overdue, members, met>>
    BY <1>4 DEF Commit, IInv, Serves
  <2>2. CASE stray' = stray \cup {req[c].code} /\ UNCHANGED <<inviteStatus, number>>
    BY <1>0, <2>1, <2>2, IInvReturn DEF inviteVars
  <2>3. CASE ~(stray' = stray \cup {req[c].code} /\ UNCHANGED <<inviteStatus, number>>)
    BY <1>4, <2>1, <2>3, IInvStored DEF Commit
  <2>4. QED BY <2>2, <2>3
<1>5. ASSUME NEW c \in Containers, ValidateInvite(c) PROVE IInv'
  <2>1. PICK k \in overdue : /\ inviteStatus[k] = "pending"
                             /\ req' = [req EXCEPT ![c] = [NoRequest EXCEPT !.code = k]]
    BY <1>5 DEF ValidateInvite
  <2> DEFINE q == [NoRequest EXCEPT !.code = k]
  <2>2. k \in Codes
    BY DEF IInv, TypeOfInvites
  <2>3. q \in Request /\ q.code = k /\ req' = [req EXCEPT ![c] = q]
    BY <2>1, <2>2 DEF NoRequest, Request
  <2> HIDE DEF q
  <2>4. /\ pc' = [pc EXCEPT ![c] = "expire"] /\ pc[c] # "commit"
        /\ "expire" \notin Sending \cup Unknown \cup Alone
        /\ UNCHANGED <<smsVars, inviteVars, members, met, stray>>
    BY <1>5 DEF ValidateInvite, Goto, Sending, Unknown, Alone
  <2>5. QED BY <1>0, <2>1, <2>2, <2>3, <2>4, IInvFrame
<1>6. ASSUME NEW c \in Containers, MarkExpired(c) PROVE IInv'
  <2>1. PICK k \in Codes : k = req[c].code /\ inviteStatus[k] # "none"
    BY <1>6 DEF MarkExpired, IInv, Serves
  <2>2. /\ pc[c] = "expire" /\ inviteStatus' = [inviteStatus EXCEPT ![k] = "expired"]
        /\ req' = [req EXCEPT ![c] = NoRequest] /\ pc' = [pc EXCEPT ![c] = "idle"]
        /\ UNCHANGED <<smsVars, number, overdue, members, met, stray>>
    BY <1>6, <2>1 DEF MarkExpired, Return, Goto
  <2>3. \A d \in Containers :
           \/ req'[d] = req[d] /\ pc'[d] = pc[d]
           \/ req'[d] = NoRequest /\ pc'[d] = "idle" /\ pc[d] = "expire"
    BY <1>0, <2>2
  <2>4. /\ req' \in [Containers -> Request]
        /\ pc' \in [Containers -> Sending \cup {"idle", "expire"}]
    BY <1>0, <2>2 DEF NoRequest, Request
  <2>5. QED BY <1>0, <2>1, <2>2, <2>3, <2>4, IInvSettled
<1>7. ASSUME NEW c \in Containers, Crash(c) PROVE IInv'
  <2>1. /\ UNCHANGED <<smsVars, inviteVars, members, met>> /\ Return(c)
        /\ stray' = IF pc[c] = "commit" THEN stray \cup {req[c].code} ELSE stray
        /\ pc[c] = "commit" => req[c].code \in Codes
    BY <1>7 DEF Crash, IInv, Serves
  <2>2. stray \subseteq stray' /\ stray' \subseteq Codes /\ (pc[c] = "commit" => req[c].code \in stray')
    BY <1>0, <2>1
  <2>3. QED BY <2>1, <2>2, IInvReturn
<1>8. ASSUME NEW k \in Codes, ExpiryDaysPass(k) PROVE IInv'
  <2>1. /\ overdue' \subseteq Codes
        /\ UNCHANGED <<smsVars, inviteStatus, number, members, pc, req, met, stray>>
    BY <1>8 DEF ExpiryDaysPass, IInv, TypeOfInvites
  <2>2. SmsInv' /\ UNCHANGED published /\ \A x : Pending(x)' = Pending(x)
    BY <2>1, SmsInvStutter DEF IInv, smsVars, Pending
  <2>3. SmsInv' /\ TypeOfInvites'
    BY <2>1, <2>2 DEF IInv, TypeOfInvites
  <2>4. (\A c \in Containers : Serves(c)') /\ NobodyShares'
    BY <2>1, <2>2 DEF IInv, Serves, NobodyShares
  <2>5. OnePendingInvite' /\ SentIffStored'
    BY <2>1, <2>2 DEF IInv, OnePendingInvite, SentIffStored
  <2>6. QED BY <2>3, <2>4, <2>5 DEF IInv
<1>9. ASSUME NEW k \in Codes, NEW x \in Mobiles, Register(k, x) PROVE IInv'
  <2>1. /\ inviteStatus[k] # "none" /\ inviteStatus' = [inviteStatus EXCEPT ![k] = "used"]
        /\ members' = members \cup {x}
        /\ UNCHANGED <<smsVars, number, overdue, pc, req, stray>>
    BY <1>9 DEF Register
  <2>2. /\ met \subseteq met' /\ met' \subseteq Mobiles
        /\ \A d \in Containers : pc[d] \in Unknown /\ req[d].mobile = x => x \in met'
    BY <1>0, <1>9 DEF Register, Occupy, Sending, Unknown
  <2>3. QED BY <1>0, <2>1, <2>2, IInvSettled
<1>10. ASSUME NEW old \in Mobiles, NEW x \in Mobiles, PatchMember(old, x) PROVE IInv'
  <2>1. /\ members' = (members \ {old}) \cup {x}
        /\ UNCHANGED <<smsVars, inviteVars, pc, req, stray>>
    BY <1>10 DEF PatchMember
  <2>2. /\ met \subseteq met' /\ met' \subseteq Mobiles
        /\ \A d \in Containers : pc[d] \in Unknown /\ req[d].mobile = x => x \in met'
    BY <1>0, <1>10 DEF PatchMember, Occupy, Sending, Unknown
  <2>3. /\ SmsInv' /\ UNCHANGED <<published, inviteStatus, number, overdue>>
        /\ \A y : Pending(y)' = Pending(y)
    BY <2>1, SmsInvStutter DEF IInv, smsVars, inviteVars, Pending
  <2>4. TypeOfInvites'
    BY <1>0, <2>1, <2>2, <2>3 DEF IInv, TypeOfInvites
  <2>5. ASSUME NEW d \in Containers PROVE Serves(d)'
    <3>1. Serves(d)
      BY DEF IInv
    <3>2. pc[d] \in Unknown /\ req[d].mobile \notin met' => req[d].mobile \notin members'
      BY <2>1, <2>2, <3>1 DEF Serves
    <3>3. QED BY <2>1, <2>2, <2>3, <3>1, <3>2 DEF Serves
  <2>6. NobodyShares' /\ OnePendingInvite' /\ SentIffStored'
    BY <2>1, <2>2, <2>3 DEF IInv, NobodyShares, OnePendingInvite, SentIffStored
  <2>7. QED BY <2>3, <2>4, <2>5, <2>6 DEF IInv
<1>11. ASSUME DispatchTexts PROVE IInv'
  <2>1. UNCHANGED <<inviteVars, members, pc, req, met, stray>>
    BY <1>11 DEF DispatchTexts
  <2>2. SmsInv' /\ UNCHANGED published
    BY <1>11, SmsInvStep DEF DispatchTexts, IInv
  <2>3. \A x : Pending(x)' = Pending(x)
    BY <2>1 DEF Pending, inviteVars
  <2>4. SmsInv' /\ TypeOfInvites'
    BY <2>1, <2>2, <2>3 DEF IInv, TypeOfInvites, inviteVars
  <2>5. (\A c \in Containers : Serves(c)') /\ NobodyShares'
    BY <2>1, <2>2, <2>3 DEF IInv, Serves, NobodyShares, inviteVars
  <2>6. OnePendingInvite' /\ SentIffStored'
    BY <2>1, <2>2, <2>3 DEF IInv, OnePendingInvite, SentIffStored, inviteVars
  <2>7. QED BY <2>4, <2>5, <2>6 DEF IInv
<1>12. CASE UNCHANGED vars
  <2>1. SmsInv' /\ UNCHANGED published /\ \A x : Pending(x)' = Pending(x)
    BY <1>12, SmsInvStutter DEF vars, IInv, smsVars, inviteVars, Pending
  <2>2. UNCHANGED <<inviteVars, members, pc, req, met, stray>>
    BY <1>12 DEF vars
  <2>3. SmsInv' /\ TypeOfInvites'
    BY <2>1, <2>2 DEF IInv, TypeOfInvites, inviteVars
  <2>4. (\A c \in Containers : Serves(c)') /\ NobodyShares'
    BY <2>1, <2>2 DEF IInv, Serves, NobodyShares, inviteVars
  <2>5. OnePendingInvite' /\ SentIffStored'
    BY <2>1, <2>2 DEF IInv, OnePendingInvite, SentIffStored, inviteVars
  <2>6. QED BY <2>3, <2>4, <2>5 DEF IInv
<1>13. QED
  BY <1>1, <1>2, <1>3, <1>4, <1>5, <1>6, <1>7, <1>8, <1>9, <1>10, <1>11, <1>12, IInvInsertAndPublish
     DEF Next

\* The invariant holds in every reachable state.
LEMMA IInvHolds == Spec => []IInv
BY IInvInit, IInvStep, PTL DEF Spec

\* Every variable keeps its type, and no delivery is tried more than MaxAttempts
\* times, whatever fails.
THEOREM TypeCorrect == Spec => []TypeOK
<1>1. IInv => TypeOK
  BY SmsInvCounts DEF IInv, TypeOfInvites, TypeOK
<1>2. QED BY <1>1, IInvHolds, PTL

\* A number has one pending invite at most, unless requests for it met.
THEOREM OnePendingInviteHolds == Spec => []OnePendingInvite
<1>1. IInv => OnePendingInvite
  BY DEF IInv
<1>2. QED BY <1>1, IInvHolds, PTL

\* A code is stored if it was published and its request did not fail.
THEOREM SentIffStoredHolds == Spec => []SentIffStored
<1>1. IInv => SentIffStored
  BY DEF IInv
<1>2. QED BY <1>1, IInvHolds, PTL

\* A second text needs a second delivery or a lost answer, however many
\* dispatchers serve deliveries of one message at a time; each delivery that
\* counts as done was accepted, and each that was dropped had all its attempts.
THEOREM OneTextPerAnswerHolds == Spec => []OneTextPerAnswer
<1>1. IInv => OneTextPerAnswer
  BY SmsInvCounts DEF IInv
<1>2. QED BY <1>1, IInvHolds, PTL

-----------------------------------------------------------------------------
(* The only step that makes an invite pending is the COMMIT of the         *)
(* send_invite that has its code.                                          *)

\* Every step that is not the COMMIT leaves an invite that is not stored so.
LEMMA OnlyCommitStores ==
    ASSUME IInv, [Next]_vars, NEW k \in Codes, inviteStatus[k] = "none",
           inviteStatus'[k] # "none"
    PROVE  \E c \in Containers :
              /\ pc[c] = "commit" /\ req[c].code = k
              /\ number' = [number EXCEPT ![k] = req[c].mobile] /\ UNCHANGED met
<1>1. ASSUME UNCHANGED inviteStatus PROVE FALSE
  BY <1>1
<1>2. ASSUME NEW j \in Codes, inviteStatus[j] # "none", NEW status,
             inviteStatus' = [inviteStatus EXCEPT ![j] = status]
      PROVE  FALSE
  BY <1>2 DEF IInv, TypeOfInvites
<1>3. ASSUME NEW c \in Containers, MarkExpired(c) PROVE FALSE
  BY <1>2, <1>3 DEF MarkExpired, IInv, Serves
<1>4. ASSUME NEW j \in Codes, NEW x \in Mobiles, Register(j, x) PROVE FALSE
  BY <1>2, <1>4 DEF Register, Occupy
<1>5. ASSUME NEW c \in Containers,
             \/ Receive(c) \/ MobileExists(c) \/ PendingExists(c) \/ InsertAndPublish(c)
             \/ ValidateInvite(c) \/ Crash(c)
      PROVE  FALSE
  BY <1>1, <1>5
     DEF Receive, MobileExists, PendingExists, InsertAndPublish, ValidateInvite, Crash, inviteVars
<1>6. ASSUME \/ \E j \in Codes : ExpiryDaysPass(j)
             \/ \E old, x \in Mobiles : PatchMember(old, x)
             \/ DispatchTexts \/ UNCHANGED vars
      PROVE  FALSE
  BY <1>1, <1>6 DEF ExpiryDaysPass, PatchMember, DispatchTexts, vars, inviteVars
<1>7. PICK c \in Containers : Commit(c)
  BY <1>3, <1>4, <1>5, <1>6 DEF Next
<1>8. /\ pc[c] = "commit" /\ UNCHANGED met
      /\ inviteStatus' = [inviteStatus EXCEPT ![req[c].code] = "pending"]
      /\ number' = [number EXCEPT ![req[c].code] = req[c].mobile]
  BY <1>1, <1>7 DEF Commit
<1>9. req[c].code = k
  BY <1>8 DEF IInv, TypeOfInvites
<1>10. QED BY <1>8, <1>9

\* An invite that gets stored is for a number of no member, unless a request or
\* a registration for the number, or a member's change to it, came in between.
THEOREM InvitesStrangersHolds == Spec => InvitesStrangers
<1> DEFINE Stranger ==
        \A k \in Codes :
            inviteStatus[k] = "none" /\ inviteStatus'[k] = "pending" =>
                number'[k] \notin members \/ number'[k] \in met
<1>1. IInv /\ [Next]_vars => Stranger
  <2> SUFFICES ASSUME IInv, [Next]_vars, NEW k \in Codes,
                      inviteStatus[k] = "none", inviteStatus'[k] = "pending"
               PROVE  number'[k] \notin members \/ number'[k] \in met
    OBVIOUS
  <2>1. PICK c \in Containers :
           /\ pc[c] = "commit" /\ req[c].code = k
           /\ number' = [number EXCEPT ![k] = req[c].mobile]
    BY OnlyCommitStores
  <2>2. number'[k] = req[c].mobile
    BY <2>1 DEF IInv, TypeOfInvites
  <2>3. QED BY <2>1, <2>2 DEF IInv, Serves, Unknown
<1>2. IInv /\ [Next]_vars => [Stranger]_vars
  BY <1>1
<1>3. QED BY <1>2, IInvHolds, PTL DEF Spec, InvitesStrangers

-----------------------------------------------------------------------------
(* The refinement of InviteLife.                                           *)

\* The invites that a validate_invite is about to mark.
Reading == {req[c].code : c \in {d \in Containers : pc[d] = "expire"}}

\* What a handler does to Reading, when it does not touch the others.
LEMMA ReadingFrame ==
    ASSUME NEW c \in Containers, \A d \in Containers \ {c} : req'[d] = req[d] /\ pc'[d] = pc[d]
    PROVE  /\ pc[c] # "expire" /\ pc'[c] # "expire" => UNCHANGED Reading
           /\ pc[c] # "expire" /\ pc'[c] = "expire" => Reading' = Reading \cup {req'[c].code}
           /\ pc[c] = "expire" /\ pc'[c] # "expire" =>
                 Reading' \in {Reading, Reading \ {req[c].code}}
BY DEF Reading

\* A handler that returns.
LEMMA ReadingReturn ==
    ASSUME IInv, NEW c \in Containers, Return(c)
    PROVE  /\ pc[c] # "expire" => UNCHANGED Reading
           /\ pc[c] = "expire" => /\ req[c].code \in Reading
                                  /\ Reading' \in {Reading, Reading \ {req[c].code}}
<1>1. /\ \A d \in Containers \ {c} : req'[d] = req[d] /\ pc'[d] = pc[d]
      /\ pc'[c] # "expire"
  BY DEF Return, Goto, IInv, TypeOfInvites
<1>2. QED BY <1>1, ReadingFrame DEF Reading

\* Each step maps to a step of InviteLife, or leaves the invites alone.
LEMMA LifeStep ==
    ASSUME IInv, [Next]_vars
    PROVE  Life!Next \/ (UNCHANGED inviteStatus /\ UNCHANGED Reading)
<1> DEFINE Goal == Life!Next \/ (UNCHANGED inviteStatus /\ UNCHANGED Reading)
<1>0. req \in [Containers -> Request] /\ pc \in [Containers -> Sending \cup {"idle", "expire"}]
  BY DEF IInv, TypeOfInvites
<1>1. ASSUME NEW c \in Containers, Receive(c) \/ MobileExists(c) \/ PendingExists(c) PROVE Goal
  <2>1. /\ UNCHANGED inviteStatus /\ pc[c] # "expire" /\ pc'[c] # "expire"
        /\ \A d \in Containers \ {c} : req'[d] = req[d] /\ pc'[d] = pc[d]
    BY <1>0, <1>1 DEF Receive, MobileExists, PendingExists, Return, Goto, inviteVars
  <2>2. QED BY <2>1, ReadingFrame
<1>2. ASSUME NEW c \in Containers, InsertAndPublish(c) PROVE Goal
  <2>1. UNCHANGED inviteStatus /\ pc[c] = "publish"
    BY <1>2 DEF InsertAndPublish, inviteVars
  <2>2. /\ pc'[c] # "expire"
        /\ \A d \in Containers \ {c} : req'[d] = req[d] /\ pc'[d] = pc[d]
    BY <1>0, <1>2 DEF InsertAndPublish, Return, Goto
  <2>3. QED BY <2>1, <2>2, ReadingFrame
<1>3. ASSUME NEW c \in Containers, Commit(c) PROVE Goal
  <2>1. UNCHANGED Reading
    BY <1>3, ReadingReturn DEF Commit
  <2>2. CASE UNCHANGED inviteStatus
    BY <2>1, <2>2
  <2>3. CASE ~UNCHANGED inviteStatus
    <3>1. PICK k \in Codes : k = req[c].code /\ inviteStatus[k] = "none"
      BY <1>3 DEF Commit, IInv, Serves
    <3>2. inviteStatus' = [inviteStatus EXCEPT ![k] = "pending"]
      BY <1>3, <2>3, <3>1 DEF Commit
    <3>3. Life!Store(k)
      BY <2>1, <3>1, <3>2 DEF Life!Store, Reading
    <3>4. QED BY <3>3 DEF Life!Next, Codes
  <2>4. QED BY <2>2, <2>3
<1>4. ASSUME NEW c \in Containers, ValidateInvite(c) PROVE Goal
  <2>1. PICK k \in overdue : /\ inviteStatus[k] = "pending"
                             /\ req' = [req EXCEPT ![c] = [NoRequest EXCEPT !.code = k]]
    BY <1>4 DEF ValidateInvite
  <2>2. /\ pc[c] # "expire" /\ pc'[c] = "expire" /\ UNCHANGED inviteStatus
        /\ \A d \in Containers \ {c} : req'[d] = req[d] /\ pc'[d] = pc[d]
    BY <1>0, <1>4, <2>1 DEF ValidateInvite, Goto, inviteVars
  <2>3. req'[c].code = k /\ k \in Codes
    BY <1>0, <2>1 DEF NoRequest, IInv, TypeOfInvites
  <2>4. Life!Look(k)
    BY <2>1, <2>2, <2>3, ReadingFrame DEF Life!Look, Reading
  <2>5. QED BY <2>3, <2>4 DEF Life!Next, Codes
<1>5. ASSUME NEW c \in Containers, MarkExpired(c) PROVE Goal
  <2>1. PICK k \in Codes : k = req[c].code
    BY <1>5 DEF MarkExpired, IInv, Serves
  <2>2. k \in Reading /\ Reading' \in {Reading, Reading \ {k}}
    BY <1>5, <2>1, ReadingReturn DEF MarkExpired
  <2>3. Life!Expire(k)
    BY <1>5, <2>1, <2>2 DEF MarkExpired, Life!Expire, Reading
  <2>4. QED BY <2>3 DEF Life!Next, Codes
<1>6. ASSUME NEW c \in Containers, Crash(c) PROVE Goal
  <2>1. UNCHANGED inviteStatus /\ Return(c)
    BY <1>6 DEF Crash, inviteVars
  <2>2. CASE UNCHANGED Reading
    BY <2>1, <2>2
  <2>3. CASE ~UNCHANGED Reading
    <3>1. pc[c] = "expire" /\ req[c].code \in Codes
      BY <2>1, <2>3, ReadingReturn DEF IInv, Serves
    <3>2. PICK k \in Codes : k = req[c].code
      BY <3>1
    <3>3. k \in Reading /\ Reading' = Reading \ {k}
      BY <2>1, <2>3, <3>1, <3>2, ReadingReturn
    <3>4. Life!GiveUp(k)
      BY <2>1, <3>3 DEF Life!GiveUp, Reading
    <3>5. QED BY <3>4 DEF Life!Next, Codes
  <2>4. QED BY <2>2, <2>3
<1>7. ASSUME UNCHANGED <<pc, req>> PROVE UNCHANGED Reading
  BY <1>7 DEF Reading
<1>8. ASSUME NEW k \in Codes, NEW x \in Mobiles, Register(k, x) PROVE Goal
  <2>1. Life!Use(k)
    BY <1>7, <1>8 DEF Register, Life!Use, Reading
  <2>2. QED BY <2>1 DEF Life!Next, Codes
<1>9. ASSUME \/ \E k \in Codes : ExpiryDaysPass(k)
             \/ \E old, x \in Mobiles : PatchMember(old, x)
             \/ DispatchTexts \/ UNCHANGED vars
      PROVE  Goal
  BY <1>7, <1>9 DEF ExpiryDaysPass, PatchMember, DispatchTexts, vars, inviteVars
<1>10. QED
  BY <1>1, <1>2, <1>3, <1>4, <1>5, <1>6, <1>8, <1>9 DEF Next

\* send_invite and validate_invite implement InviteLife.
THEOREM KeepsInviteLifeHolds == Spec => KeepsInviteLife
<1>1. Init => Life!Init
  BY DEF Init, Life!Init, Codes
<1>2. IInv /\ [Next]_vars => [Life!Next]_(Life!vars)
  BY LifeStep DEF Life!vars, Reading
<1>3. QED BY <1>1, <1>2, IInvHolds, PTL DEF Spec, KeepsInviteLife, Life!Spec
=============================================================================
