-------------------------------- MODULE Invites --------------------------------
(***************************************************************************)
(* invite_service.py with the dispatcher that brings the codes to the      *)
(* invited: the handlers send_invite and validate_invite, run by several   *)
(* Lambda containers over the tables invites and members.  send_invite     *)
(* inserts a row, publishes the text and returns; the COMMIT of            *)
(* UnitOfWork.__exit__ comes after that, so a text may be on its way with  *)
(* a code that no row has yet, or ever will have.                          *)
(*                                                                         *)
(* register and patch_member are other functions: register uses invites as *)
(* InviteLife lets it and adds a member, patch_member gives a member       *)
(* another number.  A text is named by the code that it carries.           *)
(***************************************************************************)
EXTENDS Sms

CONSTANTS
    Containers,   \* the containers of send_invite and validate_invite
    Mobiles,      \* phone numbers
    Invited,      \* those that send_invite is asked for
    FirstMobiles, \* those of the members the bootstrap scripts made
    NoMobile      \* stands for "no number"

ASSUME InvitesAssumption == (Invited \cup FirstMobiles) \subseteq Mobiles /\ NoMobile \notin Mobiles

Codes == Messages    \* invites.activation_code
NoCode == NoMessage

VARIABLES
    inviteStatus,  \* invites.status, "none" while there is no row
    number,        \* invites.mobile
    overdue,       \* the invites with expires_at in the past
    members,       \* the numbers in members.mobile
    pc,            \* where the handler of each container stands
    req,           \* its number, and the code it inserted or looked up
    met,           \* history: numbers with two requests at a time
    stray          \* history: codes published by a send_invite that failed

inviteVars == <<inviteStatus, number, overdue>>
vars == <<smsVars, inviteVars, members, pc, req, met, stray>>

NoRequest == [code |-> NoCode, mobile |-> NoMobile]
Request == [code : Codes \cup {NoCode}, mobile : Mobiles \cup {NoMobile}]

Sending == {"member", "pending", "publish", "commit"}

Goto(c, stage) == pc' = [pc EXCEPT ![c] = stage]
Return(c) == Goto(c, "idle") /\ req' = [req EXCEPT ![c] = NoRequest]

-----------------------------------------------------------------------------
\* A request whose caller is a member and, if the invite is a legacy one, an
\* executive who gives date_joined.  The others (403, 400) change nothing.
Receive(c) ==
    /\ pc[c] = "idle"
    /\ \E x \in Invited :
         /\ req' = [req EXCEPT ![c] = [NoRequest EXCEPT !.mobile = x]]
         /\ met' = IF \E d \in Containers : pc[d] \in Sending /\ req[d].mobile = x
                   THEN met \cup {x} ELSE met
    /\ Goto(c, "member")
    /\ UNCHANGED <<smsVars, inviteVars, members, stray>>

\* Mutant: the check is left to the caller.
MobileExistsUnasked(c) ==
    /\ pc[c] = "member"
    /\ Goto(c, "pending")
    /\ UNCHANGED <<smsVars, inviteVars, members, req, met, stray>>

\* mobile_exists: 409 if the number is a member's.
MobileExists(c) ==
    /\ pc[c] = "member"
    /\ \/ req[c].mobile \in members /\ Return(c)
       \/ req[c].mobile \notin members /\ Goto(c, "pending") /\ UNCHANGED req
    /\ UNCHANGED <<smsVars, inviteVars, members, met, stray>>

Pending(x) == {k \in Codes : inviteStatus[k] = "pending" /\ number[k] = x}

\* Mutant: an invite that is overdue does not count.
PendingInTimeExists(c) ==
    /\ pc[c] = "pending"
    /\ \/ Pending(req[c].mobile) \ overdue # {} /\ Return(c)
       \/ Pending(req[c].mobile) \ overdue = {} /\ Goto(c, "publish") /\ UNCHANGED req
    /\ UNCHANGED <<smsVars, inviteVars, members, met, stray>>

\* pending_exists: 409 if there is one, overdue or not.
PendingExists(c) ==
    /\ pc[c] = "pending"
    /\ \/ Pending(req[c].mobile) # {} /\ Return(c)
       \/ Pending(req[c].mobile) = {} /\ Goto(c, "publish") /\ UNCHANGED req
    /\ UNCHANGED <<smsVars, inviteVars, members, met, stray>>

\* generate_activation_code draws a code that was not sent and is not stored;
\* of one that is stored, the INSERT raises (activation_code is UNIQUE).
Fresh(k) ==
    /\ k \notin published /\ inviteStatus[k] = "none"
    /\ \A d \in Containers : req[d].code # k

\* Mutant: an error of the topic is logged and the handler goes on.
InsertAndPublishQuietly(c) ==
    /\ pc[c] = "publish"
    /\ \/ \E k \in Codes :
            /\ Fresh(k)
            /\ \/ PublishSms(k) \/ UNCHANGED smsVars
            /\ req' = [req EXCEPT ![c].code = k]
            /\ Goto(c, "commit")
            /\ UNCHANGED stray
       \/ Return(c) /\ UNCHANGED <<smsVars, stray>>
    /\ UNCHANGED <<inviteVars, members, met>>

\* invites.insert, then publish_invite_sms, which raises unless the topic has
\* confirmed the message; the topic may have it all the same.
InsertAndPublish(c) ==
    /\ pc[c] = "publish"
    /\ \/ \E k \in Codes :
            /\ Fresh(k) /\ PublishSms(k)
            /\ \/ /\ req' = [req EXCEPT ![c].code = k]
                  /\ Goto(c, "commit")
                  /\ UNCHANGED stray
               \/ Return(c) /\ stray' = stray \cup {k}
       \/ Return(c) /\ UNCHANGED <<smsVars, stray>>
    /\ UNCHANGED <<inviteVars, members, met>>

\* The COMMIT: the row is visible, or it never will be.
Commit(c) ==
    LET k == req[c].code IN
    /\ pc[c] = "commit"
    /\ \/ /\ inviteStatus' = [inviteStatus EXCEPT ![k] = "pending"]
          /\ number' = [number EXCEPT ![k] = req[c].mobile]
          /\ UNCHANGED stray
       \/ stray' = stray \cup {k} /\ UNCHANGED <<inviteStatus, number>>
    /\ Return(c)
    /\ UNCHANGED <<smsVars, overdue, members, met>>

-----------------------------------------------------------------------------
\* validate_invite, get_by_activation_code: only an invite that is neither used
\* nor expired and past its date makes the handler go on to write.
ValidateInvite(c) ==
    /\ pc[c] = "idle"
    /\ \E k \in overdue :
         /\ inviteStatus[k] = "pending"
         /\ req' = [req EXCEPT ![c] = [NoRequest EXCEPT !.code = k]]
    /\ Goto(c, "expire")
    /\ UNCHANGED <<smsVars, inviteVars, members, met, stray>>

\* Mutant: the row is set back to what a new invite has.
MarkExpiredPending(c) ==
    /\ pc[c] = "expire"
    /\ inviteStatus' = [inviteStatus EXCEPT ![req[c].code] = "pending"]
    /\ Return(c)
    /\ UNCHANGED <<smsVars, number, overdue, members, met, stray>>

\* mark_expired, whatever the invite has become since, and the COMMIT.
MarkExpired(c) ==
    /\ pc[c] = "expire"
    /\ inviteStatus' = [inviteStatus EXCEPT ![req[c].code] = "expired"]
    /\ Return(c)
    /\ UNCHANGED <<smsVars, number, overdue, members, met, stray>>

\* A statement raises or the container is killed; nothing is committed.
Crash(c) ==
    /\ pc[c] # "idle"
    /\ stray' = IF pc[c] = "commit" THEN stray \cup {req[c].code} ELSE stray
    /\ Return(c)
    /\ UNCHANGED <<smsVars, inviteVars, members, met>>

-----------------------------------------------------------------------------
\* INVITE_EXPIRY_DAYS go by.
ExpiryDaysPass(k) ==
    /\ inviteStatus[k] # "none" /\ k \notin overdue
    /\ overdue' = overdue \cup {k}
    /\ UNCHANGED <<smsVars, inviteStatus, number, members, pc, req, met, stray>>

\* The number becomes a member's; a send_invite for it that has asked for
\* members already does not see that.
Occupy(x) ==
    /\ x \notin members    \* members.mobile is UNIQUE
    /\ met' = IF \E d \in Containers : pc[d] \in Sending \ {"member"} /\ req[d].mobile = x
              THEN met \cup {x} ELSE met

\* register commits: with any invite that is stored, and under a number of its
\* own choice.
Register(k, x) ==
    /\ inviteStatus[k] # "none" /\ Occupy(x)
    /\ inviteStatus' = [inviteStatus EXCEPT ![k] = "used"]
    /\ members' = members \cup {x}
    /\ UNCHANGED <<smsVars, number, overdue, pc, req, stray>>

\* patch_member commits: a member gives up one number for another.
PatchMember(old, x) ==
    /\ old \in members /\ Occupy(x)
    /\ members' = (members \ {old}) \cup {x}
    /\ UNCHANGED <<smsVars, inviteVars, pc, req, stray>>

Init ==
    /\ SmsInit
    /\ inviteStatus = [k \in Codes |-> "none"]
    /\ number = [k \in Codes |-> NoMobile]
    /\ overdue = {}
    /\ members = FirstMobiles
    /\ pc = [c \in Containers |-> "idle"]
    /\ req = [c \in Containers |-> NoRequest]
    /\ met = {}
    /\ stray = {}

DispatchTexts == SmsNext /\ UNCHANGED <<inviteVars, members, pc, req, met, stray>>

Next ==
    \/ \E c \in Containers :
         \/ Receive(c) \/ MobileExists(c) \/ PendingExists(c) \/ InsertAndPublish(c) \/ Commit(c)
         \/ ValidateInvite(c) \/ MarkExpired(c) \/ Crash(c)
    \/ \E k \in Codes : ExpiryDaysPass(k) \/ \E x \in Mobiles : Register(k, x)
    \/ \E old, x \in Mobiles : PatchMember(old, x)
    \/ DispatchTexts

Spec == Init /\ [][Next]_vars

-----------------------------------------------------------------------------
TypeOK ==
    /\ TypeOfSms
    /\ inviteStatus \in [Codes -> {"none", "pending", "used", "expired"}]
    /\ number \in [Codes -> Mobiles \cup {NoMobile}]
    /\ overdue \subseteq Codes
    /\ members \subseteq Mobiles
    /\ pc \in [Containers -> Sending \cup {"idle", "expire"}]
    /\ req \in [Containers -> Request]
    /\ met \subseteq Mobiles
    /\ stray \subseteq Codes

\* openapi.yaml:958: a number has one pending invite at most, unless two
\* requests for it were served at a time.  No retry, failed COMMIT, expiry,
\* registration or change of number makes a second one.
OnePendingInvite ==
    \A x \in Mobiles \ met : \A k, l \in Pending(x) : k = l

\* An invite that is stored is for somebody who is no member, unless a request
\* for the number was served at the same time, or a registration or a member's
\* change of number came between the check and the COMMIT.
InvitesStrangers ==
    [][\A k \in Codes :
         inviteStatus[k] = "none" /\ inviteStatus'[k] = "pending" =>
             number'[k] \notin members \/ number'[k] \in met]_vars

\* Who has a code can use it: a code that was published is stored, unless its
\* send_invite is about to commit, or failed after it had published.  And a
\* code that is stored was published, so the invited gets to know it.
SentIffStored ==
    \A k \in Codes :
        /\ k \in published /\ inviteStatus[k] = "none" =>
               k \in stray \/ \E c \in Containers : pc[c] = "commit" /\ req[c].code = k
        /\ inviteStatus[k] # "none" => k \in published

\* send_invite and validate_invite keep to the life of an invite that register
\* relies on.
Life == INSTANCE InviteLife WITH
            Codes <- Messages,
            status <- inviteStatus,
            reading <- {req[c].code : c \in {d \in Containers : pc[d] = "expire"}}
KeepsInviteLife == Life!Spec
=============================================================================
