---------------------------- MODULE Registration ----------------------------
(***************************************************************************)
(* How an invite becomes a member: the handler register of                 *)
(* register_service.py, run by several Lambda containers.  It signs a user *)
(* up with Cognito, then writes the member and the billing records in one  *)
(* database transaction.  Cognito takes no part in that transaction: an    *)
(* exception makes the handler delete the user again (a compensation), and *)
(* the COMMIT comes after all of that, in UnitOfWork.__exit__.             *)
(*                                                                         *)
(* Cognito and PostgreSQL are external.  Of Cognito the model keeps the    *)
(* life of a user and its phone number, an alias that only one user can    *)
(* have verified; of PostgreSQL the transaction, the UNIQUE columns and    *)
(* the sequence of invoice numbers, which no rollback sets back.           *)
(*                                                                         *)
(* A member, its Cognito user and the membership it is the primary member  *)
(* of share one name, an element of Users.                                 *)
(***************************************************************************)
EXTENDS Naturals

CONSTANTS
    Containers,     \* the warm containers of the register function
    Codes,          \* invites.activation_code
    NoCode,         \* stands for "no code"
    Relationship,   \* invites.relationship, "spouse" or "other"
    Mobiles,        \* phone numbers
    Users,          \* usernames (UUIDs), each signed up once at most
    Admin,          \* the first member, made by the bootstrap scripts
    AdminMobile,
    NoUser,         \* stands for NULL
    NumberText(_)   \* invoice_number made from a value of the sequence

ASSUME RegistrationAssumption ==
    /\ NoCode \notin Codes
    /\ Relationship \in [Codes -> {"spouse", "other"}]
    /\ Admin \in Users /\ AdminMobile \in Mobiles /\ NoUser \notin Users

VARIABLES
    inviteStatus,  \* invites.status, "none" while there is no row
    invitedBy,     \* invites.invited_by
    usedBy,        \* invites.member_id
    checking,      \* invites that a validate_invite has read past their date
    accounts,      \* the life of each Cognito user
    phone,         \* its phone number
    members,       \* the rows of members; members.mobile is phone
    membershipOf,  \* members.membership_id
    periods,       \* the memberships that have a row in membership_periods
    invoices,      \* the rows of invoices
    sequence,      \* the next value of invoice_number_seq
    pc,            \* where the handler of each container stands
    req,           \* its request, local variables and uncommitted writes
    leaked,        \* history: why a user was left in Cognito, if it was
    cameBy         \* history: the invite a member registered with

inviteVars == <<inviteStatus, invitedBy, usedBy, checking>>
cognitoVars == <<accounts, phone>>
memberVars == <<members, membershipOf, periods, invoices, cameBy>>
vars == <<inviteVars, cognitoVars, memberVars, sequence, pc, req, leaked>>

----------------------------------------------------------------------------
\* "row" says that the transaction has inserted its member, "membership" is the
\* one it links the member to, "number" the value it took from the sequence and
\* "invoice" whether its invoice is inserted.
NoRequest ==
    [code |-> NoCode, mobile |-> AdminMobile, type |-> "missing", user |-> NoUser,
     inviter |-> NoUser, membership |-> NoUser, row |-> "none",
     number |-> 0, invoice |-> "none"]

Request ==
    [code : Codes \cup {NoCode}, mobile : Mobiles, type : {"given", "missing"},
     user : Users \cup {NoUser}, inviter : Users \cup {NoUser},
     membership : Users \cup {NoUser}, row : {"none", "inserted"},
     number : Nat, invoice : {"none", "inserted"}]

Present(u) == accounts[u] \in {"unconfirmed", "confirmed", "verified"}

Goto(c, stage) == pc' = [pc EXCEPT ![c] = stage]

\* The handler returns or raises; what it has not committed is rolled back.
Return(c) == Goto(c, "idle") /\ req' = [req EXCEPT ![c] = NoRequest]

\* The user that the handler of c signed up stays in Cognito without a member.
Leak(u, cause) ==
    leaked' = IF u # NoUser /\ Present(u) THEN [leaked EXCEPT ![u] = cause] ELSE leaked

----------------------------------------------------------------------------
\* send_invite, as register sees it: a row with a fresh code, by a member.
SendInvite(k) ==
    /\ inviteStatus[k] = "none"
    /\ \E m \in members : invitedBy' = [invitedBy EXCEPT ![k] = m]
    /\ inviteStatus' = [inviteStatus EXCEPT ![k] = "pending"]
    /\ UNCHANGED <<usedBy, checking, cognitoVars, memberVars, sequence, pc, req, leaked>>

\* Mutant: validate_invite looks at the date of a used invite too.
CheckUsedInvite(k) ==
    /\ inviteStatus[k] \in {"pending", "used"}
    /\ checking' = checking \cup {k}
    /\ UNCHANGED <<inviteStatus, invitedBy, usedBy, cognitoVars, memberVars, sequence, pc, req,
                   leaked>>

\* validate_invite reads an invite that is not used or expired and past its
\* date, then marks it expired, whatever it has become meanwhile.  Several may
\* do so at a time: another one may still be about to.
CheckInvite(k) ==
    /\ inviteStatus[k] = "pending"
    /\ checking' = checking \cup {k}
    /\ UNCHANGED <<inviteStatus, invitedBy, usedBy, cognitoVars, memberVars, sequence, pc, req,
                   leaked>>

ExpireInvite(k) ==
    /\ k \in checking
    /\ checking' \in {checking, checking \ {k}}
    /\ inviteStatus' = [inviteStatus EXCEPT ![k] = "expired"]
    /\ UNCHANGED <<invitedBy, usedBy, cognitoVars, memberVars, sequence, pc, req, leaked>>

----------------------------------------------------------------------------
\* POST /v1/register, a body that RegisterRequest accepts.
Receive(c) ==
    /\ pc[c] = "idle"
    /\ \E k \in Codes, x \in Mobiles, type \in {"given", "missing"} :
         req' = [req EXCEPT ![c] = [NoRequest EXCEPT !.code = k, !.mobile = x, !.type = type]]
    /\ Goto(c, "lookup")
    /\ UNCHANGED <<inviteVars, cognitoVars, memberVars, sequence, leaked>>

\* get_by_activation_code: 404 if there is no such invite, 400 if its
\* relationship is other and the body names no membership_type.  Neither
\* its status nor its date nor its mobile is looked at.
LookupInvite(c) ==
    LET k == req[c].code IN
    /\ pc[c] = "lookup"
    /\ \/ inviteStatus[k] = "none" /\ Return(c)
       \/ /\ inviteStatus[k] # "none"
          /\ Relationship[k] = "other" /\ req[c].type = "missing"
          /\ Return(c)
       \/ /\ inviteStatus[k] # "none"
          /\ Relationship[k] = "other" => req[c].type = "given"
          /\ req' = [req EXCEPT ![c].inviter = invitedBy[k]]
          /\ Goto(c, "signup")
    /\ UNCHANGED <<inviteVars, cognitoVars, memberVars, sequence, leaked>>

\* sign_up creates a user under a fresh name.  If it raises, the handler has no
\* name to delete: the user was not created, or its creation went unanswered.
SignUp(c) ==
    /\ pc[c] = "signup"
    /\ \/ Return(c) /\ UNCHANGED <<cognitoVars, leaked>>
       \/ \E u \in Users :
            /\ accounts[u] = "free"
            /\ accounts' = [accounts EXCEPT ![u] = "unconfirmed"]
            /\ phone' = [phone EXCEPT ![u] = req[c].mobile]
            /\ \/ /\ req' = [req EXCEPT ![c].user = u]
                  /\ Goto(c, "confirm")
                  /\ UNCHANGED leaked
               \/ /\ leaked' = [leaked EXCEPT ![u] = "sign_up unanswered"]
                  /\ Return(c)
    /\ UNCHANGED <<inviteVars, memberVars, sequence>>

\* confirm_sign_up is two calls.  The second makes the phone number an alias
\* and fails while another user has it verified.  A call that raises may have
\* been carried out.
Confirm(c) ==
    LET u == req[c].user IN
    /\ pc[c] = "confirm"
    /\ \/ /\ accounts' = [accounts EXCEPT ![u] = "confirmed"]
          /\ Goto(c, "verify") \/ Goto(c, "compensate")
       \/ Goto(c, "compensate") /\ UNCHANGED accounts
    /\ UNCHANGED <<inviteVars, phone, memberVars, sequence, req, leaked>>

Verify(c) ==
    LET u == req[c].user IN
    /\ pc[c] = "verify"
    /\ \/ /\ \A v \in Users \ {u} : accounts[v] = "verified" => phone[v] # phone[u]
          /\ accounts' = [accounts EXCEPT ![u] = "verified"]
          /\ Goto(c, "insert") \/ Goto(c, "compensate")
       \/ Goto(c, "compensate") /\ UNCHANGED accounts
    /\ UNCHANGED <<inviteVars, phone, memberVars, sequence, req, leaked>>

\* Mutant: members.insert stands outside the try block.
InsertMemberOutsideTry(c) ==
    /\ pc[c] = "insert"
    /\ \/ /\ \A m \in members : phone[m] # req[c].mobile
          /\ req' = [req EXCEPT ![c].row = "inserted"]
          /\ Goto(c, "billing")
       \/ Return(c)
    /\ UNCHANGED <<inviteVars, cognitoVars, memberVars, sequence, leaked>>

\* members.insert: members.mobile is UNIQUE, so the INSERT waits for another
\* transaction that has inserted the number, and raises if it is taken.
\* Any statement may raise for another reason (email is UNIQUE too).
InsertMember(c) ==
    /\ pc[c] = "insert"
    /\ \A d \in Containers \ {c} :
         req[d].row = "inserted" => req[d].mobile # req[c].mobile
    /\ \/ /\ \A m \in members : phone[m] # req[c].mobile
          /\ req' = [req EXCEPT ![c].row = "inserted"]
          /\ Goto(c, "billing")
       \/ Goto(c, "compensate") /\ UNCHANGED req
    /\ UNCHANGED <<inviteVars, cognitoVars, memberVars, sequence, leaked>>

\* relationship other: memberships.insert, update_member_membership_id,
\* periods.insert; then in invoices.insert get_current_fee, which raises if the
\* membership_type has no fee, and generate_number.
OpenMembership(c) ==
    /\ pc[c] = "billing" /\ Relationship[req[c].code] = "other"
    /\ \/ /\ req' = [req EXCEPT ![c].membership = req[c].user, ![c].number = sequence]
          /\ sequence' = sequence + 1
          /\ Goto(c, "invoice")
       \/ Goto(c, "compensate") /\ UNCHANGED <<req, sequence>>
    /\ UNCHANGED <<inviteVars, cognitoVars, memberVars, leaked>>

\* Mutant: the column invoice_number is not UNIQUE.
InsertInvoiceAnyNumber(c) ==
    /\ pc[c] = "invoice"
    /\ req' = [req EXCEPT ![c].invoice = "inserted"]
    /\ Goto(c, "commit")
    /\ UNCHANGED <<inviteVars, cognitoVars, memberVars, sequence, leaked>>

\* The INSERT of the invoice: invoices.invoice_number is UNIQUE.
InsertInvoice(c) ==
    LET text == NumberText(req[c].number) IN
    /\ pc[c] = "invoice"
    /\ \A d \in Containers \ {c} :
         req[d].invoice = "inserted" => NumberText(req[d].number) # text
    /\ \/ /\ \A x \in invoices : NumberText(x.number) # text
          /\ req' = [req EXCEPT ![c].invoice = "inserted"]
          /\ Goto(c, "commit")
       \/ Goto(c, "compensate") /\ UNCHANGED req
    /\ UNCHANGED <<inviteVars, cognitoVars, memberVars, sequence, leaked>>

\* Mutant: a spouse is linked to a membership of its own.
JoinOwnMembership(c) ==
    /\ pc[c] = "billing" /\ Relationship[req[c].code] = "spouse"
    /\ req' = [req EXCEPT ![c].membership = req[c].user]
    /\ Goto(c, "commit")
    /\ UNCHANGED <<inviteVars, cognitoVars, memberVars, sequence, leaked>>

\* relationship spouse: the member is linked to the membership that the
\* inviter has now (get_id_by_member_id, update_member_membership_id).
JoinMembership(c) ==
    /\ pc[c] = "billing" /\ Relationship[req[c].code] = "spouse"
    /\ \/ /\ req' = [req EXCEPT ![c].membership = membershipOf[req[c].inviter]]
          /\ Goto(c, "commit")
       \/ Goto(c, "compensate") /\ UNCHANGED req
    /\ UNCHANGED <<inviteVars, cognitoVars, memberVars, sequence, leaked>>

\* Mutant: mark_used is called with its arguments swapped.
PublishSwapped(c) ==
    LET u == req[c].user
        k == req[c].code
        g == req[c].membership IN
    /\ members' = members \cup {u}
    /\ membershipOf' = [membershipOf EXCEPT ![u] = g]
    /\ IF Relationship[k] = "other"
       THEN /\ periods' = periods \cup {g}
            /\ invoices' = invoices \cup {[number |-> req[c].number, membership |-> g]}
       ELSE UNCHANGED <<periods, invoices>>
    /\ cameBy' = [cameBy EXCEPT ![u] = k]
    /\ inviteStatus' = [inviteStatus EXCEPT ![k] = "used"]
    /\ usedBy' = [usedBy EXCEPT ![k] = k]
    /\ UNCHANGED <<invitedBy, checking>>

\* Mutant: mark_used stands in the branch of relationship other.
PublishSpouseUnmarked(c) ==
    LET u == req[c].user
        k == req[c].code
        g == req[c].membership IN
    /\ members' = members \cup {u}
    /\ membershipOf' = [membershipOf EXCEPT ![u] = g]
    /\ IF Relationship[k] = "other"
       THEN /\ periods' = periods \cup {g}
            /\ invoices' = invoices \cup {[number |-> req[c].number, membership |-> g]}
       ELSE UNCHANGED <<periods, invoices>>
    /\ cameBy' = [cameBy EXCEPT ![u] = k]
    /\ IF Relationship[k] = "other"
       THEN /\ inviteStatus' = [inviteStatus EXCEPT ![k] = "used"]
            /\ usedBy' = [usedBy EXCEPT ![k] = u]
       ELSE UNCHANGED <<inviteStatus, usedBy>>
    /\ UNCHANGED <<invitedBy, checking>>

\* What the transaction of c has written becomes visible.
Publish(c) ==
    LET u == req[c].user
        k == req[c].code
        g == req[c].membership IN
    /\ members' = members \cup {u}
    /\ membershipOf' = [membershipOf EXCEPT ![u] = g]
    /\ IF Relationship[k] = "other"
       THEN /\ periods' = periods \cup {g}
            /\ invoices' = invoices \cup {[number |-> req[c].number, membership |-> g]}
       ELSE UNCHANGED <<periods, invoices>>
    /\ cameBy' = [cameBy EXCEPT ![u] = k]
    /\ inviteStatus' = [inviteStatus EXCEPT ![k] = "used"]
    /\ usedBy' = [usedBy EXCEPT ![k] = u]
    /\ UNCHANGED <<invitedBy, checking>>

\* Mutant: the COMMIT is inside the try block, so that one whose answer was lost
\* is compensated too.
CommitInsideTry(c) ==
    /\ pc[c] = "commit"
    /\ \/ Publish(c) /\ Return(c)
       \/ Publish(c) /\ Goto(c, "compensate") /\ UNCHANGED req
       \/ Goto(c, "compensate") /\ UNCHANGED <<inviteVars, memberVars, req>>
    /\ UNCHANGED <<cognitoVars, sequence, leaked>>

\* mark_used, then the COMMIT of UnitOfWork.__exit__, behind the reach of the
\* except clause.  A COMMIT that raises has not been carried out (the user
\* stays), or has been and its answer was lost (the step is the same as if
\* the answer had come).
Commit(c) ==
    /\ pc[c] = "commit"
    /\ \/ Publish(c) /\ Return(c) /\ UNCHANGED leaked
       \/ /\ Leak(req[c].user, "commit failed")
          /\ Return(c)
          /\ UNCHANGED <<inviteVars, memberVars>>
    /\ UNCHANGED <<cognitoVars, sequence>>

\* mark_used raises.
MarkUsedRaises(c) ==
    /\ pc[c] = "commit"
    /\ Goto(c, "compensate")
    /\ UNCHANGED <<inviteVars, cognitoVars, memberVars, sequence, req, leaked>>

\* The except clause deletes the user, the transaction still open; an exception
\* of delete_user is logged.  Then the transaction is rolled back.
Compensate(c) ==
    LET u == req[c].user IN
    /\ pc[c] = "compensate"
    /\ \/ accounts' = [accounts EXCEPT ![u] = "deleted"] /\ UNCHANGED leaked
       \/ Leak(u, "delete_user failed") /\ UNCHANGED accounts
    /\ Return(c)
    /\ UNCHANGED <<inviteVars, phone, memberVars, sequence>>

\* The container is killed (30 s timeout, crash) or, before sign_up, a query
\* raises: the transaction is rolled back and nothing else happens.
Crash(c) ==
    /\ pc[c] # "idle"
    /\ Leak(req[c].user, "killed")
    /\ Return(c)
    /\ UNCHANGED <<inviteVars, cognitoVars, memberVars, sequence>>

----------------------------------------------------------------------------
\* The database and the user pool after the bootstrap scripts.
Init ==
    /\ inviteStatus = [k \in Codes |-> "none"]
    /\ invitedBy = [k \in Codes |-> NoUser]
    /\ usedBy = [k \in Codes |-> NoUser]
    /\ checking = {}
    /\ accounts = [u \in Users |-> IF u = Admin THEN "verified" ELSE "free"]
    /\ phone = [u \in Users |-> AdminMobile]
    /\ members = {Admin}
    /\ membershipOf = [u \in Users |-> IF u = Admin THEN Admin ELSE NoUser]
    /\ periods = {Admin}
    /\ invoices = {[number |-> 1, membership |-> Admin]}
    /\ sequence = 2
    /\ pc = [c \in Containers |-> "idle"]
    /\ req = [c \in Containers |-> NoRequest]
    /\ leaked = [u \in Users |-> "no"]
    /\ cameBy = [u \in Users |-> NoCode]

Handle(c) ==
    \/ LookupInvite(c) \/ SignUp(c) \/ Confirm(c) \/ Verify(c)
    \/ InsertMember(c) \/ OpenMembership(c) \/ InsertInvoice(c) \/ JoinMembership(c)
    \/ Commit(c) \/ MarkUsedRaises(c) \/ Compensate(c)

Next ==
    \/ \E k \in Codes : SendInvite(k) \/ CheckInvite(k) \/ ExpireInvite(k)
    \/ \E c \in Containers : Receive(c) \/ Handle(c) \/ Crash(c)

Spec == Init /\ [][Next]_vars

----------------------------------------------------------------------------
Stages ==
    {"idle", "lookup", "signup", "confirm", "verify", "insert", "billing", "invoice", "commit",
     "compensate"}

Causes == {"no", "sign_up unanswered", "commit failed", "delete_user failed", "killed"}

TypeOK ==
    /\ inviteStatus \in [Codes -> {"none", "pending", "used", "expired"}]
    /\ invitedBy \in [Codes -> Users \cup {NoUser}]
    /\ usedBy \in [Codes -> Users \cup {NoUser}]
    /\ checking \subseteq Codes
    /\ accounts \in [Users -> {"free", "unconfirmed", "confirmed", "verified", "deleted"}]
    /\ phone \in [Users -> Mobiles]
    /\ members \subseteq Users
    /\ membershipOf \in [Users -> Users \cup {NoUser}]
    /\ periods \subseteq Users
    /\ invoices \subseteq [number : Nat, membership : Users]
    /\ sequence \in Nat
    /\ pc \in [Containers -> Stages]
    /\ req \in [Containers -> Request]
    /\ leaked \in [Users -> Causes]
    /\ cameBy \in [Users -> Codes \cup {NoCode}]

\* Every member can log in: its Cognito user exists, is confirmed and answers
\* to the member's number.  The compensation of a failed registration never
\* deletes the user of one that was committed.
EveryMemberCanLogIn == \A u \in members : accounts[u] = "verified"

\* A Cognito user without a member belongs to a registration that is still
\* being served, or was left there by one of the four accidents in Causes:
\* no path through the handler's own code forgets the compensation.
NoUserForgotten ==
    \A u \in Users :
        Present(u) /\ u \notin members /\ leaked[u] = "no" =>
            \E c \in Containers : req[c].user = u

\* All billing is at the membership: every member is linked to a membership
\* with a period and exactly one invoice, whose number is its own however many
\* registrations failed or ran at the same time.  (Of the status of the period,
\* active where the flow document says pending, nothing is said here.)
EveryMembershipBilled ==
    /\ \A u \in members :
         /\ membershipOf[u] \in periods
         /\ \E x \in invoices : x.membership = membershipOf[u]
    /\ \A x, y \in invoices :
         x # y => /\ x.membership # y.membership
                  /\ NumberText(x.number) # NumberText(y.number)

\* A spouse shares the membership of the member who sent the invite; any other
\* member is the primary member of its own.
SpouseSharesMembership ==
    \A u \in members \ {Admin} :
        membershipOf[u] = IF Relationship[cameBy[u]] = "spouse"
                          THEN membershipOf[invitedBy[cameBy[u]]] ELSE u

\* An invite names as its user a member that registered with it, and whoever
\* registered with an invite finds it taken.
InviteNamesItsMember ==
    /\ \A k \in Codes : usedBy[k] # NoUser => usedBy[k] \in members /\ cameBy[usedBy[k]] = k
    /\ \A u \in members \ {Admin} : usedBy[cameBy[u]] # NoUser

\* What the registration does to an invite is what InviteLife promises the
\* functions that send and validate it: above all, only an invite that was sent
\* becomes used.
Life == INSTANCE InviteLife WITH status <- inviteStatus, reading <- checking
KeepsInviteLife == Life!Spec

\* docs/NIB_Registration_Flow.md:193: one invite, one user; once used, the
\* invite cannot be reused.
OneMemberPerInvite ==
    \A u, v \in members \ {Admin} : cameBy[u] = cameBy[v] => u = v

\* test/test_register.py:107, "db failure rolls back cognito": a registration
\* that the database refuses leaves no Cognito user.
DatabaseFailureLeavesNoUser ==
    \A u \in Users : leaked[u] = "commit failed" => ~Present(u)
=============================================================================
