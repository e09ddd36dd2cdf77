------------------------- MODULE RegistrationProofs -------------------------
(***************************************************************************)
(* Theorems about Registration, for every number of containers, invites,   *)
(* users and phone numbers, and every way to number invoices.              *)
(***************************************************************************)
EXTENDS Registration, TLAPS

----------------------------------------------------------------------------
(* Types, and what the program counter of a handler says of its variables. *)

Serving == Stages \ {"idle"}

SignedUp == {"confirm", "verify", "insert", "billing", "invoice", "commit", "compensate"}

Bound(c) ==
    /\ pc[c] \in Serving => req[c].code \in Codes
    /\ pc[c] \in SignedUp \cup {"signup"} =>
          req[c].inviter \in Users /\ inviteStatus[req[c].code] # "none"
    /\ pc[c] \in SignedUp => req[c].user \in Users
    /\ pc[c] \in {"invoice", "commit"} /\ Relationship[req[c].code] = "other" =>
          req[c].membership = req[c].user

InvitesHaveSender == \A k \in Codes : inviteStatus[k] # "none" => invitedBy[k] \in Users

Typed ==
    /\ TypeOK
    /\ checking \subseteq {k \in Codes : inviteStatus[k] # "none"}
    /\ InvitesHaveSender
    /\ \A c \in Containers : Bound(c)

\* What an idle container serves has the type of a request.
LEMMA NoRequestType == NoRequest \in Request
BY RegistrationAssumption DEF NoRequest, Request

\* So has a request that has just been received.
LEMMA ReceivedType ==
    ASSUME NEW q \in Request, NEW k \in Codes, NEW x \in Mobiles, NEW type \in {"given", "missing"}
    PROVE  [q EXCEPT !.code = k, !.mobile = x, !.type = type] \in Request
BY DEF Request

\* After the bootstrap every variable has its type.
LEMMA TypedInit == Init => Typed
<1> SUFFICES ASSUME Init PROVE Typed
  OBVIOUS
<1>1. invoices \subseteq [number : Nat, membership : Users]
  BY RegistrationAssumption DEF Init
<1>2. TypeOK
  BY <1>1, RegistrationAssumption, NoRequestType DEF Init, TypeOK, Stages, Causes
<1>3. QED
  BY <1>2 DEF Init, Typed, InvitesHaveSender, Bound, Serving, SignedUp

\* Most steps of a handler change nothing but its own request and program
\* counter, Cognito and the history.
LEMMA TypedFrame ==
    ASSUME Typed, NEW c \in Containers, UNCHANGED <<inviteVars, memberVars>>,
           sequence' \in Nat, phone' \in [Users -> Mobiles], leaked' \in [Users -> Causes],
           accounts' \in [Users -> {"free", "unconfirmed", "confirmed", "verified", "deleted"}],
           NEW q \in Request, req' = [req EXCEPT ![c] = q],
           NEW stage \in Stages, pc' = [pc EXCEPT ![c] = stage],
           stage \in Serving => q.code \in Codes,
           stage \in SignedUp \cup {"signup"} => q.inviter \in Users /\ inviteStatus[q.code] # "none",
           stage \in SignedUp => q.user \in Users,
           stage \in {"invoice", "commit"} /\ Relationship[q.code] = "other" =>
              q.membership = q.user
    PROVE  Typed'
<1>1. TypeOK'
  BY DEF Typed, TypeOK, inviteVars, memberVars
<1>2. InvitesHaveSender' /\ checking' \subseteq {k \in Codes : inviteStatus'[k] # "none"}
  BY DEF Typed, InvitesHaveSender, inviteVars
<1>3. ASSUME NEW d \in Containers PROVE Bound(d)'
  <2>1. CASE d = c
    BY <2>1 DEF Typed, TypeOK, Bound, inviteVars
  <2>2. CASE d # c
    BY <2>2 DEF Typed, TypeOK, Bound, inviteVars
  <2>3. QED BY <2>1, <2>2
<1>4. QED BY <1>1, <1>2, <1>3 DEF Typed

\* The handler returns or is killed.
LEMMA TypedReturn ==
    ASSUME Typed, NEW c \in Containers, Return(c), UNCHANGED <<inviteVars, memberVars, sequence>>,
           phone' \in [Users -> Mobiles], leaked' \in [Users -> Causes],
           accounts' \in [Users -> {"free", "unconfirmed", "confirmed", "verified", "deleted"}]
    PROVE  Typed'
<1>1. sequence' \in Nat
  BY DEF Typed, TypeOK
<1>2. QED
  BY <1>1, TypedFrame, NoRequestType DEF Return, Goto, Stages, Serving, SignedUp

\* To note why a user is left behind keeps the types.
LEMMA LeakType ==
    ASSUME Typed, NEW u, NEW cause \in Causes, u # NoUser => u \in Users, Leak(u, cause)
    PROVE  leaked' \in [Users -> Causes]
BY DEF Leak, Typed, TypeOK

\* Every step keeps the types.
LEMMA TypedStep == Typed /\ [Next]_vars => Typed'
<1> SUFFICES ASSUME Typed, [Next]_vars PROVE Typed'
  OBVIOUS
<1>0. /\ phone \in [Users -> Mobiles] /\ leaked \in [Users -> Causes] /\ sequence \in Nat
      /\ accounts \in [Users -> {"free", "unconfirmed", "confirmed", "verified", "deleted"}]
      /\ pc \in [Containers -> Stages] /\ req \in [Containers -> Request]
  BY DEF Typed, TypeOK
<1>1. ASSUME NEW k \in Codes, SendInvite(k) PROVE Typed'
  <2>1. PICK m \in members : invitedBy' = [invitedBy EXCEPT ![k] = m]
    BY <1>1 DEF SendInvite
  <2>2. /\ m \in Users
        /\ inviteStatus' = [inviteStatus EXCEPT ![k] = "pending"]
        /\ UNCHANGED <<usedBy, checking, cognitoVars, memberVars, sequence, pc, req, leaked>>
    BY <1>1 DEF SendInvite, Typed, TypeOK
  <2>3. QED
    BY <2>1, <2>2 DEF Typed, TypeOK, InvitesHaveSender, Bound, cognitoVars, memberVars
<1>2. ASSUME NEW k \in Codes, CheckInvite(k) PROVE Typed'
  BY <1>2 DEF CheckInvite, Typed, TypeOK, InvitesHaveSender, Bound, cognitoVars, memberVars
<1>3. ASSUME NEW k \in Codes, ExpireInvite(k) PROVE Typed'
  BY <1>3 DEF ExpireInvite, Typed, TypeOK, InvitesHaveSender, Bound, cognitoVars, memberVars
<1>4. ASSUME NEW c \in Containers, Receive(c) PROVE Typed'
  <2>1. PICK k \in Codes, x \in Mobiles, type \in {"given", "missing"} :
          req' = [req EXCEPT ![c] = [NoRequest EXCEPT !.code = k, !.mobile = x, !.type = type]]
    BY <1>4 DEF Receive
  <2> DEFINE q == [NoRequest EXCEPT !.code = k, !.mobile = x, !.type = type]
  <2>2. q \in Request /\ q.code = k
    <3>1. q \in Request
      BY NoRequestType, ReceivedType
    <3>2. q.code = k
      BY DEF NoRequest
    <3>3. QED BY <3>1, <3>2
  <2>3. pc' = [pc EXCEPT ![c] = "lookup"]
        /\ UNCHANGED <<inviteVars, cognitoVars, memberVars, sequence, leaked>>
    BY <1>4 DEF Receive, Goto
  <2> HIDE DEF q
  <2>4. req' = [req EXCEPT ![c] = q]
    BY <2>1 DEF q
  <2>5. QED
    BY <1>0, <2>2, <2>3, <2>4, TypedFrame DEF cognitoVars, Stages, Serving, SignedUp
<1>5. ASSUME NEW c \in Containers, LookupInvite(c) PROVE Typed'
  <2>1. CASE Return(c)
    BY <1>0, <1>5, <2>1, TypedReturn DEF LookupInvite, cognitoVars
  <2>2. CASE ~Return(c)
    <3> DEFINE q == [req[c] EXCEPT !.inviter = invitedBy[req[c].code]]
    <3>1. /\ pc[c] = "lookup" /\ inviteStatus[req[c].code] # "none"
          /\ req' = [req EXCEPT ![c].inviter = invitedBy[req[c].code]]
          /\ pc' = [pc EXCEPT ![c] = "signup"]
          /\ UNCHANGED <<inviteVars, cognitoVars, memberVars, sequence, leaked>>
      BY <1>5, <2>2 DEF LookupInvite, Goto
    <3>2. req[c].code \in Codes
      BY <3>1 DEF Typed, Bound, Serving, Stages
    <3>3. invitedBy[req[c].code] \in Users
      BY <3>1, <3>2 DEF Typed, InvitesHaveSender
    <3>4. q \in Request /\ q.code = req[c].code /\ q.inviter \in Users
      BY <1>0, <3>3 DEF Request
    <3>5. req' = [req EXCEPT ![c] = q]
      BY <1>0, <3>1
    <3> HIDE DEF q
    <3>6. QED
      BY <1>0, <3>1, <3>2, <3>4, <3>5, TypedFrame DEF cognitoVars, inviteVars, Stages, Serving, SignedUp
  <2>3. QED BY <2>1, <2>2
<1>6. ASSUME NEW c \in Containers, SignUp(c) PROVE Typed'
  <2>1. CASE Return(c)
    <3>1. /\ phone' \in [Users -> Mobiles] /\ leaked' \in [Users -> Causes]
          /\ accounts' \in [Users -> {"free", "unconfirmed", "confirmed", "verified", "deleted"}]
      <4>1. CASE UNCHANGED <<cognitoVars, leaked>>
        BY <1>0, <4>1 DEF cognitoVars
      <4>2. CASE ~UNCHANGED <<cognitoVars, leaked>>
        <5>1. PICK u \in Users : /\ accounts' = [accounts EXCEPT ![u] = "unconfirmed"]
                                /\ phone' = [phone EXCEPT ![u] = req[c].mobile]
                                /\ \/ UNCHANGED leaked
                                   \/ leaked' = [leaked EXCEPT ![u] = "sign_up unanswered"]
          BY <1>6, <4>2 DEF SignUp
        <5>2. req[c].mobile \in Mobiles
          BY <1>0 DEF Request
        <5>3. QED BY <1>0, <5>1, <5>2 DEF Causes
      <4>3. QED BY <4>1, <4>2
    <3>2. QED BY <1>6, <2>1, <3>1, TypedReturn DEF SignUp
  <2>2. CASE ~Return(c)
    <3>1. PICK u \in Users :
            /\ accounts' = [accounts EXCEPT ![u] = "unconfirmed"]
            /\ phone' = [phone EXCEPT ![u] = req[c].mobile]
            /\ req' = [req EXCEPT ![c].user = u]
            /\ pc' = [pc EXCEPT ![c] = "confirm"]
            /\ UNCHANGED leaked
      BY <1>6, <2>2 DEF SignUp, Goto
    <3> DEFINE q == [req[c] EXCEPT !.user = u]
    <3>2. pc[c] = "signup" /\ UNCHANGED <<inviteVars, memberVars, sequence>>
      BY <1>6 DEF SignUp
    <3>3. /\ req[c].code \in Codes /\ req[c].inviter \in Users
          /\ inviteStatus[req[c].code] # "none"
      BY <3>2 DEF Typed, Bound, Serving, Stages
    <3>4. /\ q \in Request /\ q.code = req[c].code /\ q.inviter = req[c].inviter /\ q.user = u
          /\ req' = [req EXCEPT ![c] = q] /\ req[c].mobile \in Mobiles
      BY <1>0, <3>1 DEF Request
    <3> HIDE DEF q
    <3>5. QED
      BY <1>0, <3>1, <3>2, <3>3, <3>4, TypedFrame DEF Stages, Serving, SignedUp
  <2>3. QED BY <2>1, <2>2
<1>7. ASSUME NEW c \in Containers, NEW stage \in SignedUp \ {"invoice", "commit"},
             pc[c] \in SignedUp, Goto(c, stage), UNCHANGED <<inviteVars, phone, memberVars, req, leaked>>,
             accounts' \in [Users -> {"free", "unconfirmed", "confirmed", "verified", "deleted"}],
             sequence' \in Nat
      PROVE Typed'
  <2>1. /\ req[c].code \in Codes /\ req[c].inviter \in Users /\ req[c].user \in Users
        /\ req[c] \in Request /\ req' = [req EXCEPT ![c] = req[c]]
        /\ inviteStatus[req[c].code] # "none"
    BY <1>0, <1>7 DEF Typed, Bound, Serving, Stages, SignedUp
  <2>2. QED
    BY <1>0, <1>7, <2>1, TypedFrame DEF Goto, Stages, SignedUp
<1>8. ASSUME NEW c \in Containers, Confirm(c) PROVE Typed'
  BY <1>0, <1>7, <1>8 DEF Confirm, SignedUp
<1>9. ASSUME NEW c \in Containers, Verify(c) PROVE Typed'
  BY <1>0, <1>7, <1>9 DEF Verify, SignedUp
<1>10. ASSUME NEW c \in Containers, NEW stage \in {"billing", "invoice", "commit"}, NEW q \in Request,
              pc[c] \in SignedUp, Goto(c, stage), req' = [req EXCEPT ![c] = q],
              q.code = req[c].code, q.inviter = req[c].inviter, q.user = req[c].user,
              stage \in {"invoice", "commit"} /\ Relationship[q.code] = "other" =>
                 q.membership = q.user,
              UNCHANGED <<inviteVars, cognitoVars, memberVars, leaked>>, sequence' \in Nat
       PROVE Typed'
  <2>1. /\ req[c].code \in Codes /\ req[c].inviter \in Users /\ req[c].user \in Users
        /\ inviteStatus[req[c].code] # "none"
    BY <1>0, <1>10 DEF Typed, Bound, Serving, Stages, SignedUp
  <2>2. QED
    BY <1>0, <1>10, <2>1, TypedFrame DEF Goto, Stages, cognitoVars
<1>11. ASSUME NEW c \in Containers, InsertMember(c) PROVE Typed'
  <2>1. CASE UNCHANGED req /\ Goto(c, "compensate")
    BY <1>0, <1>7, <1>11, <2>1 DEF InsertMember, SignedUp, cognitoVars
  <2>2. CASE ~(UNCHANGED req /\ Goto(c, "compensate"))
    <3> DEFINE q == [req[c] EXCEPT !.row = "inserted"]
    <3>1. /\ q \in Request /\ q.code = req[c].code /\ q.inviter = req[c].inviter
          /\ q.user = req[c].user
      BY <1>0 DEF Request
    <3>2. req' = [req EXCEPT ![c] = q] /\ Goto(c, "billing")
      BY <1>0, <1>11, <2>2 DEF InsertMember
    <3> HIDE DEF q
    <3>3. QED BY <1>0, <1>10, <1>11, <3>1, <3>2 DEF InsertMember, SignedUp
  <2>3. QED BY <2>1, <2>2
<1>12. ASSUME NEW c \in Containers, OpenMembership(c) PROVE Typed'
  <2>1. CASE UNCHANGED req /\ Goto(c, "compensate")
    BY <1>0, <1>7, <1>12, <2>1 DEF OpenMembership, SignedUp, cognitoVars
  <2>2. CASE ~(UNCHANGED req /\ Goto(c, "compensate"))
    <3> DEFINE q == [req[c] EXCEPT !.membership = req[c].user, !.number = sequence]
    <3>1. pc[c] = "billing"
      BY <1>12 DEF OpenMembership
    <3>2. /\ q \in Request /\ q.code = req[c].code /\ q.inviter = req[c].inviter
          /\ q.user = req[c].user /\ q.membership = q.user
      <4>1. req[c] \in Request /\ req[c].user \in Users \cup {NoUser} /\ sequence \in Nat
        BY <1>0 DEF Request
      <4>2. QED BY <4>1 DEF Request
    <3>3. req' = [req EXCEPT ![c] = q] /\ Goto(c, "invoice") /\ sequence' \in Nat
      <4>1. /\ req' = [req EXCEPT ![c].membership = req[c].user, ![c].number = sequence]
            /\ sequence' = sequence + 1 /\ Goto(c, "invoice")
        BY <1>12, <2>2 DEF OpenMembership
      <4>2. req' = [req EXCEPT ![c] = q]
        BY <1>0, <4>1 DEF Request
      <4>3. sequence' \in Nat
        BY <1>0, <4>1
      <4>4. QED BY <4>1, <4>2, <4>3, Zenon
    <3> HIDE DEF q
    <3>4. QED BY <1>0, <1>10, <1>12, <3>1, <3>2, <3>3 DEF OpenMembership, SignedUp
  <2>3. QED BY <2>1, <2>2
<1>13. ASSUME NEW c \in Containers, InsertInvoice(c) PROVE Typed'
  <2>1. CASE UNCHANGED req /\ Goto(c, "compensate")
    BY <1>0, <1>7, <1>13, <2>1 DEF InsertInvoice, SignedUp, cognitoVars
  <2>2. CASE ~(UNCHANGED req /\ Goto(c, "compensate"))
    <3> DEFINE q == [req[c] EXCEPT !.invoice = "inserted"]
    <3>1. pc[c] = "invoice"
      BY <1>13 DEF InsertInvoice
    <3>2. /\ q \in Request /\ q.code = req[c].code /\ q.inviter = req[c].inviter
          /\ q.user = req[c].user /\ q.membership = req[c].membership
      BY <1>0 DEF Request
    <3>3. req' = [req EXCEPT ![c] = q] /\ Goto(c, "commit")
      BY <1>0, <1>13, <2>2 DEF InsertInvoice
    <3>4. Relationship[req[c].code] = "other" => req[c].membership = req[c].user
      BY <3>1 DEF Typed, Bound
    <3> HIDE DEF q
    <3>5. QED BY <1>0, <1>10, <1>13, <3>1, <3>2, <3>3, <3>4 DEF InsertInvoice, SignedUp
  <2>3. QED BY <2>1, <2>2
<1>14. ASSUME NEW c \in Containers, JoinMembership(c) PROVE Typed'
  <2>1. CASE UNCHANGED req /\ Goto(c, "compensate")
    BY <1>0, <1>7, <1>14, <2>1 DEF JoinMembership, SignedUp, cognitoVars
  <2>2. CASE ~(UNCHANGED req /\ Goto(c, "compensate"))
    <3> DEFINE q == [req[c] EXCEPT !.membership = membershipOf[req[c].inviter]]
    <3>1. pc[c] = "billing" /\ Relationship[req[c].code] = "spouse"
      BY <1>14 DEF JoinMembership
    <3>2. req[c].inviter \in Users
      BY <3>1 DEF Typed, Bound, SignedUp
    <3>3. membershipOf[req[c].inviter] \in Users \cup {NoUser}
      BY <3>2 DEF Typed, TypeOK
    <3>4. /\ q \in Request /\ q.code = req[c].code /\ q.inviter = req[c].inviter
          /\ q.user = req[c].user
      BY <1>0, <3>3 DEF Request
    <3>5. req' = [req EXCEPT ![c] = q] /\ Goto(c, "commit")
      BY <1>0, <1>14, <2>2 DEF JoinMembership
    <3> HIDE DEF q
    <3>6. QED BY <1>0, <1>10, <1>14, <3>1, <3>4, <3>5 DEF JoinMembership, SignedUp
  <2>3. QED BY <2>1, <2>2
<1>15. ASSUME NEW c \in Containers, Commit(c) PROVE Typed'
  <2>1. CASE UNCHANGED <<inviteVars, memberVars>>
    <3>1. req[c].user \in Users
      BY <1>15 DEF Commit, Typed, Bound, SignedUp
    <3>2. leaked' \in [Users -> Causes]
      BY <1>0, <1>15, <3>1, LeakType DEF Commit, Causes
    <3>3. QED BY <1>0, <1>15, <2>1, <3>2, TypedReturn DEF Commit, cognitoVars
  <2>2. CASE Publish(c)
    <3> DEFINE k == req[c].code
               u == req[c].user
    <3>1. /\ k \in Codes /\ u \in Users /\ req[c].membership \in Users \cup {NoUser}
          /\ req[c].number \in Nat
          /\ Relationship[k] = "other" => req[c].membership = u
      BY <1>0, <1>15 DEF Commit, Typed, Bound, SignedUp, Serving, Stages, Request
    <3>2. /\ pc' = [pc EXCEPT ![c] = "idle"] /\ req' = [req EXCEPT ![c] = NoRequest]
          /\ UNCHANGED <<cognitoVars, sequence>>
      BY <1>15 DEF Commit, Return, Goto
    <3>3. leaked' \in [Users -> Causes]
      BY <1>0, <1>15, <3>1, LeakType DEF Commit, Causes
    <3>4. /\ inviteStatus' = [inviteStatus EXCEPT ![k] = "used"]
          /\ usedBy' = [usedBy EXCEPT ![k] = u]
          /\ members' = members \cup {u}
          /\ membershipOf' = [membershipOf EXCEPT ![u] = req[c].membership]
          /\ cameBy' = [cameBy EXCEPT ![u] = k]
          /\ UNCHANGED <<invitedBy, checking>>
      BY <2>2 DEF Publish
    <3>5. periods' \subseteq Users /\ invoices' \subseteq [number : Nat, membership : Users]
      BY <2>2, <3>1 DEF Publish, Typed, TypeOK
    <3>6. TypeOK'
      BY <3>1, <3>2, <3>3, <3>4, <3>5, NoRequestType DEF Typed, TypeOK, cognitoVars, Stages
    <3>7. \A d \in Containers : Bound(d)'
      BY <1>0, <3>1, <3>2, <3>4 DEF Typed, TypeOK, Bound, SignedUp, Serving
    <3>8. InvitesHaveSender' /\ checking' \subseteq {j \in Codes : inviteStatus'[j] # "none"}
      <4>1. invitedBy[k] \in Users
        BY <1>15, <3>1 DEF Commit, Typed, Bound, InvitesHaveSender, SignedUp
      <4>2. QED BY <3>4, <4>1 DEF Typed, TypeOK, InvitesHaveSender
    <3>9. QED BY <3>6, <3>7, <3>8 DEF Typed
  <2>3. QED BY <1>15, <2>1, <2>2 DEF Commit
<1>16. ASSUME NEW c \in Containers, MarkUsedRaises(c) PROVE Typed'
  BY <1>0, <1>7, <1>16 DEF MarkUsedRaises, SignedUp, cognitoVars
<1>17. ASSUME NEW c \in Containers, Compensate(c) PROVE Typed'
  <2>1. req[c].user \in Users
    BY <1>17 DEF Compensate, Typed, Bound, SignedUp
  <2>2. leaked' \in [Users -> Causes]
    BY <1>0, <1>17, <2>1, LeakType DEF Compensate, Causes
  <2>3. QED BY <1>0, <1>17, <2>1, <2>2, TypedReturn DEF Compensate
<1>18. ASSUME NEW c \in Containers, Crash(c) PROVE Typed'
  <2>1. leaked' \in [Users -> Causes]
    BY <1>0, <1>18, LeakType DEF Crash, Causes, Request
  <2>2. QED BY <1>0, <1>18, <2>1, TypedReturn DEF Crash, cognitoVars
<1>19. CASE UNCHANGED vars
  BY <1>19
     DEF vars, inviteVars, cognitoVars, memberVars, Typed, TypeOK, InvitesHaveSender, Bound
<1>20. QED
  BY <1>1, <1>2, <1>3, <1>4, <1>5, <1>6, <1>8, <1>9, <1>11, <1>12, <1>13, <1>14, <1>15, <1>16,
     <1>17, <1>18, <1>19 DEF Next, Handle

\* Every variable keeps its type, whatever the containers, the invites, the
\* Cognito calls that fail and the crashes; what a handler goes on with was
\* read or made by an earlier step of the same request.
THEOREM TypeCorrect == Spec => []TypeOK
<1>1. Typed => TypeOK
  BY DEF Typed
<1>2. QED BY <1>1, TypedInit, TypedStep, PTL DEF Spec

----------------------------------------------------------------------------
(* Who answers for a Cognito user: the handler that signed it up, its      *)
(* member, or nobody.                                                      *)

\* The stages at which the phone number is verified.
Writing == {"insert", "billing", "invoice", "commit"}

Owns(c) ==
    /\ pc[c] \in SignedUp => req[c].user \notin members /\ accounts[req[c].user] # "free"
    /\ pc[c] \notin SignedUp => req[c].user = NoUser
    /\ pc[c] \in Writing => accounts[req[c].user] = "verified"

NobodyShares ==
    \A c, d \in Containers :
        c # d /\ pc[c] \in SignedUp /\ pc[d] \in SignedUp => req[c].user # req[d].user

Owned ==
    /\ \A c \in Containers : Owns(c)
    /\ NobodyShares
    /\ EveryMemberCanLogIn
    /\ NoUserForgotten

\* After the bootstrap no user is without a member.
LEMMA OwnedInit == Init => Owned
BY RegistrationAssumption
   DEF Init, Owned, Owns, NobodyShares, EveryMemberCanLogIn, NoUserForgotten, SignedUp, Writing,
       NoRequest, Present

\* A step of the handler of c that disturbs one user u in Cognito at most: the
\* one of its request, or one that it makes.  Either the handler goes on with
\* u, or it drops u, which then is gone or has a cause to be there.
LEMMA OwnedFrame ==
    ASSUME Typed, Owned, NEW c \in Containers, NEW u \in Users \cup {NoUser},
           NEW q, req' = [req EXCEPT ![c] = q],
           NEW stage, pc' = [pc EXCEPT ![c] = stage],
           members' = members,
           \A v \in Users \ {u} : accounts'[v] = accounts[v] /\ leaked'[v] = leaked[v],
           \/ u = req[c].user
           \/ req[c].user = NoUser /\ u \in Users /\ accounts[u] = "free",
           stage \in SignedUp => q.user = u /\ u \in Users /\ accounts'[u] # "free",
           stage \notin SignedUp => q.user = NoUser,
           stage \in Writing => accounts'[u] = "verified",
           stage \notin SignedUp /\ u \in Users /\ Present(u)' => leaked'[u] # "no"
    PROVE  Owned'
<1>1. NoUser \notin Users
  BY RegistrationAssumption
<1>2. /\ \A d \in Containers : req'[d] = IF d = c THEN q ELSE req[d]
      /\ \A d \in Containers : pc'[d] = IF d = c THEN stage ELSE pc[d]
  BY DEF Typed, TypeOK
<1>3. \A d \in Containers : pc[d] \in SignedUp => req[d].user \in Users
  BY DEF Typed, Bound
<1>4. u \notin members
  BY <1>1, <1>3 DEF Owned, Owns, EveryMemberCanLogIn, Typed, TypeOK
<1>5. \A d \in Containers \ {c} : pc[d] \in SignedUp => req[d].user # u
  BY <1>1, <1>3 DEF Owned, Owns, NobodyShares
<1>6. \A d \in Containers : Owns(d)'
  <2>1. Owns(c)'
    BY <1>2, <1>4 DEF Owns, Writing, SignedUp
  <2>2. ASSUME NEW d \in Containers \ {c} PROVE Owns(d)'
    <3>1. Owns(d) /\ (pc[d] \in SignedUp => req[d].user \in Users \ {u})
      BY <1>3, <1>5 DEF Owned
    <3>2. QED BY <1>2, <3>1 DEF Owns, Writing, SignedUp
  <2>3. QED BY <2>1, <2>2
<1>7. NobodyShares'
  BY <1>2, <1>5 DEF Owned, NobodyShares
<1>8. EveryMemberCanLogIn'
  BY <1>4 DEF Owned, EveryMemberCanLogIn, Typed, TypeOK
<1>9. NoUserForgotten'
  <2> SUFFICES ASSUME NEW v \in Users, Present(v)', v \notin members, leaked'[v] = "no"
               PROVE  \E d \in Containers : req'[d].user = v
    BY DEF NoUserForgotten
  <2>1. CASE v = u
    BY <1>2, <2>1
  <2>2. CASE v # u
    <3>1. Present(v) /\ leaked[v] = "no"
      BY <2>2 DEF Present
    <3>2. PICK d \in Containers : req[d].user = v
      BY <3>1 DEF Owned, NoUserForgotten
    <3>3. d # c
      BY <1>1, <2>2, <3>2
    <3>4. QED BY <1>2, <3>2, <3>3
  <2>3. QED BY <2>1, <2>2
<1>10. QED BY <1>6, <1>7, <1>8, <1>9 DEF Owned

\* A handler that goes on with what it has, Cognito untouched.
LEMMA OwnedGoesOn ==
    ASSUME Typed, Owned, NEW c \in Containers, UNCHANGED <<accounts, members, leaked>>,
           NEW q, req' = [req EXCEPT ![c] = q], q.user = req[c].user,
           NEW stage, pc' = [pc EXCEPT ![c] = stage],
           pc[c] \in SignedUp <=> stage \in SignedUp,
           stage \in Writing => pc[c] \in Writing
    PROVE  Owned'
<1>1. Owns(c) /\ req[c].user \in Users \cup {NoUser}
      /\ (pc[c] \in SignedUp => req[c].user \in Users)
  BY DEF Owned, Typed, Bound, TypeOK, Request
<1>2. stage \notin SignedUp => req[c].user \notin Users
  BY <1>1, RegistrationAssumption DEF Owns
<1>3. QED BY <1>1, <1>2, OwnedFrame DEF Owns

\* A handler that returns, is killed or deletes its user.
LEMMA OwnedReturn ==
    ASSUME Typed, Owned, NEW c \in Containers, Return(c), UNCHANGED members,
           NEW u, u = req[c].user,
           \A v \in Users \ {u} : accounts'[v] = accounts[v] /\ leaked'[v] = leaked[v],
           u \in Users /\ Present(u)' => leaked'[u] # "no"
    PROVE  Owned'
<1>1. u \in Users \cup {NoUser}
  BY DEF Typed, TypeOK, Request
<1>2. NoRequest.user = NoUser /\ "idle" \notin SignedUp /\ "idle" \notin Writing
  BY DEF NoRequest, SignedUp, Writing
<1>3. req' = [req EXCEPT ![c] = NoRequest] /\ pc' = [pc EXCEPT ![c] = "idle"]
  BY DEF Return, Goto
<1>4. QED
  BY <1>1, <1>2, <1>3, OwnedFrame

\* COMMIT: the user that the handler owned becomes that of its member.
LEMMA OwnedPublish ==
    ASSUME Typed, Owned, NEW c \in Containers, pc[c] = "commit", Publish(c), Return(c),
           UNCHANGED <<cognitoVars, leaked>>
    PROVE  Owned'
<1> DEFINE u == req[c].user
<1>1. /\ pc' = [pc EXCEPT ![c] = "idle"] /\ req' = [req EXCEPT ![c] = NoRequest]
      /\ members' = members \cup {u} /\ accounts' = accounts /\ leaked' = leaked
  BY DEF Return, Goto, Publish, cognitoVars
<1>2. /\ u \in Users /\ accounts[u] = "verified" /\ NoRequest.user = NoUser
      /\ \A d \in Containers \ {c} : pc[d] \in SignedUp => req[d].user # u
  BY DEF Typed, Bound, Owned, Owns, NobodyShares, SignedUp, Writing, NoRequest
<1> HIDE DEF u
<1>3. \A d \in Containers : Owns(d)'
  <2>1. Owns(c)'
    BY <1>1, <1>2 DEF Typed, TypeOK, Owns, SignedUp, Writing
  <2>2. ASSUME NEW d \in Containers \ {c} PROVE Owns(d)'
    BY <1>1, <1>2 DEF Typed, TypeOK, Owned, Owns
  <2>3. QED BY <2>1, <2>2
<1>4. NobodyShares' /\ EveryMemberCanLogIn'
  BY <1>1, <1>2 DEF Typed, TypeOK, Owned, NobodyShares, EveryMemberCanLogIn, SignedUp
<1>5. NoUserForgotten'
  <2> SUFFICES ASSUME NEW v \in Users, Present(v)', v \notin members', leaked'[v] = "no"
               PROVE  \E d \in Containers : req'[d].user = v
    BY DEF NoUserForgotten
  <2>1. PICK d \in Containers : req[d].user = v
    BY <1>1 DEF Present, Owned, NoUserForgotten
  <2>2. d # c
    BY <1>1, <2>1 DEF u
  <2>3. QED BY <1>1, <2>1, <2>2 DEF Typed, TypeOK
<1>6. QED BY <1>3, <1>4, <1>5 DEF Owned

\* sign_up takes a free user name, and the handler owns the user from then on.
LEMMA OwnedSignUp ==
    ASSUME Typed, Owned, NEW c \in Containers, SignUp(c) PROVE Owned'
<1>1. pc[c] = "signup" /\ members' = members /\ req[c].user = NoUser
      /\ req \in [Containers -> Request] /\ NoRequest.user = NoUser
  BY DEF SignUp, memberVars, Owned, Owns, SignedUp, Typed, TypeOK, NoRequest
<1>2. CASE UNCHANGED <<cognitoVars, leaked>> /\ Return(c)
  BY <1>1, <1>2, OwnedReturn, RegistrationAssumption DEF cognitoVars
<1>3. CASE ~(UNCHANGED <<cognitoVars, leaked>> /\ Return(c))
  <2>1. PICK u \in Users :
          /\ accounts[u] = "free" /\ accounts' = [accounts EXCEPT ![u] = "unconfirmed"]
          /\ \/ req' = [req EXCEPT ![c].user = u] /\ Goto(c, "confirm") /\ UNCHANGED leaked
             \/ leaked' = [leaked EXCEPT ![u] = "sign_up unanswered"] /\ Return(c)
    BY <1>3 DEF SignUp
  <2>2. /\ \A v \in Users \ {u} : accounts'[v] = accounts[v] /\ leaked'[v] = leaked[v]
        /\ accounts'[u] = "unconfirmed"
    BY <2>1 DEF Typed, TypeOK
  <2>3. CASE req' = [req EXCEPT ![c].user = u] /\ Goto(c, "confirm")
    <3> DEFINE q == [req[c] EXCEPT !.user = u]
    <3>1. q.user = u /\ req' = [req EXCEPT ![c] = q]
      BY <1>1, <2>3 DEF Request
    <3> HIDE DEF q
    <3>2. QED
      <4>1. pc' = [pc EXCEPT ![c] = "confirm"] /\ "confirm" \in SignedUp \ Writing
        BY <2>3 DEF Goto, SignedUp, Writing
      <4>2. accounts'[u] # "free"
        BY <2>2
      <4>3. QED BY <1>1, <2>1, <2>2, <3>1, <4>1, <4>2, OwnedFrame
  <2>4. CASE leaked' = [leaked EXCEPT ![u] = "sign_up unanswered"] /\ Return(c)
    <3>1. leaked'[u] # "no"
      BY <2>4 DEF Typed, TypeOK
    <3>2. QED
      <4>1. /\ pc' = [pc EXCEPT ![c] = "idle"] /\ "idle" \notin SignedUp \cup Writing
            /\ req' = [req EXCEPT ![c] = NoRequest]
        BY <2>4 DEF Return, Goto, SignedUp, Writing
      <4>2. QED BY <1>1, <2>1, <2>2, <3>1, <4>1, OwnedFrame
  <2>5. QED BY <2>1, <2>3, <2>4
<1>4. QED BY <1>2, <1>3

\* confirm_sign_up and the steps that leave Cognito and the tables alone.
LEMMA OwnedHandler ==
    ASSUME Typed, Owned, NEW c \in Containers,
           \/ Confirm(c) \/ Verify(c)
           \/ InsertMember(c) \/ OpenMembership(c) \/ InsertInvoice(c) \/ JoinMembership(c)
           \/ MarkUsedRaises(c)
    PROVE  Owned'
<1>1. /\ req \in [Containers -> Request] /\ req[c] \in Request
      /\ pc[c] \in SignedUp /\ req[c].user \in Users /\ req[c].user # NoUser
  BY RegistrationAssumption
     DEF Typed, TypeOK, Bound, SignedUp, Confirm, Verify, InsertMember, OpenMembership,
         InsertInvoice, JoinMembership, MarkUsedRaises
<1>2. members' = members /\ leaked' = leaked
  BY DEF memberVars, Confirm, Verify, InsertMember, OpenMembership, InsertInvoice,
         JoinMembership, MarkUsedRaises
<1>3. \E stage \in SignedUp :
         /\ pc' = [pc EXCEPT ![c] = stage]
         /\ \/ accounts' = accounts /\ (stage \in Writing => pc[c] \in Writing)
            \/ /\ accounts' = [accounts EXCEPT ![req[c].user] = "confirmed"]
               /\ stage \notin Writing
            \/ accounts' = [accounts EXCEPT ![req[c].user] = "verified"]
  BY DEF cognitoVars, Confirm, Verify, InsertMember, OpenMembership, InsertInvoice,
         JoinMembership, MarkUsedRaises, Goto, SignedUp, Writing
<1>4. PICK q : req' = [req EXCEPT ![c] = q] /\ q.user = req[c].user
  <2>1. CASE req' = req
    BY <1>1, <2>1
  <2>2. CASE req' = [req EXCEPT ![c].row = "inserted"]
    <3> DEFINE r == [req[c] EXCEPT !.row = "inserted"]
    <3>1. req' = [req EXCEPT ![c] = r] /\ r.user = req[c].user
      BY <1>1, <2>2 DEF Request
    <3>2. QED BY <3>1
  <2>3. CASE req' = [req EXCEPT ![c].membership = req[c].user, ![c].number = sequence]
    <3> DEFINE r == [req[c] EXCEPT !.membership = req[c].user, !.number = sequence]
    <3>1. req' = [req EXCEPT ![c] = r] /\ r.user = req[c].user
      BY <1>1, <2>3 DEF Request
    <3>2. QED BY <3>1
  <2>4. CASE req' = [req EXCEPT ![c].invoice = "inserted"]
    <3> DEFINE r == [req[c] EXCEPT !.invoice = "inserted"]
    <3>1. req' = [req EXCEPT ![c] = r] /\ r.user = req[c].user
      BY <1>1, <2>4 DEF Request
    <3>2. QED BY <3>1
  <2>5. CASE req' = [req EXCEPT ![c].membership = membershipOf[req[c].inviter]]
    <3> DEFINE r == [req[c] EXCEPT !.membership = membershipOf[req[c].inviter]]
    <3>1. req' = [req EXCEPT ![c] = r] /\ r.user = req[c].user
      BY <1>1, <2>5 DEF Request
    <3>2. QED BY <3>1
  <2>6. QED
    BY <2>1, <2>2, <2>3, <2>4, <2>5
       DEF Confirm, Verify, InsertMember, OpenMembership, InsertInvoice, JoinMembership,
           MarkUsedRaises
<1>5. PICK stage \in SignedUp :
         /\ pc' = [pc EXCEPT ![c] = stage]
         /\ \/ accounts' = accounts /\ (stage \in Writing => pc[c] \in Writing)
            \/ /\ accounts' = [accounts EXCEPT ![req[c].user] = "confirmed"]
               /\ stage \notin Writing
            \/ accounts' = [accounts EXCEPT ![req[c].user] = "verified"]
  BY <1>3
<1>6. PICK u \in Users : u = req[c].user
  BY <1>1
<1>7. Owns(c) /\ accounts \in [Users -> {"free", "unconfirmed", "confirmed", "verified", "deleted"}]
  BY DEF Owned, Typed, TypeOK
<1>8. /\ \A v \in Users \ {u} : accounts'[v] = accounts[v] /\ leaked'[v] = leaked[v]
      /\ accounts'[u] # "free" /\ (stage \in Writing => accounts'[u] = "verified")
  BY <1>1, <1>2, <1>5, <1>6, <1>7 DEF Owns
<1>9. stage \in SignedUp => q.user = u /\ u \in Users /\ accounts'[u] # "free"
  BY <1>4, <1>6, <1>8
<1>10. members' = members /\ u \in Users \cup {NoUser} /\ pc' = [pc EXCEPT ![c] = stage]
  BY <1>2, <1>5
<1>11. /\ stage \in Writing => accounts'[u] = "verified"
       /\ \A v \in Users \ {u} : accounts'[v] = accounts[v] /\ leaked'[v] = leaked[v]
  BY <1>8
<1>12. (u = req[c].user \/ (req[c].user = NoUser /\ u \in Users /\ accounts[u] = "free"))
  BY <1>6
<1>13. /\ stage \notin SignedUp => q.user = NoUser
       /\ stage \notin SignedUp /\ u \in Users /\ Present(u)' => leaked'[u] # "no"
  OBVIOUS
<1>14. req' = [req EXCEPT ![c] = q]
  BY <1>4
<1>15. QED
  BY <1>9, <1>10, <1>11, <1>12, <1>13, <1>14, OwnedFrame

\* Every step leaves each user with a member, a handler or a cause.
LEMMA OwnedStep == Typed /\ Owned /\ [Next]_vars => Owned'
<1> SUFFICES ASSUME Typed, Owned, [Next]_vars PROVE Owned'
  OBVIOUS
<1>1. ASSUME UNCHANGED <<accounts, members, pc, req, leaked>> PROVE Owned'
  BY <1>1
     DEF Owned, Owns, NobodyShares, EveryMemberCanLogIn, NoUserForgotten, Present
<1>2. ASSUME NEW k \in Codes, SendInvite(k) \/ CheckInvite(k) \/ ExpireInvite(k) PROVE Owned'
  BY <1>1, <1>2 DEF SendInvite, CheckInvite, ExpireInvite, cognitoVars, memberVars
<1>3. ASSUME NEW c \in Containers, Receive(c) PROVE Owned'
  <2>1. PICK k \in Codes, x \in Mobiles, type \in {"given", "missing"} :
          req' = [req EXCEPT ![c] = [NoRequest EXCEPT !.code = k, !.mobile = x, !.type = type]]
    BY <1>3 DEF Receive
  <2> DEFINE q == [NoRequest EXCEPT !.code = k, !.mobile = x, !.type = type]
  <2>2. q.user = NoUser
    BY DEF NoRequest
  <2>3. req' = [req EXCEPT ![c] = q]
    BY <2>1
  <2> HIDE DEF q
  <2>4. /\ pc' = [pc EXCEPT ![c] = "lookup"] /\ UNCHANGED <<accounts, members, leaked>>
        /\ pc[c] \notin SignedUp /\ "lookup" \notin SignedUp \cup Writing
        /\ req[c].user = NoUser
    BY <1>3 DEF Receive, Goto, cognitoVars, memberVars, SignedUp, Writing, Owned, Owns
  <2>5. QED BY <2>2, <2>3, <2>4, OwnedGoesOn
<1>4. ASSUME NEW c \in Containers, LookupInvite(c) PROVE Owned'
  <2>1. /\ UNCHANGED <<accounts, members, leaked>>
        /\ pc[c] = "lookup" /\ pc[c] \notin SignedUp /\ "signup" \notin SignedUp \cup Writing
        /\ req[c].user = NoUser
    BY <1>4 DEF LookupInvite, cognitoVars, memberVars, SignedUp, Writing, Owned, Owns
  <2>2. CASE Return(c)
    BY <2>1, <2>2, RegistrationAssumption, OwnedReturn
  <2>3. CASE ~Return(c)
    <3> DEFINE q == [req[c] EXCEPT !.inviter = invitedBy[req[c].code]]
    <3>1. req' = [req EXCEPT ![c].inviter = invitedBy[req[c].code]]
          /\ pc' = [pc EXCEPT ![c] = "signup"]
      BY <1>4, <2>3 DEF LookupInvite, Goto
    <3>2. q.user = req[c].user /\ req' = [req EXCEPT ![c] = q]
      BY <3>1 DEF Typed, TypeOK, Request
    <3> HIDE DEF q
    <3>3. QED BY <2>1, <3>1, <3>2, OwnedGoesOn
  <2>4. QED BY <2>2, <2>3
<1>5. ASSUME NEW c \in Containers, Commit(c) PROVE Owned'
  <2>1. CASE Publish(c) /\ Return(c) /\ UNCHANGED leaked
    BY <1>5, <2>1, OwnedPublish DEF Commit
  <2>2. CASE Leak(req[c].user, "commit failed") /\ Return(c) /\ UNCHANGED memberVars
    <3>1. PICK u : u = req[c].user
      OBVIOUS
    <3>2. accounts' = accounts /\ Leak(u, "commit failed") /\ u \in Users
      BY <1>5, <2>2, <3>1 DEF Commit, cognitoVars, Typed, Bound, SignedUp
    <3>3. /\ \A v \in Users \ {u} : accounts'[v] = accounts[v] /\ leaked'[v] = leaked[v]
          /\ Present(u)' => leaked'[u] # "no"
      BY <3>2, RegistrationAssumption DEF Leak, Present, Typed, TypeOK
    <3>4. QED BY <2>2, <3>1, <3>3, OwnedReturn DEF memberVars
  <2>3. QED BY <1>5, <2>1, <2>2 DEF Commit
<1>6. ASSUME NEW c \in Containers, Compensate(c) PROVE Owned'
  <2>1. PICK u : u = req[c].user
    OBVIOUS
  <2>2. /\ u \in Users /\ Return(c) /\ members' = members
        /\ \/ accounts' = [accounts EXCEPT ![u] = "deleted"] /\ UNCHANGED leaked
           \/ Leak(u, "delete_user failed") /\ UNCHANGED accounts
    BY <1>6, <2>1 DEF Compensate, memberVars, Typed, Bound, SignedUp
  <2>3. /\ \A v \in Users \ {u} : accounts'[v] = accounts[v] /\ leaked'[v] = leaked[v]
        /\ Present(u)' => leaked'[u] # "no"
    BY <2>2, RegistrationAssumption DEF Leak, Present, Typed, TypeOK
  <2>4. QED BY <2>1, <2>2, <2>3, OwnedReturn
<1>7. ASSUME NEW c \in Containers, Crash(c) PROVE Owned'
  <2>1. PICK u : u = req[c].user
    OBVIOUS
  <2>2. Return(c) /\ members' = members /\ accounts' = accounts /\ Leak(u, "killed")
    BY <1>7, <2>1 DEF Crash, memberVars, cognitoVars
  <2>3. /\ \A v \in Users \ {u} : accounts'[v] = accounts[v] /\ leaked'[v] = leaked[v]
        /\ u \in Users /\ Present(u)' => leaked'[u] # "no"
    BY <2>2, RegistrationAssumption DEF Leak, Present, Typed, TypeOK
  <2>4. QED BY <2>1, <2>2, <2>3, OwnedReturn
<1>8. CASE UNCHANGED vars
  BY <1>1, <1>8 DEF vars, cognitoVars, memberVars
<1>9. QED
  BY <1>2, <1>3, <1>4, <1>5, <1>6, <1>7, <1>8, OwnedSignUp, OwnedHandler DEF Next, Handle

\* The invariant holds in every reachable state.
LEMMA OwnedHolds == Spec => [](Typed /\ Owned)
BY TypedInit, TypedStep, OwnedInit, OwnedStep, PTL DEF Spec

\* Every member can log in: no failure, no crash and no registration that runs
\* at the same time deletes the Cognito user of a committed one.
THEOREM EveryMemberCanLogInHolds == Spec => []EveryMemberCanLogIn
<1>1. Owned => EveryMemberCanLogIn
  BY DEF Owned
<1>2. QED BY <1>1, OwnedHolds, PTL

\* A Cognito user is never forgotten by the handler's own code: it is a
\* member's, or its registration is still served, or an accident left it.
THEOREM NoUserForgottenHolds == Spec => []NoUserForgotten
<1>1. Owned => NoUserForgotten
  BY DEF Owned
<1>2. QED BY <1>1, OwnedHolds, PTL

----------------------------------------------------------------------------
(* What the rows say of each other: invites and the members who sent and   *)
(* used them, members and the memberships and invoices they share.         *)

\* A request with these variables, at this stage, agrees with the rows.
Fits(stage, q) ==
    /\ stage \in SignedUp \cup {"signup"} => q.inviter = invitedBy[q.code]
    /\ stage = "invoice" => Relationship[q.code] # "spouse"
    /\ stage = "commit" =>
          IF Relationship[q.code] = "spouse"
          THEN q.membership = membershipOf[q.inviter] ELSE q.invoice = "inserted"
    /\ q.invoice = "inserted" =>
          /\ stage \in {"commit", "compensate"}
          /\ \A x \in invoices : NumberText(x.number) # NumberText(q.number)

Agrees(c) == Fits(pc[c], req[c])

NumbersDiffer ==
    \A c, d \in Containers :
        c # d /\ req[c].invoice = "inserted" /\ req[d].invoice = "inserted" =>
            NumberText(req[c].number) # NumberText(req[d].number)

Rows ==
    /\ Admin \in members
    /\ \A k \in Codes : inviteStatus[k] # "none" => invitedBy[k] \in members
    /\ \A u \in members \ {Admin} : cameBy[u] \in Codes /\ inviteStatus[cameBy[u]] # "none"
    /\ \A x \in invoices : x.membership \in members
    /\ SpouseSharesMembership
    /\ InviteNamesItsMember
    /\ EveryMembershipBilled

Joined ==
    /\ Rows
    /\ \A c \in Containers : Agrees(c)
    /\ NumbersDiffer

\* After the bootstrap there is one member, with its membership and invoice.
LEMMA JoinedInit == Init => Joined
<1> SUFFICES ASSUME Init PROVE Joined
  OBVIOUS
<1>1. Rows
  BY RegistrationAssumption
     DEF Init, Rows, SpouseSharesMembership, InviteNamesItsMember, EveryMembershipBilled
<1>2. (\A c \in Containers : Agrees(c)) /\ NumbersDiffer
  BY DEF Init, Agrees, Fits, NumbersDiffer, NoRequest, SignedUp
<1>3. QED BY <1>1, <1>2 DEF Joined

\* A step of the handler of c that leaves the rows alone.
LEMMA JoinedFrame ==
    ASSUME Typed, Joined, NEW c \in Containers, UNCHANGED <<inviteVars, memberVars>>,
           NEW q, req' = [req EXCEPT ![c] = q],
           NEW stage, pc' = [pc EXCEPT ![c] = stage],
           Fits(stage, q),
           \A d \in Containers \ {c} :
              q.invoice = "inserted" /\ req[d].invoice = "inserted" =>
                 NumberText(req[d].number) # NumberText(q.number)
    PROVE  Joined'
<1>1. /\ \A d \in Containers : req'[d] = IF d = c THEN q ELSE req[d]
      /\ \A d \in Containers : pc'[d] = IF d = c THEN stage ELSE pc[d]
  BY DEF Typed, TypeOK
<1>2. Rows'
  BY DEF Joined, Rows, SpouseSharesMembership, InviteNamesItsMember, EveryMembershipBilled,
         inviteVars, memberVars
<1>3. ASSUME NEW d \in Containers PROVE Agrees(d)'
  <2>1. CASE d = c
    BY <1>1, <2>1 DEF Agrees, Fits, inviteVars, memberVars
  <2>2. CASE d # c
    BY <1>1, <2>2 DEF Joined, Agrees, Fits, inviteVars, memberVars
  <2>3. QED BY <2>1, <2>2
<1>4. NumbersDiffer'
  BY <1>1 DEF Joined, NumbersDiffer
<1>5. QED BY <1>2, <1>3, <1>4 DEF Joined

\* The handler returns or is killed.
LEMMA JoinedReturn ==
    ASSUME Typed, Joined, NEW c \in Containers, Return(c), UNCHANGED <<inviteVars, memberVars>>
    PROVE  Joined'
<1>1. Fits("idle", NoRequest) /\ NoRequest.invoice # "inserted"
  BY DEF Fits, NoRequest, SignedUp
<1>2. req' = [req EXCEPT ![c] = NoRequest] /\ pc' = [pc EXCEPT ![c] = "idle"]
  BY DEF Return, Goto
<1>3. QED BY <1>1, <1>2, JoinedFrame

\* The handler goes on, or is to compensate, with what it has of the invite,
\* and does not get to the COMMIT yet.
LEMMA JoinedGoesOn ==
    ASSUME Typed, Joined, NEW c \in Containers, UNCHANGED <<inviteVars, memberVars>>,
           pc[c] \in SignedUp \cup {"signup"},
           NEW q, req' = [req EXCEPT ![c] = q],
           q.inviter = req[c].inviter, q.code = req[c].code, q.invoice = req[c].invoice,
           NEW stage \in SignedUp \ {"commit"}, Goto(c, stage),
           stage = "invoice" => Relationship[q.code] # "spouse",
           q.invoice = "inserted" => stage = "compensate" /\ q.number = req[c].number
    PROVE  Joined'
<1>1. pc' = [pc EXCEPT ![c] = stage] /\ Agrees(c) /\ stage # "commit"
  BY DEF Goto, Joined
<1>2. q.inviter = invitedBy[q.code]
  BY <1>1 DEF Agrees, Fits
<1>3. q.invoice = "inserted" =>
         \A x \in invoices : NumberText(x.number) # NumberText(q.number)
  BY <1>1 DEF Agrees, Fits
<1>4. Fits(stage, q)
  BY <1>1, <1>2, <1>3 DEF Fits
<1>5. \A d \in Containers \ {c} :
         q.invoice = "inserted" /\ req[d].invoice = "inserted" =>
            NumberText(req[d].number) # NumberText(q.number)
  BY DEF Joined, NumbersDiffer
<1>6. QED BY <1>1, <1>4, <1>5, JoinedFrame

\* COMMIT: the new member joins the membership its request prepared.
LEMMA JoinedPublish ==
    ASSUME Typed, Owned, Joined, NEW c \in Containers, pc[c] = "commit", Publish(c), Return(c)
    PROVE  Joined'
<1> DEFINE u == req[c].user
           k == req[c].code
           g == req[c].membership
<1>1. /\ members' = members \cup {u}
      /\ membershipOf' = [membershipOf EXCEPT ![u] = g]
      /\ IF Relationship[k] = "other"
         THEN /\ periods' = periods \cup {g}
              /\ invoices' = invoices \cup {[number |-> req[c].number, membership |-> g]}
         ELSE UNCHANGED <<periods, invoices>>
      /\ cameBy' = [cameBy EXCEPT ![u] = k]
      /\ inviteStatus' = [inviteStatus EXCEPT ![k] = "used"]
      /\ usedBy' = [usedBy EXCEPT ![k] = u]
      /\ invitedBy' = invitedBy
      /\ req' = [req EXCEPT ![c] = NoRequest] /\ pc' = [pc EXCEPT ![c] = "idle"]
  BY DEF Publish, Return, Goto
<1>2. u \in Users \ members /\ k \in Codes /\ g \in Users \cup {NoUser} /\ inviteStatus[k] # "none"
  BY DEF Typed, TypeOK, Request, Bound, Owned, Owns, Serving, Stages, SignedUp
<1>3. /\ invitedBy[k] \in members
      /\ Relationship[k] = "spouse" => g = membershipOf[invitedBy[k]]
      /\ Relationship[k] = "other" =>
            g = u /\ \A x \in invoices : NumberText(x.number) # NumberText(req[c].number)
      /\ Relationship[k] \in {"spouse", "other"}
  <2>1. invitedBy[k] \in members
    BY <1>2 DEF Joined, Rows
  <2>2. Relationship[k] \in {"spouse", "other"}
    BY <1>2, RegistrationAssumption
  <2>3. Relationship[k] = "spouse" => g = membershipOf[invitedBy[k]]
    BY DEF Joined, Agrees, Fits, SignedUp
  <2>4. Relationship[k] = "other" => g = u
    BY DEF Typed, Bound
  <2>5. Relationship[k] = "other" =>
          \A x \in invoices : NumberText(x.number) # NumberText(req[c].number)
    BY DEF Joined, Agrees, Fits
  <2>6. QED BY <2>1, <2>2, <2>3, <2>4, <2>5
<1>4. Admin # u
  <2>1. Admin \in members
    BY DEF Joined, Rows
  <2>2. QED BY <1>2, <2>1
<1> HIDE DEF u, k, g
<1>5. /\ inviteStatus \in [Codes -> {"none", "pending", "used", "expired"}]
      /\ usedBy \in [Codes -> Users \cup {NoUser}]
      /\ members \subseteq Users
      /\ membershipOf \in [Users -> Users \cup {NoUser}]
      /\ cameBy \in [Users -> Codes \cup {NoCode}]
  BY DEF Typed, TypeOK
<1>6. /\ Admin \in members'
      /\ \A j \in Codes : inviteStatus'[j] # "none" => invitedBy'[j] \in members'
      /\ \A v \in members' \ {Admin} : cameBy'[v] \in Codes /\ inviteStatus'[cameBy'[v]] # "none"
      /\ \A x \in invoices' : x.membership \in members'
  BY <1>1, <1>2, <1>3, <1>5 DEF Joined, Rows
<1>7. SpouseSharesMembership'
  <2> SUFFICES ASSUME NEW v \in members' \ {Admin}
               PROVE  membershipOf'[v] = IF Relationship[cameBy'[v]] = "spouse"
                                         THEN membershipOf'[invitedBy[cameBy'[v]]] ELSE v
    BY <1>1 DEF SpouseSharesMembership
  <2>1. CASE v = u
    <3>1. membershipOf'[u] = g /\ cameBy'[u] = k /\ invitedBy[k] # u
      BY <1>1, <1>2, <1>3, <1>5
    <3>2. membershipOf'[invitedBy[k]] = membershipOf[invitedBy[k]]
      BY <1>1, <1>3, <1>5, <3>1
    <3>3. QED BY <1>3, <2>1, <3>1, <3>2
  <2>2. CASE v # u
    <3>1. v \in members \ {Admin} /\ cameBy[v] \in Codes /\ inviteStatus[cameBy[v]] # "none"
      BY <1>1, <2>2 DEF Joined, Rows
    <3>2. invitedBy[cameBy[v]] \in members
      BY <3>1 DEF Joined, Rows
    <3>3. membershipOf'[invitedBy[cameBy[v]]] = membershipOf[invitedBy[cameBy[v]]]
          /\ membershipOf'[v] = membershipOf[v] /\ cameBy'[v] = cameBy[v]
      BY <1>1, <1>2, <1>5, <2>2, <3>1, <3>2
    <3>4. QED BY <3>1, <3>3 DEF Joined, Rows, SpouseSharesMembership
  <2>3. QED BY <2>1, <2>2
<1>8. InviteNamesItsMember'
  <2>1. ASSUME NEW j \in Codes, usedBy'[j] # NoUser
        PROVE  usedBy'[j] \in members' /\ cameBy'[usedBy'[j]] = j
    <3>1. CASE j = k
      BY <1>1, <1>2, <1>5, <3>1
    <3>2. CASE j # k
      <4>1. usedBy'[j] = usedBy[j] /\ usedBy[j] \in members /\ cameBy[usedBy[j]] = j
        BY <1>1, <1>5, <2>1, <3>2 DEF Joined, Rows, InviteNamesItsMember
      <4>2. QED BY <1>1, <1>2, <1>5, <4>1
    <3>3. QED BY <3>1, <3>2
  <2>2. ASSUME NEW v \in members' \ {Admin} PROVE usedBy'[cameBy'[v]] # NoUser
    <3>1. CASE v = u
      BY <1>1, <1>2, <1>5, <3>1, RegistrationAssumption
    <3>2. CASE v # u
      <4>1. v \in members \ {Admin} /\ cameBy[v] \in Codes /\ usedBy[cameBy[v]] # NoUser
            /\ cameBy'[v] = cameBy[v]
        BY <1>1, <1>5, <3>2 DEF Joined, Rows, InviteNamesItsMember
      <4>2. QED BY <1>1, <1>2, <1>5, <4>1, RegistrationAssumption
    <3>3. QED BY <3>1, <3>2
  <2>3. QED BY <2>1, <2>2 DEF InviteNamesItsMember
<1>9. EveryMembershipBilled'
  <2>1. ASSUME NEW v \in members'
        PROVE  membershipOf'[v] \in periods' /\ \E x \in invoices' : x.membership = membershipOf'[v]
    <3>1. CASE v # u
      <4>1. /\ v \in members /\ membershipOf'[v] = membershipOf[v]
            /\ periods \subseteq periods' /\ invoices \subseteq invoices'
        BY <1>1, <1>5, <3>1
      <4>2. QED BY <4>1 DEF Joined, Rows, EveryMembershipBilled
    <3>2. CASE v = u /\ Relationship[k] = "spouse"
      <4>1. membershipOf'[v] = membershipOf[invitedBy[k]] /\ UNCHANGED <<periods, invoices>>
        BY <1>1, <1>2, <1>3, <1>5, <3>2
      <4>2. QED BY <1>3, <4>1 DEF Joined, Rows, EveryMembershipBilled
    <3>3. CASE v = u /\ Relationship[k] = "other"
      <4> DEFINE new == [number |-> req[c].number, membership |-> g]
      <4>1. membershipOf'[v] = g /\ g \in periods' /\ new \in invoices' /\ new.membership = g
        BY <1>1, <1>2, <1>5, <3>3
      <4>2. QED BY <4>1
    <3>4. QED BY <1>3, <3>1, <3>2, <3>3
  <2>2. ASSUME NEW x \in invoices', NEW y \in invoices', x # y
        PROVE  x.membership # y.membership /\ NumberText(x.number) # NumberText(y.number)
    <3>1. CASE x \in invoices /\ y \in invoices
      BY <2>2, <3>1 DEF Joined, Rows, EveryMembershipBilled
    <3>2. CASE ~(x \in invoices /\ y \in invoices)
      <4> DEFINE new == [number |-> req[c].number, membership |-> g]
      <4>1. Relationship[k] = "other" /\ invoices' = invoices \cup {new}
        BY <1>1, <3>2
      <4>2. g = u /\ new.membership = u /\ new.number = req[c].number
            /\ \A z \in invoices : /\ NumberText(z.number) # NumberText(req[c].number)
                                   /\ z.membership \in members
        BY <1>3, <4>1 DEF Joined, Rows
      <4> HIDE DEF new
      <4>3. QED BY <1>2, <2>2, <3>2, <4>1, <4>2
    <3>3. QED BY <3>1, <3>2
  <2>3. QED BY <2>1, <2>2 DEF EveryMembershipBilled
<1>10. \A d \in Containers : Agrees(d)'
  <2> SUFFICES ASSUME NEW d \in Containers PROVE Agrees(d)'
    OBVIOUS
  <2>1. CASE d = c
    <3>1. pc'[d] = "idle" /\ req'[d].invoice # "inserted"
      BY <1>1, <2>1 DEF Typed, TypeOK, NoRequest
    <3>2. QED BY <3>1 DEF Agrees, Fits, SignedUp
  <2>2. CASE d # c
    <3>1. req'[d] = req[d] /\ pc'[d] = pc[d]
      BY <1>1, <2>2 DEF Typed, TypeOK
    <3>2. pc[d] \in SignedUp \cup {"signup"} => req[d].inviter = invitedBy[req[d].code]
                                             /\ req[d].inviter \in members
      <4>1. ASSUME pc[d] \in SignedUp \cup {"signup"} PROVE req[d].inviter \in members
        <5>1. req[d].code \in Codes /\ inviteStatus[req[d].code] # "none"
          BY <4>1 DEF Typed, Bound, Serving, Stages, SignedUp
        <5>2. req[d].inviter = invitedBy[req[d].code]
          BY <4>1 DEF Joined, Agrees, Fits
        <5>3. QED BY <5>1, <5>2 DEF Joined, Rows
      <4>2. QED BY <4>1 DEF Joined, Agrees, Fits
    <3>3. pc[d] = "commit" =>
             IF Relationship[req[d].code] = "spouse"
             THEN req[d].membership = membershipOf'[req[d].inviter]
             ELSE req[d].invoice = "inserted"
      <4>1. pc[d] = "commit" => membershipOf'[req[d].inviter] = membershipOf[req[d].inviter]
        BY <1>1, <1>2, <1>5, <3>2 DEF SignedUp
      <4>2. QED BY <4>1 DEF Joined, Agrees, Fits
    <3>4. ASSUME req[d].invoice = "inserted"
          PROVE  /\ pc[d] \in {"commit", "compensate"}
                 /\ \A x \in invoices' : NumberText(x.number) # NumberText(req[d].number)
      <4>1. /\ pc[d] \in {"commit", "compensate"}
            /\ \A x \in invoices : NumberText(x.number) # NumberText(req[d].number)
        BY <3>4 DEF Joined, Agrees, Fits
      <4>2. Relationship[k] = "other" => NumberText(req[c].number) # NumberText(req[d].number)
        <5>1. Relationship[k] = "other" => req[c].invoice = "inserted"
          BY DEF Joined, Agrees, Fits, k
        <5>2. QED BY <2>2, <3>4, <5>1 DEF Joined, NumbersDiffer
      <4> DEFINE new == [number |-> req[c].number, membership |-> g]
      <4>3. new.number = req[c].number
        OBVIOUS
      <4>4. \/ invoices' = invoices
            \/ Relationship[k] = "other" /\ invoices' = invoices \cup {new}
        <5>1. CASE Relationship[k] = "other"
          BY <1>1, <5>1
        <5>2. CASE Relationship[k] # "other"
          BY <1>1, <5>2
        <5>3. QED BY <5>1, <5>2
      <4> HIDE DEF new
      <4>5. QED BY <4>1, <4>2, <4>3, <4>4
    <3>5. pc[d] = "invoice" => Relationship[req[d].code] # "spouse"
      BY DEF Joined, Agrees, Fits
    <3>6. QED BY <1>1, <3>1, <3>2, <3>3, <3>4, <3>5 DEF Agrees, Fits
  <2>3. QED BY <2>1, <2>2
<1>11. NumbersDiffer'
  <2>1. \A d \in Containers : req'[d].invoice = "inserted" => d # c /\ req'[d] = req[d]
    BY <1>1 DEF Typed, TypeOK, NoRequest
  <2>2. QED BY <2>1 DEF Joined, NumbersDiffer
<1>12. QED
  <2>1. Rows'
    BY <1>6, <1>7, <1>8, <1>9 DEF Rows
  <2>2. QED BY <1>10, <1>11, <2>1 DEF Joined

\* Every step keeps the rows in agreement.
LEMMA JoinedStep == Typed /\ Owned /\ Joined /\ [Next]_vars => Joined'
<1> SUFFICES ASSUME Typed, Owned, Joined, [Next]_vars PROVE Joined'
  OBVIOUS
<1>0. req \in [Containers -> Request]
  BY DEF Typed, TypeOK
<1>1. ASSUME UNCHANGED <<invitedBy, usedBy, memberVars, pc, req>>,
             \A k \in Codes : inviteStatus'[k] # "none" <=> inviteStatus[k] # "none"
      PROVE  Joined'
  BY <1>1
     DEF Joined, Rows, Agrees, Fits, NumbersDiffer, SpouseSharesMembership, InviteNamesItsMember,
         EveryMembershipBilled, memberVars
<1>2. ASSUME NEW k \in Codes, SendInvite(k) PROVE Joined'
  <2>1. PICK m \in members : invitedBy' = [invitedBy EXCEPT ![k] = m]
    BY <1>2 DEF SendInvite
  <2>2. /\ inviteStatus[k] = "none" /\ inviteStatus' = [inviteStatus EXCEPT ![k] = "pending"]
        /\ UNCHANGED <<usedBy, memberVars, pc, req>>
    BY <1>2 DEF SendInvite
  <2>3. /\ \A j \in Codes : inviteStatus[j] # "none" => invitedBy'[j] = invitedBy[j]
        /\ \A j \in Codes : inviteStatus'[j] # "none" => invitedBy'[j] \in members
        /\ \A j \in Codes : inviteStatus[j] # "none" => inviteStatus'[j] # "none"
    BY <2>1, <2>2 DEF Joined, Rows, Typed, TypeOK
  <2>4. Rows'
    BY <2>2, <2>3
       DEF Joined, Rows, SpouseSharesMembership, InviteNamesItsMember, EveryMembershipBilled,
           memberVars
  <2>5. ASSUME NEW d \in Containers PROVE Agrees(d)'
    <3>1. pc[d] \in SignedUp \cup {"signup"} =>
             req[d].code \in Codes /\ inviteStatus[req[d].code] # "none"
      BY DEF Typed, Bound, Serving, Stages, SignedUp
    <3>2. QED BY <2>2, <2>3, <3>1 DEF Joined, Agrees, Fits, memberVars
  <2>6. NumbersDiffer'
    BY <2>2 DEF Joined, NumbersDiffer
  <2>7. QED BY <2>4, <2>5, <2>6 DEF Joined
<1>3. ASSUME NEW k \in Codes, CheckInvite(k) PROVE Joined'
  BY <1>1, <1>3 DEF CheckInvite, memberVars
<1>4. ASSUME NEW k \in Codes, ExpireInvite(k) PROVE Joined'
  <2>1. inviteStatus[k] # "none" /\ inviteStatus' = [inviteStatus EXCEPT ![k] = "expired"]
    BY <1>4 DEF ExpireInvite, Typed
  <2>2. \A j \in Codes : inviteStatus'[j] # "none" <=> inviteStatus[j] # "none"
    BY <2>1 DEF Typed, TypeOK
  <2>3. QED BY <1>1, <1>4, <2>2 DEF ExpireInvite
<1>5. ASSUME NEW c \in Containers, Receive(c) PROVE Joined'
  <2>1. PICK k \in Codes, x \in Mobiles, type \in {"given", "missing"} :
          req' = [req EXCEPT ![c] = [NoRequest EXCEPT !.code = k, !.mobile = x, !.type = type]]
    BY <1>5 DEF Receive
  <2> DEFINE q == [NoRequest EXCEPT !.code = k, !.mobile = x, !.type = type]
  <2>2. q.invoice = "none" /\ req' = [req EXCEPT ![c] = q]
    BY <2>1 DEF NoRequest
  <2> HIDE DEF q
  <2>3. /\ pc' = [pc EXCEPT ![c] = "lookup"] /\ UNCHANGED <<inviteVars, memberVars>>
    BY <1>5 DEF Receive, Goto
  <2>4. Fits("lookup", q)
    BY <2>2 DEF Fits, SignedUp
  <2>5. QED BY <2>2, <2>3, <2>4, JoinedFrame
<1>6. ASSUME NEW c \in Containers, LookupInvite(c) PROVE Joined'
  <2>1. pc[c] = "lookup" /\ UNCHANGED <<inviteVars, memberVars>>
    BY <1>6 DEF LookupInvite
  <2>2. CASE Return(c)
    BY <2>1, <2>2, JoinedReturn
  <2>3. CASE ~Return(c)
    <3> DEFINE q == [req[c] EXCEPT !.inviter = invitedBy[req[c].code]]
    <3>1. req' = [req EXCEPT ![c].inviter = invitedBy[req[c].code]]
          /\ pc' = [pc EXCEPT ![c] = "signup"]
      BY <1>6, <2>3 DEF LookupInvite, Goto
    <3>2. /\ q.inviter = invitedBy[q.code] /\ q.invoice = req[c].invoice
          /\ req' = [req EXCEPT ![c] = q]
      BY <1>0, <3>1 DEF Request
    <3> HIDE DEF q
    <3>3. req[c].invoice # "inserted"
      BY <2>1 DEF Joined, Agrees, Fits
    <3>4. Fits("signup", q)
      BY <3>2, <3>3 DEF Fits
    <3>5. QED BY <2>1, <3>1, <3>2, <3>3, <3>4, JoinedFrame
  <2>4. QED BY <2>2, <2>3
<1>7. ASSUME NEW c \in Containers, SignUp(c) PROVE Joined'
  <2>1. pc[c] = "signup" /\ UNCHANGED <<inviteVars, memberVars>> /\ req[c].invoice # "inserted"
    BY <1>7 DEF SignUp, Joined, Agrees, Fits
  <2>2. CASE Return(c)
    BY <2>1, <2>2, JoinedReturn
  <2>3. CASE ~Return(c)
    <3>1. PICK u \in Users : req' = [req EXCEPT ![c].user = u] /\ Goto(c, "confirm")
      BY <1>7, <2>3 DEF SignUp
    <3> DEFINE q == [req[c] EXCEPT !.user = u]
    <3>2. /\ req' = [req EXCEPT ![c] = q] /\ q.inviter = req[c].inviter /\ q.code = req[c].code
          /\ q.invoice = req[c].invoice
      BY <1>0, <3>1 DEF Request
    <3> HIDE DEF q
    <3>3. "confirm" \in SignedUp \ {"commit"}
      BY DEF SignedUp
    <3>4. QED BY <2>1, <3>1, <3>2, <3>3, JoinedGoesOn
  <2>4. QED BY <2>2, <2>3
<1>8. ASSUME NEW c \in Containers, NEW stage \in SignedUp \ {"commit", "invoice"}, Goto(c, stage),
             pc[c] \in SignedUp, UNCHANGED <<inviteVars, memberVars, req>>,
             req[c].invoice = "inserted" => stage = "compensate"
      PROVE  Joined'
  <2>1. req' = [req EXCEPT ![c] = req[c]]
    BY <1>0, <1>8
  <2>2. QED BY <1>8, <2>1, JoinedGoesOn
<1>9. ASSUME NEW c \in Containers, Confirm(c) \/ Verify(c) \/ MarkUsedRaises(c) PROVE Joined'
  <2>1. /\ pc[c] \in SignedUp /\ UNCHANGED <<inviteVars, memberVars, req>>
        /\ \E stage \in SignedUp \ {"commit", "invoice"} :
              Goto(c, stage) /\ (pc[c] = "commit" => stage = "compensate")
    BY <1>9 DEF Confirm, Verify, MarkUsedRaises, SignedUp
  <2>2. req[c].invoice = "inserted" => pc[c] = "commit"
    BY <1>9 DEF Joined, Agrees, Fits, Confirm, Verify, MarkUsedRaises
  <2>3. QED BY <1>8, <2>1, <2>2
<1>10. ASSUME NEW c \in Containers, InsertMember(c) PROVE Joined'
  <2>1. pc[c] = "insert" /\ UNCHANGED <<inviteVars, memberVars>> /\ req[c].invoice # "inserted"
    BY <1>10 DEF InsertMember, Joined, Agrees, Fits
  <2>2. CASE Goto(c, "compensate") /\ UNCHANGED req
    BY <1>8, <2>1, <2>2 DEF SignedUp
  <2>3. CASE ~(Goto(c, "compensate") /\ UNCHANGED req)
    <3> DEFINE q == [req[c] EXCEPT !.row = "inserted"]
    <3>1. req' = [req EXCEPT ![c].row = "inserted"] /\ Goto(c, "billing")
      BY <1>10, <2>3 DEF InsertMember
    <3>2. /\ req' = [req EXCEPT ![c] = q] /\ q.inviter = req[c].inviter /\ q.code = req[c].code
          /\ q.invoice = req[c].invoice
      BY <1>0, <3>1 DEF Request
    <3> HIDE DEF q
    <3>3. pc[c] \in SignedUp /\ "billing" \in SignedUp \ {"commit"}
      BY <2>1 DEF SignedUp
    <3>4. QED BY <2>1, <3>1, <3>2, <3>3, JoinedGoesOn
  <2>4. QED BY <2>2, <2>3
<1>11. ASSUME NEW c \in Containers, OpenMembership(c) PROVE Joined'
  <2>1. pc[c] = "billing" /\ UNCHANGED <<inviteVars, memberVars>> /\ req[c].invoice # "inserted"
        /\ Relationship[req[c].code] # "spouse"
    BY <1>11 DEF OpenMembership, Joined, Agrees, Fits
  <2>2. CASE Goto(c, "compensate") /\ UNCHANGED req
    BY <1>8, <2>1, <2>2 DEF SignedUp
  <2>3. CASE ~(Goto(c, "compensate") /\ UNCHANGED req)
    <3>1. PICK q : q = [req[c] EXCEPT !.membership = req[c].user, !.number = sequence]
      OBVIOUS
    <3>2. req' = [req EXCEPT ![c].membership = req[c].user, ![c].number = sequence]
          /\ Goto(c, "invoice")
      BY <1>11, <2>3 DEF OpenMembership
    <3>3. /\ req' = [req EXCEPT ![c] = q] /\ q.inviter = req[c].inviter /\ q.code = req[c].code
          /\ q.invoice = req[c].invoice
      BY <1>0, <3>1, <3>2 DEF Request
    <3>4. pc[c] \in SignedUp \cup {"signup"} /\ "invoice" \in SignedUp \ {"commit"}
      BY <2>1 DEF SignedUp
    <3>5. q.invoice # "inserted" /\ Relationship[q.code] # "spouse"
      BY <2>1, <3>3
    <3>6. QED BY <2>1, <3>2, <3>3, <3>4, <3>5, JoinedGoesOn
  <2>4. QED BY <2>2, <2>3
<1>12. ASSUME NEW c \in Containers, InsertInvoice(c) PROVE Joined'
  <2>1. pc[c] = "invoice" /\ UNCHANGED <<inviteVars, memberVars>> /\ req[c].invoice # "inserted"
    BY <1>12 DEF InsertInvoice, Joined, Agrees, Fits
  <2>2. CASE Goto(c, "compensate") /\ UNCHANGED req
    BY <1>8, <2>1, <2>2 DEF SignedUp
  <2>3. CASE ~(Goto(c, "compensate") /\ UNCHANGED req)
    <3> DEFINE q == [req[c] EXCEPT !.invoice = "inserted"]
    <3>1. /\ req' = [req EXCEPT ![c].invoice = "inserted"] /\ pc' = [pc EXCEPT ![c] = "commit"]
          /\ \A x \in invoices : NumberText(x.number) # NumberText(req[c].number)
          /\ \A d \in Containers \ {c} :
                req[d].invoice = "inserted" => NumberText(req[d].number) # NumberText(req[c].number)
      BY <1>12, <2>3 DEF InsertInvoice, Goto
    <3>2. /\ req' = [req EXCEPT ![c] = q] /\ q.inviter = req[c].inviter /\ q.code = req[c].code
          /\ q.invoice = "inserted" /\ q.number = req[c].number
          /\ q.membership = req[c].membership
      BY <1>0, <3>1 DEF Request
    <3> HIDE DEF q
    <3>3. q.inviter = invitedBy[q.code]
      BY <2>1, <3>2 DEF Joined, Agrees, Fits, SignedUp
    <3>4. Relationship[q.code] # "spouse"
      BY <2>1, <3>2 DEF Joined, Agrees, Fits
    <3>5. Fits("commit", q)
      BY <3>1, <3>2, <3>3, <3>4 DEF Fits
    <3>6. \A d \in Containers \ {c} :
             q.invoice = "inserted" /\ req[d].invoice = "inserted" =>
                NumberText(req[d].number) # NumberText(q.number)
      BY <3>1, <3>2
    <3>7. req' = [req EXCEPT ![c] = q] /\ pc' = [pc EXCEPT ![c] = "commit"]
      BY <3>1, <3>2
    <3>8. QED BY <2>1, <3>5, <3>6, <3>7, JoinedFrame
  <2>4. QED BY <2>2, <2>3
<1>13. ASSUME NEW c \in Containers, JoinMembership(c) PROVE Joined'
  <2>1. pc[c] = "billing" /\ UNCHANGED <<inviteVars, memberVars>> /\ req[c].invoice # "inserted"
    BY <1>13 DEF JoinMembership, Joined, Agrees, Fits
  <2>2. CASE Goto(c, "compensate") /\ UNCHANGED req
    BY <1>8, <2>1, <2>2 DEF SignedUp
  <2>3. CASE ~(Goto(c, "compensate") /\ UNCHANGED req)
    <3> DEFINE q == [req[c] EXCEPT !.membership = membershipOf[req[c].inviter]]
    <3>1. req' = [req EXCEPT ![c].membership = membershipOf[req[c].inviter]]
          /\ pc' = [pc EXCEPT ![c] = "commit"] /\ Relationship[req[c].code] = "spouse"
      BY <1>13, <2>3 DEF JoinMembership, Goto
    <3>2. /\ req' = [req EXCEPT ![c] = q] /\ q.inviter = req[c].inviter /\ q.code = req[c].code
          /\ q.invoice = req[c].invoice /\ q.membership = membershipOf[q.inviter]
      BY <1>0, <3>1 DEF Request
    <3> HIDE DEF q
    <3>3. q.inviter = invitedBy[q.code]
      BY <2>1, <3>2 DEF Joined, Agrees, Fits, SignedUp
    <3>4. Fits("commit", q)
      BY <2>1, <3>1, <3>2, <3>3 DEF Fits
    <3>5. QED BY <2>1, <3>1, <3>2, <3>4, JoinedFrame
  <2>4. QED BY <2>2, <2>3
<1>14. ASSUME NEW c \in Containers, Commit(c) PROVE Joined'
  BY <1>14, JoinedPublish, JoinedReturn DEF Commit
<1>15. ASSUME NEW c \in Containers, Compensate(c) \/ Crash(c) PROVE Joined'
  BY <1>15, JoinedReturn DEF Compensate, Crash
<1>16. CASE UNCHANGED vars
  BY <1>1, <1>16 DEF vars, inviteVars
<1>17. QED
  BY <1>2, <1>3, <1>4, <1>5, <1>6, <1>7, <1>9, <1>10, <1>11, <1>12, <1>13, <1>14, <1>15, <1>16
     DEF Next, Handle

\* The invariant holds in every reachable state.
LEMMA JoinedHolds == Spec => [](Typed /\ Joined)
BY TypedInit, TypedStep, OwnedInit, OwnedStep, JoinedInit, JoinedStep, PTL DEF Spec

\* Every member has a membership with a period and an invoice of its own
\* number, however many registrations ran at the same time or failed.
THEOREM EveryMembershipBilledHolds == Spec => []EveryMembershipBilled
<1>1. Joined => EveryMembershipBilled
  BY DEF Joined, Rows
<1>2. QED BY <1>1, JoinedHolds, PTL

\* A spouse shares the membership of its inviter, anyone else has its own.
THEOREM SpouseSharesMembershipHolds == Spec => []SpouseSharesMembership
<1>1. Joined => SpouseSharesMembership
  BY DEF Joined, Rows
<1>2. QED BY <1>1, JoinedHolds, PTL

\* The user that an invite names registered with it, also when several did.
THEOREM InviteNamesItsMemberHolds == Spec => []InviteNamesItsMember
<1>1. Joined => InviteNamesItsMember
  BY DEF Joined, Rows
<1>2. QED BY <1>1, JoinedHolds, PTL

----------------------------------------------------------------------------
(* The refinement: what the registration does to an invite is a step of    *)
(* InviteLife, or none.                                                    *)

\* Each step maps to Store, Look, Expire or Use, or leaves the invites alone.
LEMMA LifeStep == Typed /\ [Next]_vars => [Life!Next]_(Life!vars)
<1> SUFFICES ASSUME Typed, [Next]_vars PROVE [Life!Next]_(Life!vars)
  OBVIOUS
<1>1. ASSUME UNCHANGED <<inviteStatus, checking>> PROVE UNCHANGED Life!vars
  BY <1>1 DEF Life!vars
<1>2. ASSUME NEW k \in Codes, SendInvite(k) PROVE Life!Next
  BY <1>2 DEF SendInvite, Life!Next, Life!Store
<1>3. ASSUME NEW k \in Codes, CheckInvite(k) PROVE Life!Next
  BY <1>3 DEF CheckInvite, Life!Next, Life!Look
<1>4. ASSUME NEW k \in Codes, ExpireInvite(k) PROVE Life!Next
  BY <1>4 DEF ExpireInvite, Life!Next, Life!Expire
<1>5. ASSUME NEW c \in Containers, Commit(c) PROVE [Life!Next]_(Life!vars)
  <2>1. CASE Publish(c)
    <3>1. req[c].code \in Codes /\ inviteStatus[req[c].code] # "none"
      BY <1>5 DEF Commit, Typed, Bound, Serving, Stages, SignedUp
    <3>2. Life!Use(req[c].code)
      BY <2>1, <3>1 DEF Publish, Life!Use
    <3>3. QED BY <3>1, <3>2 DEF Life!Next
  <2>2. CASE UNCHANGED inviteVars
    BY <1>1, <2>2 DEF inviteVars
  <2>3. QED BY <1>5, <2>1, <2>2 DEF Commit
<1>6. ASSUME NEW c \in Containers, ~Commit(c), Receive(c) \/ Handle(c) \/ Crash(c)
      PROVE  UNCHANGED <<inviteStatus, checking>>
  BY <1>6
     DEF Handle, Receive, LookupInvite, SignUp, Confirm, Verify, InsertMember, OpenMembership,
         InsertInvoice, JoinMembership, MarkUsedRaises, Compensate, Crash, inviteVars
<1>7. CASE UNCHANGED vars
  BY <1>1, <1>7 DEF vars, inviteVars
<1>8. QED BY <1>1, <1>2, <1>3, <1>4, <1>5, <1>6, <1>7 DEF Next

\* Registration implements InviteLife.
THEOREM KeepsInviteLifeHolds == Spec => KeepsInviteLife
<1>1. Init => Life!Init
  BY DEF Init, Life!Init
<1>2. QED BY <1>1, TypedInit, TypedStep, LifeStep, PTL DEF Spec, KeepsInviteLife, Life!Spec
=============================================================================
