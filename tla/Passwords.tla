------------------------------- MODULE Passwords -------------------------------
(***************************************************************************)
(* login_service.py and patch_member of member_service.py: a member who    *)
(* forgot its password gets a code by SMS and sets a new one with it; one  *)
(* who knows it can change it; and a member's number can be changed.  The  *)
(* handlers run in several Lambda containers over one database.            *)
(*                                                                         *)
(* Cognito is external.  A user is found by an alias, the phone number it  *)
(* registered with, which no code changes; the handlers pass members.mobile*)
(* instead, which patch_member does change.  Of a password the model keeps *)
(* who set it last, of a code its place in the order of created_at.        *)
(*                                                                         *)
(* A member and its Cognito user share one name.  Refused requests (400,   *)
(* 403, 404) change nothing and are left out where nothing came before.    *)
(***************************************************************************)
EXTENDS Naturals

CONSTANTS
    Containers,   \* the containers of the login function
    Members,      \* members.id
    NoMember,     \* stands for NULL
    Mobiles,      \* phone numbers
    NoMobile,     \* stands for "no number"
    Alias,        \* the number each member registered with
    MaxMoves,     \* bound: changes of a number
    MaxCodes,     \* bound: requests for a code
    MaxSlips      \* bound: failures behind a set password, for each code

ASSUME PasswordsAssumption ==
    /\ NoMember \notin Members /\ NoMobile \notin Mobiles
    /\ Alias \in [Members -> Mobiles]
    /\ \A m, n \in Members : Alias[m] = Alias[n] => m = n
    /\ {MaxMoves, MaxCodes, MaxSlips} \subseteq Nat

\* password_reset_tokens: a code is named by its place in the order of
\* created_at, the beginning of the transaction that inserted it.  That two
\* random codes are equal is left out.
Codes == 1 .. MaxCodes
NoCode == 0

VARIABLES
    mobile,       \* members.mobile
    generated,    \* how many codes have been generated
    owner,        \* password_reset_tokens.member_id, NoMember while no row
    used,         \* the tokens with used_at
    expired,      \* the tokens with expires_at in the past
    texted,       \* the number a code was published to
    setBy,        \* whose request set the password of a user last
    pc,           \* where the handler of each container stands
    req,          \* its member, the number it read and its code
    moves,        \* how often a number has been changed
    held,         \* history: the numbers that members have had, as pairs
    resets,       \* history: how often a password was set with a code
    slips,        \* history: how often that was not followed by its mark
    shared,       \* history: codes that two requests had checked at a time
    late,         \* history: codes stored while their member's reset had
                  \* read its token already
    stray         \* history: codes published by a request that failed

memberVars == <<mobile, moves, held>>
tokenVars == <<generated, owner, used, expired, texted, stray>>
resetVars == <<setBy, resets, slips>>
vars == <<memberVars, tokenVars, resetVars, shared, late, pc, req>>

-----------------------------------------------------------------------------
NoRequest == [member |-> NoMember, number |-> NoMobile, code |-> NoCode]
Request ==
    [member : Members \cup {NoMember}, number : Mobiles \cup {NoMobile},
     code : Codes \cup {NoCode}]

\* get_by_mobile, or get_mobile_and_cognito_by_id for a member who is logged in.
Ask(m, k) == [member |-> m, number |-> mobile[m], code |-> k]

Goto(c, stage) == pc' = [pc EXCEPT ![c] = stage]
Return(c) == Goto(c, "idle") /\ req' = [req EXCEPT ![c] = NoRequest]

\* The users that Cognito finds for a number: one, or none.
UsersAt(x) == {u \in Members : Alias[u] = x}

-----------------------------------------------------------------------------
\* forgot_password: the code is generated, the row inserted.
ForgotPassword(c) ==
    /\ pc[c] = "idle" /\ generated < MaxCodes
    /\ \E m \in Members : req' = [req EXCEPT ![c] = Ask(m, generated + 1)]
    /\ generated' = generated + 1
    /\ Goto(c, "publish")
    /\ UNCHANGED <<memberVars, owner, used, expired, texted, stray, resetVars, shared, late>>

\* Mutant: an error of the topic is logged and the handler goes on.
PublishCodeQuietly(c) ==
    LET k == req[c].code IN
    /\ pc[c] = "publish"
    /\ texted' \in {texted, [texted EXCEPT ![k] = req[c].number]}
    /\ Goto(c, "commit")
    /\ UNCHANGED <<memberVars, generated, owner, used, expired, req, stray, resetVars, shared,
                   late>>

\* _publish_reset_sms raises unless the topic has confirmed the message, which
\* it may have all the same.
PublishCode(c) ==
    LET k == req[c].code IN
    /\ pc[c] = "publish"
    /\ \/ /\ texted' = [texted EXCEPT ![k] = req[c].number]
          /\ \/ Goto(c, "commit") /\ UNCHANGED <<req, stray>>
             \/ Return(c) /\ stray' = stray \cup {k}
       \/ Return(c) /\ UNCHANGED <<texted, stray>>
    /\ UNCHANGED <<memberVars, generated, owner, used, expired, resetVars, shared, late>>

\* Mutant: the number is inserted as member_id.
CommitCodeOfNumber(c) ==
    /\ pc[c] = "commit"
    /\ owner' = [owner EXCEPT ![req[c].code] = req[c].number]
    /\ Return(c)
    /\ UNCHANGED <<memberVars, generated, used, expired, texted, stray, resetVars, shared, late>>

\* The COMMIT of the token, after its text.
CommitCode(c) ==
    LET k == req[c].code IN
    /\ pc[c] = "commit"
    /\ \/ /\ owner' = [owner EXCEPT ![k] = req[c].member]
          /\ late' = IF \E d \in Containers : pc[d] = "set" /\ req[d].member = req[c].member
                     THEN late \cup {k} ELSE late
          /\ UNCHANGED stray
       \/ stray' = stray \cup {k} /\ UNCHANGED <<owner, late>>
    /\ Return(c)
    /\ UNCHANGED <<memberVars, generated, used, expired, texted, resetVars, shared>>

\* 15 minutes go by.
Expire(k) ==
    /\ owner[k] # NoMember /\ k \notin expired
    /\ expired' = expired \cup {k}
    /\ UNCHANGED <<memberVars, generated, owner, used, texted, stray, resetVars, shared, late,
                   pc, req>>

-----------------------------------------------------------------------------
\* reset_password, with the number of a member and a code that was texted, to
\* this member or another, now or earlier: get_by_mobile.
ResetPassword(c) ==
    /\ pc[c] = "idle"
    /\ \E m \in Members, k \in Codes :
         /\ texted[k] # NoMobile
         /\ req' = [req EXCEPT ![c] = Ask(m, k)]
    /\ Goto(c, "token")
    /\ UNCHANGED <<memberVars, tokenVars, resetVars, shared, late>>

Valid(m) == {k \in Codes : owner[k] = m /\ k \notin used \cup expired}

\* Mutant: the query does not name the member.
GetValidOfAnyMember(c) ==
    LET k == req[c].code IN
    /\ pc[c] = "token"
    /\ \/ /\ \E m \in Members : k \in Valid(m)
          /\ Goto(c, "set")
          /\ UNCHANGED <<req, shared>>
       \/ Return(c) /\ UNCHANGED shared
    /\ UNCHANGED <<memberVars, tokenVars, resetVars, late>>

\* Two requests with one code, both of which have found it valid.
Share(c, k) ==
    shared' = IF \E d \in Containers \ {c} : pc[d] \in {"set", "mark"} /\ req[d].code = k
              THEN shared \cup {k} ELSE shared

\* Mutant: ORDER BY created_at without DESC.
GetValidOldest(c) ==
    LET k == req[c].code IN
    /\ pc[c] = "token"
    /\ \/ /\ k \in Valid(req[c].member) /\ \A j \in Valid(req[c].member) : k <= j
          /\ Goto(c, "set")
          /\ Share(c, k)
          /\ UNCHANGED req
       \/ Return(c) /\ UNCHANGED shared
    /\ UNCHANGED <<memberVars, tokenVars, resetVars, late>>

\* get_valid returns the newest token of the member that is neither used nor
\* expired, and checkpw compares the code with it: 400 if there is none or it
\* is another one.
GetValid(c) ==
    LET k == req[c].code
        valid == Valid(req[c].member)
        newest == k \in valid /\ \A j \in valid : j <= k IN
    /\ pc[c] = "token"
    /\ \/ newest /\ Goto(c, "set") /\ Share(c, k) /\ UNCHANGED req
       \/ ~newest /\ Return(c) /\ UNCHANGED shared
    /\ UNCHANGED <<memberVars, tokenVars, resetVars, late>>

Slip(k) ==
    /\ slips[k] < MaxSlips
    /\ slips' = [slips EXCEPT ![k] = @ + 1]

\* set_password finds the user by the number that was read from members.  An
\* answer that is lost raises, and so the token is not marked.  If Cognito
\* refuses (no such user, a weak password) the handler returns 422 or 500.
SetPassword(c) ==
    LET k == req[c].code IN
    /\ pc[c] = "set"
    /\ \/ \E u \in UsersAt(req[c].number) :
            /\ setBy' = [setBy EXCEPT ![u] = owner[k]]
            /\ resets' = [resets EXCEPT ![k] = @ + 1]
            /\ \/ Goto(c, "mark") /\ UNCHANGED <<req, slips>>
               \/ Slip(k) /\ Return(c)
       \/ Return(c) /\ UNCHANGED resetVars
    /\ UNCHANGED <<memberVars, tokenVars, shared, late>>

\* Mutant: mark_used is not called.
MarkUsedForgotten(c) ==
    /\ pc[c] = "mark"
    /\ Return(c)
    /\ UNCHANGED <<memberVars, tokenVars, resetVars, shared, late>>

\* mark_used and the COMMIT: either may fail, the password is set by then.
MarkUsed(c) ==
    LET k == req[c].code IN
    /\ pc[c] = "mark"
    /\ \/ used' = used \cup {k} /\ UNCHANGED slips
       \/ Slip(k) /\ UNCHANGED used
    /\ Return(c)
    /\ UNCHANGED <<memberVars, generated, owner, expired, texted, stray, setBy, resets,
                   shared, late>>

-----------------------------------------------------------------------------
\* change_password: the rows of the caller, who is logged in, and initiate_auth
\* with the number and the current password, which who set it knows.  401 if no
\* user has the number, right as the password may be, or it is another user's.
ChangePassword(c) ==
    /\ pc[c] = "idle"
    /\ \E m \in Members :
         /\ \E u \in UsersAt(mobile[m]) : setBy[u] = m
         /\ req' = [req EXCEPT ![c] = Ask(m, NoCode)]
    /\ Goto(c, "change")
    /\ UNCHANGED <<memberVars, tokenVars, resetVars, shared, late>>

\* set_password, carried out or not, and the answer.
SetChangedPassword(c) ==
    /\ pc[c] = "change"
    /\ \/ \E u \in UsersAt(req[c].number) : setBy' = [setBy EXCEPT ![u] = req[c].member]
       \/ UNCHANGED setBy
    /\ Return(c)
    /\ UNCHANGED <<memberVars, tokenVars, resets, slips, shared, late>>

\* patch_member, by the member or an executive: members.mobile is UNIQUE.
PatchMember(m, x) ==
    /\ \A n \in Members : mobile[n] # x
    /\ moves < MaxMoves
    /\ moves' = moves + 1
    /\ mobile' = [mobile EXCEPT ![m] = x]
    /\ held' = held \cup {<<m, x>>}
    /\ UNCHANGED <<tokenVars, resetVars, shared, late, pc, req>>

\* A statement raises or the container is killed: what is not committed is
\* rolled back.
Crash(c) ==
    LET k == req[c].code IN
    /\ pc[c] # "idle"
    /\ stray' = IF pc[c] = "commit" THEN stray \cup {k} ELSE stray
    /\ IF pc[c] = "mark" THEN Slip(k) ELSE UNCHANGED slips
    /\ Return(c)
    /\ UNCHANGED <<memberVars, generated, owner, used, expired, texted, setBy, resets,
                   shared, late>>

-----------------------------------------------------------------------------
Init ==
    /\ mobile = Alias
    /\ generated = 0
    /\ owner = [k \in Codes |-> NoMember]
    /\ used = {} /\ expired = {}
    /\ texted = [k \in Codes |-> NoMobile]
    /\ setBy = [u \in Members |-> u]
    /\ pc = [c \in Containers |-> "idle"]
    /\ req = [c \in Containers |-> NoRequest]
    /\ moves = 0
    /\ held = {<<m, Alias[m]>> : m \in Members}
    /\ resets = [k \in Codes |-> 0]
    /\ slips = [k \in Codes |-> 0]
    /\ shared = {} /\ late = {} /\ stray = {}

Next ==
    \/ \E c \in Containers :
         \/ ForgotPassword(c) \/ PublishCode(c) \/ CommitCode(c)
         \/ ResetPassword(c) \/ GetValid(c) \/ SetPassword(c) \/ MarkUsed(c)
         \/ ChangePassword(c) \/ SetChangedPassword(c)
         \/ Crash(c)
    \/ \E k \in Codes : Expire(k)
    \/ \E m \in Members, x \in Mobiles : PatchMember(m, x)

Spec == Init /\ [][Next]_vars

-----------------------------------------------------------------------------
Stages == {"idle", "publish", "commit", "token", "set", "mark", "change"}

TypeOK ==
    /\ mobile \in [Members -> Mobiles]
    /\ generated \in 0 .. MaxCodes
    /\ owner \in [Codes -> Members \cup {NoMember}]
    /\ used \subseteq Codes /\ expired \subseteq Codes
    /\ texted \in [Codes -> Mobiles \cup {NoMobile}]
    /\ setBy \in [Members -> Members]
    /\ pc \in [Containers -> Stages]
    /\ req \in [Containers -> Request]
    /\ moves \in 0 .. MaxMoves
    /\ held \subseteq Members \X Mobiles
    /\ resets \in [Codes -> Nat]
    /\ slips \in [Codes -> 0 .. MaxSlips]
    /\ shared \subseteq Codes /\ late \subseteq Codes /\ stray \subseteq Codes

\* A password is set by its own member, with a code that was made for it.  Only
\* a member who has had the number that another one registered with gets at
\* that one's password.
OwnPassword == \A u \in Members : setBy[u] # u => <<setBy[u], Alias[u]>> \in held

\* A code sets one password.  For every further one a handler has failed between
\* the password and the COMMIT of its mark - unless two requests had checked
\* the code at the same time.
OneResetPerCode == \A k \in Codes \ shared : resets[k] <= 1 + slips[k]

\* Who got a code can use it: a code that was texted is stored, unless its
\* request is about to commit, or failed after it had published.  And one that
\* is stored was texted, to a number that its member had.
TextedIffStored ==
    \A k \in Codes :
        /\ texted[k] # NoMobile /\ owner[k] = NoMember =>
               k \in stray \/ \E c \in Containers : pc[c] = "commit" /\ req[c].code = k
        /\ owner[k] # NoMember => <<owner[k], texted[k]>> \in held

\* docs/NIB_Registration_Flow.md:173: the latest code of a member is the one that
\* counts.  No password is set with a code while a later one of the member is
\* valid, unless that was stored after the request had read its token.
LatestCodeOnly ==
    [][\A k \in Codes :
         resets'[k] # resets[k] =>
             \A j \in Valid(owner[k]) : j > k => j \in late]_vars

\* README.md:555: the admin operations of Cognito stay stable if a phone number
\* changes; a member's requests set that member's password and no other.
StableUnderNumberChange == \A u \in Members : setBy[u] = u
=============================================================================
