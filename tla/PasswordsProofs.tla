---------------------------- MODULE PasswordsProofs ----------------------------
(***************************************************************************)
(* Theorems about Passwords, for every number of containers, members,      *)
(* phone numbers, codes, changes of a number and failures.                 *)
(***************************************************************************)
EXTENDS Passwords, TLAPS

-----------------------------------------------------------------------------
(* The inductive invariant: what a request goes on with is what it read,   *)
(* and how often a code was used is told by who is using it.               *)

Sending == {"publish", "commit"}
Resetting == {"set", "mark"}

Serves(c) ==
    /\ pc[c] # "idle" => /\ req[c].member \in Members /\ req[c].number \in Mobiles
                         /\ <<req[c].member, req[c].number>> \in held
    /\ pc[c] \notin {"idle", "change"} => req[c].code \in Codes
    /\ pc[c] \in Sending => req[c].code <= generated /\ owner[req[c].code] = NoMember
    /\ pc[c] = "commit" => texted[req[c].code] = req[c].number
    /\ pc[c] \in Resetting => owner[req[c].code] = req[c].member

\* No later code than the one about to be used, but those stored since.
IsLatest(c) ==
    pc[c] = "set" => \A j \in Valid(req[c].member) : j > req[c].code => j \in late

NobodyShares ==
    \A c, d \in Containers :
        c # d /\ pc[c] \in Sending /\ pc[d] \in Sending => req[c].code # req[d].code

\* The numbers that members have are among those they have had.
Remembered == \A m \in Members : <<m, mobile[m]>> \in held

\* The codes that are not generated yet.
Unborn == \A k \in Codes : k > generated => owner[k] = NoMember /\ texted[k] = NoMobile

Using(c, k) == pc[c] \in Resetting /\ req[c].code = k

\* The uses of a code that two requests never had at a time.
CountedUses(k) ==
    /\ \A c, d \in Containers : Using(c, k) /\ Using(d, k) => c = d
    /\ k \in used => resets[k] <= 1 + slips[k] /\ \A c \in Containers : ~Using(c, k)
    /\ k \notin used =>
          \/ resets[k] <= slips[k]
          \/ resets[k] <= 1 + slips[k] /\ \E c \in Containers : pc[c] = "mark" /\ req[c].code = k

IInv ==
    /\ TypeOK
    /\ \A c \in Containers : Serves(c) /\ IsLatest(c)
    /\ NobodyShares
    /\ Remembered
    /\ Unborn
    /\ \A k \in Codes \ shared : CountedUses(k)
    /\ OwnPassword
    /\ TextedIffStored

\* A code is a number, and no member has the place of NULL.
LEMMA CodesAreNumbers ==
    /\ Codes \subseteq Nat /\ NoCode \notin Codes
    /\ NoMember \notin Members /\ NoMobile \notin Mobiles
BY PasswordsAssumption DEF Codes, NoCode

\* Nobody has asked for a code yet.
LEMMA IInvInit == Init => IInv
<1> SUFFICES ASSUME Init PROVE IInv
  OBVIOUS
<1>1. TypeOK
  BY PasswordsAssumption DEF Init, TypeOK, Stages, Request, NoRequest, Codes
<1>2. (\A c \in Containers : Serves(c) /\ IsLatest(c)) /\ NobodyShares /\ Remembered /\ Unborn
  BY DEF Init, Remembered, Serves, IsLatest, NobodyShares, Unborn, Sending, Resetting
<1>3. \A k \in Codes : CountedUses(k)
  BY DEF Init, CountedUses, Using, Resetting
<1>4. OwnPassword /\ TextedIffStored
  BY DEF Init, OwnPassword, TextedIffStored
<1>5. QED BY <1>1, <1>2, <1>3, <1>4 DEF IInv

\* A step of the handler of c that leaves the tokens and the numbers alone, sets
\* a password for one who may set it if at all, and is not about to use a code
\* from then on.
LEMMA IInvFrame ==
    ASSUME IInv, NEW c \in Containers,
           UNCHANGED <<memberVars, generated, owner, used, expired, texted, resets, slips, shared,
                       late>>,
           setBy' \in [Members -> Members],
           \A u \in Members : setBy'[u] = setBy[u] \/ <<setBy'[u], Alias[u]>> \in held,
           stray \subseteq stray', stray' \subseteq Codes,
           NEW q \in Request, req' = [req EXCEPT ![c] = q],
           NEW stage \in {"idle", "token", "change"}, pc' = [pc EXCEPT ![c] = stage],
           stage # "idle" => /\ q.member \in Members /\ q.number \in Mobiles
                             /\ <<q.member, q.number>> \in held,
           stage = "token" => q.code \in Codes,
           pc[c] # "mark",
           pc[c] = "commit" => req[c].code \in stray'
    PROVE  IInv'
<1>1. /\ \A d \in Containers : req'[d] = IF d = c THEN q ELSE req[d]
      /\ \A d \in Containers : pc'[d] = IF d = c THEN stage ELSE pc[d]
      /\ \A m : Valid(m)' = Valid(m)
  BY DEF IInv, TypeOK, Valid
<1>2. TypeOK'
  <2>1. pc' \in [Containers -> Stages] /\ req' \in [Containers -> Request]
    BY DEF IInv, TypeOK, Stages
  <2>2. QED BY <2>1 DEF IInv, TypeOK, memberVars
<1>3. ASSUME NEW d \in Containers PROVE Serves(d)' /\ IsLatest(d)'
  <2>1. CASE d = c
    BY <1>1, <2>1 DEF Serves, IsLatest, Sending, Resetting, memberVars
  <2>2. CASE d # c
    BY <1>1, <2>2 DEF IInv, Serves, IsLatest, memberVars
  <2>3. QED BY <2>1, <2>2
<1>4. NobodyShares' /\ Remembered' /\ Unborn'
  BY <1>1 DEF IInv, NobodyShares, Remembered, Unborn, Sending, memberVars
<1>5. ASSUME NEW k \in Codes \ shared PROVE CountedUses(k)'
  <2>1. \A d \in Containers : Using(d, k)' => Using(d, k) /\ d # c
    BY <1>1 DEF Using, Resetting
  <2>2. \A d \in Containers : pc[d] = "mark" => d # c
    OBVIOUS
  <2>3. QED BY <1>1, <2>1, <2>2 DEF IInv, CountedUses
<1>6. OwnPassword' /\ TextedIffStored'
  BY <1>1 DEF IInv, OwnPassword, TextedIffStored, memberVars
<1>7. QED BY <1>2, <1>3, <1>4, <1>5, <1>6 DEF IInv

\* A code is generated: nothing is known of it yet.
LEMMA IInvForgotPassword ==
    ASSUME IInv, NEW c \in Containers, ForgotPassword(c) PROVE IInv'
<1>1. PICK m \in Members : req' = [req EXCEPT ![c] = Ask(m, generated + 1)]
  BY DEF ForgotPassword
<1>2. PICK q : q = Ask(m, generated + 1)
  OBVIOUS
<1>3. generated \in Nat /\ generated + 1 \in Codes
  BY PasswordsAssumption DEF ForgotPassword, IInv, TypeOK, Codes
<1>4. /\ q \in Request /\ q.member = m /\ q.number = mobile[m] /\ q.code = generated + 1
      /\ mobile[m] \in Mobiles
  BY <1>2, <1>3 DEF Ask, Request, IInv, TypeOK
<1>5. /\ pc[c] = "idle" /\ generated' = generated + 1
      /\ \A d \in Containers : req'[d] = IF d = c THEN q ELSE req[d]
      /\ \A d \in Containers : pc'[d] = IF d = c THEN "publish" ELSE pc[d]
      /\ UNCHANGED <<mobile, moves, held, owner, used, expired, texted, stray, resetVars, shared, late>>
      /\ \A x : Valid(x)' = Valid(x)
  BY <1>1, <1>2 DEF ForgotPassword, Goto, IInv, TypeOK, Valid, memberVars
<1>6. <<m, mobile[m]>> \in held /\ owner[generated + 1] = NoMember
  <2>1. generated + 1 > generated
    BY <1>3
  <2>2. QED BY <1>3, <2>1 DEF IInv, Remembered, Unborn
<1>7. TypeOK'
  <2>1. /\ generated' \in 0 .. MaxCodes
        /\ pc' \in [Containers -> Stages] /\ req' \in [Containers -> Request]
    BY <1>1, <1>2, <1>3, <1>4, <1>5 DEF ForgotPassword, Goto, IInv, TypeOK, Stages, Codes
  <2>2. QED BY <1>5, <2>1 DEF IInv, TypeOK, memberVars, resetVars
<1>8. ASSUME NEW d \in Containers PROVE Serves(d)' /\ IsLatest(d)'
  <2>1. CASE d = c
    BY <1>3, <1>4, <1>5, <1>6, <2>1 DEF Serves, IsLatest, Sending, Resetting
  <2>2. CASE d # c
    <3>1. pc[d] \in Sending => req[d].code \in Codes /\ req[d].code <= generated
      BY DEF IInv, Serves, Sending
    <3>2. pc[d] \in Sending => req[d].code <= generated + 1
      BY <1>3, <3>1 DEF Codes
    <3>3. QED BY <1>5, <2>2, <3>2 DEF IInv, Serves, IsLatest
  <2>3. QED BY <2>1, <2>2
<1>9. NobodyShares' /\ Remembered'
  <2>1. \A d \in Containers : pc[d] \in Sending => req[d].code # generated + 1
    <3>1. \A d \in Containers : pc[d] \in Sending => req[d].code \in Codes /\ req[d].code <= generated
      BY DEF IInv, Serves, Sending
    <3>2. QED BY <1>3, <3>1, CodesAreNumbers
  <2>2. QED BY <1>4, <1>5, <2>1 DEF IInv, NobodyShares, Remembered
<1>10. Unborn'
  <2>1. \A k \in Codes : k > generated + 1 => k > generated
    BY <1>3, CodesAreNumbers
  <2>2. QED BY <1>5, <2>1 DEF IInv, Unborn
<1>11. ASSUME NEW k \in Codes \ shared PROVE CountedUses(k)'
  <2>1. \A d \in Containers : Using(d, k)' => Using(d, k)
    BY <1>5 DEF Using, Resetting
  <2>2. \A d \in Containers : pc[d] = "mark" => d # c
    BY <1>5
  <2>3. QED BY <1>5, <2>1, <2>2 DEF IInv, CountedUses, resetVars
<1>12. OwnPassword'
  BY <1>5 DEF IInv, OwnPassword, resetVars
<1>13. TextedIffStored'
  BY <1>5 DEF IInv, TextedIffStored
<1>14. QED
  BY <1>5, <1>7, <1>8, <1>9, <1>10, <1>11, <1>12, <1>13 DEF IInv

\* The topic gets the code, and the handler goes on or fails.
LEMMA IInvPublishCode ==
    ASSUME IInv, NEW c \in Containers, PublishCode(c) PROVE IInv'
<1>1. CASE Return(c) /\ UNCHANGED <<texted, stray>>
  BY <1>1, IInvFrame DEF PublishCode, Return, Goto, NoRequest, Request, IInv, TypeOK, resetVars
<1>2. CASE ~(Return(c) /\ UNCHANGED <<texted, stray>>)
  <2>1. PICK k \in Codes, x \in Mobiles, m \in Members :
          /\ k = req[c].code /\ x = req[c].number /\ m = req[c].member
          /\ owner[k] = NoMember /\ k <= generated /\ <<m, x>> \in held
    BY DEF PublishCode, IInv, Serves, Sending
  <2>2. /\ pc[c] = "publish" /\ texted' = [texted EXCEPT ![k] = x]
        /\ UNCHANGED <<memberVars, generated, owner, used, expired, resetVars, shared, late>>
        /\ \/ Goto(c, "commit") /\ UNCHANGED <<req, stray>>
           \/ Return(c) /\ stray' = stray \cup {k}
    BY <1>2, <2>1 DEF PublishCode
  <2>3. PICK q \in Request, stage \in {"commit", "idle"} :
          /\ req' = [req EXCEPT ![c] = q] /\ pc' = [pc EXCEPT ![c] = stage]
          /\ stage = "commit" => q = req[c] /\ stray' = stray
          /\ stage = "idle" => stray' = stray \cup {k}
    BY <2>2 DEF Return, Goto, NoRequest, Request, IInv, TypeOK
  <2>4. /\ \A d \in Containers : req'[d] = IF d = c THEN q ELSE req[d]
        /\ \A d \in Containers : pc'[d] = IF d = c THEN stage ELSE pc[d]
        /\ \A j \in Codes : texted'[j] = IF j = k THEN x ELSE texted[j]
        /\ \A y : Valid(y)' = Valid(y)
    BY <2>2, <2>3 DEF IInv, TypeOK, Valid
  <2>5. TypeOK'
    <3>1. /\ pc' \in [Containers -> Stages] /\ req' \in [Containers -> Request]
          /\ texted' \in [Codes -> Mobiles \cup {NoMobile}] /\ stray' \subseteq Codes
      BY <2>2, <2>3 DEF IInv, TypeOK, Stages
    <3>2. QED BY <2>2, <3>1 DEF IInv, TypeOK, memberVars, resetVars
  <2>6. ASSUME NEW d \in Containers PROVE Serves(d)' /\ IsLatest(d)'
    <3>1. CASE d = c
      BY <2>1, <2>2, <2>3, <2>4, <3>1 DEF IInv, Serves, IsLatest, Sending, Resetting, memberVars
    <3>2. CASE d # c
      <4>1. pc[d] = "commit" => req[d].code \in Codes /\ req[d].code # k
        BY <2>1, <2>2, <3>2 DEF IInv, NobodyShares, Serves, Sending
      <4>2. QED BY <2>2, <2>4, <3>2, <4>1 DEF IInv, Serves, IsLatest, memberVars
    <3>3. QED BY <3>1, <3>2
  <2>7. NobodyShares' /\ Remembered'
    BY <2>2, <2>3, <2>4 DEF IInv, NobodyShares, Remembered, Sending, memberVars
  <2>8. Unborn'
    <3>1. ~(k > generated)
      BY <2>1, CodesAreNumbers DEF IInv, TypeOK
    <3>2. QED BY <2>2, <2>4, <3>1 DEF IInv, Unborn
  <2>9. ASSUME NEW j \in Codes \ shared PROVE CountedUses(j)'
    <3>1. \A d \in Containers : Using(d, j)' => Using(d, j)
      BY <2>4 DEF Using, Resetting
    <3>2. \A d \in Containers : pc[d] = "mark" => d # c
      BY <2>2
    <3>3. QED BY <2>2, <2>4, <3>1, <3>2 DEF IInv, CountedUses, resetVars
  <2>10. OwnPassword'
    BY <2>2 DEF IInv, OwnPassword, memberVars, resetVars
  <2>11. TextedIffStored'
    <3> SUFFICES ASSUME NEW j \in Codes
                 PROVE  /\ texted'[j] # NoMobile /\ owner[j] = NoMember =>
                              \/ j \in stray'
                              \/ \E d \in Containers : pc'[d] = "commit" /\ req'[d].code = j
                        /\ owner[j] # NoMember => <<owner[j], texted'[j]>> \in held
      BY <2>2 DEF TextedIffStored, memberVars
    <3>1. CASE j = k
      BY <2>1, <2>3, <2>4, <3>1
    <3>2. CASE j # k
      BY <2>2, <2>3, <2>4, <3>2 DEF IInv, TextedIffStored
    <3>3. QED BY <3>1, <3>2
  <2>12. shared' = shared
    BY <2>2
  <2>13. QED BY <2>5, <2>6, <2>7, <2>8, <2>9, <2>10, <2>11, <2>12 DEF IInv
<1>3. QED BY <1>1, <1>2

\* The row of the token is there from now on, or the code is astray.
LEMMA IInvCommitCode ==
    ASSUME IInv, NEW c \in Containers, CommitCode(c) PROVE IInv'
<1>1. CASE stray' = stray \cup {req[c].code} /\ UNCHANGED <<owner, late>>
  <2>1. pc[c] = "commit" /\ req[c].code \in Codes
    BY DEF CommitCode, IInv, Serves
  <2>2. QED
    BY <1>1, <2>1, IInvFrame
    DEF CommitCode, Return, Goto, NoRequest, Request, IInv, TypeOK, resetVars
<1>2. CASE ~(stray' = stray \cup {req[c].code} /\ UNCHANGED <<owner, late>>)
  <2>1. PICK k \in Codes, m \in Members :
          /\ k = req[c].code /\ m = req[c].member
          /\ owner[k] = NoMember /\ k <= generated /\ <<m, texted[k]>> \in held
    BY DEF CommitCode, IInv, Serves, Sending
  <2>2. /\ pc[c] = "commit"
        /\ UNCHANGED <<memberVars, generated, used, expired, texted, stray, resetVars, shared>>
        /\ owner' = [owner EXCEPT ![k] = m]
        /\ late' = IF \E d \in Containers : pc[d] = "set" /\ req[d].member = m
                   THEN late \cup {k} ELSE late
        /\ req' = [req EXCEPT ![c] = NoRequest] /\ pc' = [pc EXCEPT ![c] = "idle"]
    BY <1>2, <2>1 DEF CommitCode, Return, Goto
  <2>3. /\ \A d \in Containers : req'[d] = IF d = c THEN NoRequest ELSE req[d]
        /\ \A d \in Containers : pc'[d] = IF d = c THEN "idle" ELSE pc[d]
        /\ \A j \in Codes : owner'[j] = IF j = k THEN m ELSE owner[j]
        /\ late \subseteq late'
    BY <2>2 DEF IInv, TypeOK
  <2>4. \A y \in Members : /\ Valid(y)' \subseteq Valid(y) \cup {k}
                           /\ k \in Valid(y)' => y = m
    BY <2>1, <2>2, <2>3 DEF Valid
  <2>5. TypeOK'
    <3>1. /\ pc' \in [Containers -> Stages] /\ req' \in [Containers -> Request]
          /\ owner' \in [Codes -> Members \cup {NoMember}] /\ late' \subseteq Codes
      BY <2>1, <2>2 DEF IInv, TypeOK, Stages, NoRequest, Request
    <3>2. QED BY <2>2, <3>1 DEF IInv, TypeOK, memberVars, resetVars
  <2>6. ASSUME NEW d \in Containers PROVE Serves(d)' /\ IsLatest(d)'
    <3>1. CASE d = c
      BY <2>3, <3>1 DEF Serves, IsLatest, Sending, Resetting
    <3>2. CASE d # c
      <4>1. pc[d] \in Sending => req[d].code \in Codes /\ req[d].code # k
        BY <2>1, <2>2, <3>2 DEF IInv, NobodyShares, Serves, Sending
      <4>2. pc[d] \in Resetting => req[d].code \in Codes /\ req[d].code # k
        BY <2>1, CodesAreNumbers DEF IInv, Serves, Resetting
      <4>3. Serves(d)'
        BY <2>2, <2>3, <3>2, <4>1, <4>2 DEF IInv, Serves, memberVars
      <4>4. CASE pc[d] = "set"
        <5>1. PICK y \in Members : y = req[d].member
          BY <4>4 DEF IInv, Serves
        <5>2. ASSUME NEW j \in Valid(y)', j > req[d].code PROVE j \in late'
          <6>1. CASE j = k
            BY <2>2, <2>4, <4>4, <5>1, <5>2, <6>1
          <6>2. CASE j # k
            BY <2>3, <2>4, <4>4, <5>1, <5>2, <6>2 DEF IInv, IsLatest
          <6>3. QED BY <6>1, <6>2
        <5>3. req'[d] = req[d]
          BY <2>3, <3>2
        <5>4. \A j \in Valid(req[d].member)' : j > req'[d].code => j \in late'
          BY <5>1, <5>2, <5>3 DEF Valid
        <5>5. QED BY <4>3, <5>4 DEF IsLatest
      <4>5. CASE pc[d] # "set"
        BY <2>3, <3>2, <4>3, <4>5 DEF IsLatest
      <4>6. QED BY <4>4, <4>5
    <3>3. QED BY <3>1, <3>2
  <2>7. NobodyShares' /\ Remembered'
    BY <2>2, <2>3 DEF IInv, NobodyShares, Remembered, Sending, memberVars
  <2>8. Unborn'
    <3>1. ~(k > generated)
      BY <2>1, CodesAreNumbers DEF IInv, TypeOK
    <3>2. QED BY <2>2, <2>3, <3>1 DEF IInv, Unborn
  <2>9. ASSUME NEW j \in Codes \ shared PROVE CountedUses(j)'
    <3>1. \A d \in Containers : Using(d, j)' => Using(d, j)
      BY <2>3 DEF Using, Resetting
    <3>2. \A d \in Containers : pc[d] = "mark" => d # c
      BY <2>2
    <3>3. QED BY <2>2, <2>3, <3>1, <3>2 DEF IInv, CountedUses, resetVars
  <2>10. OwnPassword'
    BY <2>2 DEF IInv, OwnPassword, memberVars, resetVars
  <2>11. TextedIffStored'
    <3> SUFFICES ASSUME NEW j \in Codes
                 PROVE  /\ texted[j] # NoMobile /\ owner'[j] = NoMember =>
                              \/ j \in stray
                              \/ \E d \in Containers : pc'[d] = "commit" /\ req'[d].code = j
                        /\ owner'[j] # NoMember => <<owner'[j], texted[j]>> \in held
      BY <2>2 DEF TextedIffStored, memberVars
    <3>1. CASE j = k
      BY <2>1, <2>3, <3>1, CodesAreNumbers
    <3>2. CASE j # k
      BY <2>1, <2>3, <3>2 DEF IInv, TextedIffStored
    <3>3. QED BY <3>1, <3>2
  <2>12. shared' = shared
    BY <2>2
  <2>13. QED BY <2>5, <2>6, <2>7, <2>8, <2>9, <2>10, <2>11, <2>12 DEF IInv
<1>3. QED BY <1>1, <1>2

\* A code expires: fewer are valid.
LEMMA IInvExpire ==
    ASSUME IInv, NEW k \in Codes, Expire(k) PROVE IInv'
<1>1. /\ UNCHANGED <<mobile, moves, held, generated, owner, used, texted, stray, setBy, resets,
                     slips, shared, late, pc, req>>
      /\ expired' = expired \cup {k}
      /\ \A y : Valid(y)' \subseteq Valid(y)
  BY DEF Expire, memberVars, resetVars, Valid
<1>2. TypeOK' /\ NobodyShares' /\ Remembered' /\ Unborn' /\ OwnPassword' /\ TextedIffStored'
  BY <1>1 DEF IInv, TypeOK, NobodyShares, Remembered, Unborn, OwnPassword, TextedIffStored
<1>3. \A c \in Containers : Serves(c)' /\ IsLatest(c)'
  BY <1>1 DEF IInv, Serves, IsLatest
<1>4. \A j \in Codes \ shared : CountedUses(j)'
  BY <1>1 DEF IInv, CountedUses, Using
<1>5. QED BY <1>1, <1>2, <1>3, <1>4 DEF IInv

\* reset_password has read the row of a member.
LEMMA IInvResetPassword ==
    ASSUME IInv, NEW c \in Containers, ResetPassword(c) PROVE IInv'
<1>1. PICK m \in Members, k \in Codes : req' = [req EXCEPT ![c] = Ask(m, k)]
  BY DEF ResetPassword
<1>2. PICK q : q = Ask(m, k)
  OBVIOUS
<1>3. /\ q \in Request /\ q.member \in Members /\ q.number \in Mobiles /\ q.code \in Codes
      /\ <<q.member, q.number>> \in held
  BY <1>2 DEF Ask, Request, IInv, TypeOK, Remembered
<1>4. /\ req' = [req EXCEPT ![c] = q] /\ pc' = [pc EXCEPT ![c] = "token"]
      /\ pc[c] = "idle" /\ stray' = stray
  BY <1>1, <1>2 DEF ResetPassword, Goto, tokenVars
<1>5. QED
  BY <1>3, <1>4, IInvFrame DEF ResetPassword, IInv, TypeOK, tokenVars, resetVars

\* change_password has read the row of its caller.
LEMMA IInvChangePassword ==
    ASSUME IInv, NEW c \in Containers, ChangePassword(c) PROVE IInv'
<1>1. PICK m \in Members : req' = [req EXCEPT ![c] = Ask(m, NoCode)]
  BY DEF ChangePassword
<1>2. PICK q : q = Ask(m, NoCode)
  OBVIOUS
<1>3. /\ q \in Request /\ q.member \in Members /\ q.number \in Mobiles
      /\ <<q.member, q.number>> \in held
  BY <1>2 DEF Ask, Request, IInv, TypeOK, Remembered
<1>4. /\ req' = [req EXCEPT ![c] = q] /\ pc' = [pc EXCEPT ![c] = "change"]
      /\ pc[c] = "idle" /\ stray' = stray
  BY <1>1, <1>2 DEF ChangePassword, Goto, tokenVars
<1>5. QED
  BY <1>3, <1>4, IInvFrame DEF ChangePassword, IInv, TypeOK, tokenVars, resetVars

\* change_password sets the password of the user with the number it read.
LEMMA IInvSetChangedPassword ==
    ASSUME IInv, NEW c \in Containers, SetChangedPassword(c) PROVE IInv'
<1>1. PICK m \in Members, x \in Mobiles :
        m = req[c].member /\ x = req[c].number /\ <<m, x>> \in held
  BY DEF SetChangedPassword, IInv, Serves
<1>2. /\ setBy' \in [Members -> Members]
      /\ \A u \in Members : setBy'[u] = setBy[u] \/ <<setBy'[u], Alias[u]>> \in held
  BY <1>1 DEF SetChangedPassword, UsersAt, IInv, TypeOK
<1>3. QED
  BY <1>2, IInvFrame
  DEF SetChangedPassword, Return, Goto, NoRequest, Request, IInv, TypeOK, tokenVars

\* A valid code is about to be used: whoever used it before has shared it, or
\* has failed.
LEMMA IInvGetValid ==
    ASSUME IInv, NEW c \in Containers, GetValid(c) PROVE IInv'
<1>1. CASE Return(c) /\ UNCHANGED shared
  BY <1>1, IInvFrame
  DEF GetValid, Return, Goto, NoRequest, Request, IInv, TypeOK, tokenVars, resetVars
<1>2. CASE ~(Return(c) /\ UNCHANGED shared)
  <2>1. PICK k \in Codes, m \in Members :
          /\ k = req[c].code /\ m = req[c].member
          /\ k \in Valid(m) /\ \A j \in Valid(m) : j <= k
    BY <1>2 DEF GetValid, IInv, Serves
  <2>2. /\ pc[c] = "token" /\ pc' = [pc EXCEPT ![c] = "set"]
        /\ UNCHANGED <<mobile, moves, held, generated, owner, used, expired, texted, stray, setBy,
                       resets, slips, late, req>>
        /\ shared' = IF \E d \in Containers \ {c} : pc[d] \in Resetting /\ req[d].code = k
                     THEN shared \cup {k} ELSE shared
        /\ \A d \in Containers : pc'[d] = IF d = c THEN "set" ELSE pc[d]
        /\ \A y : Valid(y)' = Valid(y)
    BY <1>2, <2>1
    DEF GetValid, Goto, Share, Resetting, memberVars, tokenVars, resetVars, Valid, IInv, TypeOK
  <2>3. TypeOK'
    <3>1. pc' \in [Containers -> Stages] /\ shared' \subseteq Codes
      BY <2>2 DEF IInv, TypeOK, Stages
    <3>2. QED BY <2>2, <3>1 DEF IInv, TypeOK
  <2>4. ASSUME NEW d \in Containers PROVE Serves(d)' /\ IsLatest(d)'
    <3>1. CASE d = c
      <4>1. Serves(d)'
        BY <2>1, <2>2, <3>1 DEF IInv, Serves, Sending, Resetting, Valid
      <4>2. \A j \in Valid(m) : ~(j > k)
        BY <2>1, CodesAreNumbers DEF Valid
      <4>3. QED BY <2>1, <2>2, <3>1, <4>1, <4>2 DEF IsLatest
    <3>2. CASE d # c
      BY <2>2, <3>2 DEF IInv, Serves, IsLatest
    <3>3. QED BY <3>1, <3>2
  <2>5. NobodyShares' /\ Remembered' /\ Unborn' /\ OwnPassword'
    BY <2>2 DEF IInv, NobodyShares, Remembered, Unborn, OwnPassword, Sending
  <2>6. ASSUME NEW j \in Codes \ shared' PROVE CountedUses(j)'
    <3>1. CountedUses(j) /\ \A d \in Containers : pc[d] = "mark" => d # c
      BY <2>2, <2>6 DEF IInv
    <3>2. CASE j = k
      <4>1. \A d \in Containers : Using(d, j)' => d = c
        BY <2>2, <2>6, <3>2 DEF Using
      <4>2. j \notin used
        BY <2>1, <3>2 DEF Valid
      <4>3. QED BY <2>2, <3>1, <4>1, <4>2 DEF CountedUses
    <3>3. CASE j # k
      <4>1. \A d \in Containers : Using(d, j)' => Using(d, j)
        BY <2>1, <2>2, <3>3 DEF Using
      <4>2. QED BY <2>2, <3>1, <4>1 DEF CountedUses
    <3>4. QED BY <3>2, <3>3
  <2>7. TextedIffStored'
    <3>1. \A d \in Containers : pc[d] = "commit" => d # c
      BY <2>2
    <3>2. QED BY <2>2, <3>1 DEF IInv, TextedIffStored
  <2>8. QED BY <2>3, <2>4, <2>5, <2>6, <2>7 DEF IInv
<1>3. QED BY <1>1, <1>2

\* The password of the user with the number: the member has had it.
LEMMA IInvSetPassword ==
    ASSUME IInv, NEW c \in Containers, SetPassword(c) PROVE IInv'
<1>1. CASE Return(c) /\ UNCHANGED resetVars
  BY <1>1, IInvFrame
  DEF SetPassword, Return, Goto, NoRequest, Request, IInv, TypeOK, tokenVars, resetVars
<1>2. CASE ~(Return(c) /\ UNCHANGED resetVars)
  <2>1. PICK k \in Codes, m \in Members, x \in Mobiles :
          /\ k = req[c].code /\ m = req[c].member /\ x = req[c].number
          /\ owner[k] = m /\ <<m, x>> \in held
    BY DEF SetPassword, IInv, Serves, Resetting
  <2>2. PICK u \in Members :
          /\ Alias[u] = x
          /\ setBy' = [setBy EXCEPT ![u] = m]
          /\ resets' = [resets EXCEPT ![k] = @ + 1]
          /\ \/ Goto(c, "mark") /\ UNCHANGED <<req, slips>>
             \/ Slip(k) /\ Return(c)
    BY <1>2, <2>1 DEF SetPassword, UsersAt
  <2>3. PICK q \in Request, stage \in {"mark", "idle"} :
          /\ req' = [req EXCEPT ![c] = q] /\ pc' = [pc EXCEPT ![c] = stage]
          /\ stage = "mark" => q = req[c] /\ slips' = slips
          /\ stage = "idle" => Slip(k)
    BY <2>2 DEF Return, Goto, NoRequest, Request, IInv, TypeOK
  <2>4. /\ pc[c] = "set"
        /\ UNCHANGED <<mobile, moves, held, generated, owner, used, expired, texted, stray, shared,
                       late>>
        /\ \A d \in Containers : req'[d] = IF d = c THEN q ELSE req[d]
        /\ \A d \in Containers : pc'[d] = IF d = c THEN stage ELSE pc[d]
        /\ \A y : Valid(y)' = Valid(y)
    BY <2>3 DEF SetPassword, memberVars, tokenVars, Valid, IInv, TypeOK
  <2>5. /\ \A j \in Codes : resets'[j] = IF j = k THEN resets[j] + 1 ELSE resets[j]
        /\ \A j \in Codes : slips'[j] = IF j = k /\ stage = "idle" THEN slips[j] + 1 ELSE slips[j]
        /\ \A j \in Codes : resets[j] \in Nat /\ slips[j] \in Nat
        /\ resets' \in [Codes -> Nat] /\ slips' \in [Codes -> 0 .. MaxSlips]
    BY <2>2, <2>3, PasswordsAssumption DEF Slip, IInv, TypeOK
  <2>6. TypeOK'
    <3>1. /\ pc' \in [Containers -> Stages] /\ req' \in [Containers -> Request]
          /\ setBy' \in [Members -> Members]
      BY <2>2, <2>3 DEF IInv, TypeOK, Stages
    <3>2. QED BY <2>4, <2>5, <3>1 DEF IInv, TypeOK
  <2>7. ASSUME NEW d \in Containers PROVE Serves(d)' /\ IsLatest(d)'
    <3>1. CASE d = c
      BY <2>3, <2>4, <3>1 DEF IInv, Serves, IsLatest, Sending, Resetting
    <3>2. CASE d # c
      BY <2>4, <3>2 DEF IInv, Serves, IsLatest
    <3>3. QED BY <3>1, <3>2
  <2>8. NobodyShares' /\ Remembered' /\ Unborn'
    BY <2>4 DEF IInv, NobodyShares, Remembered, Unborn, Sending
  <2>9. ASSUME NEW j \in Codes \ shared PROVE CountedUses(j)'
    <3>1. CountedUses(j)
      BY DEF IInv
    <3>2. CASE j = k
      <4>1. /\ Using(c, k) /\ k \notin used
            /\ \A d \in Containers : Using(d, k) => d = c
        BY <2>1, <2>4, <3>1, <3>2 DEF CountedUses, Using, Resetting
      <4>2. \A d \in Containers : pc[d] = "mark" => req[d].code # k
        BY <2>4, <4>1 DEF Using, Resetting
      <4>3. resets[k] <= slips[k]
        BY <3>1, <3>2, <4>1, <4>2 DEF CountedUses
      <4>4. \A d \in Containers : Using(d, k)' => d = c
        BY <2>4, <4>1 DEF Using
      <4>5. CASE stage = "mark"
        <5>1. pc'[c] = "mark" /\ req'[c].code = k
          BY <2>1, <2>3, <2>4, <4>5
        <5>2. resets'[k] <= 1 + slips'[k]
          BY <2>5, <4>3, <4>5
        <5>3. QED BY <2>4, <3>2, <4>1, <4>4, <5>1, <5>2 DEF CountedUses
      <4>6. CASE stage = "idle"
        <5>1. resets'[k] <= slips'[k]
          BY <2>5, <4>3, <4>6
        <5>2. QED BY <2>4, <3>2, <4>1, <4>4, <5>1 DEF CountedUses
      <4>7. QED BY <4>5, <4>6
    <3>3. CASE j # k
      <4>1. \A d \in Containers : Using(d, j)' => Using(d, j)
        BY <2>1, <2>3, <2>4, <3>3 DEF Using, Resetting
      <4>2. \A d \in Containers : pc[d] = "mark" => d # c
        BY <2>4
      <4>3. QED BY <2>4, <2>5, <3>1, <3>3, <4>1, <4>2 DEF CountedUses
    <3>4. QED BY <3>2, <3>3
  <2>10. OwnPassword'
    BY <2>1, <2>2, <2>4 DEF IInv, TypeOK, OwnPassword
  <2>11. TextedIffStored'
    <3>1. \A d \in Containers : pc[d] = "commit" => d # c
      BY <2>4
    <3>2. QED BY <2>4, <3>1 DEF IInv, TextedIffStored
  <2>12. QED BY <2>4, <2>6, <2>7, <2>8, <2>9, <2>10, <2>11 DEF IInv
<1>3. QED BY <1>1, <1>2

\* A request has set its password and ends: the code is used, or its mark has
\* failed, once more than before.
LEMMA IInvUsed ==
    ASSUME IInv, NEW c \in Containers, pc[c] = "mark", Return(c),
           UNCHANGED <<memberVars, generated, owner, expired, texted, stray, setBy, resets,
                       shared, late>>,
           \/ used' = used \cup {req[c].code} /\ UNCHANGED slips
           \/ Slip(req[c].code) /\ UNCHANGED used
    PROVE  IInv'
<1>1. PICK k \in Codes : k = req[c].code
  BY DEF IInv, Serves
<1>2. /\ UNCHANGED <<mobile, moves, held, generated, owner, expired, texted, stray, setBy, resets,
                     shared, late>>
      /\ req' = [req EXCEPT ![c] = NoRequest] /\ pc' = [pc EXCEPT ![c] = "idle"]
      /\ \A d \in Containers : req'[d] = IF d = c THEN NoRequest ELSE req[d]
      /\ \A d \in Containers : pc'[d] = IF d = c THEN "idle" ELSE pc[d]
  BY DEF Return, Goto, memberVars, IInv, TypeOK
<1>3. /\ slips' \in [Codes -> 0 .. MaxSlips]
      /\ used \subseteq used' /\ used' \subseteq used \cup {k}
      /\ \A j \in Codes : resets[j] \in Nat /\ slips[j] \in Nat
      /\ k \in used' \/ slips'[k] = slips[k] + 1
      /\ \A j \in Codes : slips'[j] = slips[j] \/ slips'[j] = slips[j] + 1
      /\ \A j \in Codes : j # k => slips'[j] = slips[j] /\ (j \in used' <=> j \in used)
  BY <1>1, PasswordsAssumption DEF Slip, IInv, TypeOK
<1>4. \A y : Valid(y)' \subseteq Valid(y)
  BY <1>2, <1>3 DEF Valid
<1>5. TypeOK'
  <2>1. pc' \in [Containers -> Stages] /\ req' \in [Containers -> Request]
    BY <1>2 DEF IInv, TypeOK, Stages, NoRequest, Request
  <2>2. QED BY <1>2, <1>3, <2>1 DEF IInv, TypeOK
<1>6. ASSUME NEW d \in Containers PROVE Serves(d)' /\ IsLatest(d)'
  <2>1. CASE d = c
    BY <1>2, <2>1 DEF Serves, IsLatest, Sending, Resetting
  <2>2. CASE d # c
    BY <1>2, <1>4, <2>2 DEF IInv, Serves, IsLatest
  <2>3. QED BY <2>1, <2>2
<1>7. NobodyShares' /\ Remembered' /\ Unborn' /\ OwnPassword'
  BY <1>2 DEF IInv, NobodyShares, Remembered, Unborn, OwnPassword, Sending
<1>8. ASSUME NEW j \in Codes \ shared PROVE CountedUses(j)'
  <2>1. CountedUses(j) /\ \A d \in Containers : Using(d, j)' => Using(d, j) /\ d # c
    BY <1>2 DEF IInv, Using, Resetting
  <2>2. CASE j = k
    <3>1. Using(c, k)
      BY <1>1 DEF Using, Resetting
    <3>2. k \notin used /\ \A d \in Containers : ~Using(d, k)'
      BY <2>1, <2>2, <3>1 DEF CountedUses
    <3>3. resets[k] <= 1 + slips[k]
      BY <1>3, <2>1, <2>2, <3>2 DEF CountedUses
    <3>4. resets'[k] <= 1 + slips'[k] /\ (k \notin used' => resets'[k] <= slips'[k])
      BY <1>2, <1>3, <3>3
    <3>5. QED BY <2>2, <3>2, <3>4 DEF CountedUses
  <2>3. CASE j # k
    <3>1. \A d \in Containers : pc[d] = "mark" /\ req[d].code = j => d # c
      BY <1>1, <2>3
    <3>2. QED BY <1>2, <1>3, <2>1, <2>3, <3>1 DEF CountedUses
  <2>4. QED BY <2>2, <2>3
<1>9. TextedIffStored'
  <2>1. \A d \in Containers : pc[d] = "commit" => d # c
    OBVIOUS
  <2>2. QED BY <1>2, <2>1 DEF IInv, TextedIffStored
<1>10. QED BY <1>2, <1>5, <1>6, <1>7, <1>8, <1>9 DEF IInv

\* A number changes: the member has had the one before as well.
LEMMA IInvPatchMember ==
    ASSUME IInv, NEW m \in Members, NEW x \in Mobiles, PatchMember(m, x) PROVE IInv'
<1>1. /\ UNCHANGED <<generated, owner, used, expired, texted, stray, setBy, resets, slips, shared,
                     late, pc, req>>
      /\ mobile' = [mobile EXCEPT ![m] = x] /\ held' = held \cup {<<m, x>>}
      /\ moves < MaxMoves /\ moves' = moves + 1
      /\ \A y : Valid(y)' = Valid(y)
  BY DEF PatchMember, tokenVars, resetVars, Valid
<1>2. TypeOK'
  <2>1. /\ mobile' \in [Members -> Mobiles] /\ moves' \in 0 .. MaxMoves
        /\ held' \subseteq Members \X Mobiles
    BY <1>1, PasswordsAssumption DEF IInv, TypeOK
  <2>2. QED BY <1>1, <2>1 DEF IInv, TypeOK
<1>3. \A c \in Containers : Serves(c)' /\ IsLatest(c)'
  BY <1>1 DEF IInv, Serves, IsLatest
<1>4. Remembered'
  BY <1>1 DEF IInv, TypeOK, Remembered
<1>5. NobodyShares' /\ Unborn' /\ OwnPassword' /\ TextedIffStored'
  BY <1>1 DEF IInv, NobodyShares, Unborn, OwnPassword, TextedIffStored
<1>6. \A j \in Codes \ shared : CountedUses(j)'
  BY <1>1 DEF IInv, CountedUses, Using
<1>7. QED BY <1>1, <1>2, <1>3, <1>4, <1>5, <1>6 DEF IInv

\* A container dies: what it published stays so, and so does what it has set.
LEMMA IInvCrash ==
    ASSUME IInv, NEW c \in Containers, Crash(c) PROVE IInv'
<1>1. CASE pc[c] = "mark"
  BY <1>1, IInvUsed DEF Crash
<1>2. CASE pc[c] # "mark"
  <2>1. pc[c] = "commit" => req[c].code \in Codes
    BY DEF IInv, Serves
  <2>2. QED
    BY <1>2, <2>1, IInvFrame DEF Crash, Return, Goto, NoRequest, Request, IInv, TypeOK
<1>3. QED BY <1>1, <1>2

\* Every step keeps the invariant.
LEMMA IInvStep == IInv /\ [Next]_vars => IInv'
<1> SUFFICES ASSUME IInv, [Next]_vars PROVE IInv'
  OBVIOUS
<1>1. ASSUME NEW c \in Containers, ForgotPassword(c) PROVE IInv'
  BY <1>1, IInvForgotPassword
<1>2. ASSUME NEW c \in Containers, PublishCode(c) PROVE IInv'
  BY <1>2, IInvPublishCode
<1>3. ASSUME NEW c \in Containers, CommitCode(c) PROVE IInv'
  BY <1>3, IInvCommitCode
<1>4. ASSUME NEW c \in Containers, ResetPassword(c) PROVE IInv'
  BY <1>4, IInvResetPassword
<1>5. ASSUME NEW c \in Containers, GetValid(c) PROVE IInv'
  BY <1>5, IInvGetValid
<1>6. ASSUME NEW c \in Containers, SetPassword(c) PROVE IInv'
  BY <1>6, IInvSetPassword
<1>7. ASSUME NEW c \in Containers, MarkUsed(c) PROVE IInv'
  BY <1>7, IInvUsed DEF MarkUsed
<1>8. ASSUME NEW c \in Containers, ChangePassword(c) PROVE IInv'
  BY <1>8, IInvChangePassword
<1>9. ASSUME NEW c \in Containers, SetChangedPassword(c) PROVE IInv'
  BY <1>9, IInvSetChangedPassword
<1>10. ASSUME NEW c \in Containers, Crash(c) PROVE IInv'
  BY <1>10, IInvCrash
<1>11. ASSUME NEW k \in Codes, Expire(k) PROVE IInv'
  BY <1>11, IInvExpire
<1>12. ASSUME NEW m \in Members, NEW x \in Mobiles, PatchMember(m, x) PROVE IInv'
  BY <1>12, IInvPatchMember
<1>13. CASE UNCHANGED vars
  <2>1. /\ UNCHANGED <<mobile, moves, held, generated, owner, used, expired, texted, stray, setBy,
                       resets, slips, shared, late, pc, req>>
        /\ \A y : Valid(y)' = Valid(y)
    BY <1>13 DEF vars, memberVars, tokenVars, resetVars, Valid
  <2>2. TypeOK' /\ NobodyShares' /\ Remembered' /\ Unborn' /\ OwnPassword' /\ TextedIffStored'
    BY <2>1 DEF IInv, TypeOK, NobodyShares, Remembered, Unborn, OwnPassword, TextedIffStored
  <2>3. \A c \in Containers : Serves(c)' /\ IsLatest(c)'
    BY <2>1 DEF IInv, Serves, IsLatest
  <2>4. \A j \in Codes \ shared : CountedUses(j)'
    BY <2>1 DEF IInv, CountedUses, Using
  <2>5. QED BY <2>1, <2>2, <2>3, <2>4 DEF IInv
<1>14. QED
  BY <1>1, <1>2, <1>3, <1>4, <1>5, <1>6, <1>7, <1>8, <1>9, <1>10, <1>11, <1>12, <1>13 DEF Next

\* The invariant holds of every behaviour.
LEMMA IInvHolds == Spec => []IInv
<1>1. Init => IInv
  BY IInvInit
<1>2. IInv /\ [Next]_vars => IInv'
  BY IInvStep
<1>3. QED BY <1>1, <1>2, PTL DEF Spec

-----------------------------------------------------------------------------
\* A step that uses a code is that of a request with the latest one.
LEMMA UsesLatestCode ==
    ASSUME IInv, [Next]_vars, NEW k \in Codes, resets'[k] # resets[k],
           NEW j \in Valid(owner[k]), j > k
    PROVE  j \in late
<1>1. PICK c \in Containers : SetPassword(c)
  BY DEF Next, vars, resetVars, ForgotPassword, PublishCode, CommitCode, ResetPassword, GetValid,
         MarkUsed, ChangePassword, SetChangedPassword, Crash, Expire, PatchMember
<1>2. /\ pc[c] = "set" /\ req[c].code \in Codes /\ owner[req[c].code] = req[c].member
      /\ IsLatest(c)
  BY <1>1 DEF SetPassword, IInv, Serves, Resetting
<1>3. k = req[c].code
  BY <1>1, <1>2 DEF SetPassword, resetVars, IInv, TypeOK
<1>4. QED BY <1>2, <1>3 DEF IsLatest

\* The state of the login handlers is well-formed.
THEOREM TypeCorrect == Spec => []TypeOK
<1>1. IInv => TypeOK
  BY DEF IInv
<1>2. QED BY <1>1, IInvHolds, PTL

\* Nobody sets the password of a member but itself or one who has had the number
\* that member registered with.
THEOREM OwnPasswordHolds == Spec => []OwnPassword
<1>1. IInv => OwnPassword
  BY DEF IInv
<1>2. QED BY <1>1, IInvHolds, PTL

\* A code sets one password, and one more for every failure behind it, unless
\* two requests checked it at a time.
THEOREM OneResetPerCodeHolds == Spec => []OneResetPerCode
<1>1. IInv => OneResetPerCode
  <2> SUFFICES ASSUME IInv, NEW k \in Codes \ shared PROVE resets[k] <= 1 + slips[k]
    BY DEF OneResetPerCode
  <2>1. resets[k] \in Nat /\ slips[k] \in Nat /\ CountedUses(k)
    BY PasswordsAssumption DEF IInv, TypeOK
  <2>2. QED BY <2>1 DEF CountedUses
<1>2. QED BY <1>1, IInvHolds, PTL

\* What is texted is stored unless its request failed, and what is stored was
\* texted to its member.
THEOREM TextedIffStoredHolds == Spec => []TextedIffStored
<1>1. IInv => TextedIffStored
  BY DEF IInv
<1>2. QED BY <1>1, IInvHolds, PTL

\* Only the latest code of a member sets its password.
THEOREM LatestCodeOnlyHolds == Spec => LatestCodeOnly
<1>1. IInv /\ [Next]_vars =>
        [\A k \in Codes :
             resets'[k] # resets[k] =>
                 \A j \in Valid(owner[k]) : j > k => j \in late]_vars
  BY UsesLatestCode
<1>2. QED BY <1>1, IInvHolds, PTL DEF Spec, LatestCodeOnly

-----------------------------------------------------------------------------
(* What the exceptions come to: without requests at a time, and without a  *)
(* change of a number, nothing is excepted.                                *)

OneAtATime == \A c, d \in Containers : c = d

NothingShared == shared = {} /\ late = {}

\* Requests that are served one after the other never check a code together,
\* and no code is stored while one is being used.
LEMMA AloneStep == OneAtATime /\ NothingShared /\ [Next]_vars => NothingShared'
<1> SUFFICES ASSUME OneAtATime, NothingShared, [Next]_vars PROVE NothingShared'
  OBVIOUS
<1>1. ASSUME UNCHANGED <<shared, late>> PROVE NothingShared'
  BY <1>1 DEF NothingShared
<1>2. ASSUME NEW c \in Containers, GetValid(c) PROVE NothingShared'
  BY <1>2 DEF GetValid, Share, OneAtATime, NothingShared
<1>3. ASSUME NEW c \in Containers, CommitCode(c) PROVE NothingShared'
  <2>1. \A d \in Containers : pc[d] # "set"
    BY <1>3 DEF CommitCode, OneAtATime
  <2>2. QED BY <1>3, <2>1 DEF CommitCode, NothingShared
<1>4. QED
  BY <1>1, <1>2, <1>3
     DEF Next, ForgotPassword, PublishCode, ResetPassword, SetPassword, MarkUsed, ChangePassword,
         SetChangedPassword, Crash, Expire, PatchMember, vars

\* Served one after the other, requests set one password with a code, and one
\* more for every failure behind it: nothing but requests that run at a time
\* makes the mark come too late.
THEOREM OneResetPerCodeAlone ==
    ASSUME OneAtATime
    PROVE  Spec => [](\A k \in Codes : resets[k] <= 1 + slips[k])
<1>1. Init => NothingShared
  BY DEF Init, NothingShared
<1>2. NothingShared /\ [Next]_vars => NothingShared'
  BY AloneStep
<1>3. NothingShared /\ OneResetPerCode => \A k \in Codes : resets[k] <= 1 + slips[k]
  BY DEF NothingShared, OneResetPerCode
<1>4. QED BY <1>1, <1>2, <1>3, OneResetPerCodeHolds, PTL DEF Spec

\* Until a number is changed nobody has had one but its own.
FirstNumbers == moves = 0 => held \subseteq {<<m, Alias[m]>> : m \in Members}

\* Every step keeps it: only patch_member adds to the numbers.
LEMMA FirstNumbersStep == IInv /\ FirstNumbers /\ [Next]_vars => FirstNumbers'
<1> SUFFICES ASSUME IInv, FirstNumbers, [Next]_vars PROVE FirstNumbers'
  OBVIOUS
<1>1. ASSUME UNCHANGED memberVars PROVE FirstNumbers'
  BY <1>1 DEF FirstNumbers, memberVars
<1>2. ASSUME NEW m \in Members, NEW x \in Mobiles, PatchMember(m, x) PROVE FirstNumbers'
  <2>1. moves \in Nat
    BY PasswordsAssumption DEF IInv, TypeOK
  <2>2. moves' # 0
    BY <1>2, <2>1 DEF PatchMember
  <2>3. QED BY <2>2 DEF FirstNumbers
<1>3. QED
  BY <1>1, <1>2
     DEF Next, ForgotPassword, PublishCode, CommitCode, ResetPassword, GetValid, SetPassword,
         MarkUsed, ChangePassword, SetChangedPassword, Crash, Expire, vars

\* The claim of README.md:555 holds until the first change of a number: it is
\* what the handlers pass after one, members.mobile for the alias, that lets a
\* member set the password of another one, no race and no failure.
THEOREM StableUntilMoved == Spec => [](moves = 0 => StableUnderNumberChange)
<1>1. Init => FirstNumbers
  BY DEF Init, FirstNumbers
<1>2. OwnPassword /\ FirstNumbers /\ TypeOK => (moves = 0 => StableUnderNumberChange)
  <2> SUFFICES ASSUME OwnPassword, FirstNumbers, TypeOK, moves = 0, NEW u \in Members, setBy[u] # u
               PROVE  FALSE
    BY DEF StableUnderNumberChange
  <2>1. setBy[u] \in Members /\ <<setBy[u], Alias[u]>> \in held
    BY DEF OwnPassword, TypeOK
  <2>2. PICK m \in Members : <<setBy[u], Alias[u]>> = <<m, Alias[m]>>
    BY <2>1 DEF FirstNumbers
  <2>3. QED BY <2>1, <2>2, PasswordsAssumption
<1>3. QED BY <1>1, <1>2, IInvHolds, FirstNumbersStep, OwnPasswordHolds, TypeCorrect, PTL DEF Spec
=============================================================================
