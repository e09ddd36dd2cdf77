# NIB backend: specification and proofs

This directory specifies the serverless back end of the NIB membership system
(`src/`) in TLA+. The modules are checked with TLC on small instances, and the
properties that matter most are proved with TLAPS for every value of the
constants. `PROJECT.json` lists the components, the runs, the mutants that show
that each property can fail, the source lines behind each definition, the
hazards, the findings and the theorems.

All paths below are relative to the repository; `services/`, `repositories/`,
`functions/` and `uow/` stand for the directories under `src/shared` and `src`.

## 1. The system

Every function is an AWS Lambda handler (`src/functions/*`). A *container* runs
one request at a time, with a timeout of 30 s
(`infra/modules/lambda/main.tf:29`), and keeps its modules' globals between
requests; several containers of one function run at the same time. All of them
share one PostgreSQL database, through one cached psycopg 3 connection per
container, in the default isolation level READ COMMITTED. A handler opens a
`UnitOfWork` and calls one function of a service, which uses repositories, each
call of which is one SQL statement. `UnitOfWork.__exit__` commits, or rolls back
if an exception passes. `register` and the password functions also call Cognito,
and the invite and password functions publish to an SNS topic that the SMS
dispatcher reads and passes on to Twilio.

| Component | State | Operations that change it | Module |
|---|---|---|---|
| Payments (`payment_service.py`) | `payments`, `invoices.status` | record_payment, delete_payment | `Payments`, `Accounts` |
| Registration (`register_service.py`, `cognito_service.py`) | Cognito users; `members`, `memberships`, `membership_periods`, `invoices`, `invites` | register | `Registration` |
| Events and pledges (`event_service.py`) | `events`, `event_items`, `pledges`, `event_contributions` | create/patch/delete event, add/patch/delete item, create/update/cancel pledge, record/delete contribution | `Events` |
| Unit of work and connection (`uow/base.py`, `db.py`) | cached parameters and connection, the open transaction | `__enter__`, `__exit__`, `get_connection`, `preload_params` | `UnitOfWork`, `AtomicRequests` |
| Invites (`invite_service.py`) | `invites`, the SNS topic | send_invite, validate_invite | `Invites`, `InviteLife` |
| Login and password reset (`login_service.py`) | `password_reset_tokens`, Cognito passwords, the SNS topic | forgot_password, reset_password, change_password | `Passwords` |
| Member profiles (`member_service.py`) | `members` | patch_member | `members.mobile` in `Passwords` and `Invites`; the rest not |
| SMS dispatcher (`sms_dispatcher.py`) | cached Twilio configuration, the event's attempts | handler | `Sms` |

How they interact: an invite is used by `register`; `register` opens the invoice
that Payments settles; events, pledges and contributions refer to members; the
codes of invites and of forgotten passwords go over the topic to the dispatcher;
send_invite asks for numbers that register and patch_member give to members; the
password functions find a Cognito user by the number that patch_member may
have changed; every handler with a database runs inside the unit of work. There
are no threads, callbacks or queues inside a function; all concurrency is between
containers and meets in the database, in Cognito and at the topic.

What is hard here, and where it shows:

- **Check, then act, without a lock.** READ COMMITTED shows every SELECT what is
  committed at that moment, and no handler locks what it has read. The
  outstanding balance (`payment_service.py:45-50`), the remaining quantity of an
  item (`event_service.py:180-186`), the status and type of an event, and the
  contributions of a pledge are all checked first and relied on later.
- **Two systems, no common transaction.** `register` signs a user up in Cognito
  before its database transaction is committed and undoes that by a compensation
  which covers the statements but not the COMMIT.
- **Failures whose outcome is unknown**: a call to Cognito or a COMMIT whose
  answer is lost, a container that is killed, a connection that the server has
  dropped while the container was idle.
- **Text before COMMIT.** send_invite and forgot_password publish the SMS inside
  the unit of work, so a code may reach a member that no row will ever have.
- **At least once.** The dispatcher is invoked asynchronously: Lambda tries again
  after an exception, also one that came after Twilio had accepted the text, and
  SNS and Lambda may deliver a message twice without any failure; the dispatcher
  does not remember what it sent.
- **Two names for one person**: `members.mobile` can be changed, the alias of the
  Cognito user cannot, and the password functions pass the one for the other.
- **Boundaries**: DECIMAL(10,2) rounds what Python did not; `LPAD` cuts invoice
  numbers; amounts and quantities may be zero or negative; a quantity is a DECIMAL
  in the table, a float where it is compared, and may be NaN in both.
- **Unique keys that outlive their row's life**: a cancelled pledge, a phone
  number that is verified for a user nobody owns.

What makes each component correct is stated below with its module, and in
`hazards` of `PROJECT.json` at the line where it bites.

## 2. How the modules are built

The specifications of handlers follow one pattern. `pc[c]` says at which statement the
handler of container `c` stands and `req[c]` keeps its request and its local
variables. Each SELECT is an action; what it saw may be stale at the next one.
The writes that end a handler are one action together with the COMMIT, because
no other container can see them before; where the order of writes, or what is
held between them, can matter (the row lock of a DELETE; a handler that fails
half way; Cognito), they are actions of their own. Every handler may be aborted
in any step: an exception, a lost connection, the timeout, a kill.

**History variables.** Several of the code's checks are races by design, and a
property that ignored this would simply be false. Rather than leave the race
out, the models note *which* conflict or failure happened (`overlapped`,
`negative`, `odd`, `raced`, `leaked`; `met`, `stray`, `doubts`; `shared`,
`late`, `slips`, `held`, `resets`), and each property says exactly what is
guaranteed otherwise. No guard reads them, with one exception that only bounds
the state space: `slips` stays below `MaxSlips`. The runs that are expected to fail state the documents' claim without
the exception, and show the race.

Definitions whose comment starts with "Mutant:" are the variants named under
`mutants`; no specification refers to them.

### `Payments` and `Accounts`

`Receive` takes a request of one of the two routes and `Authorise` looks the
caller's role up. `LookupInvoice`, `ReadTotal`, `WritePayment` are
record_payment: invoice, 422 for a paid one or a missing field; SUM of payments
and the check of `payment_service.py:47`; then INSERT, status and COMMIT.
`LookupPayment`, `DeleteRow`, `Recount`, `WriteDelete` are delete_payment:
`DeleteRow` waits for the row lock of another DELETE and then may find nothing,
`Recount` sums again inside the transaction, `WriteDelete` updates the status
from that sum. Money is counted in half cents, so that `Stored` can model the
rounding of the column. get_statement only reads and is left out.

`paid` is no state: it is the SUM that `get_total_by_invoice` computes of the rows
each time. `overlapped` notes an invoice that two requests worked on at a time,
with one exception: two deletes of the same payment (`Twins`), where the second
finds nothing. So the properties hold of double deletes without an excuse.
`odd` notes a payment with a fraction of a cent, which the column rounds, or of
zero: `not amount` (`payment_service.py:39`) refuses the number 0, but not the
text "0".

- `KeepsAccounts`: `Payments` implements `Accounts`, in which an invoice is a
  balance and the status it comes to, payments are accepted as far as something
  is outstanding and taken back as far as something was paid
  (`Account == INSTANCE Accounts WITH balance <- paid, excused <- Excused`). Rows,
  ids, reads and the two rules for the status are hidden; nothing is promised of
  an invoice in `Excused`, but that what happens to it leaves the others alone.
- `NoOverpayment`, `OverpaymentBounded`: payments stay within what is due unless
  requests overlapped, and then within N times for N containers. An invoice that
  got a payment below zero is excused from both: the code accepts it.
- `StatusAgrees`, `PaidIffCovered`: the status is the one the payments call for.
- `PaidTakesNoPayment` (action property): a paid invoice gets no payment.
- `EveryRequestReturns` (liveness): no handler waits for ever for a row lock.

### `Registration`

`SendInvite`, `CheckInvite` and `ExpireInvite` are the invites' own life, as far
as `register` meets it. Then, one action per call: `LookupInvite`, `SignUp`,
`Confirm` and `Verify` (the two calls of confirm_sign_up), `InsertMember`,
`OpenMembership` and `InsertInvoice` or `JoinMembership`, `Commit`,
`MarkUsedRaises`, `Compensate`, and `Crash`. Cognito is external: a phone number
is an alias that only one user may hold verified; every call may fail before or
after it was carried out. `NumberText` is a constant operator, the text LPAD
makes of an invoice number; the run gives it base 3 and one digit, so that
numbers collide after a few registrations. `Init` is what the bootstrap scripts
leave: the admin, with a membership, an active period and an invoice.

- `EveryMemberCanLogIn`: the user of a committed member stays verified; no
  compensation, of its own registration or another one, deletes it.
- `NoUserForgotten`: a user without a member is in a handler's hands or was left
  by one of four named accidents.
- `EveryMembershipBilled`, `SpouseSharesMembership`, `InviteNamesItsMember`:
  memberships, periods, invoices and invites fit together whatever failed. Nothing
  is said of the status of a period, on which code and documents differ (section 4).
- `KeepsInviteLife`: what `register` does to an invite is what `InviteLife` allows.

### `InviteLife`, `Invites` and `Sms`

`InviteLife` is the contract of the functions that share the table `invites`: an
invite is stored once, may be looked at and marked expired, may be used at any
time, and never becomes pending again. `Invites` and `Registration` each
implement it (`Life == INSTANCE InviteLife WITH ...`, `KeepsInviteLife`), one
with the sending in detail and one with the registration in detail; that is what
allows each to represent the other by a few actions (`Register` in `Invites`;
`SendInvite`, `CheckInvite`, `ExpireInvite` in `Registration`). The contract is as
permissive as the code: mark_expired has no condition, so an invite that was used
since it was read may become expired.

`Invites` has one action per statement of the two handlers: `Receive`,
`MobileExists`, `PendingExists`, `InsertAndPublish` and `Commit` are send_invite,
`ValidateInvite` and `MarkExpired` are validate_invite. `Register` and
`PatchMember` are the two writers of `members.mobile` in other functions; either
may come between `MobileExists` and `Commit`. It extends `Sms`, the way of a text
from the topic to Twilio: `Deliver` hands a published message to Lambda, for the
first time or once more, in any order and while another delivery of it waits, is
served or is over (`Deliveries` says how many there may be); `Invoke` and `Fail`
are Lambda's asynchronous invocation for one delivery, which is made again after a
failure and given up after `MaxAttempts`;
`LoadTwilioConfig` is the cache of the three parameters, which takes itself for
complete when the account id is set (`sms_dispatcher.py:28`); `SendSms` is the
request, whose answer may be lost after Twilio has accepted it;
`KillDispatcher` starts a container from nothing.

- `OnePendingInvite`: one pending invite for a number unless two requests for it
  met; `InvitesStrangers` (action property): never for a member's number, unless a
  request, a registration or a change of number met it.
- `SentIffStored`: a code that was published is stored, or its request is about
  to commit or failed behind the text; and what is stored was published.
- `OneTextPerAnswer`: Twilio has accepted a message once for each of its deliveries
  whose handler returned and once for each answer that was lost, and none is
  dropped early. The code cannot promise one text per message; this is what it can:
  no delivery counts as done that was not accepted, and several dispatchers, a
  half-filled cache or a kill add no further text.

### `Passwords`

`ForgotPassword`, `PublishCode`, `CommitCode` are forgot_password;
`ResetPassword`, `GetValid`, `SetPassword`, `MarkUsed` are reset_password;
`ChangePassword`, `SetChangedPassword` are change_password_service; `PatchMember`
is the change of a number in `member_service.py`. A code is named by its place in
the order of `created_at`, because that order is what `get_valid` goes by; of a
password the model keeps whose request set it. Cognito finds a user by `Alias`,
the number it registered with, and every request to it may be carried out and
still raise. A request carries any code that was texted, its own, another
member's or an old one.

- `OneResetPerCode`: a code sets one password, and one more for each failure
  between the password and the COMMIT of its mark, unless two requests had
  checked it together.
- `LatestCodeOnly` (action property): no password is set with a code while a later
  one of the member is valid that was stored before the token was read.
- `TextedIffStored`: as `SentIffStored`, and the text went to a number of the
  member whose code it is.
- `OwnPassword`: only a member who has had the number another one registered with
  gets at that one's password.

### `Events`

All eleven writing operations of `event_service.py`. `Receive` reads the event
and `FirstStage` says which check comes next; `ReadRows`, `ReadContributions`,
`ReadItem`, `ReadActive`, `ReadExisting`, `ReadPledge`, `ReadRemaining` and
`ReadPaid` are the SELECTs, shared by the handlers that use them, and each
operation has a writing action in which foreign keys and UNIQUE constraints may
raise. A request that mixes ids of two events is among the inputs. `raced` keeps
the kinds of conflict (`quantity`, `paid`, `type`, `status`): pairs of requests
whose checks do not see each other's write.

A quantity is NaN or a whole number of units so small that bodies, columns and
floats are multiples of them. The two conversions are not the identity:
`InColumn` is what the column keeps of the quantity in a body (PostgreSQL keeps 15
digits of a float), `AsFloat` what `float()` may make of the DECIMAL that
`get_quantity_remaining` computes, each within `Ulp`. `Above` is Python's `>`:
neither test of `ReadRemaining` refuses a NaN, and if NaN is stored
(`RemainingIsNaN`) they refuse nothing any more. `Ulp` may stand for all
conversions because members and requests are finitely many.

- `NoOrphans`: no item, pledge or contribution outlives what it refers to.
- `CompletedIsFinal` (action property): a completed event is not written.
- `PledgedWithinNeeded`, `PaidPledgeStands`, `ItemsOnPledgeEvents`: what the
  checks of the handlers are for, over any sequence of requests, unless the
  conflict named for it was served. `PledgedWithinNeeded` allows two conversions'
  error in all, however many pledges there are, and says nothing of an item with
  a quantity that is NaN or below zero, which the code lets through.

### `UnitOfWork` and `AtomicRequests`

`UnitOfWork` is the machinery the others take for granted: `Preloaded`,
`OpenConnection` and `NeedsConnection` are `db.py`; `GetConnection` is
`__enter__`; `Rollback`, `Commit`, `CommitRaises` and `Reopen` are `__exit__`;
`Receive`, `Read`, `Write`, `Raise`, `Respond` are a handler such as
`functions/members/members.py` that reads, refuses, or runs its statements.
`Drop` and `Kill` are the environment. The connection is `none`, `open`,
`aborted` (PostgreSQL wants a ROLLBACK first), `stale` (the server is gone, the
client does not know) or `closed`.

`AtomicRequests` is the promise: the statements of a request are carried out
together or not at all, before the answer, and "ok" and "refused" are true.
`IsAtomic` says that `UnitOfWork` implements it (`store` and `reply` map to
themselves; every other variable is hidden); it is `Atomic!Spec` of
`Atomic == INSTANCE AtomicRequests WITH ...`. `Payments` and `Events` use this
promise when they write and commit in one step. `NoLeftovers` says that no
transaction outlives its request on the shared connection, and
`OneErrorPerAccident` that a lost connection or a failed COMMIT costs one
request and not the ones after it, unless the parameter cache was filled
incompletely, from which a container does not recover (`db.py:28-31`).

`README.md:222` of the repository says that a unit of work "Reconnects
automatically if the cached connection is stale". The model shows what that comes
to: the first request on a stale connection is answered with 500, and the next
one reconnects; `_connection.closed` (`db.py:47`) is not true before a statement
has failed.

## 3. Runs

| Run | Instance | What it shows |
|---|---|---|
| `payments` | 2 containers, 2 invoices (2 cents and 1 cent due), 3 payment ids, amounts -1 to 2 cents in half cents, with 0 | all safety properties of `Payments`, and that it implements `Accounts`; 1.4 M states |
| `payments_live` | 3 containers, 1 invoice, 2 payments, `FairSpec` | every handler returns |
| `payments_race` | 2 containers, no negative amounts | *violation*: two requests overpay an invoice |
| `registration` | 2 containers, one invite of each relationship, 3 users, 3 numbers, LPAD in base 3 | all safety properties of `Registration`, and that it implements `InviteLife`; 2.3 M states |
| `registration_reuse` | as above | *violation*: two members from one invite |
| `registration_commit` | as above | *violation*: a failed COMMIT leaves the Cognito user |
| `events` | 2 containers, 2 members who both pledge, 2 events, 1 item, 1 contribution, every operation, needs of 2 and 5, pledges of 1, 3 and NaN, a column that makes 4 of 3, `Ulp` 1 | all properties of `Events`; 4.2 M states |
| `events_general` | 1 container | *violation*: a general event cannot be deleted |
| `unit_of_work` | 2 containers, 3 requests of 2 statements, up to 3 accidents in the life of a container | atomicity as a refinement, no leftovers, one error per accident |
| `invites` | 2 containers, 2 dispatchers, 2 codes, 2 deliveries of one of them with 2 attempts each, 2 numbers, one of them a member's | all properties of `Invites` and `Sms` and the refinement; 0.85 M states |
| `passwords` | 2 containers, 2 members, 3 numbers, 2 codes, 2 changes of a number, 1 failure for each code | all properties of `Passwords`; 1.5 M states |
| `passwords_moved` | as above, 1 code, no failure | *violation*: a reset sets another member's password |

**Why these bounds are enough.** Every race of this code is between two
handlers; two containers reach each of them, and three are used where a circle
of waiters could need three. Three payment ids allow a payment, a deletion and
another payment, and a double deletion; a due amount of two cents lets half
cents meet the limit from below, at and above. Two invites are one of each
relationship; three users are the admin, the inviter's spouse and a competitor.
One item is enough for the pledges, whose checks never look at two items; the
second event is there for ids that are mixed; pledges of 1 and 3 against a need
of 2 or 5 meet the limit from below and above, and with the rounding at it: 3,
stored as 4, passes against a need of 2 that `float()` made 3, which is the whole
excess that `PledgedWithinNeeded` allows (with one `Ulp` less TLC finds it
violated). Two codes for one number are what a second invite needs. Two
deliveries of one message at two dispatchers are served one after the other, at a
time, and again after a failure; a message that is never delivered shows no more
than that it was published. A second number lets a member change to the invited
one and back. Two changes of a number let a member give its number up and another one take it; the
third number is where the first one goes. Three accidents are, for example, a
lost connection, a COMMIT that fails and a reopening that fails, in one life of
a container. What two containers cannot show - sums over many rows, more requests
in flight - is what the theorems are for.

`CHECK_DEADLOCK FALSE` is set for `events*` (when all events are completed or
deleted every request is refused, which changes nothing), for `unit_of_work`
(every request is sent once), for `invites` (every code is sent once) and for
`passwords*` (codes and changes of a number are bounded). Symmetry is used for containers, ids and requests
that no definition tells apart, and not in the run of a liveness property.

**Fairness.** `FairSpec` of `Payments`: `WF(Handle(c))`, because Lambda keeps a
started handler running until it returns or is stopped by its timeout, and every
statement is answered; `SF(DeleteRow(c))`, because a DELETE that waits for a row
may be passed by while the lock is taken by others, but PostgreSQL queues the
waiters of a row and grants the lock in that order, so one that is enabled again
and again is granted. The 30 s timeout would end every wait too; it is not
needed, which is what the run shows. New requests, failures and the success of a
call are never assumed to happen. No other property is one of liveness: that a
text is sent or given up in the end is Lambda's limit of attempts and nothing that
`sms_dispatcher.py` does.

## 4. Findings

| Run | Where | What |
|---|---|---|
| `payments_race` | `payment_service.py:45-50` | the balance is checked without locking the invoice |
| `registration_reuse` | `register_service.py:10` | a used or expired invite still registers |
| `registration_commit` | `uow/base.py:17` | the COMMIT fails after the compensation's `try` has ended |
| `events_general` | `event_service.py:293` | the DELETE of a general event with contributions breaks a foreign key, which the mocked test cannot see |
| `passwords_moved` | `login_service.py:92` | the Cognito user is looked up by a number that is not its alias any more |

More disagreements and limits were met that have no run of their own:

- `payment_service.py:55` computes the status from the amount before the column
  rounds it: an amount with a fraction of a cent can leave a covered invoice
  "partial" (`docs/NIB_Membership_Payments_API_Spec_v2.md:52`). This is part
  of the exception `odd` of `StatusAgrees`.
- `event_service.py:180` checks the remaining quantity without a lock, so that two
  members together can pledge more than the item needs (`openapi.yaml:1352`).
  This is the exception `"quantity" \notin raced` of `PledgedWithinNeeded`. Without
  any race the same sentence fails by rounding, as far as two conversions go, and
  for NaN and quantities below zero: `json.loads` accepts NaN, and neither
  `not quantity` nor a comparison stops it (`event_service.py:169`, `183`, `210`).
  Once stored it makes every later check of the item void. These are the other
  exceptions of the property.
- `docs/NIB_Registration_Flow.md:143-149` wants a new member's period `pending` and
  the invoice `issued`; `membership_period_repository.py:24` inserts `active` and
  `invoice_repository.py:53` `unpaid`. `docs/NIB_Membership_Payments_API_Spec_v2.md`
  fits the code: its statement looks for the active period (`:221`). The models keep
  no status of a period, so no property takes a side.
- `docs/NIB_Registration_Flow.md:107` wants send_invite to refuse an invite for a
  second spouse; `invite_service.py` makes no such check.
- `docs/NIB_Registration_Flow.md:184` wants ChangePassword with the caller's
  token; `login_service.py:116-125` tries the current password and then sets the
  new one as an administrator, two calls of which only the first is checked.

## 5. Proofs

Each module of theorems EXTENDS its specification and TLAPS. The assumptions are
the named ASSUMEs of the specification: sentinel values are not real ones, money
due is positive and in whole cents, invites have a relationship, items belong to
one event, requests have the fields of a request, a request has at least one
statement, an event is tried at least once, no two users register with one
number, a column keeps a quantity within `Ulp` and its sign below zero. The
containers of `Payments`, the members of `Events` and the deliveries of `Sms` are
finitely many, because properties speak of a number or a sum of them; nothing else
is assumed about how many containers, rows or requests there are.

Every safety and action property of the runs is a theorem.

- **`SumProofs`**: what the community modules' `SumFunctionOnSet` gives for a set
  with one element more or less, for two functions that agree on it, for one that
  changed at one element, for a part of the set, and between bounds. The
  operator is a fold, and the library's induction on finite sets takes an operator as a
  parameter; the lemmas argue by a smallest counterexample instead, a set of
  least cardinality for which the fact fails, which is a statement about one set
  of numbers. `PaymentsProofs` and `EventsProofs` rest on it.

- **`PaymentsProofs`**: `TypeCorrect`, `NoOverpaymentHolds`,
  `StatusAgreesHolds`, `PaidIffCoveredHolds`, `OverpaymentBoundedHolds`,
  `PaidTakesNoPaymentHolds`, `KeepsAccountsHolds` and `NoCircularWait`. The
  invariant `IInv` is the conjunction of `Typed` (with the rows finitely many, so
  that they have a sum); `Exclusive` (unless an invoice is in `overlapped`, the
  handlers at work on it delete one and the same payment); `RowsInv` (an id names
  one row, stored amounts are whole cents and not below zero, and a DELETE takes
  off an amount of the invoice its handler read); `RowsHeld` (a row that a DELETE
  holds is still in the table with the amount noted, no two handlers hold one
  row, a handler that holds none takes nothing off); and `Ledger` (unless it
  overlapped, the total that a handler read *is* the SUM now, but for what its
  own DELETE takes off, so the check made then still holds at the write; and sum
  and status agree). Without `ReadsHold` in the last part `NoOverpayment` is not
  inductive: nothing would tie `req[c].total` to the rows. Without `RowsHeld` two
  deletes of one payment could both take its amount off (`DeletedOnce`: if one of
  them writes and another stands before its own write, the writer held no row and
  changes nothing). `PaidAfterWrite` and `PaidAfterDelete` say what the SUM becomes
  with a row more or less, `PaidNonNegative` that it is not below zero, on which
  the status and the accounts depend. `OverpaymentBounded` needs one more,
  `RaceBounded`: what is paid and what the handlers that have passed their check
  may still add (`InFlight`) stay together within the number of containers times
  what is due; a handler that passes its check now may add no more than is left of
  one times what is due.
  `NoCircularWait` is the safety part of `EveryRequestReturns`: whoever holds a row
  that a DELETE waits for waits for nothing itself.
- **`RegistrationProofs`**: `TypeCorrect`, `EveryMemberCanLogInHolds`,
  `NoUserForgottenHolds`, `EveryMembershipBilledHolds`,
  `SpouseSharesMembershipHolds`, `InviteNamesItsMemberHolds` and
  `KeepsInviteLifeHolds`. `Typed` adds to the types what the program counter says
  of the local variables (`Bound`); `Owned`: no two handlers hold one user, what
  a handler holds is neither free nor a member yet, it is verified from the
  INSERT on, and any other user without a member has a cause. Without the
  exclusiveness a compensation could delete the user of another request.
  `Joined` is the invariant of the rows: what a handler is about to commit
  (`Fits`) matches the invite it read although the invite may change below it,
  and the numbers that are held but not committed differ from each other and from
  those stored (`NumbersDiffer`) for any way to write them, because the INSERT
  refuses a text that is taken.
- **`EventsProofs`**: `TypeCorrect`, `NoOrphansHolds`, `CompletedIsFinalHolds`,
  `ItemsOnPledgeEventsHolds`, `PaidPledgeStandsHolds`, `PledgedWithinNeededHolds`.
  The invariant adds `Serves` (what a handler found is still of the event of its path, and a
  pledge once found stays, because no code deletes one), `MeetingsNoted` (a patch
  of the status that is served beside another request is on record) and
  `CompletedIsQuiet` (nobody is at work on an event that became completed
  unrecorded). The last is why `CompletedIsFinal` holds: the handlers read the
  status only once, at the start. `Undisturbed` generalises this to every kind of
  conflict: `Met` says that two requests in service have their conflicts on
  record, `Decided` that what a handler found before it writes still holds or a
  conflict is noted. `Affordable` is its form for quantities: what a handler is
  about to write fits what is left of the item at that moment, give or take two
  conversions (`Affords`, `Enough`), not only what was left when it looked, or the
  conflict `quantity` is on record, or a quantity is NaN or below zero (`Sound`,
  `UnsoundBeside`), and what is pledged is within what is needed (`Within`).
  `PassedIsEnough` is the arithmetic: the error of `float()` and that of the column
  are paid once, by the last pledge, because each check starts from the exact sum
  of the rows. What is left is a sum over the
  members; the section "What is pledged of an item" says how it changes with each
  write, and that a member's own pledge counts once whether it is created or
  replaced.
- **`SmsProofs` and `InvitesProofs`**: `SmsInv` says that a dispatcher has its
  delivery for itself, that a delivery has been tried as often as its state needs,
  and that the texts of a message are its doubts and the deliveries `Sent`, of
  which every step changes one at most (`SmsInvFinish`); it is proved of `Sms` alone and cited by `InvitesProofs`, which
  proves `TypeCorrect`, `OnePendingInviteHolds`, `SentIffStoredHolds`,
  `OneTextPerAnswerHolds`, `InvitesStrangersHolds` and `KeepsInviteLifeHolds`.
  `Serves` there is the heart: between two checks of send_invite what the first
  one found stays true unless the number is in `met`. Two containers at one
  overdue invite are why `Expire` of `InviteLife` may leave `reading` as it is.
- **`PasswordsProofs`**: `TypeCorrect`, `OwnPasswordHolds`,
  `OneResetPerCodeHolds`, `TextedIffStoredHolds`, `LatestCodeOnlyHolds`. `Serves`
  ties a handler's number and code to its member and to `held`; `Unborn` and
  `NobodyShares` keep a code with the request that generated it; `IsLatest` says
  that no later code is valid but those in `late`; `CountedUses` counts: a code
  that is not marked has set at most as many passwords as it had slips, and one
  more only while a request is about to mark it. `OneResetPerCode`
  alone is not inductive: a second request could stand before SetPassword.
- **`UnitOfWorkProofs`**: `TypeCorrect`, `NoLeftoversHolds`,
  `OneErrorPerAccidentHolds` and `IsAtomicHolds`, the refinement: initial states
  map to initial states and every step to a step or a stutter. The invariant has
  `Transaction` (what the open transaction holds at each step of the handler:
  exactly the rows of the statements done, while the connection is good),
  `Whole` (committed rows are those of whole requests, and an unanswered request
  has some only if its handler is about to answer) and `Accounted` (errors given
  and still owed are covered by accidents).

**Where the exceptions come from.** Four theorems say that the history variables
except no more than they should. If requests are served one after the other
(`OneAtATime`), `overlapped`, `raced`, `shared` and `late` stay empty, so
`NeverOverpaidAlone`, `ChecksHoldAlone` and `OneResetPerCodeAlone` state the
limits of `Payments`, `Events` and `Passwords` without them; what is left are
amounts and quantities below zero, quantities that are NaN, rounding, and the
failures that `slips` counts: none of them a race, and no lock would mend them. And
`StableUntilMoved`: the claim that `passwords_moved` refutes holds until the first
change of a number. With `payments_race` and `passwords_moved` this says that the
race and the change of a number are not one cause of those findings but the cause.

The refinements (`KeepsInviteLifeHolds` twice, `IsAtomicHolds`,
`KeepsAccountsHolds`) are proved as initial states to initial states, and every
step to a step or a stutter.

**Only model-checked.** `EveryRequestReturns`: liveness under fairness is beyond
the prover (`NoCircularWait`, its safety part, is proved).
The disagreements of section 4 are counterexamples that TLC finds.

## 6. Not modelled

- Reading operations (get_statement, get_event, list_*, get_my_*): they change
  nothing and return one snapshot per statement.
- The other columns of patch_member (names, address, `member_role`, `status`):
  each is one UPDATE of the row that no later step of a modelled handler depends
  on. The roles that a handler checks are inputs (`Executives`).
- login and refresh: calls to Cognito without state of the system.
- Validation and formatting of single messages (`models/`, `serializers/`),
  tracing, Terraform, CI: no state.
- `pledge_service.py`: nothing imports it; `event_service.py` has the operations
  that run.
- A retry by the client. No request carries a key that would tell a retry from a
  second request, so nothing could be stated beyond what the models already have:
  the request may be sent again.
- A quantity in a body that is Infinity (`json.loads` accepts it too: one above what
  is left is refused, one in `add_items` sets no limit) or no number at all (the
  comparison or the INSERT raises, which is `Abort`).
- That two random codes are equal: an invite's code is UNIQUE and its INSERT
  raises, which is the failing branch of `InsertAndPublish`; of two equal reset
  codes of one member the newer token is compared, as it is of two different ones.
- Texts of reset codes beyond the topic: the dispatcher treats them like those of
  invites, with which `Sms` is composed.
- PostgreSQL beyond single-statement visibility, row locks of DELETE, foreign
  keys and UNIQUE constraints; Cognito beyond users, aliases, passwords and
  failures.

## 7. Plan

1. **Done**: `Payments` with `Accounts`, `Registration`, `Events`, `UnitOfWork`
   with `AtomicRequests`; `InviteLife`, `Invites` with `Sms`; `Passwords`; their
   runs; type correctness of each, every safety and action property of the runs
   and the four refinements, as theorems.
2. **Life of a pledge**: a contract like `InviteLife` that `Events` implements.
3. **Roles**: an executive whose role is taken away while a request of its is
   served (`payment_service.py`, `event_service.py`, `member_service.py`).
4. A run for the stale connection of section 2 (`README.md:222`).
