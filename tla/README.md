# A verification project for gopay-app

gopay-app manages GoPay accounts (signup, login, PIN, change of phone, deactivation), receives
one-time codes and delivers them to the workflows that wait for them, and carries out payments.
Its own state lives in Redis (accounts, workflow jobs, OTP waits) and in the memory of the
payment service; n8n workflows drive it over HTTP, a phone relays WhatsApp codes to it.

This directory holds TLA+ modules translated from that code, TLC configurations that check them,
and theorems checked by TLAPS. Sections: 1 inventory, 2 plan, 3-9 the models with their runs and
theorems, 10 findings and divergences, 11 what is proved and what is only checked,
12 what is not modelled.

## 1. Inventory

| component | state | operations | interacts with | what is hard | what makes it correct |
|---|---|---|---|---|---|
| OTP waits and delivery (`appsvc/store_channel_otp*.go`, `channel_otp_wait.go`, `otp_submit.go`, `otp_webhook.go`, `action_gateway_channel_otp.go`) | Redis: wait per job, index sets per target key and account, claim per job, latest code per key | await (look up, register), submit (save, match, claim, post, delete), manual submit | called by n8n, relay, dashboard; posts to n8n | every Redis command interleaves with other handlers; expiry of four kinds of key; posts whose answer is lost; aborts half-way; retries | an open wait can be found; one poster at a time; the right target's code in the right window; no code stranded; a parked job is resumed |
| WhatsApp relay (`whatsapp-relay/`) | fingerprints of notifications (memory), work queue (WorkManager), the saved address | callbacks of notifications, queueing, sending, retry | the phone's system; posts to the webhook | the process dies between any two steps; notifications show old messages anew; answers are lost | no remembered code is queued again; both sides agree on an end; a code on the screen is settled |
| Payment flows (`paymentsvc/server_payment.go`, `flow_store.go`, `gopay_completion.go`, `gopay_linking_flow.go`) | in-memory map of flows, each with an HTTP session and a state map | start, resend, complete, confirm, cancel | called by appsvc over gRPC, calls Midtrans and GoPay | handlers share a flow without owning it; a retried call; cancel under a running completion; restart | at most one charge per flow; "settled" is never answered of an unpaid charge; one owner closes a session; a payment by hand can be confirmed until given up |
| Payment protocol (`paymentsvc/midtrans_*.go`, `gopay_linking_api.go`, `qris_payment.go`, ...) | none beyond a call | linking, consent, charge, each with retries | Midtrans, GoPay | a request that was executed although its answer is an error | what is charged and not kept is of no use; linking is bounded; a start is one preparation and one charge |
| Account authentication (`signup_*.go`, `login_*.go`, `pin*.go`, `token_*.go`, `rpc_*.go`, `flow_*.go`) | the account's state map: stage, pending codes, tokens, windows | start, retry, complete of each flow; token check and refresh; expiry | called by action handlers and by RPC, calls GoPay | any call at any stage; provider failures between steps; stages that overwrite one another | a stage implies the keys it needs; codes in time; "ready" is verified; a token is not lost |
| Change of phone, deactivation, unlinking (`change_phone*.go`, `deactivate.go`, `operations_unlink.go`) | same | start, retry, complete | same | the code is consumed before the change is confirmed; two tokens in one state | an account is moved before it is deactivated, and only one that was moved is |
| Workflow jobs (`action_gateway_workflow_*.go`, `action_gateway_state_sync.go`, `action_gateway_*_runtime.go`, the n8n entry workflows) | Redis: one record per job; the copy of the account's state an execution carries | start (save, trigger in a goroutine), every account action, finish, fail | triggers n8n, called back by it | the goroutine races with the workflow; whole states saved over one another; saves that fail silently; nodes tried again | success is true and stored; an outcome stays; the store is never ahead of GoPay; a job ends |
| Account store and the payment RPC (`store.go`, `state_rpc.go`, `profile_rpc.go`, `payment_account.go`, ...) | Redis: state, profile and device of an account | load, save, edit, start of a payment | everything | whole-record last writer wins; failed saves ignored | the token issued last is stored; a PIN is not undone; a payment is covered |
| Proxy runtime leases (`proxy_runtime_*.go`, `settings_workflow.go`, `http_phone_check.go`) | lease fields in the account's state; a record per job; the lease in an external service | acquire, preflight (up to 10), reuse, rotate, release | the external proxy runtime | releases name an account and not a lease; failures half-way | the carried lease is the runtime's, its exit was checked, ephemeral ones are given back |
| Devices (`appsvc/device*.go`, `client_factory.go`, `protocol/app/device_*.go`) | the device in the state and in the device profile | generate, complete, replace at a signup, show | sessions of every action | stored by older versions, completed under other settings after a restart | one consistent device, the same in every action; one transaction id per signup |
| GoPay protocol client (`protocol/app/*.go`) | the session's token and device | every call of the account service | GoPay | headers are set in layers around a signature | the signature covers what is sent; the right authorization to the right host |
| HTTP API, settings, channel names, generated code, dashboard, scripts | none worth modelling | encoding and I/O | third parties | - | outside the reach of a model |

`PROJECT.json` lists every component with its files, and under `hazards` what is hard to test,
line by line, with the properties that would catch it going wrong.

## 2. Plan

Done, in this order: **ChannelOTP** and **PaymentFlow** with their proofs; **PaymentStart**, which
refines PaymentFlow, with its proofs; the account family (**AccountState**, **AccountLogin**,
**AccountSignup**, **AccountMoves**, **AccountAuth**) with the abstract **AccountLife** it
implements, with their proofs; **AccountJobs** with its proofs; **AccountRecords**,
**ProxyLease**, **DeviceIdentity** and **GoPayRequests**, side by side in **ServiceParts**, with
their proofs; **Relay** with its proofs.

Left: a composition of Relay with ChannelOTP in which a code's age on the phone is compared with the
service's time of reception; key expiry of idle accounts.

| module | extends or instantiates | run by | proved in |
|---|---|---|---|
| ChannelOTP | - | MCChannelOTP: `otp_posts otp_live otp_stranded otp_foreign` | ChannelOTPProofs |
| PaymentFlow | - | MCPaymentFlow: `pay_sequential pay_races` | PaymentFlowProofs |
| PaymentStart | instance of PaymentFlow (refinement) | MCPaymentStart: `start_alone` | PaymentStartProofs |
| AccountState, AccountLogin, AccountSignup, AccountMoves, AccountAuth | each the one before; AccountAuth an instance of AccountLife (refinement) | MCAccountAuth: `auth_calls` | AccountAuthProofs |
| AccountJobs | - | MCAccountJobs: `jobs_truth jobs_kept` | AccountJobsProofs |
| ProxyLease, DeviceIdentity, GoPayRequests | - | in ServiceParts | ProxyLeaseProofs; the others in ServicePartsProofs |
| AccountRecords, ServiceParts | ServiceParts extends AccountRecords, with instances of AccountRecords, ProxyLeaseProofs, DeviceIdentity and GoPayRequests | MCServiceParts: `service_parts` | ServicePartsProofs |
| Relay | - | MCRelay: `relay` | RelayProofs |

Every run takes less than five minutes on two cores. Deadlock is not checked anywhere: calls,
messages, leases or losses are bounded in every instance and each of these systems may stop.
Symmetry is used in runs without liveness properties only.

## 3. ChannelOTP

### State and actions

Each Redis command, each `MULTI` and each HTTP call is one action, because handlers of different
requests interleave exactly there; what a handler has read lives in variables of its own.

| model | code |
|---|---|
| `wait[j]` | `channel-otp-wait:job:<job>`: target, `issued_after_unix`, `timeout_seconds`, expiry |
| `index[k]`, `indexExp[k]` | the sets `channel-otp-wait:index:<key>` and `channel-otp-wait:account:<id>` and their expiry |
| `claim[j]` | `channel-otp-wait:claim:<job>`; the owner is a history variable, Redis stores "1" |
| `latest[k]` | `channel-otp-latest:<key>` |
| `pc to recv todo fallback seen ids waits heldAt` | one call of `submitChannelOTP`: where it is, its target and time of reception, the keys still to visit, jobs already seen, the snapshot of matching waits, and when it took its claim |
| `phase round goal issued timeout lookup since otp` | one n8n execution per job: where it is, how often it asked for a code, the target, stamp and timeout it passes to the await action, the keys still to look up, when it parked, the code it went on with |

`Submit`, `SaveLatest`, `Members`, `Load`, `Scanned`, `ClaimWait`, `PostDelivered`, `PostFailed`,
`ReleaseClaim`, `DeletePosted` and `Finish` are the steps of `submitChannelOTP` in the order of
the code; `SubmitManual` is its `manual_once` branch (by account, then by target). `StampIssued`
is `applyOTP` in the start or retry action, `LookupLatest`, `ClearWait` and `RegisterWait` are
`awaitChannelOTP` (and `awaitPaymentChannelOTP`, which only answers differently). `RequestOTP`,
`Park` and `WaitTimeout` stand for the n8n workflow, `Tick` for time and Redis' expiry. `Abort` is
a handler that ends where it stands (Redis error, request cancelled by the webhook's 15 s client,
end of the process); `AwaitError` the same for the await action.

Abstractions: a target is a model value that carries its channel; spelling, trimming and the
"+"-less alias are in `IndexKeys`, which gives the keys in the order `channelOTPIndexKeys`
lists them. A code is identified with the message that carries it. Times are abstract seconds,
starting at 1 because 0 means "not set" in the code. Responses and logs are left out.

The environment: a post reaches the execution, not the wait it was made for (n8n's resume URL
belongs to the execution), and is refused unless the execution is on a Wait node. A workflow may
ask for another code after a time-out or after a code it could not use, under the same job and
possibly for another target, as the change-phone subflow does with a new activation.

### Properties and runs

`Rounds` bounds the requests per job, `MaxTime` the clock; `Faults` says whether posts lose their
answers ("post") and Redis or the process may fail ("store").

| run | shows | bounds |
|---|---|---|
| `otp_posts` | `TypeOK`; `PostMutex`: no two handlers between claim and release of a job that has registered one wait; `CodeInWindow`: no workflow goes on with a code from outside its window | a relayed and a manual message, 1 job, all faults, time 4 with a claim of 2, so that claims and waits expire under handlers |
| `otp_live` | `WaitingJobIsResumed` with a submission that fails on another job's wait and is retried; on the way `RightTarget` (a first wait is resumed only by a code for its target), `ReachableWait` (a wait that would accept a code is listed under every key of its target and account), `ClaimHeldByPoster` (every claim has a handler at work on that job) | 2 jobs of one account, 2 messages, two targets of which one has two index keys; the clock stands still, so nothing is excused by a window closing |
| `otp_stranded` | finding: `NoStrandedCode` is violated | 1 job, 1 message, no faults |
| `otp_foreign` | finding: `NoForeignCode` is violated | 1 job, 1 message, 2 requests, 2 targets, no faults |

Two messages are enough for every race between submissions (the code keeps no list of them and
compares only a claim key), two jobs for sets that are shared. All safety properties are proved for
all times, requests and faults they are stated for (below), which covers what `otp_live`'s short
clock leaves out.

**Fairness.** `FairSpec` asks that a handler that has started, and an await call that has started,
take their next step, and that a failed relayed submission be made again (WorkManager retries it
with backoff until it succeeds or is refused for good). Nothing obliges a code to arrive, a
workflow to ask for one, a Wait node to time out or the clock to move. Manual submissions are not
retried, which is why the liveness run has none: a manual code that fails while holding the claim
does strand another handler's code, since that handler has skipped the wait and reported success.

**Soundness limits.** `PostMutex`, `CodeInWindow` and `RightTarget` speak of a job's first wait.
With several requests they fail for a reason that lies in n8n's resume URLs: a handler may hold a
snapshot of the first wait until the execution is parked again, and its post then resumes the
second Wait node. `WaitingJobIsResumed` is checked with Wait nodes that outlast the window, as for
all subflows but change-phone.

### Findings

- `otp_stranded`: the await handler checks for a stored code and then registers the wait, the submit
  handler stores the code and then looks for waits once. Between the check and the registration a
  code is stored and matched with nobody, and the workflow waits out its node. Looking once more
  after registering would close the gap.
- `otp_foreign`: registering a wait deletes the previous one by the new entry's target, so the job
  stays listed under the old target, and loading a wait does not compare targets: a late code for a
  cancelled activation resumes the job that now waits on another one.

### Theorems

The constants' assumptions: index keys are non-empty sequences of keys, no key is the name of an
account's set, times are naturals, every timeout is shorter than the hour of grace, and a hold (15 s
post) is shorter than a claim (1 min).

- `ChannelOTPProofs!TypeCorrect`: `Spec => []TypeOK`. Strengthened by `MsgShape` and `FlowShape`
  (a handler that takes the head of a list has a list; an execution past its start has a target),
  without which `Head` has no type.
- `ChannelOTPProofs!ReachableCorrect`: `Spec => []ReachableWait`. The property alone is not
  inductive, because a set may expire or get another job's expiry while a wait is open. `IndexInv`
  adds that each listed set outlives the wait's window and that no wait is newer than the clock: a
  registration by anybody at time t gives the set an expiry beyond t plus the grace, and an open
  wait's window ends before that. Deleting under a wrong target only removes the job whose wait is
  gone. The theorem holds for any number of requests and with all faults.
- `ChannelOTPProofs!ClaimsHeld`: without store faults, `Spec => []ClaimHeldByPoster`, over any
  number of requests.
- `ChannelOTPProofs!PostMutexCorrect`: `Spec => []PostMutex` with any faults. `HoldInv` says
  that the claim of a job held by m was set by m when the hold began, so that it outlives the hold;
  `FreshInv` that before its first registration a job has no wait and is in no handler's snapshot,
  so that the deletion preceding the registration takes nobody's claim. Both are needed: releases
  and deletions remove the key whoever set it.

- `ChannelOTPProofs!FirstCodeCorrect`: the code a job goes on with after its first request
  was submitted for a target of that job's, or by hand, and received in the window of that request,
  for any number of requests and with any faults. From it `CodesInWindow` and `TargetsAreRight`:
  `Spec => []CodeInWindow` and `Spec => []RightTarget` where jobs make one request, which is all the
  two properties speak of. A code takes either of two ways: stored and looked up (`CodeInv`: a
  stored code was submitted for a target of that key; `LookupInv`: a job looks under its own keys)
  or posted by a handler that found the wait (`WaitInv`: a first wait is stored and listed as the
  execution has it; `CallInv`: a handler looks under the keys of its target; `ScanInv`: a job it
  found is one its code is for, a wait it holds one its code is due for); `ResultInv` is the goal.
  No handler looks at a job again once it holds the job's wait, so two lemmas about every step do
  the work: `Steady`, a job's target and window stay from its first registration to its next
  request, and `Kept`, a code's target and time of reception stay while it is handled.

Only model-checked: liveness, which is out of the prover's reach.

## 4. Relay

### State and actions

| model | code |
|---|---|
| `arrived`, `tray`, `connected`, `looper` | the phone: messages, what the active notification shows, whether the system has bound the listener, callbacks that wait on the main looper |
| `handling`, `remembered` | one run of `handleNotification`: the address read and the candidates left; `forwardedFingerprints` |
| `url` | `SettingsStore.webhookUrl` |
| `work`, `taken` | the WorkManager requests; what the webhook has passed on |

`Arrive`, `Read`, `Connect`, `Disconnect`, `Die` and `SaveUrl` are what happens to the phone;
`Begin` and `Inspect` are a callback, one candidate at a time, because the process may die between
two; `Forward`, `ForwardUnheard` and `Refuse` are an attempt of `OtpForwardWorker` that the
webhook takes, takes without being heard, and refuses for good. An attempt that fails otherwise
changes nothing. A body stands for all texts of one fingerprint; one code may show as two texts
(the message and its line in an aggregated notification) and is then queued twice, which is what
the code does. The made-up code of the Test button is an ordinary submission of ChannelOTP.

### Properties and runs

`relay`: two messages, the first of which shows as two texts and the second as chat and a code,
two addresses of which one is no route, 2 remembered fingerprints (200 in the code), one loss of
the listener or the process and one change of the address at any point.

- `RelayHolds`: the type invariant; the same text is queued twice in the life of a process only
  after as many other codes as the listener remembers were queued in between; a request reported
  done was passed on, and one given up for good never was, however often answers were lost.
- `ShownCodeSettles`: with an address saved all along, a code that stays on the screen is passed on
  or refused.

**Fairness.** The system rebinds the listener (`NotificationListenerRebinder` asks for it on a
disconnection, at boot and at a package's replacement), the looper runs its callbacks, and some
waiting request is answered at last: WorkManager keeps and repeats them, and an attempt fails for
ever only where the webhook is out of reach for ever. Messages need not arrive, the user need not
read. Codes shown while no address is saved are not handled when one is: the premise of
`ShownCodeSettles` says so.

### Theorem

`RelayProofs!RelayKeeps`: `Spec => []RelayHolds`, for any messages, texts and addresses, and any
number of remembered fingerprints, crashes and losses. The part about queueing again is not
inductive, because it says nothing of the listener's memory. `IInv` says what that is: the texts of
the last requests queued in this life of the process, in their order, each once, and all of them
unless the list is full. So a text that is no longer remembered is behind as many requests as the
list holds, and those are of different texts. Facts about "the first element that ..." come from
`Least` (a set of naturals has a least member, by the library's well-founded induction); it also
types the sequence that `FlattenSeq` joins from the texts of a notification.

## 5. Payments

### State and actions

| model | code |
|---|---|
| `stored`, `st[f]` | `flowStore.items` and the `state` map of a `pendingFlow`: `otp_required`, whether `reference_id` is present, `charge_ref` |
| `mode[f]`, `token[f]` | the charger's tokenization ("manual" for "false" and "qris", else "link") and the flow's snap token |
| `opened`, `closings[f]` | the charger's HTTP session: opened in this process, how often closed |
| `pc op on gave kept answer` | one RPC each: where it is, which it is, its flow, whether it brings a code, the state it works on, its answer |
| `chargedFor`, `paid`, `settled`, `dead` | the providers: which flow a charge reference was made for, references whose money was taken, transactions settled or given up |

`StartPayment`, `Prepare`, `Charge` and `Put` are a start; `Resend` and `Resent` a resend; `Complete`
(first look at the flow's state), `Branch` (the second, unlocked one), `Verify`, `Charge`,
`Validate`, `Process`, `Poll`, `Pop` and `Close` a completion; `Confirm` goes to `Poll` or, for a
linked flow, to `Validate`; `Cancel` pops and closes. `Fails` holds the error returns: it closes a
failed start's session, removes the flow of a failed linked completion, overwrites the state of a
failed manual one with nil, and leaves the flow alone otherwise. A run of requests that touches no
shared state is one step: `Prepare` is loading the transaction, initiating, validating and
consenting to the linking; `Verify` is code, PIN token and PIN; `Validate` is validation,
confirmation and PIN token. `PayByHand`, `Settle`, `Expire` and `Restart` are the environment.

Abstractions: a reference is one the server learned of (a charge whose creation was not answered
can be paid by nobody here), and each charge brings a new one, the worst case for paying twice.
`issued_after_unix` and `otp_resend_count` are written and never read by a decision. A manual flow
is never linked (`StateKept`, proved), so the code's way from a verified code to manual
confirmation (`server_payment.go:96-98`) is not reached and only its nil state is kept. Flow ids are
known to the callers that were answered with them. Retries inside one request belong to the
session's HTTP client.

`PaymentStart` is the start of a payment request by request, where PaymentFlow has `Prepare` and
`Charge`:

| model | code |
|---|---|
| `pc refused attempt linkings` | where a start is, its refused linkings, its next charge body |
| `ref issued otp order flow answer` | the linking reference, `issued_after_unix`, `otp_required`, the charge of its flow, whether it was stored, the answer |
| `linkedBy needs codes chargedBy denied told` | Midtrans and GoPay: references given out, consents that need a code, when codes were sent, charges made, denied, and what the answer to each said |

`Linked`, `LinkedUnheard`, `NotAcceptable` and `RateLimited` are `midtransInitLinking` (a 406 is
tried again `LinkRetryLimit` times, a rate limit once without the authorization);
`ValidateReference`, `Consent`, `ConsentUnheard` and `ResendSMS` the linking at GoPay; `Charge`,
`ChargeDenied`, `ChargeUnreferenced`, `ChargeRefused` and `ChargeUnheard` the bodies of
`midtransCreateCharge`, two for "qris", `ChargeRetryLimit` equal ones otherwise. A request may be
executed although its answer is an error or lost. What the extractors take for a reference, a QR
code or a deep link is the set an answer carries; an answer usable by deep link alone ends the
QRIS attempts and has no reference, so that the start fails and the charge stays open: the model
keeps that. `findBoolField` walks maps in no order, hence `RequiresOTP` is any of the values found.

### Properties and runs

`Exclusive` and `Protocol` say how disciplined callers are, `Crashes` allows one restart.

| run | shows | bounds |
|---|---|---|
| `pay_sequential` | `OneChargePerFlow`: a flow has at most one charge reference in its life | callers disciplined; 2 flows of one transaction, 5 calls, 2 references, a restart. A second charge needs a start, a failed completion and another one: three calls of one flow, two are left for the other flow |
| `pay_races` | `SettledAnswerIsTrue`, `SessionOwned`, `StateKept`, `PaidByHandIsConfirmable`, `TypeOK`; `SessionSettles`: an opened session ends in the map or closed | callers undisciplined; 2 flows of one transaction, so that polling sees the other's payment, 3 calls: a start and two that look the flow up before either removes it; restart |
| `start_alone` | `FlowIsBacked`: a stored flow has its own linking, no code older than the time from which it takes codes, or a charge of its own that was not denied; `StrayIsUnusable`: a charge no flow has is one the call could not know of or use; `LinkingIsBounded`; `StartImplements`: the refinement of PaymentFlow; `StartEnds` | one start of each tokenization, 2 linking retries, 3 charge bodies (2 for "qris"), 3 charges, one reference, time 3. Starts share nothing but the providers' books; the theorems are for any number of them |

**Fairness.** A call under way takes its next step: every request has a timeout, the polls and
retries have limits. No call need be made, no payment made, settled or expired.

**Soundness limits.** `OneChargePerFlow` needs its discipline. With two completions at once, or a
resend on a flow whose start asked for no code, TLC finds a second charge: the service keeps no mark
that a flow is being completed. No document of the repository promises otherwise, so these are
hazards and not findings. "Failed" may be answered of money that was taken (lost answers, polls
running out); the properties speak of "settled". A closed session used by another call is one that
may fail at every request, which every request may anyway.

### Theorems

Assumptions: modes are "link" and "manual", `NoFlow` and `NoRef` are no flow and no reference.

- `PaymentFlowProofs`: `TypeCorrect`, `SettledCorrect`, `SessionsCorrect`, `StateKeptCorrect` and
  `PaidByHandCorrect`, without any discipline and with restarts, from one inductive invariant
  `FlowInv`. The properties are not inductive alone: `CallsOK` ties a call's label to its kind (so
  that an error return is known to remove or to keep the flow), `StartsAlone` says that nobody else
  is on a flow before its start has answered (so that `Put` puts a flow that no call has closed),
  `FlowsOK` that an owned session is not in the map, `ChargesOK` and `LinksOK` that recorded
  references and links are the flow's own, and `ByHand` strengthens `PaidByHandIsConfirmable` to
  references not yet paid, so that it survives the payment.
- `PaymentFlowProofs!OneChargeCorrect`: `Spec => []OneChargePerFlow` if `Exclusive` and
  `Protocol`. `CodesOK` says that a flow in the map asks for a code only while it is uncharged or
  while the completion that charged it is about to remove it; `Alone` that this completion is the
  only call on the flow; `ToCharge` carries "uncharged" from there to the call's own charge.

- `PaymentStartProofs`, for any starts, references, charges and limits: `StartTypes`,
  `FlowsAreBacked`, `StraysAreUnusable`, `LinkingsAreBounded`, and `StartsImplement`
  (`Spec => StartImplements`). The inductive invariant `IInv` has besides the types and
  `StrayIsUnusable` `Unused` (a reference nobody has has had no code, a charge nobody made no
  answer) and for each call `CallOK`: what its label says of its tokenization and answers
  (`Stage`), of its charge (`ChargeOK`) and of its reference's codes (`RefOK`). `LinkingIsBounded`
  adds `LinkOK`, which counts requests by label. Neither the types nor the properties are inductive
  alone: the owner of a reference and the attempt under way come from `CallOK`. `Apart` says that a
  step of one start leaves the part of every other alone, so that each action is treated once. The
  refinement has one lemma per kind of step: `QuietStep` (the mapped state does not move),
  `PrepareStep`, `ChargeStep`, `PutStep`, `FailStep`, `CloseStep`.

`SessionSettles` and `StartEnds` are only model-checked (liveness).

## 6. Account authentication, change of phone, deactivation

### State and actions

The service keeps nothing between two of these RPCs: the caller sends the account's state as JSON
and is answered with the changed one. A call is therefore a function of a *world* (the state and
GoPay's own) to the set of worlds it may end in: GoPay may refuse each request, fail to answer, or
answer with status 201 and no token, and what the state holds by then is what the caller gets, in
the code's order of writes. `AccountState` has the state and the operators on tokens, stages and
windows, `AccountLogin`, `AccountSignup` (with the PIN) and `AccountMoves` (change of number,
deactivation, the calls that only use a token) the functions of the files of these names, under
their names; `AccountAuth` lets a caller make any RPC at any stage.

| model | code |
|---|---|
| `st.stage`, `st.login`, `st.signup`, `st.pin`, `st.change`, ... | `stage` and the keys of each flow (`auth_state_keys.go`, `change_phone.go`): values are kept as what they were issued for |
| `st.token`, `st.tmp` | the access and refresh tokens, and those kept aside for a deactivation (`_tmp_*`): the account they belong to, their life, whether there is a refresh token |
| `st.open` | the windows that still run: of a sent code, of a reusable probe, of a cooldown |
| `gopay` | GoPay: the owner of each number, who has a PIN, which accounts were ever born and moved |

Times are windows that may end at any point (`Pass`), a token's life has three values (longer than
the refresh threshold, usable, over), numbers and accounts are model values.

`AccountLife` is the abstract specification: an account is opened once, moved to another number
before it is deactivated, and a deactivated one is used no more. `LifeSpec` says that the calls
implement it, with `LifeOf` as the refinement mapping from GoPay's books.

### Properties and run

`auth_calls`, with one account and two numbers: a number and the one it is changed to, or a number
and one that is not registered; the two are what reusable probes, pending codes and changes need to
be confused. The RPCs of all families with all windows exceed TLC by far: four callers
each use one family with the logins, signups and token checks it can meet, and every RPC and every
window is in one of them.

- `StateOK`: the type invariant, and each pending stage has the keys its completion reads, though
  other flows' starts, time-outs and token checks write and delete them.
- `CodesInTime`: no code is posted after its window (the completions do not look at it) and none is
  asked for during a rate limit's cooldown.
- `ReadyIsVerified`: who is told that the account is ready is told after GoPay accepted its token
  in that very call; the completions of a login and of the PIN are the exceptions in the code.
- `ChangesAccounted`: the token kept aside is that of an account which was moved and whose number
  the state has; a number is used for `MaxUsage` changes at most, though the limit is read at the
  start and counted at the end.
- `TokenKept`: a token leaves the state only for a new login's or signup's, or the place aside.
- `LifeSpec`: the refinement.

### Theorems

`AccountAuthProofs`, for any numbers, accounts, limits of use and callers: `StateIsOK`,
`CodesAreInTime`, `ReadyWasVerified`, `ChangesAreAccounted`, `TokenIsKept` and `LivesAsPromised`
(`Spec => LifeSpec`), so that what `auth_calls` checks of four callers holds of one that mixes all
RPCs and windows at will. The proof has the shape of the code: a lemma for each function of the
source says what it leaves of a good world, the lemma of an RPC puts those together, and a step of
the system is one call. The properties are not inductive: a completion finds the keys of its stage
because every function in between keeps those of every stage (`Sound`); a number is used at most
`MaxUsage` times because a pending change has a use left (`ChangeOK`); and the account kept aside
has the state's number because nothing else is pending once a number was changed (`MovedOK`).
The refinement follows from what a call may do to GoPay's books: a login or an expiry nothing, a
signup opens an account, a change moves one that was opened, a deactivation ends one that was moved.

## 7. Workflow jobs

### State and actions

| model | code |
|---|---|
| `job` | `workflow-job:<id>`: account, operation, status, whether an error is set |
| `trigger` | the goroutine of `triggerGoPayWorkflowAsync` |
| `exec` | an n8n execution: its node (`pc`, `i`), tries, round, the account's state it was last sent (`snap`), the answer under way (`out`, `ok`), saves lost |
| `store`, `gopay` | the accounts' states in Redis and what became of the accounts at GoPay |

A state is reduced to what GoPay can confirm or deny: a token, a token kept aside, the mark of a
deactivation. `handleWorkflowStart` saves the job and starts the goroutine; `Deliver`,
`TriggerAnswered`, `TriggerFails` and `SaveTriggerFailed` are its POST, which n8n may have received
although it is taken for failed. `loadState`, `Handle`, `saveStateIfAccount`, `LoseSave`, `Proceed`
and `LoseAnswer` are one action of the plan: the handler works on the copy it was sent and saves it
whole. A node is tried three times and a change of number takes at most `MaxRounds` rounds (2; the
workflow's default is 10, and a third round meets nothing a second does not). `finish`,
`markSucceeded`, `fail` and `FinishNotSent` are the last node. Saves that Redis refuses go
unnoticed, as in the code (`state_rpc.go:56`), and are counted in `exec[j].lost`.

`FinishSent` holds the operations whose last node n8n can build a body for: signup,
ensure_pin_setup and deactivate in the workflow files as they are (section 10).

### Properties and runs

| run | shows | bounds |
|---|---|---|
| `jobs_truth` | `StoreIsNeverAhead`: no stored state says of an account what has not happened at GoPay; `SucceededIsTrue`: a job shown as succeeded has done what its operation says | 2 overlapping jobs of one account, signup, change of number and deactivation (those that write what GoPay can deny), one lost save per execution, lost answers |
| `jobs_kept` | `FinishedIsStored`: what a succeeded job did is in the store; `OutcomeKept`: an outcome is not written over; `JobEnds`: a started job ends | 2 jobs one after the other, all six operations, one lost save per execution, no lost answers. `FinishSent` has change_phone too, so that its end is checked as well |

**Fairness.** The goroutine and the execution take their next step: requests have timeouts, n8n
runs its nodes, tries and rounds are limited. `JobEnds` excuses executions that lost a save,
because the mark itself may be the one that is lost.

**Soundness limits.** With lost answers `OutcomeKept` does not hold: a node whose answer was lost is
tried again, so a finish that has marked the job is followed by another. With overlapping jobs the
last save wins; `jobs_kept` is for callers that start one job of an account at a time.

### Theorems

`AccountJobsProofs`, for any jobs and accounts, any number of lost saves, and overlapping at will:

- `JobTypes`; `StoredIsTrue`: `Spec => []StoreIsNeverAhead`; `SuccessIsTrue`:
  `Spec => []SucceededIsTrue`. `IInv` adds to the types and to `StoreIsNeverAhead` for each job
  `JobOK`: the execution is at an action of its plan, its copies claim nothing that is not so
  (`CopiesAreTrue`: they are saved later over whatever is there), an answer that says ok has
  achieved its action (`AnswersAreTrue`), an execution at its last node has done all its operation
  asks for (`MarksAreDue`), and a job that says so too (`EndIsTrue`). The key fact is `Grows`: what
  happened at GoPay is never undone, so a copy that was true stays true however old it is. One lemma
  per action of the gateway shows that it keeps both (`Claims`) and achieves what it answers.
- `OutcomeStays`: `Spec => OutcomeKept` if no answer is lost, from `Phases`: as long as an execution
  runs, its job is marked "started", and a goroutine that may still write has an execution that
  does not run.

- `FinishedStays`: `Spec => []FinishedIsStored` if the jobs of an account do not overlap and an
  execution loses at most one save. `StoredInv` says that an account has one job under way (`Alone`),
  that one no job was started for is as it was at first (`Blank`), and of each account
  (`AccountStored`): what is stored meets what the jobs that succeeded ask for (`Debts`), every copy
  an execution carries meets it too, and one about to succeed has its own as well (`Carries`). The
  copies matter because an execution saves its whole copy over what is stored: a copy loaded before
  another job's success would undo it, which one job at a time excludes.

`JobEnds` is only model-checked (liveness).

## 8. Records, proxies, devices, requests

Four parts that share no state in the models stand side by side in `ServiceParts`: a behaviour of
`PartSpec` is one of one part, and the variables of the others keep their first values. The module
extends AccountRecords, whose constants are its own; where a part is looked at in several ways it
has an instance for each. The instances of ProxyLease are taken from `ProxyLeaseProofs`, which
extends it, so that its lemmas hold of each of them by name. All constants are parameters;
`MCServiceParts` gives them values, `PartConstants` is what they have to be, and the theorems about
`PartSpec` in `ServicePartsProofs` hold for any others that are so.

**ProxyLease.** `runtime` is the external runtime's lease per account id (every release names the
account id, never the lease), `stored` and `call[c].blob` the lease fields in a stored and in a
working state, `record` the `shared-phone-check-proxy:<job>` key. `Checks` are `POST /phone/check`
without a state, `Loops` executions of register-indonesia-wa, `Users` actions on an account that
reuse, replace or rotate the lease they carry. Acquisition and preflight fail at each request, a
release may be refused, a lease expires at any time. Instances: a check and a loop over 2 numbers
with 3 leases and executions that stop; 2 users in turn with 4 leases; 2 at once with 3; 2 preflight
attempts each (10 in the code: each repeats the same release and acquisition).

- `EphemeralLeases`: a proxy made for a check or a number is given back when that is done with, also
  when the acquisition was reported as failed; nobody else ends it while it is used; the record
  under the job names it as long as the runtime holds it.
- `AccountLeases`: in turn, the carried lease is the runtime's until 30 seconds before its expiry,
  unless an acquisition failed or was not stored; also at once, requests go only through exits that
  passed the preflight.

`ProxyLeaseProofs`, for any callers, accounts, attempts and leases that `ProxyLeaseConstants` allows
(`PartConstants` evaluates it for the instances): `LeaseTypes`, `NothingIsLeft`, `EphemeralStays`,
`RecordsCover`, `ExitsAreChecked` and, for actions in turn, `CarriedStaysLive`.
`EphemeralLeasesHold` and `AccountLeasesHold` put them together for the three instances, whose part
alone moves their variables. For checks and loops `LeaseInv` says that a call works under the
identity of its turn (`GuestOK`), that the runtime holds a lease for an identity only in its turn,
unless a release was refused (`EphemeralLease`), and that the job's record names it (`Recorded`);
for accounts that every lease in a call or a stored state was checked (`UserOK`, `StoredOK`).
`TurnInv` adds, for actions in turn, that two actions at work are on different accounts, that an
action which asked the runtime uses what it was granted and one that did not uses what is stored
(`UserLease`), and that a stored lease is the runtime's while no action is at work (`AccountLease`).

**AccountRecords.** State, profile and device of an account, loaded, worked on and saved whole by
payments, profile edits, device generation and actions; no lock, no version. Saves and loads may
be refused; what a refused save leaves is as in the code (a job's save goes on to the profile, a
failed `SaveGopayAccountState` is not noticed, a payment of an unknown account with "qris" creates
its record). Instances: two calls in turn with 1 account, 2 tokens, 1 PIN, 2 devices and two
balances ("records"); and, with no save refused and no tokens, two overlapping ones that save
profiles and devices ("edit").

- `TokenStored`: the token in the store is the one GoPay issued last, also after a payment that was
  refused once its token had been renewed. `PINKept`: the profile has the PIN saved last, unless two
  writers overlap. `RecordsHeeded`: a payment is handed on only if the balance told last covers it,
  one by linking only with the profile's PIN; an account keeps its device.

`ServicePartsProofs`, for any accounts, callers, amounts and numbers of tokens, PINs and devices:
`RecordTypes`, `TokensStored`, `PINsKept` and `RecordsAreHeeded`. The invariant `RecordsInv` says of
an account that no lost save and no overlap has spoiled: one call works on it (`Alone`); its profile
has the last PIN, and its state the last token and the balance told last, unless a call is about to
save a state (`AccountOK`, `Fresh`, `Saving`); and the copies that call carries are of now too, a
payment about to be handed on is covered and has a PIN where it needs one (`Carries`). None of this
follows from the properties: a copy is stored long after it was loaded, over whatever is there.

**DeviceIdentity.** A device is a function from its fields to values that remember for which
platform and with which draw they were made. The environment changes at a restart; older versions
stored devices without some fields. Instance: four environments (the defaults; Android with random
hardware; a later version and a pinned TLS profile; a static identity), three sets of missing
fields, two devices made.

- `DeviceIsWhole`: a complete device stays that of one platform, phone and app version; no action
  lacks an identifier; a signup has the service's own version. `FaceKept`: between the actions of an
  account only the transaction id differs, and the attempts at one signup share the first one's.
- As the code is: `_signup_probe_transaction_id` is never cleared, `ensureDevice` drops
  `profile_id`, a static identity has no address and is completed anew at every use, and an iOS
  device with missing fields gets Android's GMS version after a restart as Android.

Proved for any environments, restarts, stored devices and number of devices made: `DevicesAreWhole`
and `FacesAreKept`. One assumption is about the past (`DeviceIdentityConstants`): a device that an
older version stored lacks one of the fields for which `deviceNeedsBackfill` asks, or at most those
that not every platform has; one that lacked another field only would be sent as it is. The
properties are not inductive: a device is completed long after it was stored, perhaps in another
environment, and by whichever call comes first. `DevicesInv` adds that each stored device is
nothing, will be completed or lacks nothing (`OldDevice`), that one called whole needs nothing, so
that no later environment touches it (`Faced`), that the version is one of the app's, and that a
transaction id tells no platform, so that a signup may put the first attempt's into another device.
`NewDeviceIs` is the lemma about what is made, `DeviceEnsured` that about what is completed.

**GoPayRequests.** Every call of the account service (`Calls`) with its client, host, method and
path, and the headers in the order in which the client's policy, the session and the caller set and
remove them; the signature of each version over what it is given. Includes unlinking by an address
GoPay sent, envelopes, the refresh with a token that may be empty, and the captured template.

- `RequestsHold`: a signature covers the request it is sent with (authorization, address, method,
  body, each part of the device); a call for an account has that account's token, a login or signup
  never the one the state may still have, and no token goes to a host that is not the client's own.

Proved for any tokens and devices: `RequestsAreRight`. What was sent is the request of one of the
calls in a session as its client made it (`Made`, `Opened`), though the state has changed since. The
rest is about headers, by who sets them: a client's policy names no host, no digest and no
authorization but a blank one, and shows the device in all of `Identity` (`Policed`); a caller adds
an authorization only for nobody (`Called`); so the merged headers carry the session's token where
there is one (`HeadersAreHeaded`), and every field a signature covers is in `Identity` and shown as
it is signed (`SignedFields`). The one assumption: an access token is neither absent nor empty
(`AbsentAssumption`), as `storeTokenResponse` sees to.

## 9. The runs together

Twelve runs: ten that pass and two findings. Questions that share an instance share a run, so that
the whole project is checked in about a quarter of an hour.

## 10. Findings and divergences

`otp_stranded` and `otp_foreign` are runs (section 3). The others were met while the modules were
written; each model does what the code does:

- `appsvc/login_start.go:37` stores the new phone before `reusableLoginProbe` compares the stored
  phone with it (`flow_login_state.go:26`), so the guard is always true and a login to a second
  number posts the verification id of the first, which GoPay refuses.
- `proto/gopay_app.proto:363` says that AuthStart's mode is "token" or "login" and that a signup
  goes through SignupStart; AuthStart starts a signup itself (`rpc_more.go:56`) with mode "signup".
- `proto/gopay_app.proto:527` says that CheckPhone returns the state as it came; a probe of a
  registered number writes itself, the phone and the stage "login" into it (`phone_probe.go:42`).
- `proto/gopay_app.proto:249` says that an empty channel means sms; a signup's default is
  WhatsApp (`signup_otp_start.go:48`).
- The last nodes of the login, check-balance, check-pin and change-phone workflows have a jsonBody
  that begins with `={ {` instead of `={{ {` (`gopay-account-login.workflow.json:137`): n8n sends
  the text as it stands, the gateway cannot decode it, and the job stays "started".
- `finish` returns an error when its save fails (`action_gateway_state_sync.go:13`), but
  `SaveGopayAccountState` reports a failure in a response that is discarded (`:112`): with a save
  refused by Redis a job succeeds and the state is lost. Runs that lose saves show what still holds.
- The nodes that release the shared proxy ask for three tries and for errors to be hidden
  (`gopay-account-register-indonesia-wa.workflow.json:254`, `:268`): nothing is repeated.
- `proto/gopay_app.proto:740` says that a payment's amount is checked against the balance; when the
  balance call fails, the balance last stored is used (`token_check.go:35`).
- `docs/gopay-protocol-danops-pr28.md:7` says the headers target version 2.8.0; the defaults are
  2.7.0 (`protocol/app/device_defaults.go:4`). Its line 15 says one Safari profile is bound; the
  pool also has profiles of other apps (`protocol/browser_http.go:35`).
- `docs/gopay-protocol-danops-pr28.md:5` says that payments are intentionally not implemented here;
  they are.
- `whatsapp-relay/README.md:51` says that candidate notifications are posted to the webhook; one
  whose fingerprint was queued before is skipped whatever its time
  (`WhatsAppNotificationListenerService.kt:59`), so a code sent anew in the same words is not.
- A code entered by hand whose post comes too early is not tried again, and its claim turns a
  relayed code away meanwhile (section 3, fairness).
- The case "await-channel-otp" of `invokeGoPayPaymentAction` is never reached.

## 11. What is proved and what is only checked

Proved by TLAPS for every value of the constants: the types; all safety properties of
ChannelOTP that its runs check; all of PaymentFlow and PaymentStart and the refinement between them;
all of the account family and its refinement of AccountLife; `StoreIsNeverAhead`,
`SucceededIsTrue`, `FinishedIsStored` and `OutcomeKept` of AccountJobs; `TokenStored`, `PINKept` and
`RecordsHeeded` of AccountRecords; all of ProxyLease, DeviceIdentity and GoPayRequests;
`RelayHolds`. These are all the safety properties that a passing run checks. Each section names the
assumptions: faults, overlap or lost saves where the code does not hold otherwise.

Only model-checked: liveness under fairness (`WaitingJobIsResumed`, `ShownCodeSettles`,
`SessionSettles`, `StartEnds`, `JobEnds`), which is out of the prover's reach. `TokenStored`,
`PINKept` and `RecordsHeeded` are proved of AccountRecords' own specification with any constants,
the run checks them of `PartSpec`, whose part "edit" gives that specification other constants.

## 12. Not modelled

- The payment actions of the gateway (`action_gateway_payment_runtime.go`) turn requests into the
  RPCs of section 5, and `CompleteGopayPayment`, `ResendGopayPaymentOTP`, `ConfirmGopayPayment` and
  `CancelGopayPayment` of the account service hand theirs on; the repository has no n8n workflow that
  makes payments, so who calls them in which order is PaymentFlow's environment.
- Texts: spelling of numbers, channels and actions, header wordings, digits of identifiers, ciphers.
- The HTTP client's own retries (`fingerprinthttp`) and TLS.
- Expiry of the keys of an account nobody uses: states, profiles and devices have one TTL.
- HTTP routing, settings, generated code, the dashboard and the scripts encode, draw or configure; a
  model would say nothing the code does not.
