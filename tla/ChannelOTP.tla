---------------------------- MODULE ChannelOTP ----------------------------
(***************************************************************************)
(* Delivery of one-time codes to waiting workflows (appsvc).               *)
(*                                                                         *)
(* A workflow job that has asked the provider for a code calls the await   *)
(* action; the handler looks for a stored code and otherwise registers a   *)
(* wait in Redis, and n8n then parks the execution on a resume URL.  An    *)
(* incoming code is stored, matched against the registered waits and       *)
(* posted to their resume URLs under a claim key.  Handlers run            *)
(* concurrently; every Redis command or MULTI and every HTTP call is one   *)
(* step here, and what a handler has read is kept in its own variables.    *)
(*                                                                         *)
(* `now' counts abstract seconds from 1, so that no time stamp is 0 (the   *)
(* code's "not set").  Redis removes a key when its TTL ends: Tick.        *)
(***************************************************************************)
EXTENDS Integers, Sequences, FiniteSets

CONSTANTS
  Msg,        \* incoming code messages (a relay work item, an SMS event, ...)
  Manual,     \* those entered by hand on the dashboard (manual_once)
  Job,        \* workflow jobs
  Target,     \* channel-qualified targets: phone numbers, activations, accounts
  Account,    \* GoPay accounts
  Key,        \* index keys derived from targets
  IndexKeys,  \* [Target -> Seq(Key)]: channelOTPIndexKeys, in the code's order
  AccountOf,  \* [Job -> Account]
  Goals,      \* [Job -> SUBSET Target]: what a job's rounds may wait on
  Timeouts,   \* values of otp_timeout_seconds
  Grace,      \* the hour a wait outlives its timeout
  ClaimTTL,   \* life of a claim key: one minute
  HoldLimit,  \* longest a handler holds a claim: the 15 s post and its cleanup
  LatestTTL,  \* life of a stored code: 30 minutes
  WaitLimit,  \* how long n8n stays on a Wait node
  Rounds,     \* bound: code requests per job
  MaxTime,    \* bound: clock
  Faults,     \* which of "post", "store" may fail
  NoOne, NoTarget

IndexKey == Key \cup Account

ASSUME IndexKeysAssumption ==
  IndexKeys \in [Target -> {s \in Seq(Key) : s # << >>}]
ASSUME JobAssumption ==
  AccountOf \in [Job -> Account] /\ Goals \in [Job -> SUBSET Target]
ASSUME TimingAssumption ==
  /\ Timeouts \subseteq Nat /\ Grace \in Nat /\ ClaimTTL \in Nat
  /\ HoldLimit \in Nat /\ LatestTTL \in Nat /\ WaitLimit \in Nat
  /\ Rounds \in Nat /\ MaxTime \in Nat
  /\ HoldLimit < ClaimTTL
  /\ \A t \in Timeouts : t < Grace
ASSUME NamesAssumption ==
  /\ NoTarget \notin Target /\ NoOne \notin Msg /\ Manual \subseteq Msg
  /\ Key \cap Account = {}   \* "...:index:" and "...:account:" in the code

VARIABLES
  now,
  \* Redis
  wait,      \* channel-otp-wait:job:<job>, with its expiry
  index,     \* channel-otp-wait:index:<key> and channel-otp-wait:account:<id>
  indexExp,  \* when an index set expires
  claim,     \* channel-otp-wait:claim:<job>; the owner is history, Redis stores "1"
  latest,    \* channel-otp-latest:<key>
  \* one submitChannelOTP call per message
  pc, to, recv, todo, fallback, seen, ids, waits, heldAt,
  \* one n8n execution per job, with its call of the await action
  phase, round, goal, issued, timeout, lookup, since, otp

storeVars == <<wait, index, indexExp, claim, latest>>
msgVars   == <<pc, to, recv, todo, fallback, seen, ids, waits, heldAt>>
flowVars  == <<phase, round, goal, issued, timeout, lookup, since, otp>>
vars      == <<now, storeVars, msgVars, flowVars>>

NoWait  == [target |-> NoTarget, issued |-> 0, timeout |-> 0, exp |-> 0]
NoClaim == [owner |-> NoOne, exp |-> 0]
NoCode  == [msg |-> NoOne, recv |-> 0, exp |-> 0]
NoOTP   == [msg |-> NoOne, recv |-> 0]

Keys(t) == {IndexKeys[t][i] : i \in DOMAIN IndexKeys[t]}

\* Mutant: keys that do not tell targets apart.
IndexesOfAny(j, t) == Key \cup {AccountOf[j]}

\* Every set that lists job j waiting on target t.
IndexesOf(j, t) == (IF t \in Target THEN Keys(t) ELSE {}) \cup {AccountOf[j]}

InWindow(r, i, t) == i <= r /\ r <= i + t

\* Mutant: a code from before the request is accepted.
AcceptsEarly(j, r) == wait[j] # NoWait /\ r <= wait[j].issued + wait[j].timeout

\* channelOTPWaitAccepts on what Redis holds for job j now.
Accepts(j, r) == wait[j] # NoWait /\ InWindow(r, wait[j].issued, wait[j].timeout)

-----------------------------------------------------------------------------
(* Init: an empty store, no call under way.                                *)

Init ==
  /\ now = 1
  /\ wait = [j \in Job |-> NoWait]
  /\ index = [k \in IndexKey |-> {}]
  /\ indexExp = [k \in IndexKey |-> 0]
  /\ claim = [j \in Job |-> NoClaim]
  /\ latest = [k \in Key |-> NoCode]
  /\ pc = [m \in Msg |-> "idle"]
  /\ to = [m \in Msg |-> NoTarget]
  /\ recv = [m \in Msg |-> 0]
  /\ todo = [m \in Msg |-> << >>]
  /\ fallback = [m \in Msg |-> << >>]
  /\ seen = [m \in Msg |-> {}]
  /\ ids = [m \in Msg |-> {}]
  /\ waits = [m \in Msg |-> << >>]
  /\ heldAt = [m \in Msg |-> 0]
  /\ phase = [j \in Job |-> "idle"]
  /\ round = [j \in Job |-> 0]
  /\ goal = [j \in Job |-> NoTarget]
  /\ issued = [j \in Job |-> 0]
  /\ timeout = [j \in Job |-> 0]
  /\ lookup = [j \in Job |-> << >>]
  /\ since = [j \in Job |-> 0]
  /\ otp = [j \in Job |-> NoOTP]

-----------------------------------------------------------------------------
(* The wait store.                                                         *)

\* Mutant: the claim key is left to expire.
DeleteKeepingClaim(j, t) ==
  /\ wait' = [wait EXCEPT ![j] = NoWait]
  /\ index' = [k \in IndexKey |-> index[k] \ {j}]
  /\ UNCHANGED claim

\* Mutant: the job leaves the sets but its wait stays.
DeleteKeepingWait(j, t) ==
  /\ claim' = [claim EXCEPT ![j] = NoClaim]
  /\ index' = [k \in IndexKey |-> index[k] \ {j}]
  /\ UNCHANGED wait

\* One MULTI: the job's wait and claim go, and the job leaves the sets that
\* the GIVEN target names, which need not be those of the wait stored.
DeleteChannelOTPWait(j, t) ==
  /\ wait' = [wait EXCEPT ![j] = NoWait]
  /\ claim' = [claim EXCEPT ![j] = NoClaim]
  /\ index' = [k \in IndexKey |->
                 IF k \in IndexesOf(j, t) THEN index[k] \ {j} ELSE index[k]]

-----------------------------------------------------------------------------
(* submitChannelOTP.                                                       *)

Goto(m, label) == pc' = [pc EXCEPT ![m] = label]

\* A code arrives for a target, or a relay retries a submission that failed;
\* either way the time of reception is the time of this call.
Submit(m) ==
  /\ m \notin Manual /\ pc[m] \in {"idle", "failed"}
  /\ \E t \in Target :
       /\ pc[m] = "failed" => t = to[m]
       /\ to' = [to EXCEPT ![m] = t]
       /\ todo' = [todo EXCEPT ![m] = IndexKeys[t]]
  /\ recv' = [recv EXCEPT ![m] = now]
  /\ Goto(m, "save")
  /\ UNCHANGED <<now, storeVars, flowVars, fallback, seen, ids, waits, heldAt>>

\* The dashboard's manual_once: by account, then by target if that finds none.
SubmitManual(m) ==
  /\ m \in Manual /\ pc[m] = "idle"
  /\ \E t \in Target \cup {NoTarget}, a \in Account \cup {NoOne} :
       /\ t # NoTarget \/ a # NoOne
       /\ to' = [to EXCEPT ![m] = t]
       /\ LET keys == IF t = NoTarget THEN << >> ELSE IndexKeys[t] IN
          /\ todo' = [todo EXCEPT ![m] = IF a = NoOne THEN keys ELSE <<a>>]
          /\ fallback' = [fallback EXCEPT ![m] = IF a = NoOne THEN << >> ELSE keys]
  /\ recv' = [recv EXCEPT ![m] = now]
  /\ Goto(m, "members")
  /\ UNCHANGED <<now, storeVars, flowVars, seen, ids, waits, heldAt>>

\* SaveLatestChannelOTP: one SET per index key.
SaveLatest(m) ==
  /\ pc[m] = "save"
  /\ latest' = [latest EXCEPT ![Head(todo[m])] =
                  [msg |-> m, recv |-> recv[m], exp |-> now + LatestTTL]]
  /\ IF Len(todo[m]) > 1
       THEN todo' = [todo EXCEPT ![m] = Tail(@)] /\ UNCHANGED pc
       ELSE todo' = [todo EXCEPT ![m] = IndexKeys[to[m]]] /\ Goto(m, "members")
  /\ UNCHANGED <<now, wait, index, indexExp, claim, to, recv, fallback,
                 seen, ids, waits, heldAt, flowVars>>

\* PendingChannelOTPWaits, PendingAccountOTPWaits: SMEMBERS of the next set ...
Members(m) ==
  /\ pc[m] = "members"
  /\ ids' = [ids EXCEPT ![m] = index[Head(todo[m])] \ seen[m]]
  /\ seen' = [seen EXCEPT ![m] = @ \cup index[Head(todo[m])]]
  /\ Goto(m, "load")
  /\ UNCHANGED <<now, storeVars, to, recv, todo, fallback, waits, heldAt, flowVars>>

\* Mutant: a wait that is gone is kept like one that accepts the code.
LoadUnchecked(m) ==
  /\ pc[m] = "load"
  /\ \E j \in ids[m] :
       /\ ids' = [ids EXCEPT ![m] = @ \ {j}]
       /\ waits' = IF wait[j] = NoWait \/ Accepts(j, recv[m])
                     THEN [waits EXCEPT ![m] =
                             Append(@, [job |-> j, target |-> wait[j].target])]
                     ELSE waits
  /\ UNCHANGED <<now, storeVars, pc, to, recv, todo, fallback, seen, heldAt, flowVars>>

\* ... then one GET per job listed, keeping the waits that accept the code ...
Load(m) ==
  /\ pc[m] = "load"
  /\ \E j \in ids[m] :
       /\ ids' = [ids EXCEPT ![m] = @ \ {j}]
       /\ waits' = IF Accepts(j, recv[m])
                     THEN [waits EXCEPT ![m] =
                             Append(@, [job |-> j, target |-> wait[j].target])]
                     ELSE waits
  /\ UNCHANGED <<now, storeVars, pc, to, recv, todo, fallback, seen, heldAt, flowVars>>

\* ... and on to the next set, the fallback target, or the posts.
Scanned(m) ==
  /\ pc[m] = "load" /\ ids[m] = {}
  /\ LET rest == Tail(todo[m])
         redo == rest = << >> /\ waits[m] = << >> /\ fallback[m] # << >>
     IN /\ todo' = [todo EXCEPT ![m] = IF redo THEN fallback[m] ELSE rest]
        /\ fallback' = IF redo THEN [fallback EXCEPT ![m] = << >>] ELSE fallback
        /\ seen' = IF redo THEN [seen EXCEPT ![m] = {}] ELSE seen
        /\ Goto(m, IF rest # << >> \/ redo THEN "members" ELSE "claim")
  /\ UNCHANGED <<now, storeVars, to, recv, ids, waits, heldAt, flowVars>>

\* Mutant: SET instead of SETNX.
ClaimAlways(m) ==
  /\ pc[m] = "claim" /\ waits[m] # << >>
  /\ claim' = [claim EXCEPT ![Head(waits[m]).job] =
                  [owner |-> m, exp |-> now + ClaimTTL]]
  /\ heldAt' = [heldAt EXCEPT ![m] = now]
  /\ Goto(m, "post")
  /\ UNCHANGED <<now, wait, index, indexExp, latest, to, recv, todo, fallback,
                 seen, ids, waits, flowVars>>

\* ClaimChannelOTPWait: SETNX; a wait somebody else holds is skipped.
ClaimWait(m) ==
  /\ pc[m] = "claim" /\ waits[m] # << >>
  /\ LET j == Head(waits[m]).job IN
     IF claim[j] = NoClaim
       THEN /\ claim' = [claim EXCEPT ![j] = [owner |-> m, exp |-> now + ClaimTTL]]
            /\ heldAt' = [heldAt EXCEPT ![m] = now]
            /\ Goto(m, "post")
            /\ UNCHANGED waits
       ELSE /\ waits' = [waits EXCEPT ![m] = Tail(@)]
            /\ UNCHANGED <<claim, heldAt, pc>>
  /\ UNCHANGED <<now, wait, index, indexExp, latest, to, recv, todo,
                 fallback, seen, ids, flowVars>>

\* postOTPResume reaches n8n: an execution on a Wait node resumes, whatever
\* wait the handler has in hand; the answer, a success, may be lost.
PostDelivered(m) ==
  /\ pc[m] = "post"
  /\ LET j == Head(waits[m]).job IN
     /\ phase[j] = "waiting"
     /\ phase' = [phase EXCEPT ![j] = "resumed"]
     /\ otp' = [otp EXCEPT ![j] = [msg |-> m, recv |-> recv[m]]]
  /\ \/ Goto(m, "delete")
     \/ "post" \in Faults /\ Goto(m, "release")
  /\ UNCHANGED <<now, storeVars, to, recv, todo, fallback, seen, ids, waits,
                 heldAt, round, goal, issued, timeout, lookup, since>>

\* The post fails: n8n refuses an execution that is not on a Wait node, and
\* the request itself may be lost.
PostFailed(m) ==
  /\ pc[m] = "post"
  /\ phase[Head(waits[m]).job] # "waiting" \/ "post" \in Faults
  /\ Goto(m, "release")
  /\ UNCHANGED <<now, storeVars, to, recv, todo, fallback, seen, ids, waits,
                 heldAt, flowVars>>

\* The handler ends; a relay item that failed is tried again later.
EndCall(m, label) ==
  /\ Goto(m, label)
  /\ waits' = [waits EXCEPT ![m] = << >>]
  /\ todo' = [todo EXCEPT ![m] = << >>]
  /\ fallback' = [fallback EXCEPT ![m] = << >>]
  /\ seen' = [seen EXCEPT ![m] = {}]
  /\ ids' = [ids EXCEPT ![m] = {}]
  /\ heldAt' = [heldAt EXCEPT ![m] = 0]
  /\ UNCHANGED <<now, to, recv, flowVars>>

\* Mutant: a post that failed is answered as a success, and never retried.
ReleaseAsDone(m) ==
  /\ pc[m] = "release"
  /\ \/ claim' = [claim EXCEPT ![Head(waits[m]).job] = NoClaim]
     \/ "store" \in Faults /\ UNCHANGED claim
  /\ EndCall(m, "done")
  /\ UNCHANGED <<wait, index, indexExp, latest>>

\* ReleaseChannelOTPWaitClaim deletes the key whoever set it; its error is
\* ignored.  The waits not yet reached are abandoned with an error.
ReleaseClaim(m) ==
  /\ pc[m] = "release"
  /\ \/ claim' = [claim EXCEPT ![Head(waits[m]).job] = NoClaim]
     \/ "store" \in Faults /\ UNCHANGED claim
  /\ EndCall(m, "failed")
  /\ UNCHANGED <<wait, index, indexExp, latest>>

\* After a successful post the wait in hand is deleted; the error is ignored.
DeletePosted(m) ==
  /\ pc[m] = "delete"
  /\ LET e == Head(waits[m]) IN
     \/ DeleteChannelOTPWait(e.job, e.target)
     \/ "store" \in Faults /\ UNCHANGED <<wait, claim, index>>
  /\ waits' = [waits EXCEPT ![m] = Tail(@)]
  /\ Goto(m, "claim")
  /\ UNCHANGED <<now, indexExp, latest, to, recv, todo, fallback, seen, ids,
                 heldAt, flowVars>>

Finish(m) ==
  /\ pc[m] = "claim" /\ waits[m] = << >>
  /\ EndCall(m, "done")
  /\ UNCHANGED storeVars

\* A Redis error, a cancelled request or the end of the process: the call
\* stops where it is and cleans nothing up.
Abort(m) ==
  /\ "store" \in Faults
  /\ pc[m] \in {"save", "members", "load", "claim", "post", "release", "delete"}
  /\ EndCall(m, "failed")
  /\ UNCHANGED storeVars

-----------------------------------------------------------------------------
(* The waiting side: the workflow (external) and awaitChannelOTP.          *)

Enter(j, label) == phase' = [phase EXCEPT ![j] = label]

\* The workflow asks the provider for a code: the first, or after a timeout
\* or a code that was refused, another one, for the same job.
RequestOTP(j) ==
  /\ phase[j] \in {"idle", "resumed", "timedout"} /\ round[j] < Rounds
  /\ round' = [round EXCEPT ![j] = @ + 1]
  /\ \E t \in Goals[j], s \in Timeouts :
       /\ goal' = [goal EXCEPT ![j] = t]
       /\ timeout' = [timeout EXCEPT ![j] = s]
  /\ otp' = [otp EXCEPT ![j] = NoOTP]
  /\ Enter(j, "sent")
  /\ UNCHANGED <<now, storeVars, msgVars, issued, lookup, since>>

\* The start or retry action stamps otp_issued_after_unix once the provider
\* has answered, which can be after the code is on its way.
StampIssued(j) ==
  /\ phase[j] = "sent"
  /\ issued' = [issued EXCEPT ![j] = now]
  /\ lookup' = [lookup EXCEPT ![j] = IndexKeys[goal[j]]]
  /\ Enter(j, "latest")
  /\ UNCHANGED <<now, storeVars, msgVars, round, goal, timeout, since, otp>>

\* LatestChannelOTP: one GET per index key, the first code in the window wins.
LookupLatest(j) ==
  /\ phase[j] = "latest"
  /\ LET code == latest[Head(lookup[j])] IN
     IF code # NoCode /\ InWindow(code.recv, issued[j], timeout[j])
       THEN /\ otp' = [otp EXCEPT ![j] = [msg |-> code.msg, recv |-> code.recv]]
            /\ lookup' = [lookup EXCEPT ![j] = << >>]
            /\ Enter(j, "resumed")
       ELSE /\ lookup' = [lookup EXCEPT ![j] = Tail(@)]
            /\ Enter(j, IF Len(lookup[j]) > 1 THEN "latest" ELSE "clear")
            /\ UNCHANGED otp
  /\ UNCHANGED <<now, storeVars, msgVars, round, goal, issued, timeout, since>>

\* RegisterChannelOTPWait first deletes what the job had, ignoring errors ...
ClearWait(j) ==
  /\ phase[j] = "clear"
  /\ \/ DeleteChannelOTPWait(j, goal[j])
     \/ "store" \in Faults /\ UNCHANGED <<wait, claim, index>>
  /\ Enter(j, "register")
  /\ UNCHANGED <<now, indexExp, latest, msgVars, round, goal, issued, timeout,
                 lookup, since, otp>>

\* ... then stores the wait and lists it, in a second MULTI.
RegisterWait(j) ==
  /\ phase[j] = "register"
  /\ LET exp == now + timeout[j] + Grace
         keys == IndexesOf(j, goal[j])
     IN /\ wait' = [wait EXCEPT ![j] = [target |-> goal[j], issued |-> issued[j],
                                        timeout |-> timeout[j], exp |-> exp]]
        /\ index' = [k \in IndexKey |->
                       IF k \in keys THEN index[k] \cup {j} ELSE index[k]]
        /\ indexExp' = [k \in IndexKey |-> IF k \in keys THEN exp ELSE indexExp[k]]
  /\ Enter(j, "parking")
  /\ UNCHANGED <<now, claim, latest, msgVars, round, goal, issued, timeout, lookup,
                 since, otp>>

\* n8n has the answer "no code yet" and reaches its Wait node.
Park(j) ==
  /\ phase[j] = "parking"
  /\ Enter(j, "waiting")
  /\ since' = [since EXCEPT ![j] = now]
  /\ UNCHANGED <<now, storeVars, msgVars, round, goal, issued, timeout, lookup, otp>>

WaitTimeout(j) ==
  /\ phase[j] = "waiting" /\ now >= since[j] + WaitLimit
  /\ Enter(j, "timedout")
  /\ UNCHANGED <<now, storeVars, msgVars, round, goal, issued, timeout, lookup, since, otp>>

\* The await call fails or its answer is lost: the workflow has no retry here.
AwaitError(j) ==
  /\ "store" \in Faults
  /\ phase[j] \in {"latest", "clear", "register", "parking"}
  /\ Enter(j, "failed")
  /\ lookup' = [lookup EXCEPT ![j] = << >>]
  /\ UNCHANGED <<now, storeVars, msgVars, round, goal, issued, timeout, since, otp>>

-----------------------------------------------------------------------------
Holding == {"post", "release", "delete"}

\* Time passes, but no handler keeps a claim longer than HoldLimit; keys whose
\* life has ended disappear.
Tick ==
  /\ now < MaxTime
  /\ \A m \in Msg : pc[m] \in Holding => now < heldAt[m] + HoldLimit
  /\ now' = now + 1
  /\ wait' = [j \in Job |-> IF wait[j].exp <= now' THEN NoWait ELSE wait[j]]
  /\ claim' = [j \in Job |-> IF claim[j].exp <= now' THEN NoClaim ELSE claim[j]]
  /\ index' = [k \in IndexKey |-> IF indexExp[k] <= now' THEN {} ELSE index[k]]
  /\ indexExp' = [k \in IndexKey |-> IF indexExp[k] <= now' THEN 0 ELSE indexExp[k]]
  /\ latest' = [k \in Key |-> IF latest[k].exp <= now' THEN NoCode ELSE latest[k]]
  /\ UNCHANGED <<msgVars, flowVars>>

Handle(m) ==
  \/ SaveLatest(m) \/ Members(m) \/ Load(m) \/ Scanned(m) \/ ClaimWait(m)
  \/ PostDelivered(m) \/ PostFailed(m) \/ ReleaseClaim(m) \/ DeletePosted(m)
  \/ Finish(m)

Await(j) ==
  \/ StampIssued(j) \/ LookupLatest(j) \/ ClearWait(j) \/ RegisterWait(j) \/ Park(j)

Next ==
  \/ Tick
  \/ \E m \in Msg : Submit(m) \/ SubmitManual(m) \/ Handle(m) \/ Abort(m)
  \/ \E j \in Job : RequestOTP(j) \/ Await(j) \/ WaitTimeout(j) \/ AwaitError(j)

Spec == Init /\ [][Next]_vars

\* Handlers that have started run on, and the relay retries what failed
\* (WorkManager's backoff); nothing obliges a code to arrive, a workflow to
\* ask for one, a Wait node to time out or the clock to move.
FairSpec ==
  /\ Spec
  /\ \A m \in Msg : WF_vars(Handle(m)) /\ WF_vars(pc[m] = "failed" /\ Submit(m))
  /\ \A j \in Job : WF_vars(Await(j))

-----------------------------------------------------------------------------
(* Properties.                                                             *)

MsgLabels == {"idle", "save", "members", "load", "claim", "post", "release",
              "delete", "done", "failed"}
Phases == {"idle", "sent", "latest", "clear", "register", "parking", "waiting",
           "resumed", "timedout", "failed"}
Wait   == [target : Target, issued : Nat, timeout : Timeouts, exp : Nat]
Claim  == [owner : Msg \cup {NoOne}, exp : Nat]
Code   == [msg : Msg \cup {NoOne}, recv : Nat, exp : Nat]
Entry  == [job : Job, target : Target]

StoreTypeOK ==
  /\ wait \in [Job -> Wait \cup {NoWait}]
  /\ index \in [IndexKey -> SUBSET Job]
  /\ indexExp \in [IndexKey -> Nat]
  /\ claim \in [Job -> Claim]
  /\ latest \in [Key -> Code]

MsgTypeOK ==
  /\ pc \in [Msg -> MsgLabels]
  /\ to \in [Msg -> Target \cup {NoTarget}]
  /\ recv \in [Msg -> Nat]
  /\ todo \in [Msg -> Seq(IndexKey)]
  /\ fallback \in [Msg -> Seq(IndexKey)]
  /\ seen \in [Msg -> SUBSET Job]
  /\ ids \in [Msg -> SUBSET Job]
  /\ waits \in [Msg -> Seq(Entry)]
  /\ heldAt \in [Msg -> Nat]

FlowTypeOK ==
  /\ phase \in [Job -> Phases]
  /\ round \in [Job -> Nat]
  /\ goal \in [Job -> Target \cup {NoTarget}]
  /\ issued \in [Job -> Nat]
  /\ timeout \in [Job -> Timeouts \cup {0}]
  /\ lookup \in [Job -> Seq(Key)]
  /\ since \in [Job -> Nat]
  /\ otp \in [Job -> [msg : Msg \cup {NoOne}, recv : Nat]]

\* The store, the handlers and the executions hold values of their kinds.
TypeOK == now \in Nat /\ StoreTypeOK /\ MsgTypeOK /\ FlowTypeOK

\* A wait that would accept a code received now is listed under every index
\* key of its target and of its account, whatever was registered, deleted or
\* expired around it: a submission under any spelling finds it.
ReachableWait ==
  \A j \in Job : Accepts(j, now) =>
    \A k \in IndexesOf(j, wait[j].target) : j \in index[k]

\* While a job has registered at most one wait, no two handlers are at once
\* between claiming it and giving the claim up, faults and expiry included:
\* its resume URL is never posted to by two handlers at the same time.
PostMutex ==
  \A m, n \in Msg :
    /\ pc[m] \in Holding /\ pc[n] \in Holding
    /\ Head(waits[m]).job = Head(waits[n]).job
    /\ round[Head(waits[m]).job] <= 1
    => m = n

\* Without store faults a claim never outlives its handler's hold on the job:
\* no message is ever turned away by a claim nobody is working on.
ClaimHeldByPoster ==
  \A j \in Job : claim[j] # NoClaim =>
    /\ pc[claim[j].owner] \in Holding
    /\ Head(waits[claim[j].owner]).job = j

\* A workflow goes on with a code that was submitted for its target (manual
\* submissions name the account instead): sound while a job has one request.
RightTarget ==
  \A j \in Job : phase[j] = "resumed" =>
    otp[j].msg \in Manual \/ Keys(to[otp[j].msg]) \cap Keys(goal[j]) # {}

\* A workflow goes on with a code received in the window of its current
\* request, not before it nor past the timeout: sound while it has one request.
CodeInWindow ==
  \A j \in Job : phase[j] = "resumed" => InWindow(otp[j].recv, issued[j], timeout[j])

\* README: codes go to the workflow waiting for them.  A code that arrived
\* after the job's current request resumes it only if it is for the target
\* the job waits on now.
NoForeignCode ==
  \A j \in Job : (phase[j] = "resumed" /\ otp[j].recv > issued[j]) =>
    otp[j].msg \in Manual \/ Keys(to[otp[j].msg]) \cap Keys(goal[j]) # {}

\* README: a received code is delivered to the workflow waiting for it.  No
\* call is under way, no retry is due, and still a job waits for a code that
\* is stored for its target and lies in its window.
NoStrandedCode ==
  ~ \E j \in Job :
      /\ phase[j] = "waiting"
      /\ \E k \in Keys(goal[j]) :
           latest[k] # NoCode /\ InWindow(latest[k].recv, issued[j], timeout[j])
      /\ \A m \in Msg : pc[m] \in {"idle", "done"}

\* A code whose submission starts to look for waits when a job of its target
\* is already parked on an accepting wait gets that job resumed, by this or
\* by another code, unless its window closes first.
WaitingJobIsResumed ==
  \A m \in Msg, j \in Job :
    ( /\ pc[m] = "members" /\ todo[m] # << >> /\ seen[m] = {}
      /\ phase[j] = "waiting" /\ Accepts(j, recv[m])
      /\ \E k \in IndexesOf(j, goal[j]) : k = Head(todo[m]) )
    ~> (phase[j] = "resumed" \/ now > issued[j] + timeout[j])
=============================================================================
