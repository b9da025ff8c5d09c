----------------------------- MODULE ProxyLease -----------------------------
(***************************************************************************)
(* Leases of the proxy runtime and the states that carry them.             *)
(*                                                                         *)
(* The runtime keeps one sticky lease per account id; every release names  *)
(* the account id, never the lease.  Three kinds of callers take leases:   *)
(*   Checks  POST /phone/check without a state: an ephemeral identity,     *)
(*           its lease released by a deferred call;                        *)
(*   Loops   executions of register-indonesia-wa: one ephemeral identity   *)
(*           per number tried, its lease released by a node of its own;    *)
(*   Users   actions on an account: they find a lease in the account's     *)
(*           state, reuse it while it is fresh and replace it otherwise.   *)
(***************************************************************************)
EXTENDS Naturals, FiniteSets

CONSTANTS
  Checks, Loops, Users,
  Account, NoOne,
  PreflightAttempts,  \* goPayProxyPreflightMaxAttempts (10)
  NumberAttempts,     \* phone_number_max_attempts of the settings
  MaxLeases,          \* bound: leases the runtime ever makes
  Refusals,           \* the runtime may refuse or miss a release
  NeverError,         \* a release node does not see that its request failed
  Stops,              \* an execution may stop on a request without an answer
  Overlap             \* two actions on one account may run at once

Callers  == Checks \cup Loops \cup Users
Ephemeral == (Checks \cup Loops) \X (1..NumberAttempts)
Identity == Account \cup Ephemeral
NoLease  == 0
Lease    == 1..MaxLeases
MaxTries == 3   \* of the release nodes (retryOnFail)

\* What the constants are: every caller is of one kind, every identity somebody's.
ProxyLeaseConstants ==
  /\ Checks \cap Loops = {} /\ (Checks \cup Loops) \cap Users = {}
  /\ Account \cap Ephemeral = {} /\ NoOne \notin Identity
  /\ PreflightAttempts \in Nat \ {0} /\ NumberAttempts \in Nat \ {0}
  /\ MaxLeases \in Nat
  /\ Refusals \in BOOLEAN /\ NeverError \in BOOLEAN /\ Stops \in BOOLEAN /\ Overlap \in BOOLEAN

VARIABLES
  runtime,  \* the live lease of each account id
  made,     \* leases made so far
  near,     \* leases that expire within 30 seconds, or have expired
  checked,  \* leases that passed the preflight
  stored,   \* the lease fields in the stored state of each account
  record,   \* per execution, the identity in shared-phone-check-proxy:<job>
  call,     \* callers and the request they are waiting for
  refused,  \* history: releases of each ephemeral identity that did not happen
  spoiled   \* history: accounts whose last acquisition failed or was not saved

vars == <<runtime, made, near, checked, stored, record, call, refused, spoiled>>

Blob(who, lease, skipped) == [who |-> who, lease |-> lease, skipped |-> skipped]

Idle == [pc |-> "idle", turn |-> 0, blob |-> Blob(NoOne, NoLease, FALSE),
         force |-> FALSE, skip |-> FALSE, try |-> 1, got |-> NoLease,
         asked |-> FALSE, ok |-> FALSE]

Init ==
  /\ runtime = [i \in Identity |-> NoLease] /\ made = 0
  /\ near = {} /\ checked = {}
  /\ stored = [a \in Account |-> Blob(a, NoLease, FALSE)]
  /\ record = [l \in Loops |-> NoOne]
  /\ call = [c \in Callers |-> Idle]
  /\ refused = [i \in Ephemeral |-> 0] /\ spoiled = {}

-----------------------------------------------------------------------------
\* ensureProxyRuntimeSession: reuse the state's lease, or ask for another one.

proxyRuntimeLeaseActive(blob) == blob.lease # NoLease /\ blob.lease \notin near

ensureProxyRuntimeSession(r, blob, force, skip) ==
  LET s == [r EXCEPT !.blob = blob, !.force = force, !.skip = skip, !.try = 1,
                     !.got = NoLease]
  IN IF ~force /\ proxyRuntimeLeaseActive(blob)
     THEN [s EXCEPT !.pc = "use"]
     ELSE [s EXCEPT !.pc = "acquire", !.asked = TRUE]

\* Mutant of AfterFailure: the deferred release placed after a success.
AfterFailureUnreleased(c) ==
  IF call[c].skip THEN [call[c] EXCEPT !.pc = "over"] ELSE [call[c] EXCEPT !.pc = "failed"]
\* What a failed attempt leaves: another one, forced, or the caller's error
\* path with the lease fields the state had before.
AfterFailure(c) ==
  LET r == call[c] IN
  IF ~r.skip /\ r.try < PreflightAttempts
  THEN [r EXCEPT !.pc = "acquire", !.force = TRUE, !.try = @ + 1, !.got = NoLease]
  ELSE [r EXCEPT !.pc = IF c \in Users THEN "failed" ELSE "release", !.got = NoLease]

\* Mutant of Merge: fields the state already has are kept.
MergeKeepingOld(r, lease) ==
  [r EXCEPT !.pc = "use", !.got = NoLease,
            !.blob.lease = IF @ = NoLease THEN lease ELSE @]

Merge(r, lease) ==
  [r EXCEPT !.pc = "use", !.got = NoLease,
            !.blob = Blob(r.blob.who, lease, r.skip)]

\* The runtime answers /leases/acquire with its lease of that account, or with
\* a new one in its place.
Grant(c) ==
  LET who == call[c].blob.who IN
  IF ~call[c].force /\ runtime[who] # NoLease
  THEN UNCHANGED <<runtime, made>>
  ELSE /\ made < MaxLeases
       /\ made' = made + 1
       /\ runtime' = [runtime EXCEPT ![who] = made + 1]

\* generateSharedPhoneCheckProxy keeps the state under the job, whether or not
\* the acquisition succeeded.
saveSharedPhoneCheckProxyState(c, pc) ==
  record' = IF c \in Loops /\ pc \in {"use", "release"}
            THEN [record EXCEPT ![c] = call[c].blob.who] ELSE record

acquireProxyRuntimeSession(c) ==
  /\ call[c].pc = "acquire"
  /\ Grant(c)
  /\ LET r == call[c]
         lease == runtime'[r.blob.who]
         next == IF r.skip THEN Merge(r, lease)
                 ELSE [r EXCEPT !.pc = "check", !.got = lease]
     IN /\ call' = [call EXCEPT ![c] = next]
        /\ saveSharedPhoneCheckProxyState(c, next.pc)
  /\ UNCHANGED <<near, checked, stored, refused, spoiled>>

\* No lease, or one whose answer is lost or has no egress or no listener.
AcquireFails(c) ==
  /\ call[c].pc = "acquire"
  /\ \/ UNCHANGED <<runtime, made>>
     \/ Grant(c)
  /\ call' = [call EXCEPT ![c] = AfterFailure(c)]
  /\ saveSharedPhoneCheckProxyState(c, AfterFailure(c).pc)
  /\ UNCHANGED <<near, checked, stored, refused, spoiled>>

\* Exit IP, country, fraud score and the three targets.
PreflightPasses(c) ==
  /\ call[c].pc = "check"
  /\ checked' = checked \cup {call[c].got}
  /\ call' = [call EXCEPT ![c] = Merge(call[c], call[c].got)]
  /\ UNCHANGED <<runtime, made, near, stored, record, refused, spoiled>>

PreflightFails(c) ==
  /\ call[c].pc = "check"
  /\ call' = [call EXCEPT ![c].pc = "drop"]
  /\ UNCHANGED <<runtime, made, near, checked, stored, record, refused, spoiled>>

\* A release by account id: whatever lease the runtime holds for it by now.
Released(who) ==
  /\ runtime' = [runtime EXCEPT ![who] = NoLease]
  /\ UNCHANGED refused

ReleaseRefused(who) ==
  /\ Refusals
  /\ refused' = IF who \in Ephemeral THEN [refused EXCEPT ![who] = @ + 1] ELSE refused
  /\ UNCHANGED runtime

releaseFailedProxyRuntimePreflight(c) ==
  /\ call[c].pc = "drop"
  /\ Released(call[c].blob.who) \/ ReleaseRefused(call[c].blob.who)
  /\ call' = [call EXCEPT ![c] = AfterFailure(c)]
  /\ UNCHANGED <<made, near, checked, stored, record, spoiled>>

-----------------------------------------------------------------------------
\* Ephemeral identities: phone checks and the toolbox execution.

\* An identity of its own for each generation, a forced lease, no preflight.
generateDeviceProxyState(c, turn) ==
  [ensureProxyRuntimeSession(call[c], Blob(<<c, turn>>, NoLease, FALSE), TRUE, TRUE)
     EXCEPT !.turn = turn]

handlePhoneCheck(c) ==
  /\ c \in Checks /\ call[c].pc = "idle"
  /\ call' = [call EXCEPT ![c] = generateDeviceProxyState(c, 1)]
  /\ UNCHANGED <<runtime, made, near, checked, stored, record, refused, spoiled>>

generateSharedPhoneCheckProxy(l) ==
  /\ l \in Loops /\ call[l].pc \in {"idle", "next"}
  /\ call[l].turn < NumberAttempts
  /\ call' = [call EXCEPT ![l] = generateDeviceProxyState(l, call[l].turn + 1)]
  /\ UNCHANGED <<runtime, made, near, checked, stored, record, refused, spoiled>>

\* No number to be had, or no attempts left: the loop moves on or ends.
NumberNotAcquired(l) ==
  /\ l \in Loops /\ call[l].pc \in {"idle", "next"}
  /\ call' = IF call[l].turn < NumberAttempts
             THEN [call EXCEPT ![l].pc = "next", ![l].turn = @ + 1]
             ELSE [call EXCEPT ![l].pc = "over"]
  /\ UNCHANGED <<runtime, made, near, checked, stored, record, refused, spoiled>>

\* The number was checked through the proxy (and registered, in the toolbox).
CheckPhone(c) ==
  /\ c \notin Users /\ call[c].pc = "use"
  /\ \E ok \in BOOLEAN :
       call' = [call EXCEPT ![c].pc = "release", ![c].ok = ok /\ c \in Loops]
  /\ UNCHANGED <<runtime, made, near, checked, stored, record, refused, spoiled>>

\* A node without an answer ends the execution where it is.
Stop(l) ==
  /\ Stops /\ l \in Loops /\ call[l].pc \in {"use", "release", "next"}
  /\ call' = [call EXCEPT ![l].pc = "stopped"]
  /\ UNCHANGED <<runtime, made, near, checked, stored, record, refused, spoiled>>

AfterRelease(c) == IF c \in Checks \/ call[c].ok THEN "over" ELSE "next"

\* The deferred release of a check, and the release node of an execution,
\* which deletes the record once the runtime has let go of the lease.
releaseProxyRuntimeState(c) ==
  /\ c \notin Users /\ call[c].pc = "release"
  /\ Released(call[c].blob.who)
  /\ record' = IF c \in Loops THEN [record EXCEPT ![c] = NoOne] ELSE record
  /\ call' = [call EXCEPT ![c].pc = AfterRelease(c)]
  /\ UNCHANGED <<made, near, checked, stored, spoiled>>

\* The error of a check's release is ignored.  A release node repeats a failed
\* request, if it is told of the failure; the one after a success does not.
Repeated(c) == c \in Loops /\ ~call[c].ok /\ ~NeverError

ReleaseFails(c) ==
  /\ c \notin Users /\ call[c].pc = "release"
  /\ ReleaseRefused(call[c].blob.who)
  /\ call' = IF Repeated(c) /\ refused'[call[c].blob.who] < MaxTries THEN call
             ELSE [call EXCEPT ![c].pc = AfterRelease(c)]
  /\ UNCHANGED <<made, near, checked, stored, record, spoiled>>

-----------------------------------------------------------------------------
\* Actions on an account.

Open(u) == call[u].pc \notin {"idle"}

BeginAction(u, a) ==
  /\ ~Open(u)
  /\ Overlap \/ \A v \in Users : Open(v) => call[v].blob.who # a
  /\ call' = [call EXCEPT ![u] = ensureProxyRuntimeSession(Idle, stored[a], FALSE, FALSE)]
  /\ UNCHANGED <<runtime, made, near, checked, stored, record, refused, spoiled>>

\* The next request of the action, or the same one again after an error that
\* may be the proxy's (rotateLoginAttemptIdentity, checkBalance, startSignupPIN).
clientForState(u, force) ==
  /\ u \in Users /\ call[u].pc = "use"
  /\ force \/ ~proxyRuntimeLeaseActive(call[u].blob)
  /\ call' = [call EXCEPT ![u] = ensureProxyRuntimeSession(call[u], call[u].blob, force, FALSE)]
  /\ UNCHANGED <<runtime, made, near, checked, stored, record, refused, spoiled>>

\* The action's state is stored, or dropped with its error.
EndAction(u) ==
  /\ u \in Users /\ call[u].pc \in {"use", "failed"}
  /\ LET a == call[u].blob.who
         good == call[u].pc = "use"
     IN \E saved \in BOOLEAN :
          /\ stored' = IF saved THEN [stored EXCEPT ![a] = call[u].blob] ELSE stored
          /\ spoiled' = IF ~call[u].asked THEN spoiled
                        ELSE IF good /\ saved THEN spoiled \ {a} ELSE spoiled \cup {a}
  /\ call' = [call EXCEPT ![u] = Idle]
  /\ UNCHANGED <<runtime, made, near, checked, record, refused>>

-----------------------------------------------------------------------------
\* The runtime's clock.

Age(lease) ==
  /\ lease <= made /\ lease \notin near
  /\ near' = near \cup {lease}
  /\ UNCHANGED <<runtime, made, checked, stored, record, call, refused, spoiled>>

Expire(who) ==
  /\ runtime[who] \in near
  /\ runtime' = [runtime EXCEPT ![who] = NoLease]
  /\ UNCHANGED <<made, near, checked, stored, record, call, refused, spoiled>>

Step(c) ==
  \/ acquireProxyRuntimeSession(c) \/ AcquireFails(c)
  \/ PreflightPasses(c) \/ PreflightFails(c)
  \/ releaseFailedProxyRuntimePreflight(c)
  \/ CheckPhone(c) \/ Stop(c) \/ releaseProxyRuntimeState(c) \/ ReleaseFails(c)
  \/ call[c].pc = "next" /\ (generateSharedPhoneCheckProxy(c) \/ NumberNotAcquired(c))
  \/ EndAction(c)

Start(c) ==
  \/ handlePhoneCheck(c)
  \/ call[c].pc = "idle" /\ (generateSharedPhoneCheckProxy(c) \/ NumberNotAcquired(c))

Next ==
  \/ \E c \in Callers : Step(c) \/ Start(c)
  \/ \E u \in Users :
       \/ \E a \in Account : BeginAction(u, a)
       \/ \E force \in BOOLEAN : clientForState(u, force)
  \/ \E lease \in Lease : Age(lease)
  \/ \E who \in Identity : Expire(who)

Spec == Init /\ [][Next]_vars

-----------------------------------------------------------------------------
\* Type invariant.
Blobs == [who : Identity \cup {NoOne}, lease : {NoLease} \cup Lease, skipped : BOOLEAN]

TypeOK ==
  /\ runtime \in [Identity -> {NoLease} \cup Lease]
  /\ made \in 0..MaxLeases
  /\ near \subseteq Lease /\ checked \subseteq Lease
  /\ stored \in [Account -> Blobs]
  /\ record \in [Loops -> Identity \cup {NoOne}]
  /\ call \in [Callers ->
       [pc : {"idle", "acquire", "check", "drop", "use", "release", "next",
              "failed", "over", "stopped"},
        turn : 0..NumberAttempts, blob : Blobs, force : BOOLEAN, skip : BOOLEAN,
        try : 1..PreflightAttempts, got : {NoLease} \cup Lease,
        asked : BOOLEAN, ok : BOOLEAN]]
  /\ refused \in [Ephemeral -> 0..MaxTries] /\ spoiled \subseteq Account

Ended(c, turn) == call[c].pc = "over" \/ call[c].turn > turn
                  \/ (call[c].turn = turn /\ call[c].pc = "next")

(* A proxy made for a check or for one number is given back when that check or *)
(* that number is done with, also when the acquisition itself was reported as *)
(* failed: the release goes by the identity, which is in the state before the *)
(* runtime is asked.  Only a release the runtime refuses leaves a lease.       *)
NothingLeft ==
  \A c \in Checks \cup Loops, turn \in 1..NumberAttempts :
    Ended(c, turn) /\ refused[<<c, turn>>] = 0 => runtime[<<c, turn>>] = NoLease

(* While a number is checked and registered through its proxy, no other caller *)
(* rotates or releases that lease: it ends only by expiring.                   *)
EphemeralUndisturbed ==
  \A c \in Checks \cup Loops :
    call[c].pc = "use" => \/ runtime[call[c].blob.who] = call[c].blob.lease
                          \/ call[c].blob.lease \in near

(* The record under the job names the proxy of the number being worked on as   *)
(* long as the runtime holds its lease, also after the execution has stopped:  *)
(* a release that only knows the job finds it.                                 *)
RecordCovers ==
  \A l \in Loops :
    /\ call[l].pc \in {"use", "release", "stopped", "next", "over"}
    /\ call[l].blob.who # NoOne /\ runtime[call[l].blob.who] # NoLease
    => record[l] = call[l].blob.who

(* The lease an account's state carries, stored or in an action under way, is  *)
(* the one the runtime holds, until 30 seconds before it expires.  The single  *)
(* way out is an acquisition that failed or was not stored: the state then     *)
(* keeps the fields of a lease that was released or replaced.                  *)
Busy(a) == \E u \in Users : Open(u) /\ call[u].blob.who = a
Live(b) == b.lease \in {NoLease} \cup near \/ runtime[b.who] = b.lease
CarriedIsLive ==
  /\ \A a \in Account \ spoiled : Busy(a) \/ Live(stored[a])
  /\ \A u \in Users : call[u].pc = "use" /\ call[u].blob.who \notin spoiled => Live(call[u].blob)

(* An account's requests go only through exits that passed the preflight,      *)
(* however the lease came to the state: fresh, reused, or the runtime's own    *)
(* lease returned again.                                                       *)
OnlyChecked ==
  \A u \in Users : call[u].pc = "use" => call[u].blob.lease \in checked
=============================================================================
