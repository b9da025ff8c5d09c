-------------------------- MODULE ProxyLeaseProofs --------------------------
(***************************************************************************)
(* Leases under any checks, executions and actions, any number of attempts *)
(* and refusals, for constants as ProxyLeaseConstants says: a proxy made   *)
(* for a check or a number is given back when that is done with, is not    *)
(* disturbed while it is used and is found by its job; an account's        *)
(* requests go only through exits that were checked; and, if its actions   *)
(* come in turn, the lease an account carries is the runtime's.            *)
(*                                                                         *)
(* The runtime knows identities, and each ephemeral one belongs to one     *)
(* call's one turn: LeaseInv says for each of them what the runtime holds  *)
(* before, in and after that turn (EphemeralLease).  TurnInv follows a     *)
(* lease through an action: one that asked the runtime and is in use has   *)
(* what the runtime granted, one that did not ask has what is stored.      *)
(***************************************************************************)
EXTENDS ProxyLease, TLAPS

Guests == Checks \cup Loops

CallType ==
  [pc : {"idle", "acquire", "check", "drop", "use", "release", "next",
         "failed", "over", "stopped"},
   turn : 0..NumberAttempts, blob : Blobs, force : BOOLEAN, skip : BOOLEAN,
   try : 1..PreflightAttempts, got : {NoLease} \cup Lease, asked : BOOLEAN, ok : BOOLEAN]

\* A check or an execution has the identity of its turn.
GuestOK(c, r) ==
  /\ \/ r.pc \in {"idle", "acquire", "use", "release", "over"}
     \/ c \in Loops /\ r.pc \in {"next", "stopped"}
  /\ r.pc = "acquire" => r.skip
  /\ r.pc \in {"acquire", "use", "release"} => r.turn >= 1 /\ r.blob.who = <<c, r.turn>>
  /\ r.blob.who # NoOne => \E t \in 1..r.turn : r.blob.who = <<c, t>>
  /\ r.pc = "idle" => r.turn = 0

\* What the runtime holds of an identity before, in and after its turn, and how
\* many releases of it were refused.
EphemeralLease(c, t) ==
  /\ t > call[c].turn \/ (t = call[c].turn /\ call[c].pc = "acquire") =>
       runtime[<<c, t>>] = NoLease /\ refused[<<c, t>>] = 0
  /\ t = call[c].turn /\ call[c].pc = "use" =>
       /\ refused[<<c, t>>] = 0
       /\ runtime[<<c, t>>] = call[c].blob.lease \/ call[c].blob.lease \in near
  /\ t = call[c].turn /\ call[c].pc = "release" =>
       refused[<<c, t>>] < MaxTries /\ (c \in Checks => refused[<<c, t>>] = 0)
  /\ runtime[<<c, t>>] # NoLease /\ refused[<<c, t>>] = 0 =>
       t = call[c].turn /\ call[c].pc \in {"acquire", "use", "release", "stopped"}

Recorded(l) ==
  /\ call[l].pc \notin {"idle", "acquire"} /\ call[l].blob.who # NoOne
  /\ runtime[call[l].blob.who] # NoLease
  => record[l] = call[l].blob.who

\* An action works for one account, and with exits that were checked.
UserOK(r, good) ==
  /\ r.pc \in {"idle", "acquire", "check", "drop", "use", "failed"}
  /\ r.pc # "idle" => r.blob.who \in Account
  /\ r.pc = "acquire" => ~r.skip
  /\ r.blob.lease \in good \cup {NoLease}
  /\ r.pc = "use" => r.blob.lease \in good
  /\ r.pc = "check" => r.got # NoLease

StoredOK(a) == stored[a].who = a /\ stored[a].lease \in checked \cup {NoLease}

LeaseInv ==
  /\ ProxyLeaseConstants /\ TypeOK
  /\ \A c \in Guests : GuestOK(c, call[c]) /\ \A t \in 1..NumberAttempts : EphemeralLease(c, t)
  /\ \A l \in Loops : Recorded(l)
  /\ \A u \in Users : UserOK(call[u], checked)
  /\ \A a \in Account : StoredOK(a)

-----------------------------------------------------------------------------
\* What the invariant says of types and kinds.
LEMMA Facts ==
  ASSUME LeaseInv
  PROVE  /\ runtime \in [Identity -> {NoLease} \cup Lease] /\ made \in Nat
         /\ call \in [Callers -> CallType] /\ stored \in [Account -> Blobs]
         /\ record \in [Loops -> Identity \cup {NoOne}]
         /\ refused \in [Ephemeral -> 0..MaxTries] /\ checked \subseteq Lease
         /\ NumberAttempts \in Nat \ {0} /\ PreflightAttempts \in Nat \ {0} /\ MaxLeases \in Nat
         /\ NoLease \notin Lease /\ Guests \cap Users = {} /\ Loops \cap Checks = {}
         /\ Guests \cup Users = Callers
         /\ Account \subseteq Identity /\ Ephemeral \subseteq Identity
         /\ Account \cap Ephemeral = {} /\ NoOne \notin Identity
         /\ \A c \in Guests, t \in 1..NumberAttempts : <<c, t>> \in Ephemeral
BY DEF LeaseInv, TypeOK, ProxyLeaseConstants, CallType, Guests, Callers, Identity, Lease,
       NoLease, Ephemeral

\* The identity a call works with.
LEMMA Working ==
  ASSUME LeaseInv, NEW c \in Callers,
         call[c].pc \in {"acquire", "check", "drop", "use", "release", "failed"}
  PROVE  /\ call[c] \in CallType /\ call[c].blob.who \in Identity
         /\ c \in Users => call[c].blob.who \in Account
         /\ c \in Guests =>
              /\ call[c].turn \in 1..NumberAttempts
              /\ call[c].blob.who = <<c, call[c].turn>> /\ call[c].blob.who \in Ephemeral
<1>1. call[c] \in CallType
  BY Facts
<1>2. CASE c \in Users
  BY <1>1, <1>2, Facts DEF LeaseInv, UserOK
<1>3. CASE c \in Guests
  <2>1. call[c].turn \in 0..NumberAttempts /\ call[c].turn >= 1
        /\ call[c].blob.who = <<c, call[c].turn>>
    BY <1>1, <1>3, Facts DEF LeaseInv, GuestOK, CallType
  <2> QED
    BY <1>1, <1>3, <2>1, Facts
<1> QED
  BY <1>2, <1>3, Facts

\* Where the branches of the requests lead: a session of call r, with a lease
\* that may be used or with one to be acquired.
Ensured(s, r, blob, force, skip) ==
  /\ s \in CallType /\ s.turn = r.turn /\ s.blob = blob /\ s.ok = r.ok
  /\ s.force = force /\ s.skip = skip
  /\ IF ~force /\ proxyRuntimeLeaseActive(blob)
     THEN s.pc = "use" /\ s.asked = r.asked ELSE s.pc = "acquire" /\ s.asked = TRUE

LEMMA EnsureFields ==
  ASSUME LeaseInv, NEW r \in CallType, NEW blob \in Blobs, NEW force \in BOOLEAN,
         NEW skip \in BOOLEAN
  PROVE  Ensured(ensureProxyRuntimeSession(r, blob, force, skip), r, blob, force, skip)
<1>1. 1 \in 1..PreflightAttempts /\ NoLease \in {NoLease} \cup Lease
  BY Facts
<1> DEFINE s == [r EXCEPT !.blob = blob, !.force = force, !.skip = skip, !.try = 1,
                          !.got = NoLease]
<1>2. /\ s \in CallType /\ s.turn = r.turn /\ s.blob = blob /\ s.ok = r.ok
      /\ s.force = force /\ s.skip = skip /\ s.asked = r.asked
  BY <1>1 DEF CallType
<1> HIDE DEF s
<1>3. CASE ~force /\ proxyRuntimeLeaseActive(blob)
  <2>1. ensureProxyRuntimeSession(r, blob, force, skip) = [s EXCEPT !.pc = "use"]
    BY <1>3 DEF ensureProxyRuntimeSession, s
  <2> QED
    BY <1>2, <1>3, <2>1 DEF CallType, Ensured
<1>4. CASE ~(~force /\ proxyRuntimeLeaseActive(blob))
  <2>1. ensureProxyRuntimeSession(r, blob, force, skip)
          = [s EXCEPT !.pc = "acquire", !.asked = TRUE]
    BY <1>4 DEF ensureProxyRuntimeSession, s
  <2> QED
    BY <1>2, <1>4, <2>1 DEF CallType, Ensured
<1> QED
  BY <1>3, <1>4

LEMMA MergeFields ==
  ASSUME LeaseInv, NEW r \in CallType, NEW lease \in Lease
  PROVE  LET s == Merge(r, lease) IN
         /\ s \in CallType /\ s.pc = "use" /\ s.turn = r.turn /\ s.ok = r.ok
         /\ s.blob.who = r.blob.who /\ s.blob.lease = lease
         /\ s.asked = r.asked
<1> DEFINE b == Blob(r.blob.who, lease, r.skip)
<1>1. b \in Blobs /\ b.who = r.blob.who /\ b.lease = lease
  BY DEF Blob, Blobs, CallType
<1> HIDE DEF b
<1> QED
  BY <1>1 DEF Merge, CallType, b

LEMMA AfterFailureFields ==
  ASSUME LeaseInv, NEW c \in Callers, call[c].pc \in {"acquire", "drop"}
  PROVE  LET s == AfterFailure(c) r == call[c] IN
         /\ s \in CallType /\ s.turn = r.turn /\ s.blob = r.blob /\ s.ok = r.ok
         /\ s.asked = r.asked /\ s.skip = r.skip
         /\ c \in Guests => s.pc = "release"
         /\ c \in Users => s.pc \in {"acquire", "failed"}
<1> DEFINE r == call[c]
<1>1. /\ r \in CallType /\ NoLease \in {NoLease} \cup Lease
      /\ PreflightAttempts \in Nat /\ Guests \cap Users = {} /\ Guests \cup Users = Callers
  BY Facts
<1>2. c \in Guests => r.skip
  BY <1>1 DEF LeaseInv, GuestOK
<1>3. CASE ~r.skip /\ r.try < PreflightAttempts
  <2>1. AfterFailure(c)
          = [r EXCEPT !.pc = "acquire", !.force = TRUE, !.try = @ + 1, !.got = NoLease]
    BY <1>3 DEF AfterFailure
  <2>2. r.try + 1 \in 1..PreflightAttempts
    BY <1>1, <1>3 DEF CallType
  <2> HIDE DEF r
  <2> QED
    BY <1>1, <1>2, <1>3, <2>1, <2>2 DEF CallType, r
<1>4. CASE ~(~r.skip /\ r.try < PreflightAttempts)
  <2>1. AfterFailure(c)
          = [r EXCEPT !.pc = IF c \in Users THEN "failed" ELSE "release", !.got = NoLease]
    BY <1>4 DEF AfterFailure
  <2> HIDE DEF r
  <2> QED
    BY <1>1, <2>1 DEF CallType, r
<1> QED
  BY <1>3, <1>4

\* What the runtime answers with: its lease of that identity.
LEMMA Granted ==
  ASSUME LeaseInv, NEW c \in Callers, call[c].pc = "acquire", Grant(c), NEW i,
         i = call[c].blob.who
  PROVE  /\ runtime' \in [Identity -> {NoLease} \cup Lease] /\ made' \in 0..MaxLeases
         /\ runtime'[i] \in Lease
         /\ \A j \in Identity \ {i} : runtime'[j] = runtime[j]
<1>1. i \in Identity
  BY Working
<1>2. CASE UNCHANGED <<runtime, made>> /\ runtime[i] # NoLease
  BY <1>1, <1>2, Facts DEF LeaseInv, TypeOK
<1>3. CASE /\ made < MaxLeases /\ made' = made + 1
           /\ runtime' = [runtime EXCEPT ![i] = made + 1]
  <2>1. made + 1 \in Lease /\ made + 1 \in 0..MaxLeases
    BY <1>3, Facts DEF Lease
  <2> QED
    BY <1>1, <1>3, <2>1, Facts
<1> QED
  BY <1>2, <1>3 DEF Grant

-----------------------------------------------------------------------------

\* A call with its new value.
LEMMA CallSet ==
  ASSUME LeaseInv, NEW c \in Callers, NEW r \in CallType, call' = [call EXCEPT ![c] = r]
  PROVE  /\ call' \in [Callers -> CallType] /\ call'[c] = r
         /\ \A d \in Callers \ {c} : call'[d] = call[d]
BY Facts

\* What a step of a check or an execution cannot disturb: every other caller,
\* and the accounts.
LEMMA GuestStep ==
  ASSUME LeaseInv, TypeOK', NEW c \in Guests,
         \A d \in Callers \ {c} : call'[d] = call[d],
         \A d \in Guests \ {c}, t \in 1..NumberAttempts :
           runtime'[<<d, t>>] = runtime[<<d, t>>] /\ refused'[<<d, t>>] = refused[<<d, t>>],
         \A l \in Loops \ {c} : record'[l] = record[l],
         UNCHANGED <<near, checked, stored>>,
         GuestOK(c, call'[c]),
         \A t \in 1..NumberAttempts : EphemeralLease(c, t)',
         c \in Loops => Recorded(c)'
  PROVE  LeaseInv'
<1>1. Guests \cap Users = {} /\ Guests \subseteq Callers /\ Users \subseteq Callers
      /\ Loops \subseteq Guests
  BY Facts DEF Guests
<1>2. ASSUME NEW d \in Guests
      PROVE  GuestOK(d, call'[d]) /\ \A t \in 1..NumberAttempts : EphemeralLease(d, t)'
  <2>1. CASE d = c
    BY <2>1
  <2>2. CASE d # c
    <3>1. call'[d] = call[d] /\ GuestOK(d, call[d])
      BY <1>1, <2>2 DEF LeaseInv
    <3>2. ASSUME NEW t \in 1..NumberAttempts PROVE EphemeralLease(d, t)'
      BY <2>2, <3>1 DEF LeaseInv, EphemeralLease
    <3> QED
      BY <3>1, <3>2
  <2> QED
    BY <2>1, <2>2
<1>3. ASSUME NEW l \in Loops PROVE Recorded(l)'
  <2>1. CASE l # c
    <3>1. call'[l] = call[l] /\ GuestOK(l, call[l]) /\ Recorded(l) /\ record'[l] = record[l]
          /\ call[l].turn \in 0..NumberAttempts
      BY <1>1, <2>1, Facts DEF LeaseInv, CallType
    <3>2. ASSUME NEW t \in 1..call[l].turn, call[l].blob.who = <<l, t>>
          PROVE  runtime'[call[l].blob.who] = runtime[call[l].blob.who]
      <4>1. t \in 1..NumberAttempts
        BY <3>1, Facts
      <4> QED
        BY <1>1, <2>1, <3>2, <4>1
    <3> QED
      BY <3>1, <3>2 DEF Recorded, GuestOK
  <2> QED
    BY <2>1
<1>4. ASSUME NEW u \in Users PROVE UserOK(call'[u], checked')
  BY <1>1 DEF LeaseInv
<1>5. ASSUME NEW a \in Account PROVE StoredOK(a)'
  BY DEF LeaseInv, StoredOK
<1>6. ProxyLeaseConstants
  BY DEF LeaseInv
<1> QED
  BY <1>2, <1>3, <1>4, <1>5, <1>6 DEF LeaseInv

\* The same for a step in a turn, which leaves the other turns alone.
LEMMA TurnStep ==
  ASSUME LeaseInv, TypeOK', NEW c \in Guests,
         call[c].turn \in 1..NumberAttempts, call'[c].turn = call[c].turn,
         call'[c].pc # "acquire",
         \A d \in Callers \ {c} : call'[d] = call[d],
         \A j \in Identity \ {<<c, call[c].turn>>} : runtime'[j] = runtime[j],
         \A j \in Ephemeral \ {<<c, call[c].turn>>} : refused'[j] = refused[j],
         \A l \in Loops \ {c} : record'[l] = record[l],
         UNCHANGED <<near, checked, stored>>,
         GuestOK(c, call'[c]),
         EphemeralLease(c, call[c].turn)',
         c \in Loops => Recorded(c)'
  PROVE  LeaseInv'
<1>1. \A d \in Guests, t \in 1..NumberAttempts :
        <<d, t>> # <<c, call[c].turn>> =>
          runtime'[<<d, t>>] = runtime[<<d, t>>] /\ refused'[<<d, t>>] = refused[<<d, t>>]
  BY Facts
<1>2. ASSUME NEW t \in 1..NumberAttempts PROVE EphemeralLease(c, t)'
  <2>1. CASE t = call[c].turn
    BY <2>1
  <2>2. CASE t # call[c].turn
    <3>1. runtime'[<<c, t>>] = runtime[<<c, t>>] /\ refused'[<<c, t>>] = refused[<<c, t>>]
      BY <1>1, <2>2
    <3> QED
      BY <2>2, <3>1 DEF EphemeralLease, LeaseInv
  <2> QED
    BY <2>1, <2>2
<1> QED
  BY <1>1, <1>2, GuestStep

\* What a step of an action cannot disturb: the ephemeral identities and the
\* other actions.
LEMMA UserStep ==
  ASSUME LeaseInv, TypeOK', NEW u \in Users,
         \A d \in Callers \ {u} : call'[d] = call[d],
         \A j \in Ephemeral : runtime'[j] = runtime[j],
         UNCHANGED <<near, refused, record>>, checked \subseteq checked',
         UserOK(call'[u], checked'),
         \A a \in Account : StoredOK(a)'
  PROVE  LeaseInv'
<1>1. Guests \cap Users = {} /\ Guests \subseteq Callers /\ Users \subseteq Callers
      /\ Loops \subseteq Guests
  BY Facts DEF Guests
<1>2. ASSUME NEW c \in Guests
      PROVE  GuestOK(c, call'[c]) /\ \A t \in 1..NumberAttempts : EphemeralLease(c, t)'
  <2>1. call'[c] = call[c] /\ GuestOK(c, call[c])
    BY <1>1 DEF LeaseInv
  <2>2. ASSUME NEW t \in 1..NumberAttempts PROVE EphemeralLease(c, t)'
    BY <2>1, Facts DEF LeaseInv, EphemeralLease
  <2> QED
    BY <2>1, <2>2
<1>3. ASSUME NEW l \in Loops PROVE Recorded(l)'
  <2>1. call'[l] = call[l] /\ GuestOK(l, call[l]) /\ Recorded(l) /\ record'[l] = record[l]
        /\ call[l].turn \in 0..NumberAttempts
    BY <1>1, Facts DEF LeaseInv, CallType
  <2>2. ASSUME NEW t \in 1..call[l].turn, call[l].blob.who = <<l, t>>
        PROVE  runtime'[call[l].blob.who] = runtime[call[l].blob.who]
    <3>1. t \in 1..NumberAttempts
      BY <2>1, Facts
    <3> QED
      BY <1>1, <2>2, <3>1, Facts
  <2> QED
    BY <2>1, <2>2 DEF Recorded, GuestOK
<1>4. ASSUME NEW v \in Users PROVE UserOK(call'[v], checked')
  BY <1>1 DEF LeaseInv, UserOK
<1>5. ProxyLeaseConstants
  BY DEF LeaseInv
<1> QED
  BY <1>2, <1>3, <1>4, <1>5 DEF LeaseInv

-----------------------------------------------------------------------------
\* Checks and executions.
LEMMA GuestAcquires ==
  ASSUME LeaseInv, NEW c \in Guests, acquireProxyRuntimeSession(c)
  PROVE  LeaseInv'
<1> DEFINE i == <<c, call[c].turn>>
           s == Merge(call[c], runtime'[i])
<1>1. /\ c \in Callers /\ call[c].pc = "acquire" /\ call[c] \in CallType
      /\ call[c].turn \in 1..NumberAttempts /\ call[c].blob.who = i /\ i \in Ephemeral
      /\ i \in Identity
  BY Facts, Working DEF acquireProxyRuntimeSession
<1>2. call[c].skip /\ GuestOK(c, call[c]) /\ EphemeralLease(c, call[c].turn)
  BY <1>1 DEF LeaseInv, GuestOK
<1>3. /\ runtime' \in [Identity -> {NoLease} \cup Lease] /\ made' \in 0..MaxLeases
      /\ runtime'[i] \in Lease
      /\ \A j \in Identity \ {i} : runtime'[j] = runtime[j]
  BY <1>1, Granted DEF acquireProxyRuntimeSession
<1>4. /\ s \in CallType /\ s.pc = "use" /\ s.turn = call[c].turn /\ s.ok = call[c].ok
      /\ s.blob.who = i /\ s.blob.lease = runtime'[i]
  BY <1>1, <1>3, MergeFields
<1>5. /\ call' = [call EXCEPT ![c] = s]
      /\ record' = IF c \in Loops THEN [record EXCEPT ![c] = i] ELSE record
      /\ UNCHANGED <<near, checked, stored, refused, spoiled>>
  BY <1>1, <1>2, <1>4 DEF acquireProxyRuntimeSession, saveSharedPhoneCheckProxyState
<1> HIDE DEF s, i
<1>6. /\ call' \in [Callers -> CallType] /\ call'[c] = s
      /\ \A d \in Callers \ {c} : call'[d] = call[d]
  BY <1>1, <1>4, <1>5, CallSet
<1>7. TypeOK'
  BY <1>1, <1>3, <1>5, <1>6, Facts DEF LeaseInv, TypeOK, CallType
<1>8. GuestOK(c, s)
  BY <1>1, <1>2, <1>4 DEF GuestOK, i
<1>9. EphemeralLease(c, call[c].turn)'
  BY <1>1, <1>2, <1>3, <1>4, <1>5, <1>6 DEF EphemeralLease, i
<1>10. c \in Loops => Recorded(c)'
  BY <1>4, <1>5, <1>6, Facts DEF Recorded
<1>11. \A l \in Loops \ {c} : record'[l] = record[l]
  BY <1>5, Facts
<1> QED
  BY <1>1, <1>3, <1>4, <1>5, <1>6, <1>7, <1>8, <1>9, <1>10, <1>11, TurnStep DEF i

LEMMA GuestAcquireFails ==
  ASSUME LeaseInv, NEW c \in Guests, AcquireFails(c)
  PROVE  LeaseInv'
<1> DEFINE i == <<c, call[c].turn>>
           s == AfterFailure(c)
<1>1. /\ c \in Callers /\ call[c].pc = "acquire" /\ call[c] \in CallType
      /\ call[c].turn \in 1..NumberAttempts /\ call[c].blob.who = i /\ i \in Ephemeral
      /\ i \in Identity
  BY Facts, Working DEF AcquireFails
<1>2. GuestOK(c, call[c]) /\ EphemeralLease(c, call[c].turn)
  BY <1>1 DEF LeaseInv
<1>3. /\ runtime' \in [Identity -> {NoLease} \cup Lease] /\ made' \in 0..MaxLeases
      /\ \A j \in Identity \ {i} : runtime'[j] = runtime[j]
  <2>1. CASE Grant(c)
    BY <1>1, <2>1, Granted
  <2>2. CASE UNCHANGED <<runtime, made>>
    BY <2>2 DEF LeaseInv, TypeOK
  <2> QED
    BY <2>1, <2>2 DEF AcquireFails
<1>4. /\ s \in CallType /\ s.pc = "release" /\ s.turn = call[c].turn /\ s.blob.who = i
  BY <1>1, AfterFailureFields
<1>5. /\ call' = [call EXCEPT ![c] = s]
      /\ record' = IF c \in Loops THEN [record EXCEPT ![c] = i] ELSE record
      /\ UNCHANGED <<near, checked, stored, refused, spoiled>>
  BY <1>1, <1>4 DEF AcquireFails, saveSharedPhoneCheckProxyState
<1> HIDE DEF s, i
<1>6. /\ call' \in [Callers -> CallType] /\ call'[c] = s
      /\ \A d \in Callers \ {c} : call'[d] = call[d]
  BY <1>1, <1>4, <1>5, CallSet
<1>7. TypeOK'
  BY <1>1, <1>3, <1>5, <1>6, Facts DEF LeaseInv, TypeOK, CallType
<1>8. GuestOK(c, s)
  BY <1>1, <1>2, <1>4 DEF GuestOK, i
<1>9. EphemeralLease(c, call[c].turn)'
  BY <1>1, <1>2, <1>4, <1>5, <1>6 DEF EphemeralLease, MaxTries
<1>10. c \in Loops => Recorded(c)'
  BY <1>4, <1>5, <1>6, Facts DEF Recorded
<1>11. \A l \in Loops \ {c} : record'[l] = record[l]
  BY <1>5, Facts
<1> QED
  BY <1>1, <1>3, <1>4, <1>5, <1>6, <1>7, <1>8, <1>9, <1>10, <1>11, TurnStep DEF i

\* The next identity is one that the runtime has not heard of.
LEMMA Generated ==
  ASSUME LeaseInv, NEW c \in Guests, call[c].turn < NumberAttempts,
         call[c].pc \in {"idle", "next"},
         call' = [call EXCEPT ![c] = generateDeviceProxyState(c, call[c].turn + 1)],
         UNCHANGED <<runtime, made, near, checked, stored, record, refused, spoiled>>
  PROVE  LeaseInv'
<1>0. PICK n \in 1..NumberAttempts : n = call[c].turn + 1
  BY Facts DEF CallType
<1> DEFINE b == Blob(<<c, n>>, NoLease, FALSE)
           e == ensureProxyRuntimeSession(call[c], b, TRUE, TRUE)
           s == [e EXCEPT !.turn = n]
<1>1. /\ c \in Callers /\ call[c] \in CallType /\ <<c, n>> \in Identity
      /\ call[c].turn \in 0..NumberAttempts
  BY <1>0, Facts DEF CallType
<1>2. b \in Blobs /\ b.who = <<c, n>>
  BY <1>1 DEF Blob, Blobs
<1> HIDE DEF b
<1>3. e \in CallType /\ e.blob = b /\ e.skip = TRUE /\ e.pc = "acquire"
  <2>1. TRUE \in BOOLEAN /\ call[c] \in CallType
    BY <1>1
  <2>2. Ensured(e, call[c], b, TRUE, TRUE)
    BY <1>2, <2>1, EnsureFields
  <2> QED
    BY <2>2 DEF Ensured
<1>4. call' = [call EXCEPT ![c] = s]
  BY <1>0 DEF generateDeviceProxyState, b
<1> HIDE DEF e
<1>5. s \in CallType /\ s.turn = n /\ s.blob = b /\ s.skip = TRUE /\ s.pc = "acquire"
  BY <1>0, <1>3, Facts DEF CallType
<1> HIDE DEF s
<1>6. /\ call' \in [Callers -> CallType] /\ call'[c] = s
      /\ \A d \in Callers \ {c} : call'[d] = call[d]
  BY <1>1, <1>4, <1>5, CallSet
<1>7. TypeOK'
  BY <1>6 DEF LeaseInv, TypeOK, CallType
<1>8. GuestOK(c, s)
  BY <1>0, <1>2, <1>5, Facts DEF GuestOK
<1>9. ASSUME NEW t \in 1..NumberAttempts PROVE EphemeralLease(c, t)'
  <2>1. EphemeralLease(c, t)
    BY DEF LeaseInv
  <2> QED
    BY <1>0, <1>1, <1>5, <1>6, <2>1 DEF EphemeralLease
<1>10. Recorded(c)'
  BY <1>5, <1>6 DEF Recorded
<1> QED
  BY <1>6, <1>7, <1>8, <1>9, <1>10, GuestStep, Facts

\* An attempt without a number, or the end of the loop.
LEMMA GuestMovesOn ==
  ASSUME LeaseInv, NEW c \in Loops, NumberNotAcquired(c)
  PROVE  LeaseInv'
<1> DEFINE s == IF call[c].turn < NumberAttempts
                THEN [call[c] EXCEPT !.pc = "next", !.turn = call[c].turn + 1]
                ELSE [call[c] EXCEPT !.pc = "over"]
<1>1. /\ c \in Guests /\ c \in Callers /\ call[c] \in CallType
      /\ call[c].turn \in 0..NumberAttempts /\ call[c].pc \in {"idle", "next"}
      /\ UNCHANGED <<runtime, made, near, checked, stored, record, refused, spoiled>>
  BY Facts DEF CallType, NumberNotAcquired, Guests
<1>2. GuestOK(c, call[c]) /\ Recorded(c)
  BY <1>1 DEF LeaseInv
<1>3. call' = [call EXCEPT ![c] = s]
  BY <1>1, Facts DEF NumberNotAcquired
<1>4. /\ s \in CallType /\ s.blob = call[c].blob
      /\ \/ s.pc = "next" /\ s.turn = call[c].turn + 1
         \/ s.pc = "over" /\ s.turn = call[c].turn
  <2>1. CASE call[c].turn < NumberAttempts
    <3>1. call[c].turn + 1 \in 0..NumberAttempts
      BY <1>1, <2>1, Facts
    <3> QED
      BY <1>1, <2>1, <3>1 DEF CallType
  <2>2. CASE ~(call[c].turn < NumberAttempts)
    BY <1>1, <2>2 DEF CallType
  <2> QED
    BY <2>1, <2>2
<1> HIDE DEF s
<1>5. /\ call' \in [Callers -> CallType] /\ call'[c] = s
      /\ \A d \in Callers \ {c} : call'[d] = call[d]
  BY <1>1, <1>3, <1>4, CallSet
<1>6. TypeOK'
  BY <1>1, <1>5 DEF LeaseInv, TypeOK, CallType
<1>7. GuestOK(c, s)
  BY <1>1, <1>2, <1>4 DEF GuestOK
<1>8. ASSUME NEW t \in 1..NumberAttempts PROVE EphemeralLease(c, t)'
  <2>1. EphemeralLease(c, t)
    BY <1>1 DEF LeaseInv
  <2> QED
    BY <1>1, <1>4, <1>5, <2>1 DEF EphemeralLease
<1>9. Recorded(c)'
  <2>1. CASE call[c].pc = "idle"
    <3>1. call[c].blob.who = NoOne
      BY <1>2, <2>1 DEF GuestOK
    <3> QED
      BY <1>4, <1>5, <3>1 DEF Recorded
  <2>2. CASE call[c].pc = "next"
    BY <1>1, <1>2, <1>4, <1>5, <2>2 DEF Recorded
  <2> QED
    BY <1>1, <2>1, <2>2
<1> QED
  BY <1>1, <1>5, <1>6, <1>7, <1>8, <1>9, GuestStep

LEMMA GuestChecks ==
  ASSUME LeaseInv, NEW c \in Guests, CheckPhone(c)
  PROVE  LeaseInv'
<1>1. /\ c \in Callers /\ call[c].pc = "use" /\ call[c] \in CallType
      /\ call[c].turn \in 1..NumberAttempts /\ call[c].blob.who = <<c, call[c].turn>>
      /\ UNCHANGED <<runtime, made, near, checked, stored, record, refused, spoiled>>
  BY Facts, Working DEF CheckPhone
<1>2. GuestOK(c, call[c]) /\ EphemeralLease(c, call[c].turn) /\ (c \in Loops => Recorded(c))
  BY <1>1 DEF LeaseInv
<1>3. PICK ok \in BOOLEAN :
        call' = [call EXCEPT ![c].pc = "release", ![c].ok = ok /\ c \in Loops]
  BY DEF CheckPhone
<1> DEFINE s == [call[c] EXCEPT !.pc = "release", !.ok = ok /\ c \in Loops]
<1>4. call' = [call EXCEPT ![c] = s]
  BY <1>1, <1>3, Facts
<1>5. s \in CallType /\ s.pc = "release" /\ s.turn = call[c].turn /\ s.blob = call[c].blob
  <2>1. (ok /\ c \in Loops) \in BOOLEAN
    OBVIOUS
  <2> QED
    BY <1>1, <2>1 DEF CallType
<1> HIDE DEF s
<1>6. /\ call' \in [Callers -> CallType] /\ call'[c] = s
      /\ \A d \in Callers \ {c} : call'[d] = call[d]
  BY <1>1, <1>4, <1>5, CallSet
<1>7. TypeOK'
  BY <1>1, <1>6 DEF LeaseInv, TypeOK, CallType
<1>8. GuestOK(c, s)
  BY <1>1, <1>2, <1>5 DEF GuestOK
<1>9. EphemeralLease(c, call[c].turn)'
  BY <1>1, <1>2, <1>5, <1>6 DEF EphemeralLease, MaxTries
<1>10. c \in Loops => Recorded(c)'
  BY <1>1, <1>2, <1>5, <1>6 DEF Recorded
<1> QED
  BY <1>1, <1>5, <1>6, <1>7, <1>8, <1>9, <1>10, TurnStep

LEMMA GuestStops ==
  ASSUME LeaseInv, NEW c \in Loops, Stop(c)
  PROVE  LeaseInv'
<1> DEFINE s == [call[c] EXCEPT !.pc = "stopped"]
<1>1. /\ c \in Guests /\ c \in Callers /\ call[c] \in CallType
      /\ call[c].pc \in {"use", "release", "next"}
      /\ UNCHANGED <<runtime, made, near, checked, stored, record, refused, spoiled>>
  BY Facts DEF Stop, Guests
<1>2. GuestOK(c, call[c]) /\ Recorded(c)
  BY <1>1 DEF LeaseInv
<1>3. call' = [call EXCEPT ![c] = s]
  BY <1>1, Facts DEF Stop
<1>4. s \in CallType /\ s.pc = "stopped" /\ s.turn = call[c].turn /\ s.blob = call[c].blob
  BY <1>1 DEF CallType
<1> HIDE DEF s
<1>5. /\ call' \in [Callers -> CallType] /\ call'[c] = s
      /\ \A d \in Callers \ {c} : call'[d] = call[d]
  BY <1>1, <1>3, <1>4, CallSet
<1>6. TypeOK'
  BY <1>1, <1>5 DEF LeaseInv, TypeOK, CallType
<1>7. GuestOK(c, s)
  BY <1>1, <1>2, <1>4 DEF GuestOK
<1>8. ASSUME NEW t \in 1..NumberAttempts PROVE EphemeralLease(c, t)'
  <2>1. EphemeralLease(c, t)
    BY <1>1 DEF LeaseInv
  <2> QED
    BY <1>1, <1>4, <1>5, <2>1 DEF EphemeralLease
<1>9. Recorded(c)'
  BY <1>1, <1>2, <1>4, <1>5 DEF Recorded
<1> QED
  BY <1>1, <1>5, <1>6, <1>7, <1>8, <1>9, GuestStep

\* Where a release leads.
LEMMA AfterReleaseFields ==
  ASSUME LeaseInv, NEW c \in Guests, call[c].pc = "release", NEW s,
         s = [call[c] EXCEPT !.pc = AfterRelease(c)]
  PROVE  /\ s \in CallType /\ s.turn = call[c].turn /\ s.blob = call[c].blob
         /\ s.pc = "over" \/ (s.pc = "next" /\ c \in Loops)
         /\ GuestOK(c, s)
<1>1. call[c] \in CallType /\ GuestOK(c, call[c])
  BY Facts DEF LeaseInv
<1>2. AfterRelease(c) = "over" \/ (AfterRelease(c) = "next" /\ c \in Loops)
  BY DEF AfterRelease, Guests
<1>3. /\ s \in CallType /\ s.turn = call[c].turn /\ s.blob = call[c].blob
      /\ s.pc = AfterRelease(c)
  BY <1>1, <1>2 DEF CallType
<1> QED
  BY <1>1, <1>2, <1>3 DEF GuestOK

LEMMA GuestReleases ==
  ASSUME LeaseInv, NEW c \in Guests, releaseProxyRuntimeState(c)
  PROVE  LeaseInv'
<1> DEFINE i == <<c, call[c].turn>>
           s == [call[c] EXCEPT !.pc = AfterRelease(c)]
<1>1. /\ c \in Callers /\ call[c].pc = "release" /\ call[c] \in CallType
      /\ call[c].turn \in 1..NumberAttempts /\ call[c].blob.who = i /\ i \in Identity
  BY Facts, Working DEF releaseProxyRuntimeState
<1>2. EphemeralLease(c, call[c].turn)
  BY <1>1 DEF LeaseInv
<1>3. /\ runtime' = [runtime EXCEPT ![i] = NoLease]
      /\ record' = IF c \in Loops THEN [record EXCEPT ![c] = NoOne] ELSE record
      /\ call' = [call EXCEPT ![c] = s]
      /\ UNCHANGED <<made, near, checked, stored, refused, spoiled>>
  BY <1>1, Facts DEF releaseProxyRuntimeState, Released
<1>4. /\ s \in CallType /\ s.turn = call[c].turn /\ s.blob = call[c].blob
      /\ s.pc = "over" \/ (s.pc = "next" /\ c \in Loops)
      /\ GuestOK(c, s)
  BY <1>1, AfterReleaseFields
<1> HIDE DEF s, i
<1>5. /\ call' \in [Callers -> CallType] /\ call'[c] = s
      /\ \A d \in Callers \ {c} : call'[d] = call[d]
  BY <1>1, <1>3, <1>4, CallSet
<1>6. /\ runtime' \in [Identity -> {NoLease} \cup Lease] /\ runtime'[i] = NoLease
      /\ \A j \in Identity \ {i} : runtime'[j] = runtime[j]
      /\ record' \in [Loops -> Identity \cup {NoOne}]
      /\ \A l \in Loops \ {c} : record'[l] = record[l]
  BY <1>1, <1>3, Facts
<1>7. TypeOK'
  BY <1>3, <1>5, <1>6 DEF LeaseInv, TypeOK, CallType
<1>8. EphemeralLease(c, call[c].turn)'
  BY <1>1, <1>4, <1>5, <1>6 DEF EphemeralLease, i
<1>9. Recorded(c)'
  BY <1>1, <1>4, <1>5, <1>6 DEF Recorded
<1> QED
  BY <1>1, <1>3, <1>4, <1>5, <1>6, <1>7, <1>8, <1>9, TurnStep DEF i

LEMMA GuestReleaseFails ==
  ASSUME LeaseInv, NEW c \in Guests, ReleaseFails(c)
  PROVE  LeaseInv'
<1> DEFINE i == <<c, call[c].turn>>
           s == [call[c] EXCEPT !.pc = AfterRelease(c)]
<1>1. /\ c \in Callers /\ call[c].pc = "release" /\ call[c] \in CallType
      /\ call[c].turn \in 1..NumberAttempts /\ call[c].blob.who = i /\ i \in Ephemeral
  BY Facts, Working DEF ReleaseFails
<1>2. /\ EphemeralLease(c, call[c].turn) /\ GuestOK(c, call[c]) /\ (c \in Loops => Recorded(c))
      /\ refused[i] < MaxTries /\ (c \in Checks => refused[i] = 0)
  BY <1>1 DEF LeaseInv, EphemeralLease
<1>3. /\ refused' = [refused EXCEPT ![i] = refused[i] + 1] /\ UNCHANGED runtime
      /\ UNCHANGED <<made, near, checked, stored, record, spoiled>>
  BY <1>1 DEF ReleaseFails, ReleaseRefused
<1> HIDE DEF i
<1>4. /\ refused' \in [Ephemeral -> 0..MaxTries] /\ refused'[i] = refused[i] + 1
      /\ refused'[i] # 0
      /\ \A j \in Ephemeral \ {i} : refused'[j] = refused[j]
  <2>1. refused[i] \in 0..MaxTries /\ refused[i] + 1 \in 0..MaxTries
    BY <1>1, <1>2, Facts DEF MaxTries
  <2> QED
    BY <1>1, <1>3, <2>1, Facts
<1>5. CASE call' = call /\ Repeated(c) /\ refused'[i] < MaxTries
  <2>1. TypeOK'
    BY <1>3, <1>4, <1>5 DEF LeaseInv, TypeOK
  <2>2. EphemeralLease(c, call[c].turn)'
    BY <1>1, <1>4, <1>5, Facts DEF EphemeralLease, Repeated, i
  <2>3. c \in Loops => Recorded(c)'
    BY <1>2, <1>3, <1>5 DEF Recorded
  <2> QED
    BY <1>1, <1>2, <1>3, <1>4, <1>5, <2>1, <2>2, <2>3, TurnStep DEF i
<1>6. CASE call' = [call EXCEPT ![c] = s]
  <2>1. /\ s \in CallType /\ s.turn = call[c].turn /\ s.blob = call[c].blob
        /\ s.pc = "over" \/ (s.pc = "next" /\ c \in Loops)
        /\ GuestOK(c, s)
    BY <1>1, AfterReleaseFields
  <2> HIDE DEF s
  <2>2. /\ call' \in [Callers -> CallType] /\ call'[c] = s
        /\ \A d \in Callers \ {c} : call'[d] = call[d]
    BY <1>1, <1>6, <2>1, CallSet
  <2>3. TypeOK'
    BY <1>3, <1>4, <2>2 DEF LeaseInv, TypeOK, CallType
  <2>4. EphemeralLease(c, call[c].turn)'
    BY <1>1, <1>4, <2>1, <2>2 DEF EphemeralLease, i
  <2>5. c \in Loops => Recorded(c)'
    BY <1>1, <1>2, <1>3, <2>1, <2>2 DEF Recorded
  <2> QED
    BY <1>1, <1>3, <1>4, <2>1, <2>2, <2>3, <2>4, <2>5, TurnStep DEF i
<1> QED
  BY <1>1, <1>5, <1>6, Facts DEF ReleaseFails

-----------------------------------------------------------------------------
\* Actions on an account.  What follows a lease through them, where those of
\* one account come in turn: an action that asked the runtime uses what it was
\* granted, one that did not uses what is stored.
UserLease(u) ==
  LET r == call[u] IN
  Open(u) =>
    /\ r.pc # "use" => r.asked
    /\ ~r.asked => r.blob = stored[r.blob.who]
    /\ r.pc = "check" => runtime[r.blob.who] = r.got \/ r.got \in near
    /\ r.pc = "use" /\ (r.asked \/ r.blob.who \notin spoiled) => Live(r.blob)

AccountLease(a) == a \notin spoiled => Busy(a) \/ Live(stored[a])

TurnInv ==
  /\ \A u, v \in Users :
       u # v /\ Open(u) /\ Open(v) => call[u].blob.who # call[v].blob.who
  /\ \A u \in Users : UserLease(u)
  /\ \A a \in Account : AccountLease(a)

\* A request of an action touches its account at the runtime and its own state.
LEMMA ActionStep ==
  ASSUME LeaseInv, NEW u \in Users, Open(u), NEW a \in Account, a = call[u].blob.who,
         NEW s \in CallType, s.blob.who = a, s.pc # "idle", call' = [call EXCEPT ![u] = s],
         runtime' \in [Identity -> {NoLease} \cup Lease], made' \in 0..MaxLeases,
         \A j \in Identity \ {a} : runtime'[j] = runtime[j],
         UNCHANGED <<near, refused, record, stored, spoiled>>,
         checked' \subseteq Lease, checked \subseteq checked',
         UserOK(s, checked'), UserLease(u) => UserLease(u)'
  PROVE  LeaseInv' /\ (TurnInv => TurnInv')
<1>1. /\ u \in Callers /\ call' \in [Callers -> CallType] /\ call'[u] = s
      /\ \A d \in Callers \ {u} : call'[d] = call[d]
      /\ Users \subseteq Callers /\ a \in Identity
  BY Facts, CallSet
<1>2. LeaseInv'
  <2>1. TypeOK'
    BY <1>1 DEF LeaseInv, TypeOK, CallType
  <2>2. \A j \in Ephemeral : runtime'[j] = runtime[j]
    BY Facts
  <2>3. ASSUME NEW b \in Account PROVE StoredOK(b)'
    BY DEF LeaseInv, StoredOK
  <2> QED
    BY <1>1, <2>1, <2>2, <2>3, UserStep
<1>3. ASSUME TurnInv PROVE TurnInv'
  <2>1. \A v \in Users : /\ Open(v)' <=> Open(v)
                         /\ call'[v].blob.who = call[v].blob.who
    BY <1>1 DEF Open
  <2>2. \A v, w \in Users :
          v # w /\ Open(v)' /\ Open(w)' => call'[v].blob.who # call'[w].blob.who
    BY <1>3, <2>1 DEF TurnInv
  <2>3. ASSUME NEW v \in Users PROVE UserLease(v)'
    <3>1. CASE v = u
      BY <1>3, <3>1 DEF TurnInv
    <3>2. CASE v # u /\ Open(v)
      <4>1. call'[v] = call[v] /\ call[v].blob.who # a /\ UserLease(v)
        BY <1>1, <1>3, <3>2 DEF TurnInv
      <4>2. call[v].blob.who \in Account
        BY <3>2 DEF LeaseInv, UserOK, Open
      <4>3. runtime'[call[v].blob.who] = runtime[call[v].blob.who]
        BY <4>1, <4>2, Facts
      <4> QED
        BY <3>2, <4>1, <4>3 DEF UserLease, Open, Live
    <3>3. CASE ~Open(v)
      BY <2>1, <3>3 DEF UserLease
    <3> QED
      BY <3>1, <3>2, <3>3
  <2>4. ASSUME NEW b \in Account PROVE AccountLease(b)'
    <3>1. CASE Busy(b)
      BY <2>1, <3>1 DEF Busy, AccountLease
    <3>2. CASE ~Busy(b)
      <4>1. b # a /\ AccountLease(b) /\ stored[b].who = b
        BY <1>3, <3>2 DEF Busy, TurnInv, LeaseInv, StoredOK
      <4>2. runtime'[b] = runtime[b]
        BY <4>1, Facts
      <4> QED
        BY <3>2, <4>1, <4>2 DEF AccountLease, Live
    <3> QED
      BY <3>1, <3>2
  <2> QED
    BY <2>2, <2>3, <2>4 DEF TurnInv
<1> QED
  BY <1>2, <1>3

LEMMA UserAcquires ==
  ASSUME LeaseInv, NEW u \in Users, acquireProxyRuntimeSession(u)
  PROVE  LeaseInv' /\ (TurnInv => TurnInv')
<1>1. /\ u \in Callers /\ call[u].pc = "acquire" /\ call[u] \in CallType
      /\ call[u].blob.who \in Account /\ u \notin Loops
  BY Facts, Working DEF acquireProxyRuntimeSession, Guests
<1>2. PICK a \in Account : a = call[u].blob.who
  BY <1>1
<1> DEFINE s == [call[u] EXCEPT !.pc = "check", !.got = runtime'[a]]
<1>3. ~call[u].skip /\ UserOK(call[u], checked)
  BY <1>1 DEF LeaseInv, UserOK
<1>4. /\ runtime' \in [Identity -> {NoLease} \cup Lease] /\ made' \in 0..MaxLeases
      /\ runtime'[a] \in Lease
      /\ \A j \in Identity \ {a} : runtime'[j] = runtime[j]
  BY <1>1, <1>2, Granted DEF acquireProxyRuntimeSession
<1>5. /\ call' = [call EXCEPT ![u] = s]
      /\ UNCHANGED <<near, checked, stored, record, refused, spoiled>>
  BY <1>1, <1>2, <1>3 DEF acquireProxyRuntimeSession, saveSharedPhoneCheckProxyState
<1>6. /\ s \in CallType /\ s.blob = call[u].blob /\ s.pc = "check" /\ s.got = runtime'[a]
      /\ s.asked = call[u].asked
  BY <1>1, <1>4 DEF CallType
<1> HIDE DEF s
<1>7. UserOK(s, checked')
  BY <1>1, <1>3, <1>4, <1>5, <1>6, Facts DEF UserOK
<1>8. UserLease(u) => UserLease(u)'
  <2>1. call'[u] = s
    BY <1>1, <1>5, Facts
  <2> QED
    BY <1>1, <1>2, <1>6, <2>1 DEF UserLease, Open
<1>9. Open(u)
  BY <1>1 DEF Open
<1> QED
  BY <1>2, <1>4, <1>5, <1>6, <1>7, <1>8, <1>9, ActionStep, Facts

\* An attempt that failed, at the acquisition or at the preflight.
LEMMA UserFails ==
  ASSUME LeaseInv, NEW u \in Users, call[u].pc \in {"acquire", "drop"},
         call' = [call EXCEPT ![u] = AfterFailure(u)],
         NEW a \in Account, a = call[u].blob.who,
         runtime' \in [Identity -> {NoLease} \cup Lease], made' \in 0..MaxLeases,
         \A j \in Identity \ {a} : runtime'[j] = runtime[j],
         UNCHANGED <<near, checked, stored, record, refused, spoiled>>
  PROVE  LeaseInv' /\ (TurnInv => TurnInv')
<1> DEFINE s == AfterFailure(u)
<1>1. /\ s \in CallType /\ s.blob = call[u].blob /\ s.asked = call[u].asked
      /\ s.pc \in {"acquire", "failed"} /\ s.skip = call[u].skip /\ u \in Callers
  BY AfterFailureFields, Facts
<1> HIDE DEF s
<1>2. UserOK(call[u], checked) /\ Open(u) /\ call'[u] = s
  BY <1>1, Facts DEF LeaseInv, Open, s
<1>3. UserOK(s, checked')
  <2>1. s.pc = "acquire" => ~s.skip
    BY <1>1 DEF AfterFailure, s, CallType
  <2> QED
    BY <1>1, <1>2, <2>1 DEF UserOK
<1>4. UserLease(u) => UserLease(u)'
  BY <1>1, <1>2 DEF UserLease, Open
<1> QED
  BY <1>1, <1>2, <1>3, <1>4, ActionStep, Facts DEF s

LEMMA UserAcquireFails ==
  ASSUME LeaseInv, NEW u \in Users, AcquireFails(u)
  PROVE  LeaseInv' /\ (TurnInv => TurnInv')
<1>1. /\ u \in Callers /\ call[u].pc = "acquire" /\ call[u].blob.who \in Account /\ u \notin Loops
      /\ call' = [call EXCEPT ![u] = AfterFailure(u)]
      /\ UNCHANGED <<near, checked, stored, record, refused, spoiled>>
  BY Facts, Working DEF AcquireFails, saveSharedPhoneCheckProxyState, Guests
<1>2. PICK a \in Account : a = call[u].blob.who
  BY <1>1
<1>3. /\ runtime' \in [Identity -> {NoLease} \cup Lease] /\ made' \in 0..MaxLeases
      /\ \A j \in Identity \ {a} : runtime'[j] = runtime[j]
  <2>1. CASE Grant(u)
    BY <1>1, <1>2, <2>1, Granted
  <2>2. CASE UNCHANGED <<runtime, made>>
    BY <2>2 DEF LeaseInv, TypeOK
  <2> QED
    BY <2>1, <2>2 DEF AcquireFails
<1> QED
  BY <1>1, <1>2, <1>3, UserFails

LEMMA UserDrops ==
  ASSUME LeaseInv, NEW u \in Users, releaseFailedProxyRuntimePreflight(u)
  PROVE  LeaseInv' /\ (TurnInv => TurnInv')
<1>1. /\ u \in Callers /\ call[u].pc = "drop" /\ call[u].blob.who \in Account
      /\ call' = [call EXCEPT ![u] = AfterFailure(u)]
      /\ UNCHANGED <<made, near, checked, stored, record, spoiled>>
  BY Facts, Working DEF releaseFailedProxyRuntimePreflight
<1>2. PICK a \in Account : a = call[u].blob.who
  BY <1>1
<1>3. /\ UNCHANGED refused
      /\ runtime' = [runtime EXCEPT ![a] = NoLease] \/ UNCHANGED runtime
  BY <1>2, Facts DEF releaseFailedProxyRuntimePreflight, Released, ReleaseRefused
<1>4. /\ runtime' \in [Identity -> {NoLease} \cup Lease] /\ made' \in 0..MaxLeases
      /\ \A j \in Identity \ {a} : runtime'[j] = runtime[j]
  BY <1>1, <1>3, Facts DEF LeaseInv, TypeOK
<1> QED
  BY <1>1, <1>2, <1>3, <1>4, UserFails

LEMMA UserPasses ==
  ASSUME LeaseInv, NEW u \in Users, PreflightPasses(u)
  PROVE  LeaseInv' /\ (TurnInv => TurnInv')
<1>1. /\ u \in Callers /\ call[u].pc = "check" /\ call[u].blob.who \in Account
      /\ call[u] \in CallType
      /\ UNCHANGED <<runtime, made, near, stored, record, refused, spoiled>>
  BY Facts, Working DEF PreflightPasses
<1>2. PICK a \in Account : a = call[u].blob.who
  BY <1>1
<1>3. UserOK(call[u], checked) /\ call[u].got \in Lease
  BY <1>1 DEF LeaseInv, UserOK, CallType
<1> DEFINE s == Merge(call[u], call[u].got)
<1>4. /\ s \in CallType /\ s.pc = "use" /\ s.blob.who = a /\ s.blob.lease = call[u].got
      /\ s.asked = call[u].asked
  BY <1>1, <1>2, <1>3, MergeFields
<1> HIDE DEF s
<1>5. call' = [call EXCEPT ![u] = s] /\ checked' = checked \cup {call[u].got}
  BY DEF PreflightPasses, s
<1>6. /\ checked' \subseteq Lease /\ checked \subseteq checked'
      /\ UserOK(s, checked')
  BY <1>2, <1>3, <1>4, <1>5, Facts DEF UserOK
<1>7. UserLease(u) => UserLease(u)'
  <2>1. call'[u] = s
    BY <1>1, <1>5, Facts
  <2> QED
    BY <1>1, <1>2, <1>4, <2>1 DEF UserLease, Open, Live
<1>8. Open(u) /\ runtime' \in [Identity -> {NoLease} \cup Lease] /\ made' \in 0..MaxLeases
  BY <1>1 DEF Open, LeaseInv, TypeOK
<1> QED
  BY <1>1, <1>2, <1>4, <1>5, <1>6, <1>7, <1>8, ActionStep

LEMMA UserRejects ==
  ASSUME LeaseInv, NEW u \in Users, PreflightFails(u)
  PROVE  LeaseInv' /\ (TurnInv => TurnInv')
<1> DEFINE s == [call[u] EXCEPT !.pc = "drop"]
<1>1. /\ u \in Callers /\ call[u].pc = "check" /\ call[u].blob.who \in Account
      /\ call[u] \in CallType /\ UserOK(call[u], checked)
      /\ UNCHANGED <<runtime, made, near, checked, stored, record, refused, spoiled>>
  BY Facts, Working DEF PreflightFails, LeaseInv
<1>2. PICK a \in Account : a = call[u].blob.who
  BY <1>1
<1>3. call' = [call EXCEPT ![u] = s]
  BY <1>1, Facts DEF PreflightFails
<1>4. s \in CallType /\ s.pc = "drop" /\ s.blob = call[u].blob /\ s.asked = call[u].asked
  BY <1>1 DEF CallType
<1> HIDE DEF s
<1>5. UserOK(s, checked')
  BY <1>1, <1>4 DEF UserOK
<1>6. UserLease(u) => UserLease(u)'
  <2>1. call'[u] = s
    BY <1>1, <1>3, Facts
  <2> QED
    BY <1>1, <1>4, <2>1 DEF UserLease, Open
<1>7. /\ Open(u) /\ runtime' \in [Identity -> {NoLease} \cup Lease] /\ made' \in 0..MaxLeases
      /\ checked' \subseteq Lease
  BY <1>1 DEF Open, LeaseInv, TypeOK
<1> QED
  BY <1>1, <1>2, <1>3, <1>4, <1>5, <1>6, <1>7, ActionStep

\* The same request again, or the next one with another lease.
LEMMA UserRotates ==
  ASSUME LeaseInv, NEW u \in Users, NEW force \in BOOLEAN, clientForState(u, force)
  PROVE  LeaseInv' /\ (TurnInv => TurnInv')
<1>1. /\ u \in Callers /\ call[u].pc = "use" /\ call[u].blob.who \in Account
      /\ call[u] \in CallType /\ call[u].blob \in Blobs /\ UserOK(call[u], checked)
      /\ UNCHANGED <<runtime, made, near, checked, stored, record, refused, spoiled>>
  BY Facts, Working DEF clientForState, LeaseInv, CallType
<1>2. PICK a \in Account : a = call[u].blob.who
  BY <1>1
<1> DEFINE s == ensureProxyRuntimeSession(call[u], call[u].blob, force, FALSE)
<1>3. s \in CallType /\ s.blob = call[u].blob /\ s.skip = FALSE /\ s.pc = "acquire"
      /\ s.asked = TRUE
  <2>1. /\ FALSE \in BOOLEAN /\ ~(~force /\ proxyRuntimeLeaseActive(call[u].blob))
        /\ call[u] \in CallType /\ call[u].blob \in Blobs
    BY <1>1 DEF clientForState
  <2>2. Ensured(s, call[u], call[u].blob, force, FALSE)
    BY <2>1, EnsureFields
  <2> QED
    BY <2>1, <2>2 DEF Ensured
<1> HIDE DEF s
<1>4. call' = [call EXCEPT ![u] = s]
  BY DEF clientForState, s
<1>5. UserOK(s, checked')
  BY <1>1, <1>3 DEF UserOK
<1>6. UserLease(u)'
  <2>1. call'[u] = s
    BY <1>1, <1>4, Facts
  <2> QED
    BY <1>3, <2>1 DEF UserLease
<1>7. /\ Open(u) /\ runtime' \in [Identity -> {NoLease} \cup Lease] /\ made' \in 0..MaxLeases
      /\ checked' \subseteq Lease
  BY <1>1 DEF Open, LeaseInv, TypeOK
<1> QED
  BY <1>1, <1>2, <1>3, <1>4, <1>5, <1>6, <1>7, ActionStep

LEMMA UserBegins ==
  ASSUME LeaseInv, NEW u \in Users, NEW a \in Account, BeginAction(u, a)
  PROVE  LeaseInv' /\ (~Overlap /\ TurnInv => TurnInv')
<1> DEFINE s == ensureProxyRuntimeSession(Idle, stored[a], FALSE, FALSE)
<1>1. /\ u \in Callers /\ Users \subseteq Callers /\ call[u].pc = "idle" /\ stored[a] \in Blobs
      /\ StoredOK(a) /\ a # NoOne
      /\ UNCHANGED <<runtime, made, near, checked, stored, record, refused, spoiled>>
  BY Facts DEF BeginAction, Open, LeaseInv
<1>2. Idle \in CallType /\ Idle.asked = FALSE
  <2>1. /\ 0 \in 0..NumberAttempts /\ 1 \in 1..PreflightAttempts
        /\ Blob(NoOne, NoLease, FALSE) \in Blobs
    BY Facts DEF Blob, Blobs
  <2> QED
    BY <2>1 DEF Idle, CallType
<1>3. /\ s \in CallType /\ s.blob = stored[a] /\ s.skip = FALSE
      /\ \/ s.pc = "use" /\ s.asked = FALSE /\ proxyRuntimeLeaseActive(stored[a])
         \/ s.pc = "acquire" /\ s.asked = TRUE
  <2>1. FALSE \in BOOLEAN
    OBVIOUS
  <2>2. Ensured(s, Idle, stored[a], FALSE, FALSE)
    BY <1>1, <1>2, <2>1, EnsureFields
  <2> QED
    BY <1>2, <2>2 DEF Ensured
<1> HIDE DEF s
<1>4. call' = [call EXCEPT ![u] = s]
  BY DEF BeginAction, s
<1>5. /\ call' \in [Callers -> CallType] /\ call'[u] = s
      /\ \A d \in Callers \ {u} : call'[d] = call[d]
  BY <1>1, <1>3, <1>4, CallSet
<1>6. LeaseInv'
  <2>1. TypeOK'
    BY <1>1, <1>5 DEF LeaseInv, TypeOK, CallType
  <2>2. UserOK(s, checked')
    BY <1>1, <1>3 DEF UserOK, StoredOK, proxyRuntimeLeaseActive
  <2>3. ASSUME NEW b \in Account PROVE StoredOK(b)'
    BY <1>1 DEF LeaseInv, StoredOK
  <2> QED
    BY <1>1, <1>5, <2>1, <2>2, <2>3, UserStep
<1>7. ASSUME ~Overlap, TurnInv PROVE TurnInv'
  <2>1. /\ \A v \in Users : Open(v) => v # u /\ call[v].blob.who # a
        /\ s.blob.who = a
    BY <1>1, <1>3, <1>7 DEF BeginAction, Open, StoredOK
  <2>2. \A v, w \in Users :
          v # w /\ Open(v)' /\ Open(w)' => call'[v].blob.who # call'[w].blob.who
    BY <1>1, <1>5, <1>7, <2>1 DEF TurnInv, Open
  <2>3. ASSUME NEW v \in Users PROVE UserLease(v)'
    <3>1. CASE v = u
      <4>1. a \notin spoiled => Live(stored[a])
        BY <1>7, <2>1 DEF TurnInv, AccountLease, Busy
      <4> QED
        BY <1>1, <1>3, <1>5, <2>1, <3>1, <4>1 DEF UserLease, Live, Open
    <3>2. CASE v # u
      BY <1>1, <1>5, <1>7, <3>2 DEF TurnInv, UserLease, Open, Live
    <3> QED
      BY <3>1, <3>2
  <2>4. ASSUME NEW b \in Account PROVE AccountLease(b)'
    <3>1. CASE Busy(b)
      BY <1>1, <1>5, <2>1, <3>1 DEF Busy, Open, AccountLease
    <3>2. CASE ~Busy(b)
      BY <1>1, <1>7, <3>2 DEF TurnInv, AccountLease, Live
    <3> QED
      BY <3>1, <3>2
  <2> QED
    BY <2>2, <2>3, <2>4 DEF TurnInv
<1> QED
  BY <1>6, <1>7

LEMMA UserEnds ==
  ASSUME LeaseInv, NEW u \in Users, EndAction(u)
  PROVE  LeaseInv' /\ (TurnInv => TurnInv')
<1>1. /\ u \in Callers /\ Users \subseteq Callers /\ call[u].pc \in {"use", "failed"}
      /\ call[u].blob.who \in Account /\ call[u] \in CallType /\ call[u].blob \in Blobs
      /\ UserOK(call[u], checked) /\ Open(u)
      /\ UNCHANGED <<runtime, made, near, checked, record, refused>>
  BY Facts, Working DEF EndAction, LeaseInv, CallType, Open
<1>2. PICK a \in Account : a = call[u].blob.who
  BY <1>1
<1>3. PICK saved \in BOOLEAN :
        /\ stored' = IF saved THEN [stored EXCEPT ![a] = call[u].blob] ELSE stored
        /\ spoiled' = IF ~call[u].asked THEN spoiled
                      ELSE IF call[u].pc = "use" /\ saved THEN spoiled \ {a}
                      ELSE spoiled \cup {a}
  BY <1>2 DEF EndAction
<1>4. /\ stored' \in [Account -> Blobs] /\ spoiled' \subseteq Account
      /\ stored'[a] = IF saved THEN call[u].blob ELSE stored[a]
      /\ \A b \in Account \ {a} : stored'[b] = stored[b] /\ (b \in spoiled' <=> b \in spoiled)
  BY <1>1, <1>2, <1>3, Facts DEF LeaseInv, TypeOK
<1>5. Idle \in CallType
  <2>1. /\ 0 \in 0..NumberAttempts /\ 1 \in 1..PreflightAttempts
        /\ Blob(NoOne, NoLease, FALSE) \in Blobs
    BY Facts DEF Blob, Blobs
  <2> QED
    BY <2>1 DEF Idle, CallType
<1>6. /\ call' \in [Callers -> CallType] /\ call'[u] = Idle
      /\ \A d \in Callers \ {u} : call'[d] = call[d]
  BY <1>1, <1>5, CallSet DEF EndAction
<1>7. LeaseInv'
  <2>1. TypeOK'
    BY <1>1, <1>4, <1>6 DEF LeaseInv, TypeOK, CallType
  <2>2. UserOK(Idle, checked')
    BY DEF UserOK, Idle, Blob
  <2>3. ASSUME NEW b \in Account PROVE StoredOK(b)'
    <3>1. StoredOK(b)
      BY DEF LeaseInv
    <3>2. call[u].blob.lease \in checked \cup {NoLease}
      BY <1>1 DEF UserOK
    <3>3. CASE b = a
      BY <1>1, <1>2, <1>4, <3>1, <3>2, <3>3 DEF StoredOK
    <3>4. CASE b # a
      BY <1>1, <1>4, <3>1, <3>4 DEF StoredOK
    <3> QED
      BY <3>3, <3>4
  <2> QED
    BY <1>1, <1>6, <2>1, <2>2, <2>3, UserStep
<1>8. ASSUME TurnInv PROVE TurnInv'
  <2>1. /\ ~Open(u)' /\ \A v \in Users : Open(v)' => Open(v) /\ v # u
        /\ \A v \in Users : v # u => call'[v] = call[v]
    BY <1>1, <1>6 DEF Open, Idle
  <2>2. \A v, w \in Users :
          v # w /\ Open(v)' /\ Open(w)' => call'[v].blob.who # call'[w].blob.who
    BY <1>8, <2>1 DEF TurnInv
  <2>3. ASSUME NEW v \in Users, Open(v)' PROVE UserLease(v)'
    <3>1. v # u /\ Open(v) /\ call'[v] = call[v] /\ UserLease(v) /\ call[v].blob.who # a
      BY <1>1, <1>2, <1>8, <2>1, <2>3 DEF TurnInv
    <3>2. call[v].blob.who \in Account
      BY <3>1 DEF LeaseInv, UserOK, Open
    <3>3. /\ stored'[call[v].blob.who] = stored[call[v].blob.who]
          /\ call[v].blob.who \in spoiled' <=> call[v].blob.who \in spoiled
      BY <1>4, <3>1, <3>2
    <3> QED
      BY <1>1, <3>1, <3>3 DEF UserLease, Live
  <2>4. ASSUME NEW b \in Account PROVE AccountLease(b)'
    <3>1. CASE b # a
      <4>1. /\ stored'[b] = stored[b] /\ (b \in spoiled' <=> b \in spoiled)
            /\ AccountLease(b)
        BY <1>4, <1>8, <3>1 DEF TurnInv
      <4>2. Busy(b) => Busy(b)'
        BY <1>2, <2>1, <3>1 DEF Busy, Open
      <4> QED
        BY <1>1, <4>1, <4>2 DEF AccountLease, Live
    <3>2. CASE b = a /\ a \notin spoiled'
      <4>1. UserLease(u)
        BY <1>8 DEF TurnInv
      <4>2. CASE ~call[u].asked
        <5>1. call[u].pc = "use" /\ call[u].blob = stored[a] /\ a \notin spoiled
          BY <1>1, <1>2, <1>3, <3>2, <4>1, <4>2 DEF UserLease
        <5> QED
          BY <1>1, <1>2, <1>4, <3>2, <4>1, <5>1 DEF UserLease, Live, AccountLease
      <4>3. CASE call[u].asked
        <5>1. call[u].pc = "use" /\ saved
          BY <1>3, <3>2, <4>3
        <5> QED
          BY <1>1, <1>2, <1>4, <3>2, <4>1, <4>3, <5>1 DEF UserLease, Live, AccountLease
      <4> QED
        BY <4>2, <4>3
    <3>3. CASE b = a /\ a \in spoiled'
      BY <3>3 DEF AccountLease
    <3> QED
      BY <3>1, <3>2, <3>3
  <2> QED
    BY <2>2, <2>3, <2>4 DEF TurnInv, UserLease
<1> QED
  BY <1>7, <1>8

-----------------------------------------------------------------------------
\* A check or an execution touches no account.
LEMMA GuestTurns ==
  ASSUME LeaseInv, TurnInv, \A u \in Users : call'[u] = call[u],
         \A a \in Account : runtime'[a] = runtime[a], UNCHANGED <<near, stored, spoiled>>
  PROVE  TurnInv'
<1>1. \A u \in Users : Open(u)' <=> Open(u)
  BY DEF Open
<1>2. \A u \in Users : Open(u) => call[u].blob.who \in Account
  BY DEF LeaseInv, UserOK, Open
<1>3. ASSUME NEW u \in Users PROVE UserLease(u)'
  BY <1>1, <1>2 DEF TurnInv, UserLease, Live
<1>4. ASSUME NEW a \in Account PROVE AccountLease(a)'
  <2>1. AccountLease(a) /\ stored[a].who = a
    BY DEF TurnInv, LeaseInv, StoredOK
  <2> QED
    BY <1>1, <2>1 DEF AccountLease, Busy, Live
<1> QED
  BY <1>1, <1>3, <1>4 DEF TurnInv

\* The clock: leases come near their end, and end at the runtime.
LEMMA ClockStep ==
  ASSUME LeaseInv, UNCHANGED <<made, checked, stored, record, call, refused, spoiled>>,
         near \subseteq near', near' \subseteq Lease,
         runtime' \in [Identity -> {NoLease} \cup Lease],
         \A i \in Identity :
           runtime'[i] = runtime[i] \/ (runtime'[i] = NoLease /\ runtime[i] \in near)
  PROVE  LeaseInv' /\ (TurnInv => TurnInv')
<1>1. LeaseInv'
  <2>1. TypeOK' /\ ProxyLeaseConstants
    BY DEF LeaseInv, TypeOK
  <2>2. ASSUME NEW c \in Guests, NEW t \in 1..NumberAttempts PROVE EphemeralLease(c, t)'
    <3>1. EphemeralLease(c, t) /\ <<c, t>> \in Identity
      BY Facts DEF LeaseInv
    <3>2. runtime'[<<c, t>>] = runtime[<<c, t>>]
          \/ (runtime'[<<c, t>>] = NoLease /\ runtime[<<c, t>>] \in near)
      BY <3>1
    <3> QED
      BY <3>1, <3>2 DEF EphemeralLease
  <2>3. ASSUME NEW l \in Loops PROVE Recorded(l)'
    <3>1. /\ Recorded(l) /\ l \in Callers /\ l \in Guests /\ GuestOK(l, call[l])
          /\ call[l].blob.who \in Identity \cup {NoOne}
      BY Facts DEF LeaseInv, Guests, CallType, Blobs
    <3> QED
      BY <3>1 DEF Recorded
  <2>4. /\ \A c \in Guests : GuestOK(c, call[c])'
        /\ \A u \in Users : UserOK(call[u], checked)'
        /\ \A a \in Account : StoredOK(a)'
    BY DEF LeaseInv, GuestOK, UserOK, StoredOK
  <2> QED
    BY <2>1, <2>2, <2>3, <2>4 DEF LeaseInv
<1>2. ASSUME TurnInv PROVE TurnInv'
  <2>1. \A u \in Users : Open(u) => call[u].blob.who \in Identity
    BY Facts DEF LeaseInv, UserOK, Open
  <2>2. ASSUME NEW u \in Users PROVE UserLease(u)'
    BY <1>2, <2>1 DEF TurnInv, UserLease, Live, Open
  <2>3. ASSUME NEW a \in Account PROVE AccountLease(a)'
    <3>1. AccountLease(a) /\ stored[a].who = a /\ a \in Identity
      BY <1>2, Facts DEF TurnInv, LeaseInv, StoredOK
    <3> QED
      BY <3>1 DEF AccountLease, Busy, Live, Open
  <2> QED
    BY <1>2, <2>2, <2>3 DEF TurnInv, Open
<1> QED
  BY <1>1, <1>2

LEMMA Ages ==
  ASSUME LeaseInv, NEW lease \in Lease, Age(lease)
  PROVE  LeaseInv' /\ (TurnInv => TurnInv')
BY ClockStep, Facts DEF Age, LeaseInv, TypeOK

LEMMA Expires ==
  ASSUME LeaseInv, NEW who \in Identity, Expire(who)
  PROVE  LeaseInv' /\ (TurnInv => TurnInv')
<1>1. /\ runtime' \in [Identity -> {NoLease} \cup Lease]
      /\ \A i \in Identity :
           runtime'[i] = runtime[i] \/ (runtime'[i] = NoLease /\ runtime[i] \in near)
  BY Facts DEF Expire
<1> QED
  BY <1>1, ClockStep DEF Expire, LeaseInv, TypeOK

-----------------------------------------------------------------------------
LEMMA GuestNext ==
  ASSUME LeaseInv, NEW c \in Guests, Step(c) \/ Start(c)
  PROVE  LeaseInv' /\ (TurnInv => TurnInv')
<1>1. /\ GuestOK(c, call[c]) /\ Guests \cap Users = {} /\ Guests \subseteq Callers
      /\ Guests = Checks \cup Loops /\ Users \subseteq Callers /\ Loops \cap Checks = {}
  BY Facts DEF LeaseInv, Guests
<1>2. \/ acquireProxyRuntimeSession(c) \/ AcquireFails(c)
      \/ CheckPhone(c) \/ (Stop(c) /\ c \in Loops)
      \/ releaseProxyRuntimeState(c) \/ ReleaseFails(c)
      \/ (handlePhoneCheck(c) /\ c \in Checks)
      \/ (generateSharedPhoneCheckProxy(c) /\ c \in Loops)
      \/ (NumberNotAcquired(c) /\ c \in Loops)
  BY <1>1 DEF Step, Start, GuestOK, PreflightPasses, PreflightFails,
              releaseFailedProxyRuntimePreflight, EndAction, Stop, handlePhoneCheck,
              generateSharedPhoneCheckProxy, NumberNotAcquired
<1>3. LeaseInv'
  <2>1. CASE handlePhoneCheck(c) /\ c \in Checks
    <3>1. call[c].turn = 0 /\ call[c].turn + 1 = 1 /\ call[c].turn < NumberAttempts
      BY <1>1, <2>1, Facts DEF handlePhoneCheck, GuestOK
    <3> QED
      BY <2>1, <3>1, Generated DEF handlePhoneCheck
  <2>2. CASE generateSharedPhoneCheckProxy(c) /\ c \in Loops
    BY <2>2, Generated DEF generateSharedPhoneCheckProxy
  <2>3. CASE acquireProxyRuntimeSession(c)
    BY <2>3, GuestAcquires
  <2>4. CASE AcquireFails(c)
    BY <2>4, GuestAcquireFails
  <2>5. CASE CheckPhone(c)
    BY <2>5, GuestChecks
  <2>6. CASE Stop(c) /\ c \in Loops
    BY <2>6, GuestStops
  <2>7. CASE releaseProxyRuntimeState(c)
    BY <2>7, GuestReleases
  <2>8. CASE ReleaseFails(c)
    BY <2>8, GuestReleaseFails
  <2>9. CASE NumberNotAcquired(c) /\ c \in Loops
    BY <2>9, GuestMovesOn
  <2> QED
    BY <1>2, <2>1, <2>2, <2>3, <2>4, <2>5, <2>6, <2>7, <2>8, <2>9
<1>4. \A u \in Users : call'[u] = call[u]
  <2>1. \A r : call' = [call EXCEPT ![c] = r] => \A u \in Users : call'[u] = call[u]
    BY <1>1, Facts
  <2>2. \E r : call' = [call EXCEPT ![c] = r]
    BY <1>1, <1>2, Facts
       DEF acquireProxyRuntimeSession, AcquireFails, CheckPhone, Stop, releaseProxyRuntimeState,
           ReleaseFails, handlePhoneCheck, generateSharedPhoneCheckProxy, NumberNotAcquired
  <2> QED
    BY <2>1, <2>2
<1>5. UNCHANGED <<near, stored, spoiled>>
  BY <1>2 DEF acquireProxyRuntimeSession, AcquireFails, CheckPhone, Stop,
              releaseProxyRuntimeState, ReleaseFails, handlePhoneCheck,
              generateSharedPhoneCheckProxy, NumberNotAcquired
<1>6. \A a \in Account : runtime'[a] = runtime[a]
  <2>1. CASE call[c].pc = "acquire"
    <3>1. call[c].blob.who \in Ephemeral /\ c \in Callers
      BY <1>1, <2>1, Working
    <3>2. CASE Grant(c)
      BY <2>1, <3>1, <3>2, Granted, Facts
    <3> QED
      BY <1>2, <2>1, <3>2
         DEF acquireProxyRuntimeSession, AcquireFails, CheckPhone, Stop,
             releaseProxyRuntimeState, ReleaseFails, handlePhoneCheck,
             generateSharedPhoneCheckProxy, NumberNotAcquired
  <2>2. CASE releaseProxyRuntimeState(c)
    <3>1. call[c].blob.who \in Ephemeral
      BY <1>1, <2>2, Working DEF releaseProxyRuntimeState
    <3> QED
      BY <2>2, <3>1, Facts DEF releaseProxyRuntimeState, Released
  <2>3. CASE call[c].pc # "acquire" /\ ~releaseProxyRuntimeState(c)
    BY <1>2, <2>3
       DEF acquireProxyRuntimeSession, AcquireFails, CheckPhone, Stop, ReleaseFails,
           ReleaseRefused, handlePhoneCheck, generateSharedPhoneCheckProxy, NumberNotAcquired
  <2> QED
    BY <2>1, <2>2, <2>3
<1> QED
  BY <1>3, <1>4, <1>5, <1>6, GuestTurns

LEMMA UserNext ==
  ASSUME LeaseInv, NEW u \in Users, Step(u) \/ Start(u)
  PROVE  LeaseInv' /\ (TurnInv => TurnInv')
<1>1. UserOK(call[u], checked) /\ u \notin Checks /\ u \notin Loops
  BY Facts DEF LeaseInv, Guests
<1>2. \/ acquireProxyRuntimeSession(u) \/ AcquireFails(u)
      \/ PreflightPasses(u) \/ PreflightFails(u)
      \/ releaseFailedProxyRuntimePreflight(u) \/ EndAction(u)
  BY <1>1 DEF Step, Start, CheckPhone, Stop, releaseProxyRuntimeState, ReleaseFails,
              handlePhoneCheck, generateSharedPhoneCheckProxy, NumberNotAcquired
<1> QED
  BY <1>2, UserAcquires, UserAcquireFails, UserPasses, UserRejects, UserDrops, UserEnds

\* Nobody's lease at first.
LEMMA InitInv ==
  ASSUME ProxyLeaseConstants, Init
  PROVE  LeaseInv /\ TurnInv
<1>1. /\ 0 \in 0..NumberAttempts /\ 1 \in 1..PreflightAttempts /\ 0 \in 0..MaxLeases
      /\ 0 \in 0..MaxTries
      /\ Account \subseteq Identity /\ Ephemeral \subseteq Identity
      /\ Callers = Checks \cup Loops \cup Users
      /\ \A c \in Guests, t \in 1..NumberAttempts : <<c, t>> \in Ephemeral
  BY DEF ProxyLeaseConstants, MaxTries, Identity, Callers, Guests, Ephemeral
<1>2. /\ Idle.pc = "idle" /\ Idle.turn = 0 /\ Idle.blob.who = NoOne
      /\ Idle.blob.lease = NoLease
  BY DEF Idle, Blob
<1>3. Idle \in CallType
  <2>1. Blob(NoOne, NoLease, FALSE) \in Blobs
    BY DEF Blob, Blobs
  <2> QED
    BY <1>1, <2>1 DEF Idle, CallType
<1>4. \A a \in Account : stored[a].who = a /\ stored[a].lease = NoLease
  <2>1. ASSUME NEW a \in Account PROVE stored[a].who = a /\ stored[a].lease = NoLease
    <3>1. stored[a] = Blob(a, NoLease, FALSE)
      BY DEF Init
    <3> QED
      BY <3>1 DEF Blob
  <2> QED
    BY <2>1
<1>5. stored \in [Account -> Blobs]
  <2>1. \A a \in Account : Blob(a, NoLease, FALSE) \in Blobs
    BY <1>1 DEF Blob, Blobs
  <2> QED
    BY <2>1 DEF Init
<1>6. call \in [Callers -> CallType] /\ \A c \in Callers : call[c] = Idle
  BY <1>3 DEF Init
<1>7. TypeOK
  BY <1>1, <1>5, <1>6 DEF Init, TypeOK, CallType
<1>8. ASSUME NEW c \in Guests
      PROVE  GuestOK(c, call[c]) /\ \A t \in 1..NumberAttempts : EphemeralLease(c, t)
  <2>1. call[c] = Idle
    BY <1>1, <1>6 DEF Guests
  <2>2. ASSUME NEW t \in 1..NumberAttempts
        PROVE  runtime[<<c, t>>] = NoLease /\ refused[<<c, t>>] = 0
    BY <1>1 DEF Init
  <2> QED
    BY <1>2, <2>1, <2>2 DEF GuestOK, EphemeralLease
<1>9. \A l \in Loops : Recorded(l)
  BY <1>1, <1>2, <1>6 DEF Recorded
<1>10. \A u \in Users : UserOK(call[u], checked)
  BY <1>1, <1>2, <1>6 DEF UserOK
<1>11. \A a \in Account : StoredOK(a)
  BY <1>4 DEF StoredOK
<1>12. LeaseInv
  BY <1>7, <1>8, <1>9, <1>10, <1>11 DEF LeaseInv
<1>13. \A u \in Users : ~Open(u)
  BY <1>1, <1>2, <1>6 DEF Open
<1>14. \A a \in Account : Live(stored[a])
  BY <1>4 DEF Live
<1> QED
  BY <1>12, <1>13, <1>14 DEF TurnInv, UserLease, AccountLease

LEMMA NextInv ==
  ASSUME LeaseInv, [Next]_vars
  PROVE  LeaseInv' /\ (~Overlap /\ TurnInv => TurnInv')
<1>1. ASSUME NEW c \in Callers, Step(c) \/ Start(c)
      PROVE  LeaseInv' /\ (~Overlap /\ TurnInv => TurnInv')
  BY <1>1, GuestNext, UserNext, Facts
<1>2. ASSUME NEW u \in Users, NEW a \in Account, BeginAction(u, a)
      PROVE  LeaseInv' /\ (~Overlap /\ TurnInv => TurnInv')
  BY <1>2, UserBegins
<1>3. ASSUME NEW u \in Users, NEW force \in BOOLEAN, clientForState(u, force)
      PROVE  LeaseInv' /\ (~Overlap /\ TurnInv => TurnInv')
  BY <1>3, UserRotates
<1>4. ASSUME NEW lease \in Lease, Age(lease)
      PROVE  LeaseInv' /\ (~Overlap /\ TurnInv => TurnInv')
  BY <1>4, Ages
<1>5. ASSUME NEW who \in Identity, Expire(who)
      PROVE  LeaseInv' /\ (~Overlap /\ TurnInv => TurnInv')
  BY <1>5, Expires
<1>6. ASSUME UNCHANGED vars
      PROVE  LeaseInv' /\ (~Overlap /\ TurnInv => TurnInv')
  <2>1. /\ UNCHANGED <<runtime, made, near, checked, stored, record, call, refused, spoiled>>
        /\ near' \subseteq Lease /\ runtime' \in [Identity -> {NoLease} \cup Lease]
    BY <1>6 DEF vars, LeaseInv, TypeOK
  <2> QED
    BY <2>1, ClockStep
<1> QED
  BY <1>1, <1>2, <1>3, <1>4, <1>5, <1>6 DEF Next

LEMMA AlwaysLeased ==
  ASSUME ProxyLeaseConstants PROVE Spec => []LeaseInv
<1>1. Init => LeaseInv
  BY InitInv
<1>2. LeaseInv /\ [Next]_vars => LeaseInv'
  BY NextInv
<1> QED
  BY <1>1, <1>2, PTL DEF Spec

\* What the invariants say of leases.
LEMMA InvHolds ==
  ASSUME LeaseInv
  PROVE  TypeOK /\ NothingLeft /\ EphemeralUndisturbed /\ RecordCovers /\ OnlyChecked
<1>1. NothingLeft
  BY Facts DEF LeaseInv, EphemeralLease, NothingLeft, Ended, Guests
<1>2. ASSUME NEW c \in Checks \cup Loops, call[c].pc = "use"
      PROVE  \/ runtime[call[c].blob.who] = call[c].blob.lease
             \/ call[c].blob.lease \in near
  <2>1. /\ call[c].turn \in 1..NumberAttempts
        /\ call[c].blob.who = <<c, call[c].turn>> /\ EphemeralLease(c, call[c].turn)
    BY <1>2, Working, Facts DEF LeaseInv, Guests
  <2> QED
    BY <1>2, <2>1 DEF EphemeralLease
<1>3. EphemeralUndisturbed
  BY <1>2 DEF EphemeralUndisturbed
<1>4. RecordCovers
  BY DEF LeaseInv, Recorded, RecordCovers
<1>5. OnlyChecked
  BY DEF LeaseInv, UserOK, OnlyChecked
<1> QED
  BY <1>1, <1>3, <1>4, <1>5 DEF LeaseInv

LEMMA TurnHolds ==
  ASSUME TurnInv
  PROVE  CarriedIsLive
BY DEF TurnInv, UserLease, AccountLease, CarriedIsLive, Open

\* The variables have their types: no identity's release is refused more often
\* than a release node asks for it (MaxTries).
THEOREM LeaseTypes ==
  ASSUME ProxyLeaseConstants PROVE Spec => []TypeOK
BY InvHolds, AlwaysLeased, PTL

\* A proxy made for a check or for one number is given back when that is done
\* with, also when its acquisition was reported as failed, if the runtime
\* refuses no release (the deferred release of handlePhoneCheck, the release
\* node of register-indonesia-wa).
THEOREM NothingIsLeft ==
  ASSUME ProxyLeaseConstants PROVE Spec => []NothingLeft
BY InvHolds, AlwaysLeased, PTL

\* While a number is checked and registered through its proxy, the runtime
\* holds that lease until it expires, whatever other callers acquire, rotate
\* and release: no identity is used twice.
THEOREM EphemeralStays ==
  ASSUME ProxyLeaseConstants PROVE Spec => []EphemeralUndisturbed
BY InvHolds, AlwaysLeased, PTL

\* The record under a job (saveSharedPhoneCheckProxyState) names the identity
\* worked on as long as the runtime holds a lease of it, also of an execution
\* that stopped or whose release was refused.
THEOREM RecordsCover ==
  ASSUME ProxyLeaseConstants PROVE Spec => []RecordCovers
BY InvHolds, AlwaysLeased, PTL

\* An account's requests go only through exits that passed the preflight, also
\* where several actions of the account rotate its lease at once.
THEOREM ExitsAreChecked ==
  ASSUME ProxyLeaseConstants PROVE Spec => []OnlyChecked
BY InvHolds, AlwaysLeased, PTL

\* Where an account's actions come in turn, the lease its state carries, stored
\* or in an action under way, is the runtime's until 30 seconds before it
\* expires, unless the last acquisition failed or was not stored.
THEOREM CarriedStaysLive ==
  ASSUME ProxyLeaseConstants, ~Overlap PROVE Spec => []CarriedIsLive
<1>1. Init => LeaseInv /\ TurnInv
  BY InitInv
<1>2. (LeaseInv /\ TurnInv) /\ [Next]_vars => (LeaseInv /\ TurnInv)'
  BY NextInv
<1> QED
  BY <1>1, <1>2, TurnHolds, PTL DEF Spec

=============================================================================
