---------------------------- MODULE RelayProofs ----------------------------
(***************************************************************************)
(* RelayHolds, for any messages, texts, addresses and bounds: the list of  *)
(* what was seen never exceeds its limit, a text is queued again only once *)
(* that many others were queued since or the process died, and a request   *)
(* ends as the service took it.                                            *)
(*                                                                         *)
(* The invariant relates the listener's memory to WorkManager's queue:     *)
(* what it remembers is exactly the last texts queued in this life of the  *)
(* process, in order, each once.  Induction over a sequence is done with   *)
(* the least index of which a fact fails: Least.                           *)
(***************************************************************************)
EXTENDS Relay, TLAPS, WellFoundedInduction, FiniteSetTheorems, FunctionTheorems

\* A set of naturals that is not empty has a least member.
LEMMA Least ==
  ASSUME NEW T, T \subseteq Nat, T # {}
  PROVE  \E n \in T : \A m \in T : n <= m
<1> DEFINE R == OpToRel(<, Nat)
<1>1. PICK n \in T : \A m \in T : <<m, n>> \notin R
  BY WFMin, NatLessThanWellFounded, Zenon
<1>2. R = {ss \in Nat \X Nat : ss[1] < ss[2]}
  BY Zenon DEF OpToRel
<1>3. \A m \in T : ~(m < n)
  <2> TAKE m \in T
  <2>1. <<m, n>> \notin {ss \in Nat \X Nat : ss[1] < ss[2]}
    BY <1>1, <1>2
  <2> QED
    BY <2>1
<1> QED
  BY <1>3

\* The function FlattenSeq builds for the first n members of s.
Joined(s, f, n) ==
  f = [i \in 1..n |-> IF i = 1 THEN s[i] ELSE f[i - 1] \o s[i]]

\* Whatever the length, such a function exists.
LEMMA JoinedExists ==
  ASSUME NEW s, NEW n \in Nat
  PROVE  \E f : Joined(s, f, n)
<1> DEFINE T == {m \in Nat : ~ \E f : Joined(s, f, m)}
<1> SUFFICES ASSUME T # {}
             PROVE  FALSE
  OBVIOUS
<1>1. PICK m \in T : \A k \in T : m <= k
  <2> HIDE DEF T
  <2>1. T \subseteq Nat
    BY DEF T
  <2> QED
    BY <2>1, Least, Zenon
<1>2. CASE m = 0
  <2> DEFINE f == [i \in 1..0 |-> 0]
  <2>1. Joined(s, f, 0)
    BY DEF Joined
  <2> QED
    BY <1>2, <2>1
<1>3. CASE m # 0
  <2>1. m - 1 \in Nat /\ m - 1 \notin T
    BY <1>1, <1>3
  <2>2. PICK f : Joined(s, f, m - 1)
    BY <2>1
  <2> DEFINE e == IF m = 1 THEN s[m] ELSE f[m - 1] \o s[m]
             g == [i \in 1..m |-> IF i = m THEN e ELSE f[i]]
  <2>3. ASSUME NEW i \in 1..m
        PROVE  g[i] = IF i = 1 THEN s[i] ELSE g[i - 1] \o s[i]
    <3>1. CASE i = m
      BY <3>1
    <3>2. CASE i # m
      <4>1. i \in 1..(m - 1) /\ g[i] = f[i] /\ i - 1 # m
        BY <1>1, <3>2
      <4>2. f[i] = IF i = 1 THEN s[i] ELSE f[i - 1] \o s[i]
        BY <2>2, <4>1 DEF Joined
      <4>3. i # 1 => g[i - 1] = f[i - 1]
        BY <1>1, <4>1
      <4> QED
        BY <4>1, <4>2, <4>3
    <3> QED
      BY <3>1, <3>2
  <2>4. g = [i \in 1..m |-> IF i = 1 THEN s[i] ELSE g[i - 1] \o s[i]]
    <3> HIDE DEF e
    <3>1. g = [i \in 1..m |-> g[i]]
      OBVIOUS
    <3> HIDE DEF g
    <3> QED
      BY <2>3, <3>1, Zenon
  <2> HIDE DEF g
  <2> QED
    BY <1>1, <2>4 DEF Joined
<1> QED
  BY <1>2, <1>3

\* Joining sequences over a set gives a sequence over it.
LEMMA Flattened ==
  ASSUME NEW S, NEW s \in Seq(Seq(S))
  PROVE  FlattenSeq(s) \in Seq(S)
<1>1. CASE Len(s) = 0
  BY <1>1 DEF FlattenSeq
<1>2. CASE Len(s) # 0
  <2> DEFINE n == Len(s)
             f == CHOOSE f : Joined(s, f, n)
             T == {i \in Nat : i \in 1..n /\ f[i] \notin Seq(S)}
  <2>1. n \in Nat \ {0}
    BY <1>2
  <2>2. Joined(s, f, n)
    BY <2>1, JoinedExists
  <2>3. FlattenSeq(s) = f[n]
    BY <1>2, Zenon DEF FlattenSeq, Joined
  <2>4. ASSUME T # {}
        PROVE  FALSE
    <3> HIDE DEF f, T
    <3>1. T \subseteq Nat
      BY DEF T
    <3>2. PICK i \in T : \A k \in T : i <= k
      BY <2>4, <3>1, Least, Zenon
    <3>3. i \in 1..n /\ f[i] \notin Seq(S)
      BY <3>2 DEF T
    <3>4. f[i] = IF i = 1 THEN s[i] ELSE f[i - 1] \o s[i]
      BY <2>2, <3>3 DEF Joined
    <3>5. s[i] \in Seq(S)
      BY <3>3
    <3>6. CASE i = 1
      BY <3>3, <3>4, <3>5, <3>6
    <3>7. CASE i # 1
      <4>1. i - 1 \in 1..n
        BY <2>1, <3>3, <3>7
      <4>2. i - 1 \notin T
        BY <3>2, <3>3
      <4>3. f[i - 1] \in Seq(S)
        BY <4>1, <4>2 DEF T
      <4> QED
        BY <3>3, <3>4, <3>5, <3>7, <4>3
    <3> QED
      BY <3>6, <3>7
  <2> HIDE DEF f
  <2> QED
    BY <2>1, <2>3, <2>4
<1> QED
  BY <1>1, <1>2

-----------------------------------------------------------------------------
(* The invariant. *)

\* The listener remembers the last texts queued in this life of the process:
\* all of them, or as many as it may.
RememberedIsLast ==
  LET n == Len(remembered)
      l == Len(work)
  IN  /\ n <= l - born
      /\ \A i \in 1..n : remembered[i] = work[l - n + i].body
      /\ n = l - born \/ n = MaxFingerprints

\* No text is remembered twice.
RememberedOnce ==
  \A i, j \in 1..Len(remembered) : remembered[i] = remembered[j] => i = j

\* What is inspected is for an address; what has failed has none that is routed.
InHand ==
  /\ handling.left # <<>> => handling.url \in Url
  /\ \A w \in DOMAIN work : work[w].state = "failed" => work[w].url \notin Routable

\* The inductive invariant.
IInv ==
  /\ TypeOK /\ RememberedIsLast /\ RememberedOnce /\ InHand
  /\ RepeatedOnlyIfForgotten /\ EndsAgree

\* What the invariant says of the listener and its queue depends on these.
listener == <<remembered, work, taken, born>>

-----------------------------------------------------------------------------

\* A step that leaves the listener and the queue alone.
LEMMA ListenerStill ==
  ASSUME IInv, UNCHANGED listener, TypeOK', handling'.left # <<>> => handling'.url \in Url
  PROVE  IInv'
BY DEF IInv, listener, RememberedIsLast, RememberedOnce, InHand, RepeatedOnlyIfForgotten,
       EndsAgree

\* The candidate texts of the notifications shown are texts.
LEMMA Showing ==
  ASSUME TypeOK, NEW shown \in Seq(arrived)
  PROVE  Candidates(shown) \in Seq(Body)
<1> DEFINE s == [i \in DOMAIN shown |-> BodiesOf[shown[i]]]
<1>1. shown \in Seq(Message)
  BY DEF TypeOK
<1>2. ASSUME NEW i \in 1..Len(shown)
      PROVE  BodiesOf[shown[i]] \in Seq(Body)
  <2>1. shown[i] \in Message
    BY <1>1
  <2> QED
    BY <2>1, RelayAssumption
<1>3. s \in Seq(Seq(Body))
  <2>1. Len(shown) \in Nat /\ DOMAIN shown = 1..Len(shown)
    BY <1>1
  <2>2. s \in [1..Len(shown) -> Seq(Body)]
    BY <1>2, <2>1
  <2> QED
    BY <2>1, <2>2
<1> QED
  BY <1>3, Flattened DEF Candidates

\* A sequence over a set is one over a larger set.
LEMMA SeqGrows ==
  ASSUME NEW S, NEW T, S \subseteq T
  PROVE  Seq(S) \subseteq Seq(T)
OBVIOUS

\* A notification arrives.
LEMMA ArriveStep ==
  ASSUME IInv, NEW m \in Message, Arrive(m)
  PROVE  IInv'
<1>1. TypeOK /\ UNCHANGED listener /\ handling' = handling
  BY DEF IInv, Arrive, listener, settings
<1>2. arrived' = arrived \cup {m}
  BY DEF Arrive
<1>3. Seq(arrived) \subseteq Seq(arrived') /\ Seq(Seq(arrived)) \subseteq Seq(Seq(arrived'))
  BY <1>2, SeqGrows
<1>4. tray' \in Seq(arrived')
  <2>1. tray \in Seq(arrived') /\ m \in arrived'
    BY <1>1, <1>2, <1>3 DEF TypeOK
  <2> QED
    BY <2>1 DEF Arrive
<1>5. looper' \in Seq(Seq(arrived'))
  <2>1. looper \in Seq(Seq(arrived'))
    BY <1>1, <1>3 DEF TypeOK
  <2> QED
    BY <2>1, <1>4 DEF Arrive
<1>6. TypeOK'
  BY <1>1, <1>2, <1>4, <1>5 DEF TypeOK, Arrive, settings, listener
<1> QED
  BY <1>1, <1>6, ListenerStill DEF IInv, InHand

\* The listener is called back, connected or disconnected.
LEMMA PhoneStep ==
  ASSUME IInv, Read \/ Connect \/ Disconnect
  PROVE  IInv'
<1>1. /\ TypeOK /\ UNCHANGED listener /\ handling' = handling
      /\ UNCHANGED <<settings, arrived>>
  BY DEF IInv, Read, Connect, Disconnect, listener
<1>2. tray \in Seq(arrived) /\ looper \in Seq(Seq(arrived)) /\ losses \in 0..MaxLosses
  BY <1>1 DEF TypeOK
<1>3. /\ tray' \in Seq(arrived) /\ looper' \in Seq(Seq(arrived))
      /\ connected' \in BOOLEAN /\ losses' \in 0..MaxLosses
  <2>1. CASE Read
    BY <1>1, <1>2, <2>1 DEF Read, TypeOK
  <2>2. CASE Connect
    BY <1>2, <2>2 DEF Connect
  <2>3. CASE Disconnect
    <3>1. /\ connected' = FALSE /\ looper' = <<>> /\ tray' = tray
          /\ losses < MaxLosses /\ losses' = losses + 1 /\ MaxLosses \in Nat
      BY <2>3, RelayAssumption DEF Disconnect
    <3>2. losses' \in 0..MaxLosses
      BY <1>2, <3>1
    <3>3. looper' \in Seq(Seq(arrived))
      BY <3>1
    <3> QED
      BY <1>2, <3>1, <3>2, <3>3
  <2> QED
    BY <2>1, <2>2, <2>3
<1>4. TypeOK'
  BY <1>1, <1>3 DEF TypeOK, settings, listener
<1> QED
  BY <1>1, <1>4, ListenerStill DEF IInv, InHand

\* The process dies: it forgets what it saw, and a new life begins.
LEMMA DieStep ==
  ASSUME IInv, Die
  PROVE  IInv'
<1>1. /\ TypeOK /\ UNCHANGED <<arrived, tray, url, saves, work, taken>>
      /\ connected' = FALSE /\ looper' = <<>> /\ handling' = Idle /\ remembered' = <<>>
      /\ losses' = losses + 1 /\ losses < MaxLosses /\ born' = Len(work)
  BY DEF IInv, Die, settings
<1>2. TypeOK'
  <2>1. losses' \in 0..MaxLosses /\ born' \in 0..Len(work)
    BY <1>1, RelayAssumption DEF TypeOK
  <2>2. handling' \in [url : Url \cup {Blank}, left : Seq(Body)]
    BY <1>1 DEF Idle
  <2>3. remembered' \in Seq(CodeBody) /\ Len(remembered') <= MaxFingerprints
    BY <1>1, RelayAssumption
  <2> QED
    <3>1. /\ arrived' \subseteq Message /\ tray' \in Seq(arrived') /\ connected' \in BOOLEAN
          /\ looper' \in Seq(Seq(arrived'))
      <4>1. looper' \in Seq(Seq(arrived))
        BY <1>1
      <4> QED
        BY <1>1, <4>1 DEF TypeOK
    <3>2. /\ url' \in Url \cup {Blank} /\ taken' \in SUBSET (CodeBody \X Routable)
          /\ work' \in Seq([body : CodeBody, url : Url, state : {"queued", "done", "failed"}])
          /\ saves' \in 0..MaxSaves /\ work' = work
      BY <1>1, Zenon DEF TypeOK
    <3> QED
      BY <2>1, <2>2, <2>3, <3>1, <3>2 DEF TypeOK
<1>3. RememberedIsLast' /\ RememberedOnce'
  BY <1>1 DEF RememberedIsLast, RememberedOnce, TypeOK
<1>4. InHand' /\ RepeatedOnlyIfForgotten' /\ EndsAgree'
  BY <1>1 DEF IInv, InHand, Idle, RepeatedOnlyIfForgotten, EndsAgree, TypeOK
<1> QED
  BY <1>2, <1>3, <1>4 DEF IInv

\* The user saves an address, or clears it.
LEMMA SaveStep ==
  ASSUME IInv, NEW u \in Url \cup {Blank}, SaveUrl(u)
  PROVE  IInv'
<1>1. TypeOK /\ UNCHANGED listener /\ handling' = handling /\ UNCHANGED phone
  BY DEF IInv, SaveUrl, listener, phone
<1>2. TypeOK'
  BY <1>1, RelayAssumption DEF TypeOK, SaveUrl, listener, phone
<1> QED
  BY <1>1, <1>2, ListenerStill DEF IInv, InHand

\* The next callback of the looper is taken up.
LEMMA BeginStep ==
  ASSUME IInv, Begin
  PROVE  IInv'
<1>1. /\ TypeOK /\ UNCHANGED listener
      /\ UNCHANGED <<arrived, tray, connected, losses, settings>>
      /\ looper # <<>> /\ looper' = Tail(looper)
      /\ handling' = IF url = Blank THEN Idle
                     ELSE [url |-> url, left |-> Candidates(Head(looper))]
  BY DEF IInv, Begin, listener
<1>2. Head(looper) \in Seq(arrived) /\ looper' \in Seq(Seq(arrived))
  BY <1>1 DEF TypeOK
<1>3. Candidates(Head(looper)) \in Seq(Body)
  BY <1>1, <1>2, Showing
<1>4. /\ handling' \in [url : Url \cup {Blank}, left : Seq(Body)]
      /\ handling'.left # <<>> => handling'.url \in Url
  BY <1>1, <1>3 DEF TypeOK, Idle
<1>5. TypeOK'
  BY <1>1, <1>2, <1>4 DEF TypeOK, listener, settings
<1> QED
  BY <1>1, <1>4, <1>5, ListenerStill

\* A text that is remembered and those before: as many differ as there are.
LEMMA AsManyDiffer ==
  ASSUME TypeOK, RememberedIsLast, RememberedOnce, Len(remembered) = MaxFingerprints,
         NEW i \in 1..Len(work), i <= Len(work) - Len(remembered)
  PROVE  Cardinality({work[k].body : k \in (i + 1)..Len(work)}) >= MaxFingerprints
<1> DEFINE l == Len(work)
           n == Len(remembered)
           D == (i + 1)..l
           S == {work[k].body : k \in D}
           f == [k \in D |-> work[k].body]
           r == [k \in 1..n |-> remembered[k]]
<1>1. l \in Nat /\ n \in Nat /\ i \in Nat /\ MaxFingerprints \in Nat
  BY DEF TypeOK
<1>2. IsFiniteSet(D) /\ IsFiniteSet(1..n) /\ Cardinality(1..n) = n
  BY <1>1, FS_Interval
<1>3. f \in Surjection(D, S)
  BY DEF Surjection
<1>4. IsFiniteSet(S)
  BY <1>2, <1>3, FS_Surjection
<1>5. ASSUME NEW k \in 1..n
      PROVE  remembered[k] \in S
  <2>1. l - n + k \in D /\ remembered[k] = work[l - n + k].body
    BY <1>1 DEF RememberedIsLast
  <2> QED
    BY <2>1
<1>6. r \in Injection(1..n, S)
  <2>1. r \in [1..n -> S]
    BY <1>5
  <2>2. \A a, b \in 1..n : r[a] = r[b] => a = b
    BY DEF RememberedOnce
  <2> HIDE DEF r, S, n
  <2> QED
    BY <2>1, <2>2, Fun_IsInj
<1>7. n <= Cardinality(S)
  BY <1>2, <1>4, <1>6, FS_Injection
<1>8. Cardinality(S) \in Nat
  BY <1>4, FS_CardinalityType
<1> QED
  BY <1>1, <1>7, <1>8

\* The texts that are left after one.
LEMMA OneInspected ==
  ASSUME TypeOK, handling.left # <<>>
  PROVE  LET h == [handling EXCEPT !.left = Tail(handling.left)] IN
         h \in [url : Url \cup {Blank}, left : Seq(Body)] /\ h.url = handling.url
<1> DEFINE l == handling.left
<1>1. handling = [url |-> handling.url, left |-> l] /\ l \in Seq(Body)
      /\ handling.url \in Url \cup {Blank}
  BY DEF TypeOK
<1>2. Tail(l) \in Seq(Body)
  BY <1>1
<1> HIDE DEF l
<1>3. [handling EXCEPT !.left = Tail(l)] = [url |-> handling.url, left |-> Tail(l)]
  BY <1>1
<1> QED
  BY <1>1, <1>2, <1>3 DEF l

\* A text is passed over.
LEMMA PassOver ==
  ASSUME IInv, Inspect, ~Fresh(Head(handling.left))
  PROVE  IInv'
<1>1. TypeOK /\ UNCHANGED listener /\ UNCHANGED <<phone, settings>> /\ handling.left # <<>>
  BY DEF IInv, Inspect, listener, phone
<1>2. handling' = [handling EXCEPT !.left = Tail(handling.left)]
  BY DEF Inspect
<1>3. /\ handling' \in [url : Url \cup {Blank}, left : Seq(Body)]
      /\ handling'.url = handling.url
  BY <1>1, <1>2, OneInspected
<1>4. TypeOK'
  BY <1>1, <1>3 DEF TypeOK, listener, phone, settings
<1> QED
  BY <1>1, <1>3, <1>4, ListenerStill DEF IInv, InHand

\* The work request a code becomes.
Request(body, u) == [body |-> body, url |-> u, state |-> "queued"]

\* A code that is not remembered is.
LEMMA RememberIt ==
  ASSUME IInv, NEW body \in CodeBody, body \notin Range(remembered), NEW u,
         remembered' = Remember(body), work' = Append(work, Request(body, u)), born' = born
  PROVE  /\ remembered' \in Seq(CodeBody) /\ Len(remembered') <= MaxFingerprints
         /\ RememberedIsLast' /\ RememberedOnce'
<1> DEFINE n == Len(remembered)
           l == Len(work)
           longer == Append(remembered, body)
<1>1. /\ TypeOK /\ RememberedIsLast /\ RememberedOnce
      /\ n \in Nat /\ l \in Nat /\ n <= MaxFingerprints /\ MaxFingerprints \in Nat \ {0}
      /\ born \in 0..l /\ remembered \in Seq(CodeBody)
  BY RelayAssumption DEF IInv, TypeOK
<1>2. /\ longer \in Seq(CodeBody) /\ Len(longer) = n + 1
      /\ \A i \in 1..n : longer[i] = remembered[i]
      /\ longer[n + 1] = body
  BY <1>1
<1>3. /\ Len(work') = l + 1 /\ work'[l + 1].body = body
      /\ \A i \in 1..l : work'[i] = work[i]
  BY <1>1 DEF TypeOK, Request
<1>4. \A i \in 1..n : remembered[i] # body
  BY <1>1 DEF Range
<1>5. \A i \in 1..n : remembered[i] = work[l - n + i].body
  BY DEF RememberedIsLast, IInv
<1>6. \A i, j \in 1..n : remembered[i] = remembered[j] => i = j
  BY <1>1 DEF RememberedOnce
<1>7. n <= l - born /\ (n = l - born \/ n = MaxFingerprints)
  BY <1>1 DEF RememberedIsLast
<1> HIDE DEF n, l, longer
<1>8. ASSUME NEW i \in 1..n
      PROVE  remembered[i] = work'[l - n + i].body
  <2>1. l - n + i \in 1..l
    BY <1>1, <1>7
  <2> QED
    BY <1>3, <1>5, <2>1
<1>9. CASE n < MaxFingerprints
  <2>1. remembered' = longer
    BY <1>1, <1>2, <1>9 DEF Remember, longer
  <2>2. (l + 1) - (n + 1) = l - n /\ l - n + (n + 1) = l + 1
    BY <1>1
  <2>3. ASSUME NEW i \in 1..(n + 1)
        PROVE  longer[i] = work'[l - n + i].body
    <3>1. CASE i = n + 1
      BY <1>2, <1>3, <2>2, <3>1
    <3>2. CASE i # n + 1
      <4>1. i \in 1..n
        BY <1>1, <3>2
      <4> QED
        BY <1>2, <1>8, <4>1
    <3> QED
      BY <3>1, <3>2
  <2>4. RememberedIsLast'
    <3>1. n + 1 <= (l + 1) - born /\ n + 1 = (l + 1) - born
      BY <1>1, <1>7, <1>9
    <3> QED
      <4>1. /\ Len(remembered') = n + 1 /\ Len(work') = l + 1 /\ born' = born
            /\ Len(work') - Len(remembered') = l - n
        BY <1>2, <1>3, <2>1, <2>2
      <4>2. \A i \in 1..Len(remembered') :
              remembered'[i] = work'[Len(work') - Len(remembered') + i].body
        BY <2>1, <2>3, <4>1
      <4> QED
        BY <3>1, <4>1, <4>2 DEF RememberedIsLast
  <2>5. RememberedOnce'
    <3> SUFFICES ASSUME NEW i \in 1..(n + 1), NEW j \in 1..(n + 1), longer[i] = longer[j]
                 PROVE  i = j
      BY <1>2, <2>1 DEF RememberedOnce
    <3>1. (i \in 1..n \/ i = n + 1) /\ (j \in 1..n \/ j = n + 1)
      BY <1>1
    <3> QED
      BY <1>2, <1>4, <1>6, <3>1
  <2> QED
    BY <1>1, <1>2, <1>9, <2>1, <2>4, <2>5
<1>10. CASE n = MaxFingerprints
  <2>1. remembered' = SubSeq(longer, 2, n + 1)
    BY <1>1, <1>2, <1>10 DEF Remember, longer
  <2>2. /\ remembered' \in Seq(CodeBody) /\ Len(remembered') = n
        /\ \A i \in 1..n : remembered'[i] = longer[i + 1]
    BY <1>1, <1>2, <1>10, <2>1
  <2>3. ASSUME NEW i \in 1..n
        PROVE  longer[i + 1] = work'[(l + 1) - n + i].body
    <3>1. CASE i = n
      <4>1. (l + 1) - n + i = l + 1 /\ i + 1 = n + 1
        BY <1>1, <3>1
      <4> QED
        BY <1>2, <1>3, <4>1
    <3>2. CASE i # n
      <4>1. i + 1 \in 1..n /\ (l + 1) - n + i = l - n + (i + 1)
        BY <1>1, <3>2
      <4> QED
        BY <1>2, <1>8, <4>1
    <3> QED
      BY <3>1, <3>2
  <2>4. RememberedIsLast'
    <3>1. n <= (l + 1) - born
      BY <1>1, <1>7
    <3> QED
      BY <1>3, <1>10, <2>2, <2>3, <3>1 DEF RememberedIsLast
  <2>5. RememberedOnce'
    <3> SUFFICES ASSUME NEW i \in 1..Len(remembered'), NEW j \in 1..Len(remembered'),
                        remembered'[i] = remembered'[j]
                 PROVE  i = j
      BY DEF RememberedOnce
    <3>1. /\ i \in 1..n /\ j \in 1..n /\ longer[i + 1] = longer[j + 1]
          /\ (i + 1 \in 1..n \/ i = n) /\ (j + 1 \in 1..n \/ j = n)
      BY <1>1, <2>2
    <3>2. CASE i = n
      BY <1>1, <1>2, <1>4, <3>1, <3>2
    <3>3. CASE i # n
      <4>1. i + 1 \in 1..n /\ longer[i + 1] = remembered[i + 1] /\ remembered[i + 1] # body
        BY <1>2, <1>4, <3>1, <3>3
      <4>2. j + 1 \in 1..n
        BY <1>2, <3>1, <4>1
      <4>3. i + 1 = j + 1
        BY <1>2, <1>6, <3>1, <4>1, <4>2
      <4> QED
        BY <1>1, <3>1, <4>3
    <3> QED
      BY <3>2, <3>3
  <2> QED
    BY <1>1, <1>10, <2>2, <2>4, <2>5
<1> QED
  BY <1>1, <1>9, <1>10

\* A text that is queued again was forgotten.
LEMMA AgainIfForgotten ==
  ASSUME IInv, NEW body \in CodeBody, body \notin Range(remembered), NEW u,
         work' = Append(work, Request(body, u)), born' = born
  PROVE  RepeatedOnlyIfForgotten'
<1> DEFINE n == Len(remembered)
           l == Len(work)
<1>1. /\ TypeOK /\ RememberedIsLast /\ RememberedOnce
      /\ n \in Nat /\ l \in Nat /\ n <= MaxFingerprints /\ MaxFingerprints \in Nat \ {0}
      /\ born \in 0..l
  BY RelayAssumption DEF IInv, TypeOK
<1>2. /\ Len(work') = l + 1 /\ work'[l + 1].body = body
      /\ \A i \in 1..l : work'[i] = work[i]
  BY <1>1 DEF TypeOK, Request
<1> SUFFICES ASSUME NEW i \in (born + 1)..(l + 1), NEW j \in (born + 1)..(l + 1),
                    i < j, work'[i].body = work'[j].body
             PROVE  Cardinality({work'[k].body : k \in (i + 1)..(j - 1)}) >= MaxFingerprints
  BY <1>2 DEF RepeatedOnlyIfForgotten
<1>3. i \in 1..l /\ i \in (born + 1)..l /\ j - 1 \in i..l
  BY <1>1
<1>4. {work'[k].body : k \in (i + 1)..(j - 1)} = {work[k].body : k \in (i + 1)..(j - 1)}
  BY <1>1, <1>2, <1>3
<1>5. CASE j \in (born + 1)..l
  BY <1>1, <1>2, <1>3, <1>4, <1>5 DEF IInv, RepeatedOnlyIfForgotten
<1>6. CASE j = l + 1
  <2>1. work[i].body = body
    BY <1>2, <1>3, <1>6
  <2>2. i <= l - n
    <3> SUFFICES ASSUME i > l - n
                 PROVE  FALSE
      BY <1>1, <1>3
    <3>1. i - (l - n) \in 1..n
      BY <1>1, <1>3
    <3>2. remembered[i - (l - n)] = work[l - n + (i - (l - n))].body
      BY <1>1, <3>1 DEF RememberedIsLast
    <3>3. l - n + (i - (l - n)) = i
      BY <1>1, <1>3
    <3>4. remembered[i - (l - n)] = body
      BY <2>1, <3>2, <3>3
    <3> QED
      BY <1>1, <3>1, <3>4 DEF Range, TypeOK
  <2>3. n = MaxFingerprints
    BY <1>1, <1>3, <2>2 DEF RememberedIsLast
  <2>4. Cardinality({work[k].body : k \in (i + 1)..l}) >= MaxFingerprints
    BY <1>1, <1>3, <2>2, <2>3, AsManyDiffer
  <2>5. (i + 1)..(j - 1) = (i + 1)..l
    BY <1>1, <1>6
  <2> QED
    BY <1>4, <2>4, <2>5
<1>7. j \in (born + 1)..l \/ j = l + 1
  BY <1>1
<1> QED
  BY <1>5, <1>6, <1>7

\* A code that is not remembered is remembered and queued.
LEMMA QueueStep ==
  ASSUME IInv, Inspect, Fresh(Head(handling.left))
  PROVE  IInv'
<1> DEFINE body == Head(handling.left)
           l == Len(work)
<1>1. /\ TypeOK /\ UNCHANGED <<phone, settings, taken>> /\ handling.left # <<>>
      /\ handling' = [handling EXCEPT !.left = Tail(handling.left)]
      /\ remembered' = Remember(body)
      /\ work' = Append(work, Request(body, handling.url))
  BY DEF IInv, Inspect, Queue, Request
<1>2. body \in CodeBody /\ body \notin Range(remembered)
  BY DEF Fresh
<1> HIDE DEF body
<1>3. /\ handling' \in [url : Url \cup {Blank}, left : Seq(Body)]
      /\ handling'.url = handling.url /\ handling.url \in Url
  BY <1>1, OneInspected DEF IInv, InHand
<1>4. /\ remembered' \in Seq(CodeBody) /\ Len(remembered') <= MaxFingerprints
      /\ RememberedIsLast' /\ RememberedOnce'
  BY <1>1, <1>2, RememberIt DEF phone
<1>5. RepeatedOnlyIfForgotten'
  BY <1>1, <1>2, AgainIfForgotten DEF phone
<1>6. /\ Request(body, handling.url)
           \in [body : CodeBody, url : Url, state : {"queued", "done", "failed"}]
      /\ Request(body, handling.url).state = "queued"
  BY <1>2, <1>3 DEF Request
<1>7. /\ work' \in Seq([body : CodeBody, url : Url, state : {"queued", "done", "failed"}])
      /\ l \in Nat /\ Len(work') = l + 1
      /\ DOMAIN work' = 1..(l + 1) /\ DOMAIN work = 1..l
      /\ work'[l + 1] = Request(body, handling.url)
      /\ \A w \in 1..l : work'[w] = work[w]
  BY <1>1, <1>6 DEF TypeOK
<1>8. TypeOK'
  BY <1>1, <1>3, <1>4, <1>7 DEF TypeOK, phone, settings
<1>9. InHand' /\ EndsAgree'
  <2>1. \A w \in DOMAIN work' :
          (w \in DOMAIN work /\ work'[w] = work[w]) \/ work'[w].state = "queued"
    BY <1>6, <1>7
  <2>2. taken' = taken
    BY <1>1
  <2> QED
    BY <1>3, <2>1, <2>2 DEF IInv, InHand, EndsAgree
<1> QED
  BY <1>4, <1>5, <1>8, <1>9 DEF IInv

\* A request that ends keeps its text and its address.
LEMMA EndStep ==
  ASSUME IInv, NEW w \in DOMAIN work, Work(w)
  PROVE  IInv'
<1>1. /\ TypeOK /\ UNCHANGED <<phone, handling, remembered, settings>>
      /\ work[w].state = "queued"
  BY DEF IInv, Work, Forward, ForwardUnheard, Refuse
<1> DEFINE Requests == [body : CodeBody, url : Url, state : {"queued", "done", "failed"}]
<1>2. /\ work \in Seq(Requests) /\ DOMAIN work = 1..Len(work) /\ w \in 1..Len(work)
      /\ \A x \in 1..Len(work) : work[x] \in Requests
  <2>1. work \in Seq(Requests)
    BY <1>1 DEF TypeOK
  <2> HIDE DEF Requests
  <2> QED
    BY <2>1
<1>3. \/ /\ work[w].url \in Routable /\ work' = [work EXCEPT ![w].state = "done"]
         /\ taken' = taken \cup {<<work[w].body, work[w].url>>}
      \/ /\ work[w].url \in Routable /\ work' = work
         /\ taken' = taken \cup {<<work[w].body, work[w].url>>}
      \/ /\ work[w].url \notin Routable /\ work' = [work EXCEPT ![w].state = "failed"]
         /\ taken' = taken
  BY DEF Work, Forward, ForwardUnheard, Refuse, End
<1>4. /\ work' \in Seq(Requests)
      /\ Len(work') = Len(work) /\ DOMAIN work' = DOMAIN work
      /\ \A x \in DOMAIN work : work'[x].body = work[x].body /\ work'[x].url = work[x].url
      /\ \A x \in DOMAIN work : x # w => work'[x] = work[x]
  <2>1. CASE work' = work
    BY <1>2, <2>1
  <2>2. ASSUME NEW state \in {"done", "failed"}, work' = [work EXCEPT ![w].state = state]
        PROVE  /\ work' \in Seq(Requests) /\ Len(work') = Len(work) /\ DOMAIN work' = DOMAIN work
               /\ \A x \in DOMAIN work :
                    work'[x].body = work[x].body /\ work'[x].url = work[x].url
               /\ \A x \in DOMAIN work : x # w => work'[x] = work[x]
    <3> DEFINE r == [work[w] EXCEPT !.state = state]
    <3>1. r \in Requests /\ r.body = work[w].body /\ r.url = work[w].url
      BY <1>2
    <3>2. work' = [work EXCEPT ![w] = r]
      BY <2>2
    <3> HIDE DEF r, Requests
    <3> QED
      BY <1>2, <3>1, <3>2
  <2> QED
    BY <1>3, <2>1, <2>2
<1>5. taken \subseteq taken' /\ taken' \in SUBSET (CodeBody \X Routable)
  BY <1>1, <1>2, <1>3 DEF TypeOK
<1>6. TypeOK'
  BY <1>1, <1>4, <1>5 DEF TypeOK, phone, settings
<1>7. RememberedIsLast' /\ RememberedOnce'
  <2>1. Len(work) \in Nat /\ Len(remembered) \in Nat /\ born \in Nat
    BY <1>1 DEF TypeOK
  <2>2. RememberedIsLast /\ RememberedOnce /\ remembered' = remembered /\ born' = born
    BY <1>1 DEF IInv, phone
  <2>3. ASSUME NEW i \in 1..Len(remembered)
        PROVE  remembered[i] = work'[Len(work) - Len(remembered) + i].body
    <3>1. Len(work) - Len(remembered) + i \in DOMAIN work
      <4>1. Len(remembered) <= Len(work) - born
        BY <2>2 DEF RememberedIsLast
      <4> HIDE DEF Requests
      <4> QED
        BY <1>2, <2>1, <4>1
    <3> QED
      BY <1>4, <2>2, <3>1 DEF RememberedIsLast
  <2> QED
    BY <1>4, <2>2, <2>3 DEF RememberedIsLast, RememberedOnce
<1>8. RepeatedOnlyIfForgotten'
  <2> SUFFICES ASSUME NEW i \in (born + 1)..Len(work), NEW j \in (born + 1)..Len(work),
                      i < j, work'[i].body = work'[j].body
               PROVE  Cardinality({work'[k].body : k \in (i + 1)..(j - 1)}) >= MaxFingerprints
    BY <1>1, <1>4 DEF RepeatedOnlyIfForgotten, phone
  <2>1. born \in Nat /\ Len(work) \in Nat
    BY <1>1 DEF TypeOK
  <2>2. i \in DOMAIN work /\ j \in DOMAIN work
    BY <1>2, <2>1
  <2>3. {work'[k].body : k \in (i + 1)..(j - 1)} = {work[k].body : k \in (i + 1)..(j - 1)}
    <3>1. \A k \in (i + 1)..(j - 1) : work'[k].body = work[k].body
      <4> TAKE k \in (i + 1)..(j - 1)
      <4>1. k \in DOMAIN work
        BY <1>2, <2>1
      <4> QED
        BY <1>4, <4>1
    <3> QED
      BY <3>1
  <2> QED
    BY <1>4, <2>2, <2>3 DEF IInv, RepeatedOnlyIfForgotten
<1>9. EndsAgree'
  <2> SUFFICES ASSUME NEW x \in DOMAIN work
               PROVE  /\ work'[x].state = "done" => <<work[x].body, work[x].url>> \in taken'
                      /\ work'[x].state = "failed" => <<work[x].body, work[x].url>> \notin taken'
    BY <1>4 DEF EndsAgree
  <2>1. CASE x = w
    BY <1>1, <1>2, <1>3, <2>1 DEF TypeOK
  <2>2. CASE x # w
    <3>1. work'[x] = work[x]
      BY <1>4, <2>2
    <3>2. work[x].state = "failed" => work[x].url \notin Routable
      BY DEF IInv, InHand
    <3> QED
      BY <1>5, <3>1, <3>2 DEF IInv, EndsAgree
  <2> QED
    BY <2>1, <2>2
<1>10. InHand'
  BY <1>1, <1>2, <1>3, <1>4 DEF IInv, InHand
<1> QED
  BY <1>6, <1>7, <1>8, <1>9, <1>10 DEF IInv

-----------------------------------------------------------------------------

\* What the listener remembers, what it has queued and what the service took
\* agree at all times, deaths of the process and lost answers included.
THEOREM Invariant == Spec => []IInv
<1>1. Init => IInv
  <2> SUFFICES ASSUME Init
               PROVE  IInv
    OBVIOUS
  <2>1. TypeOK
    <3>1. tray \in Seq(arrived) /\ looper \in Seq(Seq(arrived)) /\ remembered \in Seq(CodeBody)
      BY DEF Init
    <3>2. /\ work \in Seq([body : CodeBody, url : Url, state : {"queued", "done", "failed"}])
          /\ handling \in [url : Url \cup {Blank}, left : Seq(Body)]
      BY DEF Init, Idle
    <3>3. /\ losses \in 0..MaxLosses /\ saves \in 0..MaxSaves /\ born \in 0..Len(work)
          /\ Len(remembered) <= MaxFingerprints
      BY RelayAssumption DEF Init
    <3> QED
      BY <3>1, <3>2, <3>3 DEF Init, TypeOK
  <2> QED
    BY <2>1, RelayAssumption DEF Init, IInv, RememberedIsLast, RememberedOnce, InHand, Idle,
       RepeatedOnlyIfForgotten, EndsAgree
<1>2. IInv /\ [Next]_vars => IInv'
  <2> SUFFICES ASSUME IInv, [Next]_vars
               PROVE  IInv'
    OBVIOUS
  <2>1. CASE \E m \in Message : Arrive(m)
    BY <2>1, ArriveStep
  <2>2. CASE Read \/ Connect \/ Disconnect
    BY <2>2, PhoneStep
  <2>3. CASE Die
    BY <2>3, DieStep
  <2>4. CASE Begin
    BY <2>4, BeginStep
  <2>5. CASE Inspect
    BY <2>5, PassOver, QueueStep
  <2>6. CASE \E u \in Url \cup {Blank} : SaveUrl(u)
    BY <2>6, SaveStep
  <2>7. CASE \E w \in DOMAIN work : Work(w)
    BY <2>7, EndStep
  <2>8. CASE UNCHANGED vars
    <3>1. TypeOK'
      BY <2>8 DEF vars, IInv, TypeOK, settings
    <3> QED
      BY <2>8, <3>1, ListenerStill DEF vars, IInv, InHand, listener
  <2> QED
    BY <2>1, <2>2, <2>3, <2>4, <2>5, <2>6, <2>7, <2>8 DEF Next
<1> QED
  BY <1>1, <1>2, PTL DEF Spec

\* So a text is queued twice only if it was forgotten, and a request that is
\* done was taken by the service, and one that failed was not.
THEOREM RelayKeeps == Spec => []RelayHolds
<1>1. IInv => RelayHolds
  BY DEF IInv, RelayHolds
<1> QED
  BY Invariant, <1>1, PTL
=============================================================================
