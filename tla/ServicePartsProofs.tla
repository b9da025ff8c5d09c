------------------------ MODULE ServicePartsProofs --------------------------
(***************************************************************************)
(* The parts of ServiceParts, for any values of their constants.           *)
(*                                                                         *)
(* Records: the token in the store is the one GoPay issued last, the       *)
(* profile has the PIN saved last, a payment is handed on only if the      *)
(* balance told last covers it, and an account keeps its device - for      *)
(* accounts whose calls came in turn and lost no save.  The invariant says *)
(* what a copy is worth.  On such an account only one call works at a      *)
(* time, so that its copy of the state holds the token and balance of now  *)
(* (Fresh), its copy of the profile the PIN of now, its device the stored  *)
(* one (Carries); and what is stored is as good, or a call that will save  *)
(* its copy is about to.                                                   *)
(*                                                                         *)
(* Devices: a stored device is whole or will be completed by every call    *)
(* that sends it (OldDevice), and one the history calls whole is           *)
(* consistent and needs nothing (Faced).                                   *)
(*                                                                         *)
(* Requests: what is sent is the request of one of the calls in a session  *)
(* as its client made it (Made), so that what holds of the headers of any  *)
(* call (Headed) and of its signature (Signs) holds of what is sent.       *)
(*                                                                         *)
(* Leases: what ProxyLeaseProofs says, once for each way they are used.    *)
(***************************************************************************)
EXTENDS ServiceParts, TLAPS

Pcs == {"idle", "profile", "resolve", "mark", "check", "balance", "start",
        "edit", "work", "save", "sync", "device"}

CallType ==
  [pc : Pcs, acct : Account \cup {NoOne}, link : BOOLEAN, amount : Amounts, st : State,
   pf : Profile, valid : BOOLEAN, dev : 0..MaxDevices]

Sound(r) ==
  /\ r.pc \in {"resolve", "mark", "check", "balance", "start"} => r.st.channel \in Channel
  /\ r.pc = "idle" <=> r.acct = NoOne

Typed == TypeOK /\ \A c \in Caller : Sound(call[c])

\* A new call, and a call that ended, are of their type.
LEMMA RecordTypes0 ==
  /\ NoState \in State /\ NoProfile \in Profile /\ Idle \in CallType
  /\ MaxTokens \in Nat /\ MaxPins \in Nat /\ MaxDevices \in Nat
  /\ Amounts \subseteq Nat /\ 0 \in Amounts /\ NoOne \notin Account
BY RecordConstants
   DEF AccountRecordsConstants, NoState, State, NoProfile, Profile, Idle, CallType, Pcs,
       None, NoChannel, Channel

\* What a step of one call leaves: the others' calls are as they were.
LEMMA OneCallTyped ==
  ASSUME Typed, NEW c \in Caller, NEW r \in CallType, Sound(r),
         call' = [call EXCEPT ![c] = r],
         state' \in [Account -> State], profile' \in [Account -> Profile],
         device' \in [Account -> 0..MaxDevices],
         gopay' \in [Account -> [token : 0..MaxTokens, bal : Amounts]],
         flow' \in [acct : Account \cup {NoOne}, amount : Amounts, link : BOOLEAN,
                    pin : 0..MaxPins],
         told' \in [Account -> Amounts], pinSet' \in [Account -> 0..MaxPins],
         spoiled' \subseteq Account
  PROVE  Typed'
BY DEF Typed, TypeOK, CallType, Sound, Pcs

LEMMA InitTyped == Init => Typed
<1> SUFFICES ASSUME Init
             PROVE  Typed
  OBVIOUS
<1>1. /\ 0 \in 0..MaxTokens /\ 0 \in 0..MaxPins /\ 0 \in 0..MaxDevices
  BY RecordTypes0
<1>2. /\ state \in [Account -> State] /\ profile \in [Account -> Profile]
      /\ device \in [Account -> 0..MaxDevices]
      /\ gopay \in [Account -> [token : 0..MaxTokens, bal : Amounts]]
      /\ told \in [Account -> Amounts] /\ pinSet \in [Account -> 0..MaxPins]
      /\ spoiled \subseteq Account
  BY <1>1, RecordTypes0 DEF Init, None
<1>3. call \in [Caller -> CallType] /\ \A c \in Caller : call[c] = Idle
  BY RecordTypes0 DEF Init
<1>4. flow \in [acct : Account \cup {NoOne}, amount : Amounts, link : BOOLEAN, pin : 0..MaxPins]
  BY <1>1, RecordTypes0 DEF Init, NoFlow, None
<1>5. Sound(Idle)
  BY DEF Sound, Idle
<1> QED
  BY <1>2, <1>3, <1>4, <1>5 DEF Typed, TypeOK, CallType, Pcs, Sound

LEMMA BeginTyped ==
  ASSUME Typed, NEW c \in Caller, NEW a \in Account, NEW r \in CallType, Sound(r),
         Begin(c, a, r)
  PROVE  /\ call' = [call EXCEPT ![c] = r]
         /\ spoiled' \subseteq Account
BY DEF Typed, TypeOK, Begin

LEMMA StartTyped ==
  ASSUME Typed, NEW c \in Caller, NEW a \in Account, StartGopayPayment(c, a)
  PROVE  Typed'
<1>1. PICK link \in BOOLEAN, amount \in Amounts :
        Begin(c, a, [Idle EXCEPT !.pc = "profile", !.acct = a, !.link = link,
                                 !.amount = amount, !.st = state[a]])
  BY DEF StartGopayPayment
<1> DEFINE r == [Idle EXCEPT !.pc = "profile", !.acct = a, !.link = link,
                             !.amount = amount, !.st = state[a]]
<1>2. r \in CallType /\ Sound(r)
  BY RecordTypes0 DEF Typed, TypeOK, CallType, Pcs, Idle, Sound
<1> HIDE DEF r
<1>3. call' = [call EXCEPT ![c] = r] /\ spoiled' \subseteq Account
  BY <1>1, <1>2, BeginTyped DEF r
<1> QED
  BY <1>2, <1>3, OneCallTyped DEF StartGopayPayment, Typed, TypeOK

LEMMA LoadProfileTyped ==
  ASSUME Typed, NEW c \in Caller, NEW a \in Account, LoadProfile(c, a)
  PROVE  Typed'
<1> DEFINE r == [Idle EXCEPT !.pc = "edit", !.acct = a, !.pf = profile[a]]
<1>2. r \in CallType /\ Sound(r)
  BY RecordTypes0 DEF Typed, TypeOK, CallType, Pcs, Idle, Sound
<1>1. Begin(c, a, r)
  BY DEF LoadProfile
<1> HIDE DEF r
<1>3. call' = [call EXCEPT ![c] = r] /\ spoiled' \subseteq Account
  BY <1>1, <1>2, BeginTyped
<1> QED
  BY <1>2, <1>3, OneCallTyped DEF LoadProfile, Typed, TypeOK

LEMMA CreateTyped ==
  ASSUME Typed, NEW c \in Caller, NEW a \in Account, handleCreateAccount(c, a)
  PROVE  Typed'
<1> DEFINE r == [Idle EXCEPT !.pc = "edit", !.acct = a, !.pf = NoProfile]
<1>2. r \in CallType /\ Sound(r)
  BY RecordTypes0 DEF Typed, TypeOK, CallType, Pcs, Idle, Sound
<1>1. Begin(c, a, r)
  BY DEF handleCreateAccount
<1> HIDE DEF r
<1>3. call' = [call EXCEPT ![c] = r] /\ spoiled' \subseteq Account
  BY <1>1, <1>2, BeginTyped
<1>4. PICK channel \in Channel :
        state' = [state EXCEPT ![a] = [NoState EXCEPT !.here = TRUE, !.phone = TRUE,
                                                      !.channel = channel]]
  BY DEF handleCreateAccount
<1> DEFINE st == [NoState EXCEPT !.here = TRUE, !.phone = TRUE, !.channel = channel]
<1>5. st \in State
  BY RecordTypes0 DEF State, NoState
<1> HIDE DEF st
<1>6. state' \in [Account -> State]
  BY <1>4, <1>5 DEF Typed, TypeOK, st
<1> QED
  BY <1>2, <1>3, <1>6, OneCallTyped DEF handleCreateAccount, Typed, TypeOK

LEMMA LoadStateTyped ==
  ASSUME Typed, NEW c \in Caller, NEW a \in Account, LoadGopayAccountState(c, a)
  PROVE  Typed'
<1> DEFINE r == [Idle EXCEPT !.pc = "work", !.acct = a, !.st = state[a]]
<1>2. r \in CallType /\ Sound(r)
  BY RecordTypes0 DEF Typed, TypeOK, CallType, Pcs, Idle, Sound
<1>1. Begin(c, a, r)
  BY DEF LoadGopayAccountState
<1> HIDE DEF r
<1>3. call' = [call EXCEPT ![c] = r] /\ spoiled' \subseteq Account
  BY <1>1, <1>2, BeginTyped
<1> QED
  BY <1>2, <1>3, OneCallTyped DEF LoadGopayAccountState, Typed, TypeOK

LEMMA LoadDeviceTyped ==
  ASSUME Typed, NEW c \in Caller, NEW a \in Account, loadAccountProfile(c, a)
  PROVE  Typed'
<1>1. CASE Begin(c, a, [Idle EXCEPT !.pc = "device", !.acct = a, !.dev = device[a]])
  <2> DEFINE r == [Idle EXCEPT !.pc = "device", !.acct = a, !.dev = device[a]]
  <2>1. r \in CallType /\ Sound(r)
    BY RecordTypes0 DEF Typed, TypeOK, CallType, Pcs, Idle, Sound
  <2> HIDE DEF r
  <2>2. call' = [call EXCEPT ![c] = r] /\ spoiled' \subseteq Account
    BY <1>1, <2>1, BeginTyped DEF r
  <2> QED
    BY <2>1, <2>2, OneCallTyped DEF loadAccountProfile, Typed, TypeOK
<1>2. CASE ~Begin(c, a, [Idle EXCEPT !.pc = "device", !.acct = a, !.dev = device[a]])
  <2> DEFINE r == [Idle EXCEPT !.pc = "device", !.acct = a]
  <2>1. r \in CallType /\ Sound(r)
    BY RecordTypes0 DEF Typed, TypeOK, CallType, Pcs, Idle, Sound
  <2>2. call' = [call EXCEPT ![c] = r] /\ spoiled' \subseteq Account
    BY <1>2 DEF loadAccountProfile, Typed, TypeOK
  <2> HIDE DEF r
  <2> QED
    BY <2>1, <2>2, OneCallTyped DEF loadAccountProfile, Typed, TypeOK
<1> QED
  BY <1>1, <1>2

\* A call that ends, and one that only goes on to its next step.
LEMMA EndTyped ==
  ASSUME Typed, NEW c \in Caller, End(c),
         state' \in [Account -> State], profile' \in [Account -> Profile],
         device' \in [Account -> 0..MaxDevices],
         gopay' \in [Account -> [token : 0..MaxTokens, bal : Amounts]],
         flow' \in [acct : Account \cup {NoOne}, amount : Amounts, link : BOOLEAN,
                    pin : 0..MaxPins],
         told' \in [Account -> Amounts], pinSet' \in [Account -> 0..MaxPins],
         spoiled' \subseteq Account
  PROVE  Typed'
<1>1. Idle \in CallType /\ Sound(Idle)
  BY RecordTypes0 DEF Idle, Sound
<1> QED
  BY <1>1, OneCallTyped DEF End

\* What a call that is under way is.
LEMMA CallTyped ==
  ASSUME Typed, NEW c \in Caller, call[c].pc # "idle"
  PROVE  /\ call[c] \in CallType /\ Sound(call[c]) /\ call[c].acct \in Account
         /\ state \in [Account -> State] /\ state[call[c].acct] \in State
         /\ profile \in [Account -> Profile] /\ profile[call[c].acct] \in Profile
         /\ gopay \in [Account -> [token : 0..MaxTokens, bal : Amounts]]
         /\ gopay[call[c].acct] \in [token : 0..MaxTokens, bal : Amounts]
         /\ device \in [Account -> 0..MaxDevices] /\ device[call[c].acct] \in 0..MaxDevices
         /\ flow \in [acct : Account \cup {NoOne}, amount : Amounts, link : BOOLEAN,
                      pin : 0..MaxPins]
         /\ told \in [Account -> Amounts]
         /\ pinSet \in [Account -> 0..MaxPins] /\ pinSet[call[c].acct] \in 0..MaxPins
         /\ spoiled \subseteq Account
<1>1. call[c] \in CallType /\ Sound(call[c])
  BY DEF Typed, TypeOK, CallType, Pcs
<1>2. call[c].acct \in Account
  BY <1>1 DEF CallType, Sound
<1> QED
  BY <1>1, <1>2 DEF Typed, TypeOK

LEMMA ProfileTyped ==
  ASSUME Typed, NEW c \in Caller, loadGopayAccountProfile(c)
  PROVE  Typed'
<1> DEFINE q == call[c]
           pf == profile[q.acct]
           channel == FirstOf(FirstOf(pf.channel, q.st.channel), "sms")
<1>1. call[c].pc = "profile" /\ UNCHANGED <<state, profile, device, gopay, flow, told, pinSet,
                                            spoiled>>
  BY DEF loadGopayAccountProfile
<1>2. CASE End(c)
  BY <1>1, <1>2, CallTyped, EndTyped
<1>3. CASE ~End(c)
  <2> DEFINE st == [q.st EXCEPT !.channel = channel]
             r == [q EXCEPT !.pc = "resolve", !.pf = pf, !.st = st]
  <2>1. channel \in Channel
    BY <1>1, CallTyped DEF CallType, State, Profile, FirstOf, Channel, NoChannel
  <2>2. call' = [call EXCEPT ![c] = r]
    BY <1>3 DEF loadGopayAccountProfile
  <2> HIDE DEF channel
  <2>3. q \in CallType /\ q.acct \in Account /\ pf \in Profile
    BY <1>1, CallTyped
  <2>4. st \in State /\ st.channel \in Channel
    BY <2>1, <2>3 DEF CallType, State
  <2> HIDE DEF q, pf, st
  <2>5. r \in CallType /\ Sound(r)
    BY <2>3, <2>4, RecordTypes0 DEF CallType, Sound, Pcs
  <2> HIDE DEF r
  <2> QED
    BY <1>1, <2>2, <2>5, CallTyped, OneCallTyped DEF q, pf
<1> QED
  BY <1>2, <1>3

LEMMA ResolveTyped ==
  ASSUME Typed, NEW c \in Caller, resolvePaymentAccount(c)
  PROVE  Typed'
<1> DEFINE q == call[c]
           st == [q.st EXCEPT !.here = TRUE]
           pc == IF q.pf.channel = NoChannel THEN "mark" ELSE "check"
           r == [q EXCEPT !.st = st, !.pc = pc]
<1>1. call[c].pc = "resolve" /\ UNCHANGED <<profile, device, gopay, flow, told, pinSet, spoiled>>
  BY DEF resolvePaymentAccount
<1>2. call' = [call EXCEPT ![c] = r] /\ state' = [state EXCEPT ![q.acct] = st]
  BY DEF resolvePaymentAccount
<1>3. q \in CallType /\ q.acct \in Account /\ q.st \in State /\ q.st.channel \in Channel
  BY <1>1, CallTyped DEF CallType, Sound
<1>4. st \in State /\ st.channel \in Channel
  BY <1>3 DEF State
<1> HIDE DEF q, st
<1>5. r \in CallType /\ Sound(r)
  BY <1>3, <1>4, RecordTypes0 DEF CallType, Sound, Pcs
<1> HIDE DEF r
<1>6. state' \in [Account -> State]
  BY <1>1, <1>2, <1>4, CallTyped
<1> QED
  BY <1>1, <1>2, <1>5, <1>6, CallTyped, OneCallTyped

LEMMA MarkTyped ==
  ASSUME Typed, NEW c \in Caller, MarkChannel(c)
  PROVE  Typed'
<1> DEFINE r == [call[c] EXCEPT !.pc = "check"]
           pf == [call[c].pf EXCEPT !.channel = call[c].st.channel]
<1>1. call[c].pc = "mark" /\ UNCHANGED <<state, device, gopay, flow, told, pinSet, spoiled>>
  BY DEF MarkChannel
<1>2. call' = [call EXCEPT ![c] = r]
  BY DEF MarkChannel, Goto
<1>3. r \in CallType /\ Sound(r)
  BY <1>1, CallTyped DEF CallType, Sound, Pcs
<1>4. pf \in Profile
  <2> DEFINE q == call[c]
  <2>1. q.pf \in Profile /\ q.st.channel \in Channel
    BY <1>1, CallTyped DEF CallType, Sound
  <2> HIDE DEF q
  <2>2. [q.pf EXCEPT !.channel = q.st.channel] \in Profile
    BY <2>1 DEF Profile
  <2> QED
    BY <2>2 DEF q
<1>5. profile' \in [Account -> Profile]
  BY <1>1, <1>4, CallTyped DEF MarkChannel
<1> HIDE DEF r
<1> QED
  BY <1>1, <1>2, <1>3, <1>5, CallTyped, OneCallTyped

\* What checkTokenValid makes of the copy, of GoPay's token and of what it told.
Checked(q, valid, token, bal) ==
  [q EXCEPT !.pc = "balance", !.valid = valid, !.st = [q.st EXCEPT !.token = token, !.bal = bal]]

LEMMA CheckShape ==
  ASSUME Typed, NEW c \in Caller, checkTokenValid(c), NEW a, a = call[c].acct
  PROVE  \E valid \in BOOLEAN, token \in 0..MaxTokens, bal \in Amounts :
           /\ call' = [call EXCEPT ![c] = Checked(call[c], valid, token, bal)]
           /\ gopay' \in [Account -> [token : 0..MaxTokens, bal : Amounts]]
           /\ told' \in [Account -> Amounts]
           /\ \A b \in Account \ {a} : gopay'[b] = gopay[b] /\ told'[b] = told[b]
           /\ \/ token = gopay'[a].token
              \/ token = call[c].st.token /\ gopay'[a].token = gopay[a].token
           /\ bal = told'[a] \/ (bal = call[c].st.bal /\ told'[a] = told[a])
<1> DEFINE q == call[c]
<1> DEFINE Token(refresh) == IF refresh THEN gopay[q.acct].token + 1 ELSE q.st.token
           Bal(valid, read) == IF valid /\ read THEN gopay[q.acct].bal ELSE q.st.bal
<1>1. call[c].pc = "check"
  BY DEF checkTokenValid
<1>2. PICK refresh \in BOOLEAN, valid \in BOOLEAN, read \in BOOLEAN :
        /\ (refresh \/ valid) => Alive(q.st, q.acct)
        /\ refresh => gopay[q.acct].token < MaxTokens
        /\ read \/ BalanceFails
        /\ gopay' = [gopay EXCEPT ![q.acct].token = IF refresh THEN Token(refresh) ELSE @]
        /\ told' = [told EXCEPT ![q.acct] = IF valid /\ read THEN gopay[q.acct].bal ELSE @]
        /\ call' = [call EXCEPT ![c] = Checked(q, valid, Token(refresh), Bal(valid, read))]
  BY Zenon DEF checkTokenValid, Checked
<1> DEFINE token == Token(refresh)
           bal == Bal(valid, read)
<1>3. call' = [call EXCEPT ![c] = Checked(call[c], valid, token, bal)]
  BY <1>2
<1>4. /\ a \in Account /\ a = q.acct /\ q.st \in State
      /\ gopay[q.acct] \in [token : 0..MaxTokens, bal : Amounts]
  BY <1>1, CallTyped DEF CallType
<1>5. token \in 0..MaxTokens /\ bal \in Amounts
  BY <1>2, <1>4, RecordTypes0 DEF State
<1>6. /\ gopay' \in [Account -> [token : 0..MaxTokens, bal : Amounts]]
      /\ told' \in [Account -> Amounts]
      /\ \A b \in Account \ {a} : gopay'[b] = gopay[b] /\ told'[b] = told[b]
  <2>1. /\ gopay \in [Account -> [token : 0..MaxTokens, bal : Amounts]]
        /\ told \in [Account -> Amounts]
    BY <1>1, CallTyped
  <2>2. refresh => token \in 0..MaxTokens
    BY <1>5
  <2> HIDE DEF token, bal
  <2>3. gopay' = [gopay EXCEPT ![a].token = IF refresh THEN token ELSE @]
    BY <1>2, <1>4 DEF token
  <2> HIDE DEF Token, Bal
  <2>4. gopay' \in [Account -> [token : 0..MaxTokens, bal : Amounts]]
    <3>1. gopay[a] \in [token : 0..MaxTokens, bal : Amounts]
      BY <1>4, <2>1
    <3>2. [gopay[a] EXCEPT !.token = IF refresh THEN token ELSE @]
            \in [token : 0..MaxTokens, bal : Amounts]
      BY <2>2, <3>1
    <3>3. gopay' = [gopay EXCEPT
                      ![a] = [gopay[a] EXCEPT !.token = IF refresh THEN token ELSE @]]
      BY <2>3
    <3> QED
      BY <1>4, <2>1, <3>2, <3>3
  <2> QED
    BY <1>2, <1>4, <2>1, <2>3, <2>4
<1>7. /\ \/ token = gopay'[a].token
         \/ token = call[c].st.token /\ gopay'[a].token = gopay[a].token
      /\ bal = told'[a] \/ (bal = call[c].st.bal /\ told'[a] = told[a])
  <2>1. /\ gopay'[a].token = IF refresh THEN Token(refresh) ELSE gopay[a].token
        /\ told'[a] = IF valid /\ read THEN gopay[a].bal ELSE told[a]
    <3> HIDE DEF Token
    <3> QED
      BY <1>1, <1>2, <1>4, CallTyped
  <2> QED
    BY <1>4, <2>1
<1> HIDE DEF token, bal
<1> QED
  BY <1>3, <1>5, <1>6, <1>7

LEMMA CheckTyped ==
  ASSUME Typed, NEW c \in Caller, checkTokenValid(c)
  PROVE  Typed'
<1>1. call[c].pc = "check" /\ UNCHANGED <<state, profile, device, flow, pinSet, spoiled>>
  BY DEF checkTokenValid
<1>2. PICK valid \in BOOLEAN, token \in 0..MaxTokens, bal \in Amounts :
        /\ call' = [call EXCEPT ![c] = Checked(call[c], valid, token, bal)]
        /\ gopay' \in [Account -> [token : 0..MaxTokens, bal : Amounts]]
        /\ told' \in [Account -> Amounts]
  BY CheckShape
<1> DEFINE q == call[c]
           st == [q.st EXCEPT !.token = token, !.bal = bal]
           r == [q EXCEPT !.pc = "balance", !.valid = valid, !.st = st]
<1>3. call' = [call EXCEPT ![c] = r]
  BY <1>2 DEF Checked
<1>4. q \in CallType /\ q.acct \in Account /\ q.st \in State /\ q.st.channel \in Channel
  BY <1>1, CallTyped DEF CallType, Sound
<1>5. st \in State /\ st.channel \in Channel
  BY <1>4 DEF State
<1> HIDE DEF q, st
<1>6. r \in CallType /\ Sound(r)
  BY <1>4, <1>5, RecordTypes0 DEF CallType, Sound, Pcs
<1> HIDE DEF r
<1> QED
  BY <1>1, <1>2, <1>3, <1>6, CallTyped, OneCallTyped

LEMMA BalanceTyped ==
  ASSUME Typed, NEW c \in Caller, ensurePaymentBalance(c)
  PROVE  Typed'
<1>1. call[c].pc = "balance" /\ UNCHANGED <<profile, device, gopay, flow, told, pinSet, spoiled>>
  BY DEF ensurePaymentBalance
<1>2. state' \in [Account -> State]
  BY <1>1, CallTyped DEF ensurePaymentBalance, CallType
<1>3. CASE End(c)
  BY <1>1, <1>2, <1>3, CallTyped, EndTyped
<1>4. CASE Goto(c, "start")
  <2> DEFINE r == [call[c] EXCEPT !.pc = "start"]
  <2>1. call' = [call EXCEPT ![c] = r]
    BY <1>4 DEF Goto
  <2>2. r \in CallType /\ Sound(r)
    BY <1>1, CallTyped DEF CallType, Sound, Pcs
  <2> HIDE DEF r
  <2> QED
    BY <1>1, <1>2, <2>1, <2>2, CallTyped, OneCallTyped
<1> QED
  BY <1>3, <1>4 DEF ensurePaymentBalance

LEMMA PaymentTyped ==
  ASSUME Typed, NEW c \in Caller, StartPayment(c)
  PROVE  Typed'
<1>1. /\ call[c].pc = "start" /\ End(c)
      /\ UNCHANGED <<state, profile, device, gopay, told, pinSet, spoiled>>
  BY DEF StartPayment
<1>2. flow' \in [acct : Account \cup {NoOne}, amount : Amounts, link : BOOLEAN, pin : 0..MaxPins]
  BY <1>1, CallTyped DEF StartPayment, CallType, Profile
<1> QED
  BY <1>1, <1>2, CallTyped, EndTyped

LEMMA SaveProfileTyped ==
  ASSUME Typed, NEW c \in Caller, SaveGopayAccountProfile(c)
  PROVE  Typed'
<1> DEFINE a == call[c].acct
<1>1. call[c].pc = "edit" /\ End(c) /\ UNCHANGED <<state, device, gopay, flow, told, spoiled>>
  BY DEF SaveGopayAccountProfile
<1>2. PICK phone \in BOOLEAN, new \in BOOLEAN, channel \in Channel \cup {NoChannel} :
        /\ new => pinSet[a] < MaxPins
        /\ profile' = [profile EXCEPT ![a] =
              Edited(call[c].pf, phone, IF new THEN pinSet[a] + 1 ELSE None, channel)]
        /\ pinSet' = [pinSet EXCEPT ![a] = IF new THEN IF new THEN pinSet[a] + 1 ELSE None ELSE @]
  BY DEF SaveGopayAccountProfile
<1> DEFINE pin == IF new THEN pinSet[a] + 1 ELSE None
<1>3. pin \in 0..MaxPins
  BY <1>1, <1>2, CallTyped, RecordTypes0 DEF None
<1>4. pinSet' \in [Account -> 0..MaxPins]
  BY <1>1, <1>2, <1>3, CallTyped
<1> HIDE DEF pin
<1>5. Edited(call[c].pf, phone, pin, channel) \in Profile
  <2> DEFINE pf == call[c].pf
  <2>1. pf \in Profile
    BY <1>1, CallTyped DEF CallType
  <2> HIDE DEF pf
  <2>2. Edited(pf, phone, pin, channel) \in Profile
    BY <1>3, <2>1 DEF Edited, Profile
  <2> QED
    BY <2>2 DEF pf
<1>6. profile' \in [Account -> Profile]
  BY <1>1, <1>2, <1>5, CallTyped DEF pin
<1> QED
  BY <1>1, <1>4, <1>6, CallTyped, EndTyped

LEMMA WorkTyped ==
  ASSUME Typed, NEW c \in Caller, Work(c)
  PROVE  Typed'
<1> DEFINE q == call[c]
           a == q.acct
           st == [q.st EXCEPT !.token = gopay[a].token + 1, !.here = TRUE, !.phone = TRUE]
           r == [q EXCEPT !.pc = "save", !.st = st]
<1>1. /\ call[c].pc = "work" /\ UNCHANGED <<state, profile, device, flow, told, pinSet, spoiled>>
      /\ gopay[a].token < MaxTokens
      /\ gopay' = [gopay EXCEPT ![a].token = @ + 1]
      /\ call' = [call EXCEPT ![c] = r]
  BY DEF Work
<1>2. gopay[a].token + 1 \in 0..MaxTokens
  BY <1>1, CallTyped, RecordTypes0
<1>3. gopay' \in [Account -> [token : 0..MaxTokens, bal : Amounts]]
  BY <1>1, <1>2, CallTyped
<1>4. q \in CallType /\ a \in Account /\ q.st \in State
  BY <1>1, CallTyped DEF CallType
<1>5. st \in State
  BY <1>2, <1>4 DEF State
<1> HIDE DEF st, q
<1>6. r \in CallType /\ Sound(r)
  BY <1>4, <1>5, RecordTypes0 DEF CallType, Sound, Pcs
<1> HIDE DEF r
<1> QED
  BY <1>1, <1>3, <1>6, CallTyped, OneCallTyped

LEMMA SaveStateTyped ==
  ASSUME Typed, NEW c \in Caller, SaveGopayAccountState(c)
  PROVE  Typed'
<1> DEFINE r == [call[c] EXCEPT !.pc = "sync"]
<1>1. call[c].pc = "save" /\ UNCHANGED <<profile, device, gopay, flow, told, pinSet>>
  BY DEF SaveGopayAccountState
<1>2. call' = [call EXCEPT ![c] = r]
  BY DEF SaveGopayAccountState, Goto
<1>3. r \in CallType /\ Sound(r)
  <2>1. call[c] \in CallType /\ Sound(call[c])
    <3>1. call[c].pc # "idle"
      BY <1>1
    <3> QED
      BY <3>1, CallTyped
  <2>2. r \in CallType
    BY <2>1 DEF CallType, Pcs
  <2>3. r.pc = "sync" /\ r.acct = call[c].acct
    BY <2>1 DEF CallType
  <2> QED
    BY <1>1, <2>1, <2>2, <2>3 DEF Sound
<1>4. state' \in [Account -> State] /\ spoiled' \subseteq Account
  BY <1>1, CallTyped DEF SaveGopayAccountState, CallType
<1> HIDE DEF r
<1> QED
  BY <1>1, <1>2, <1>3, <1>4, CallTyped, OneCallTyped

LEMMA SyncTyped ==
  ASSUME Typed, NEW c \in Caller, syncAccountProfile(c)
  PROVE  Typed'
<1> DEFINE r == [call[c] EXCEPT !.pc = "edit", !.pf = profile[call[c].acct]]
<1>1. /\ call[c].pc = "sync"
      /\ UNCHANGED <<state, profile, device, gopay, flow, told, pinSet, spoiled>>
      /\ call' = [call EXCEPT ![c] = r]
  BY DEF syncAccountProfile
<1>2. r \in CallType /\ Sound(r)
  <2>1. /\ call[c] \in CallType /\ Sound(call[c])
        /\ profile \in [Account -> Profile] /\ call[c].acct \in Account
    BY <1>1, CallTyped
  <2>2. r \in CallType
    BY <2>1 DEF CallType, Pcs
  <2>3. r.pc = "edit" /\ r.acct = call[c].acct
    BY <2>1 DEF CallType
  <2> QED
    BY <1>1, <2>1, <2>2, <2>3 DEF Sound
<1> HIDE DEF r
<1> QED
  BY <1>1, <1>2, CallTyped, OneCallTyped

LEMMA SaveDeviceTyped ==
  ASSUME Typed, NEW c \in Caller, saveAccountProfile(c)
  PROVE  Typed'
<1>1. /\ call[c].pc = "device" /\ End(c)
      /\ UNCHANGED <<state, profile, gopay, flow, told, pinSet, spoiled>>
  BY DEF saveAccountProfile
<1> DEFINE dev == ensureDevice(call[c].dev, call[c].acct)
<1>2. dev <= MaxDevices /\ (device' = [device EXCEPT ![call[c].acct] = dev] \/ UNCHANGED device)
  BY DEF saveAccountProfile
<1>3. dev \in 0..MaxDevices
  BY <1>1, <1>2, CallTyped, RecordTypes0 DEF CallType, ensureDevice
<1> HIDE DEF dev
<1>4. device' \in [Account -> 0..MaxDevices]
  BY <1>1, <1>2, <1>3, CallTyped
<1> QED
  BY <1>1, <1>4, CallTyped, EndTyped

LEMMA RefusedTyped ==
  ASSUME Typed, NEW c \in Caller, call[c].pc # "idle", Refused(c)
  PROVE  Typed'
<1>1. spoiled' \subseteq Account
  BY CallTyped DEF Refused
<1> QED
  BY <1>1, CallTyped, EndTyped DEF Refused

\* The steps that are no call's.
LEMMA OthersTyped ==
  ASSUME Typed, NEW a \in Account, DeleteGopayAccount(a) \/ Spend(a)
  PROVE  Typed'
<1>1. CASE DeleteGopayAccount(a)
  <2>1. state' \in [Account -> State]
    BY <1>1, RecordTypes0 DEF DeleteGopayAccount, Typed, TypeOK
  <2> QED
    BY <1>1, <2>1 DEF DeleteGopayAccount, Typed, TypeOK
<1>2. CASE Spend(a)
  <2>1. gopay' \in [Account -> [token : 0..MaxTokens, bal : Amounts]]
    BY <1>2 DEF Spend, Typed, TypeOK
  <2> QED
    BY <1>2, <2>1 DEF Spend, Typed, TypeOK
<1> QED
  BY <1>1, <1>2

LEMMA NextTyped == Typed /\ [Next]_vars => Typed'
<1> SUFFICES ASSUME Typed, [Next]_vars
             PROVE  Typed'
  OBVIOUS
<1>1. ASSUME NEW c \in Caller, Step(c)
      PROVE  Typed'
  <2>1. CASE call[c].pc # "idle" /\ Refused(c)
    BY <2>1, RefusedTyped
  <2> QED
    BY <1>1, <2>1, ProfileTyped, ResolveTyped, MarkTyped, CheckTyped, BalanceTyped,
       PaymentTyped, SaveProfileTyped, WorkTyped, SaveStateTyped, SyncTyped, SaveDeviceTyped
       DEF Step
<1>2. ASSUME NEW c \in Caller, NEW a \in Account,
             \/ StartGopayPayment(c, a) \/ LoadProfile(c, a) \/ handleCreateAccount(c, a)
             \/ LoadGopayAccountState(c, a) \/ loadAccountProfile(c, a)
      PROVE  Typed'
  BY <1>2, StartTyped, LoadProfileTyped, CreateTyped, LoadStateTyped, LoadDeviceTyped
<1>3. CASE UNCHANGED vars
  BY <1>3 DEF vars, Typed, TypeOK
<1> QED
  BY <1>1, <1>2, <1>3, OthersTyped DEF Next

-----------------------------------------------------------------------------
\* What GoPay issued and told last, or nothing.
Fresh(st, token, told0) == st.token \in {None, token} /\ st.bal \in {0, told0}

\* What the copies of a call are worth, given the device, the token, the
\* balance told and the PIN of now.
Carries(r, dev, token, told0, pin) ==
  /\ r.pc \in {"profile", "resolve", "mark", "check", "balance", "work", "save"} =>
       Fresh(r.st, token, told0)
  /\ r.pc \in {"resolve", "mark", "check", "balance", "start", "edit"} => r.pf.pin = pin
  /\ r.pc \in {"resolve", "mark", "check", "balance", "start"} /\ r.link => r.pf.pin # None
  /\ r.pc = "start" => r.amount <= told0
  /\ r.pc = "device" => r.dev = dev

CarriesNow(c, a) == Carries(call[c], device[a], gopay[a].token, told[a], pinSet[a])

Saving(c, a) == call[c].acct = a /\ call[c].pc \in {"balance", "save"}

AccountOK(a) ==
  /\ profile[a].pin = pinSet[a]
  /\ \/ Fresh(state[a], gopay[a].token, told[a])
     \/ \E c \in Caller : Saving(c, a)
  /\ \A c \in Caller : call[c].acct = a => CarriesNow(c, a)

Alone ==
  \A c, d \in Caller :
    c # d /\ call[c].acct = call[d].acct /\ call[c].acct \in Account =>
      call[c].acct \in spoiled

RecordsInv == Typed /\ Alone /\ \A a \in Account \ spoiled : AccountOK(a)

\* The part of an account that a step of its call has to keep.
Mine(c, a) ==
  /\ profile[a].pin = pinSet[a]
  /\ Fresh(state[a], gopay[a].token, told[a]) \/ Saving(c, a)
  /\ call[c].acct = a => CarriesNow(c, a)

SameAccount(b) ==
  /\ state'[b] = state[b] /\ profile'[b] = profile[b] /\ device'[b] = device[b]
  /\ gopay'[b].token = gopay[b].token /\ told'[b] = told[b] /\ pinSet'[b] = pinSet[b]

\* A step of one call, on its account.
LEMMA OneCall ==
  ASSUME RecordsInv, Typed', NEW c \in Caller, NEW a \in Account,
         \A d \in Caller \ {c} : call'[d] = call[d],
         \A b \in Account \ {a} : SameAccount(b),
         call[c].acct \in {a, NoOne}, call'[c].acct \in {a, NoOne},
         spoiled \subseteq spoiled',
         a \in spoiled' \/ call[c].acct = a \/ ~Busy(a),
         a \notin spoiled' => Mine(c, a)'
  PROVE  RecordsInv'
<1>1. NoOne \notin Account
  BY RecordTypes0
<1>2. Alone'
  <2> SUFFICES ASSUME NEW d \in Caller, NEW e \in Caller, d # e,
                      call'[d].acct = call'[e].acct, call'[d].acct \in Account
               PROVE  call'[d].acct \in spoiled'
    BY DEF Alone
  <2>1. CASE d # c /\ e # c
    BY <2>1 DEF RecordsInv, Alone
  <2>2. CASE d = c \/ e = c
    <3>1. call'[d].acct = a
      BY <1>1, <2>2
    <3>2. PICK f \in Caller : f # c /\ call[f].acct = a
      BY <2>2, <3>1
    <3>3. CASE call[c].acct = a
      BY <3>1, <3>2, <3>3 DEF RecordsInv, Alone
    <3> QED
      BY <3>1, <3>2, <3>3 DEF Busy
  <2> QED
    BY <2>1, <2>2
<1>3. ASSUME NEW b \in Account \ spoiled'
      PROVE  AccountOK(b)'
  <2>1. CASE b = a
    <3>1. Mine(c, a)'
      BY <1>3, <2>1
    <3>2. ASSUME NEW d \in Caller, call'[d].acct = a
          PROVE  d = c
      <4> SUFFICES ASSUME d # c
                   PROVE  FALSE
        OBVIOUS
      <4>1. call[d].acct = a
        BY <3>2
      <4>2. call[c].acct = a
        BY <1>3, <2>1, <4>1 DEF Busy
      <4> QED
        BY <1>3, <2>1, <4>1, <4>2 DEF RecordsInv, Alone
    <3> QED
      BY <2>1, <3>1, <3>2 DEF AccountOK, Mine
  <2>2. CASE b # a
    <3>1. AccountOK(b) /\ SameAccount(b)
      BY <1>3, <2>2 DEF RecordsInv
    <3>2. \A d \in Caller : call'[d].acct = b <=> (call[d].acct = b /\ d # c)
      BY <1>1, <1>3, <2>2
    <3>3. call[c].acct # b
      BY <1>1, <1>3, <2>2
    <3>4. \A d \in Caller : call'[d].acct = b => CarriesNow(d, b)'
      BY <3>1, <3>2, <1>3, <2>2 DEF AccountOK, CarriesNow, SameAccount
    <3>5. Fresh(state[b], gopay[b].token, told[b])' \/ \E d \in Caller : Saving(d, b)'
      <4>1. CASE Fresh(state[b], gopay[b].token, told[b])
        BY <3>1, <4>1 DEF SameAccount, Fresh
      <4>2. CASE \E d \in Caller : Saving(d, b)
        BY <3>3, <4>2 DEF Saving
      <4> QED
        BY <3>1, <4>1, <4>2 DEF AccountOK
    <3> QED
      BY <3>1, <3>4, <3>5 DEF AccountOK, SameAccount
  <2> QED
    BY <2>1, <2>2
<1> QED
  BY <1>2, <1>3 DEF RecordsInv

LEMMA InitInv == Init => RecordsInv
<1> SUFFICES ASSUME Init
             PROVE  RecordsInv
  OBVIOUS
<1>1. Typed /\ NoOne \notin Account
  BY InitTyped, RecordTypes0
<1>2. \A c \in Caller : call[c].acct = NoOne
  BY DEF Init, Idle
<1>3. Alone
  BY <1>1, <1>2 DEF Alone
<1>4. ASSUME NEW a \in Account
      PROVE  AccountOK(a)
  BY <1>1, <1>2 DEF AccountOK, Init, Fresh, NoState, NoProfile, None
<1> QED
  BY <1>1, <1>3, <1>4 DEF RecordsInv

\* A call that ends keeps what it must if the account does.
LEMMA CallEnds ==
  ASSUME RecordsInv, Typed', NEW c \in Caller, call[c].pc # "idle", End(c),
         NEW a \in Account, a = call[c].acct,
         \A b \in Account \ {a} : SameAccount(b),
         spoiled \subseteq spoiled',
         a \notin spoiled' =>
           profile'[a].pin = pinSet'[a] /\ Fresh(state[a], gopay[a].token, told[a])'
  PROVE  RecordsInv'
<1>1. call \in [Caller -> CallType]
  BY DEF RecordsInv, Typed, TypeOK, CallType, Pcs
<1>2. call'[c].acct = NoOne /\ NoOne \notin Account
      /\ \A d \in Caller \ {c} : call'[d] = call[d]
  BY <1>1, RecordTypes0 DEF End, Idle
<1>3. a \notin spoiled' => Mine(c, a)'
  BY <1>2 DEF Mine
<1> QED
  BY <1>2, <1>3, OneCall

\* A call that goes on with r.
LEMMA CallGoesOn ==
  ASSUME RecordsInv, Typed', NEW c \in Caller, call[c].pc # "idle", NEW r,
         NEW a \in Account, a = call[c].acct,
         call' = [call EXCEPT ![c] = r], r.acct = a,
         \A b \in Account \ {a} : SameAccount(b),
         spoiled \subseteq spoiled',
         a \notin spoiled' =>
           /\ profile'[a].pin = pinSet'[a]
           /\ \/ Fresh(state[a], gopay[a].token, told[a])'
              \/ r.pc \in {"balance", "save"}
           /\ Carries(r, device'[a], gopay'[a].token, told'[a], pinSet'[a])
  PROVE  RecordsInv'
<1>1. call \in [Caller -> CallType]
  BY DEF RecordsInv, Typed, TypeOK, CallType, Pcs
<1>2. call'[c] = r /\ \A d \in Caller \ {c} : call'[d] = call[d]
  BY <1>1
<1>3. a \notin spoiled' => Mine(c, a)'
  BY <1>2 DEF Mine, CarriesNow, Saving
<1> QED
  BY <1>2, <1>3, OneCall

\* A call that begins with r.
LEMMA CallBegins ==
  ASSUME RecordsInv, Typed', NEW c \in Caller, NEW a \in Account, NEW r,
         call[c].pc = "idle", call' = [call EXCEPT ![c] = r], r.acct = a,
         \A b \in Account \ {a} : SameAccount(b),
         spoiled \subseteq spoiled', a \in spoiled' \/ ~Busy(a),
         a \notin spoiled' =>
           /\ profile'[a].pin = pinSet'[a]
           /\ Fresh(state[a], gopay[a].token, told[a])'
           /\ Carries(r, device'[a], gopay'[a].token, told'[a], pinSet'[a])
  PROVE  RecordsInv'
<1>1. call[c].acct = NoOne
  BY DEF RecordsInv, Typed, Sound
<1>2. call \in [Caller -> CallType]
  BY DEF RecordsInv, Typed, TypeOK, CallType, Pcs
<1>3. call'[c] = r /\ \A d \in Caller \ {c} : call'[d] = call[d]
  BY <1>2
<1>4. a \notin spoiled' => Mine(c, a)'
  BY <1>3 DEF Mine, CarriesNow
<1> QED
  BY <1>1, <1>3, <1>4, OneCall

\* Where nobody works on an account, what is stored is as good as it gets.
LEMMA NobodyAt ==
  ASSUME RecordsInv, NEW a \in Account \ spoiled, ~Busy(a)
  PROVE  profile[a].pin = pinSet[a] /\ Fresh(state[a], gopay[a].token, told[a])
BY DEF RecordsInv, AccountOK, Busy, Saving

\* What a call under way on an account knows, and the account with it.
LEMMA CallAt ==
  ASSUME RecordsInv, NEW c \in Caller, call[c].pc # "idle",
         NEW a \in Account \ spoiled, a = call[c].acct
  PROVE  /\ profile[a].pin = pinSet[a] /\ CarriesNow(c, a)
         /\ \/ Fresh(state[a], gopay[a].token, told[a])
            \/ call[c].pc \in {"balance", "save"}
<1>1. AccountOK(a)
  BY DEF RecordsInv
<1>2. \A d \in Caller : call[d].acct = a => d = c
  BY DEF RecordsInv, Alone
<1> QED
  BY <1>1, <1>2 DEF AccountOK, Saving

LEMMA StartKeeps ==
  ASSUME RecordsInv, Typed', NEW c \in Caller, NEW a \in Account, StartGopayPayment(c, a)
  PROVE  RecordsInv'
<1>1. UNCHANGED <<state, profile, device, gopay, flow, told, pinSet>>
  BY DEF StartGopayPayment
<1>2. PICK link \in BOOLEAN, amount \in Amounts :
        Begin(c, a, [Idle EXCEPT !.pc = "profile", !.acct = a, !.link = link,
                                 !.amount = amount, !.st = state[a]])
  BY DEF StartGopayPayment
<1> DEFINE r == [Idle EXCEPT !.pc = "profile", !.acct = a, !.link = link,
                             !.amount = amount, !.st = state[a]]
<1>3. r.pc = "profile" /\ r.acct = a /\ r.st = state[a]
  BY DEF Idle
<1> HIDE DEF r
<1>4. /\ call[c].pc = "idle" /\ call' = [call EXCEPT ![c] = r]
      /\ spoiled \subseteq spoiled' /\ (a \in spoiled' \/ ~Busy(a))
  BY <1>2 DEF Begin, r
<1>5. a \notin spoiled' =>
        /\ profile'[a].pin = pinSet'[a]
        /\ Fresh(state[a], gopay[a].token, told[a])'
        /\ Carries(r, device'[a], gopay'[a].token, told'[a], pinSet'[a])
  BY <1>1, <1>3, <1>4, NobodyAt DEF Carries, Fresh
<1> QED
  BY <1>1, <1>3, <1>4, <1>5, CallBegins DEF SameAccount

LEMMA LoadProfileKeeps ==
  ASSUME RecordsInv, Typed', NEW c \in Caller, NEW a \in Account, LoadProfile(c, a)
  PROVE  RecordsInv'
<1>1. UNCHANGED <<state, profile, device, gopay, flow, told, pinSet>>
  BY DEF LoadProfile
<1> DEFINE r == [Idle EXCEPT !.pc = "edit", !.acct = a, !.pf = profile[a]]
<1>2. r.pc = "edit" /\ r.acct = a /\ r.pf = profile[a]
  BY DEF Idle
<1>3. /\ call[c].pc = "idle" /\ call' = [call EXCEPT ![c] = r]
      /\ spoiled \subseteq spoiled' /\ (a \in spoiled' \/ ~Busy(a))
  BY DEF Begin, LoadProfile
<1> HIDE DEF r
<1>4. a \notin spoiled' =>
        /\ profile'[a].pin = pinSet'[a]
        /\ Fresh(state[a], gopay[a].token, told[a])'
        /\ Carries(r, device'[a], gopay'[a].token, told'[a], pinSet'[a])
  BY <1>1, <1>2, <1>3, NobodyAt DEF Carries, Fresh
<1> QED
  BY <1>1, <1>2, <1>3, <1>4, CallBegins DEF SameAccount

\* An account that is created has no PIN: its id is new.
LEMMA CreateKeeps ==
  ASSUME RecordsInv, Typed', NEW c \in Caller, NEW a \in Account, handleCreateAccount(c, a)
  PROVE  RecordsInv'
<1>1. /\ UNCHANGED <<profile, device, gopay, flow, told, pinSet>>
      /\ profile[a] = NoProfile
  BY DEF handleCreateAccount
<1>2. PICK channel \in Channel :
        state' = [state EXCEPT ![a] = [NoState EXCEPT !.here = TRUE, !.phone = TRUE,
                                                      !.channel = channel]]
  BY DEF handleCreateAccount
<1>3. /\ state'[a].token = None /\ state'[a].bal = 0
      /\ \A b \in Account \ {a} : state'[b] = state[b]
  BY <1>2 DEF RecordsInv, Typed, TypeOK, NoState
<1> DEFINE r == [Idle EXCEPT !.pc = "edit", !.acct = a, !.pf = NoProfile]
<1>4. r.pc = "edit" /\ r.acct = a /\ r.pf = NoProfile
  BY DEF Idle
<1>5. /\ call[c].pc = "idle" /\ call' = [call EXCEPT ![c] = r]
      /\ spoiled \subseteq spoiled' /\ (a \in spoiled' \/ ~Busy(a))
  BY DEF Begin, handleCreateAccount
<1> HIDE DEF r
<1>6. a \notin spoiled' =>
        /\ profile'[a].pin = pinSet'[a]
        /\ Fresh(state[a], gopay[a].token, told[a])'
        /\ Carries(r, device'[a], gopay'[a].token, told'[a], pinSet'[a])
  BY <1>1, <1>3, <1>4, <1>5, NobodyAt DEF Carries, Fresh
<1> QED
  BY <1>1, <1>3, <1>4, <1>5, <1>6, CallBegins DEF SameAccount

LEMMA LoadStateKeeps ==
  ASSUME RecordsInv, Typed', NEW c \in Caller, NEW a \in Account, LoadGopayAccountState(c, a)
  PROVE  RecordsInv'
<1>1. UNCHANGED <<state, profile, device, gopay, flow, told, pinSet>>
  BY DEF LoadGopayAccountState
<1> DEFINE r == [Idle EXCEPT !.pc = "work", !.acct = a, !.st = state[a]]
<1>2. r.pc = "work" /\ r.acct = a /\ r.st = state[a]
  BY DEF Idle
<1>3. /\ call[c].pc = "idle" /\ call' = [call EXCEPT ![c] = r]
      /\ spoiled \subseteq spoiled' /\ (a \in spoiled' \/ ~Busy(a))
  BY DEF Begin, LoadGopayAccountState
<1> HIDE DEF r
<1>4. a \notin spoiled' =>
        /\ profile'[a].pin = pinSet'[a]
        /\ Fresh(state[a], gopay[a].token, told[a])'
        /\ Carries(r, device'[a], gopay'[a].token, told'[a], pinSet'[a])
  BY <1>1, <1>2, <1>3, NobodyAt DEF Carries, Fresh
<1> QED
  BY <1>1, <1>2, <1>3, <1>4, CallBegins DEF SameAccount

\* A device that could not be loaded is one the account is spoiled for.
LEMMA LoadDeviceKeeps ==
  ASSUME RecordsInv, Typed', NEW c \in Caller, NEW a \in Account, loadAccountProfile(c, a)
  PROVE  RecordsInv'
<1>1. UNCHANGED <<state, profile, device, gopay, flow, told, pinSet>>
  BY DEF loadAccountProfile
<1>2. CASE Begin(c, a, [Idle EXCEPT !.pc = "device", !.acct = a, !.dev = device[a]])
  <2> DEFINE r == [Idle EXCEPT !.pc = "device", !.acct = a, !.dev = device[a]]
  <2>1. r.pc = "device" /\ r.acct = a /\ r.dev = device[a]
    BY DEF Idle
  <2>2. /\ call[c].pc = "idle" /\ call' = [call EXCEPT ![c] = r]
        /\ spoiled \subseteq spoiled' /\ (a \in spoiled' \/ ~Busy(a))
    BY <1>2 DEF Begin
  <2> HIDE DEF r
  <2>3. a \notin spoiled' =>
          /\ profile'[a].pin = pinSet'[a]
          /\ Fresh(state[a], gopay[a].token, told[a])'
          /\ Carries(r, device'[a], gopay'[a].token, told'[a], pinSet'[a])
    BY <1>1, <2>1, <2>2, NobodyAt DEF Carries, Fresh
  <2> QED
    BY <1>1, <2>1, <2>2, <2>3, CallBegins DEF SameAccount
<1>3. CASE ~Begin(c, a, [Idle EXCEPT !.pc = "device", !.acct = a, !.dev = device[a]])
  <2> DEFINE r == [Idle EXCEPT !.pc = "device", !.acct = a]
  <2>1. r.acct = a
    BY DEF Idle
  <2>2. /\ call[c].pc = "idle" /\ call' = [call EXCEPT ![c] = r]
        /\ spoiled' = spoiled \cup {a}
    BY <1>3 DEF loadAccountProfile
  <2> HIDE DEF r
  <2> QED
    BY <1>1, <2>1, <2>2, CallBegins DEF SameAccount
<1> QED
  BY <1>2, <1>3

LEMMA ProfileKeeps ==
  ASSUME RecordsInv, Typed', NEW c \in Caller, loadGopayAccountProfile(c)
  PROVE  RecordsInv'
<1>1. call[c].pc = "profile" /\ UNCHANGED <<state, profile, device, gopay, flow, told, pinSet,
                                            spoiled>>
  BY DEF loadGopayAccountProfile
<1>2. PICK a \in Account : a = call[c].acct
  BY <1>1, CallTyped DEF RecordsInv
<1>3. a \notin spoiled => profile[a].pin = pinSet[a] /\ CarriesNow(c, a)
                          /\ Fresh(state[a], gopay[a].token, told[a])
  BY <1>1, <1>2, CallAt
<1>4. CASE End(c)
  BY <1>1, <1>2, <1>3, <1>4, CallEnds DEF SameAccount, Fresh
<1>5. CASE ~End(c)
  <2> DEFINE q == call[c]
             pf == profile[q.acct]
             channel == FirstOf(FirstOf(pf.channel, q.st.channel), "sms")
             st == [q.st EXCEPT !.channel = channel]
             r == [q EXCEPT !.pc = "resolve", !.pf = pf, !.st = st]
  <2>1. call' = [call EXCEPT ![c] = r]
    BY <1>5 DEF loadGopayAccountProfile
  <2> HIDE DEF channel
  <2>2. q \in CallType /\ q.st \in State
    BY <1>1, CallTyped DEF CallType, RecordsInv
  <2>3. q.link => profile[a].pin # None
    BY <1>2, <1>5 DEF loadGopayAccountProfile
  <2>4. st.token = q.st.token /\ st.bal = q.st.bal
    BY <2>2 DEF State
  <2> HIDE DEF st
  <2>5. /\ r.pc = "resolve" /\ r.acct = a /\ r.st = st /\ r.pf = profile[a]
        /\ r.link = q.link
    BY <1>2, <2>2 DEF CallType
  <2> HIDE DEF r
  <2>6. a \notin spoiled => Carries(r, device[a], gopay[a].token, told[a], pinSet[a])
    BY <1>1, <1>3, <2>3, <2>4, <2>5 DEF CarriesNow, Carries, Fresh
  <2> QED
    BY <1>1, <1>2, <1>3, <2>1, <2>5, <2>6, CallGoesOn DEF SameAccount, Fresh
<1> QED
  BY <1>4, <1>5

LEMMA ResolveKeeps ==
  ASSUME RecordsInv, Typed', NEW c \in Caller, resolvePaymentAccount(c)
  PROVE  RecordsInv'
<1>1. call[c].pc = "resolve" /\ UNCHANGED <<profile, device, gopay, flow, told, pinSet, spoiled>>
  BY DEF resolvePaymentAccount
<1>2. PICK a \in Account : a = call[c].acct
  BY <1>1, CallTyped DEF RecordsInv
<1> DEFINE q == call[c]
           st == [q.st EXCEPT !.here = TRUE]
           pc == IF q.pf.channel = NoChannel THEN "mark" ELSE "check"
           r == [q EXCEPT !.st = st, !.pc = pc]
<1>3. call' = [call EXCEPT ![c] = r] /\ state' = [state EXCEPT ![a] = st]
  BY <1>2 DEF resolvePaymentAccount
<1>4. q \in CallType /\ q.st \in State /\ state \in [Account -> State]
  BY <1>1, CallTyped DEF CallType, RecordsInv
<1>5. st.token = q.st.token /\ st.bal = q.st.bal
  BY <1>4 DEF State
<1> HIDE DEF st
<1>6. /\ r.pc \in {"mark", "check"} /\ r.acct = a /\ r.st = st /\ r.pf = q.pf
      /\ r.link = q.link
  BY <1>2, <1>4 DEF CallType
<1> HIDE DEF r
<1>7. a \notin spoiled =>
        /\ profile[a].pin = pinSet[a]
        /\ Carries(r, device[a], gopay[a].token, told[a], pinSet[a])
        /\ Fresh(st, gopay[a].token, told[a])
  BY <1>1, <1>2, <1>5, <1>6, CallAt DEF CarriesNow, Carries, Fresh
<1>8. state'[a] = st /\ \A b \in Account \ {a} : state'[b] = state[b]
  BY <1>3, <1>4
<1> QED
  BY <1>1, <1>2, <1>3, <1>6, <1>7, <1>8, CallGoesOn DEF SameAccount, Fresh

LEMMA MarkKeeps ==
  ASSUME RecordsInv, Typed', NEW c \in Caller, MarkChannel(c)
  PROVE  RecordsInv'
<1>1. call[c].pc = "mark" /\ UNCHANGED <<state, device, gopay, flow, told, pinSet, spoiled>>
  BY DEF MarkChannel
<1>2. PICK a \in Account : a = call[c].acct
  BY <1>1, CallTyped DEF RecordsInv
<1> DEFINE q == call[c]
           r == [q EXCEPT !.pc = "check"]
           pf == [q.pf EXCEPT !.channel = q.st.channel]
<1>3. /\ call' = [call EXCEPT ![c] = r]
      /\ profile' = [profile EXCEPT ![a] = pf] \/ UNCHANGED profile
  BY <1>2 DEF MarkChannel, Goto
<1>4. q \in CallType /\ q.pf \in Profile /\ profile \in [Account -> Profile]
  BY <1>1, CallTyped DEF CallType, RecordsInv
<1>5. pf.pin = q.pf.pin
  BY <1>4 DEF Profile
<1> HIDE DEF pf
<1>6. /\ r.pc = "check" /\ r.acct = a /\ r.st = q.st /\ r.pf = q.pf
      /\ r.link = q.link
  BY <1>2, <1>4 DEF CallType
<1> HIDE DEF r
<1>7. a \notin spoiled =>
        /\ profile[a].pin = pinSet[a] /\ q.pf.pin = pinSet[a]
        /\ Carries(r, device[a], gopay[a].token, told[a], pinSet[a])
        /\ Fresh(state[a], gopay[a].token, told[a])
  BY <1>1, <1>2, <1>6, CallAt DEF CarriesNow, Carries, Fresh
<1>8. /\ profile'[a] = pf \/ profile'[a] = profile[a]
      /\ \A b \in Account \ {a} : profile'[b] = profile[b]
  BY <1>3, <1>4
<1>9. a \notin spoiled => profile'[a].pin = pinSet'[a]
  BY <1>1, <1>5, <1>7, <1>8
<1> HIDE DEF q
<1> QED
  BY <1>1, <1>2, <1>3, <1>6, <1>7, <1>8, <1>9, CallGoesOn DEF SameAccount, Fresh

LEMMA CheckKeeps ==
  ASSUME RecordsInv, Typed', NEW c \in Caller, checkTokenValid(c)
  PROVE  RecordsInv'
<1>1. call[c].pc = "check" /\ UNCHANGED <<state, profile, device, flow, pinSet, spoiled>>
  BY DEF checkTokenValid
<1>2. PICK a \in Account : a = call[c].acct
  BY <1>1, CallTyped DEF RecordsInv
<1> DEFINE q == call[c]
<1>3. PICK valid \in BOOLEAN, token \in 0..MaxTokens, bal \in Amounts :
        /\ call' = [call EXCEPT ![c] = Checked(call[c], valid, token, bal)]
        /\ \A b \in Account \ {a} : gopay'[b] = gopay[b] /\ told'[b] = told[b]
        /\ \/ token = gopay'[a].token
           \/ token = call[c].st.token /\ gopay'[a].token = gopay[a].token
        /\ bal = told'[a] \/ (bal = call[c].st.bal /\ told'[a] = told[a])
  BY <1>2, CheckShape DEF RecordsInv
<1> DEFINE r == Checked(q, valid, token, bal)
<1>4. q \in CallType /\ q.st \in State
  BY <1>1, CallTyped DEF CallType, RecordsInv
<1>5. /\ r.pc = "balance" /\ r.acct = a /\ r.pf = q.pf /\ r.link = q.link
      /\ r.st.token = token /\ r.st.bal = bal
  BY <1>2, <1>4 DEF Checked, CallType, State
<1> HIDE DEF r
<1>6. a \notin spoiled => profile[a].pin = pinSet[a] /\ CarriesNow(c, a)
  BY <1>1, <1>2, CallAt
<1>7. a \notin spoiled => Carries(r, device[a], gopay'[a].token, told'[a], pinSet[a])
  BY <1>1, <1>3, <1>5, <1>6 DEF CarriesNow, Carries, Fresh
<1> QED
  BY <1>1, <1>2, <1>3, <1>5, <1>6, <1>7, CallGoesOn DEF SameAccount, r

LEMMA BalanceKeeps ==
  ASSUME RecordsInv, Typed', NEW c \in Caller, ensurePaymentBalance(c)
  PROVE  RecordsInv'
<1>1. call[c].pc = "balance" /\ UNCHANGED <<profile, device, gopay, flow, told, pinSet, spoiled>>
  BY DEF ensurePaymentBalance
<1>2. PICK a \in Account : a = call[c].acct
  BY <1>1, CallTyped DEF RecordsInv
<1> DEFINE q == call[c]
<1>3. state' = [state EXCEPT ![a] = q.st]
  BY <1>2 DEF ensurePaymentBalance
<1>4. /\ q \in CallType /\ q.amount \in Nat /\ told[a] \in Nat
      /\ state \in [Account -> State]
  BY <1>1, CallTyped, RecordTypes0 DEF CallType, RecordsInv
<1>5. a \notin spoiled => /\ profile[a].pin = pinSet[a] /\ CarriesNow(c, a)
                          /\ Fresh(q.st, gopay[a].token, told[a])
  BY <1>1, <1>2, CallAt DEF CarriesNow, Carries
<1>6. state'[a] = q.st /\ \A b \in Account \ {a} : state'[b] = state[b]
  BY <1>3, <1>4
<1>7. CASE End(c)
  BY <1>1, <1>2, <1>5, <1>6, <1>7, CallEnds DEF SameAccount, Fresh
<1>8. CASE ~End(c)
  <2> DEFINE r == [q EXCEPT !.pc = "start"]
  <2>1. call' = [call EXCEPT ![c] = r] /\ (q.amount = 0 \/ q.st.bal >= q.amount)
    BY <1>8 DEF ensurePaymentBalance, Goto
  <2>2. /\ r.pc = "start" /\ r.acct = a /\ r.st = q.st /\ r.pf = q.pf /\ r.link = q.link
        /\ r.amount = q.amount
    BY <1>2, <1>4 DEF CallType
  <2> HIDE DEF r
  <2>3. a \notin spoiled => r.amount <= told[a]
    BY <1>4, <1>5, <2>1, <2>2 DEF Fresh
  <2>4. a \notin spoiled => Carries(r, device[a], gopay[a].token, told[a], pinSet[a])
    BY <1>1, <1>5, <2>2, <2>3 DEF CarriesNow, Carries
  <2> QED
    BY <1>1, <1>2, <1>5, <1>6, <2>1, <2>2, <2>4, CallGoesOn DEF SameAccount, Fresh
<1> QED
  BY <1>7, <1>8

LEMMA PaymentKeeps ==
  ASSUME RecordsInv, Typed', NEW c \in Caller, StartPayment(c)
  PROVE  RecordsInv'
<1>1. /\ call[c].pc = "start" /\ End(c)
      /\ UNCHANGED <<state, profile, device, gopay, told, pinSet, spoiled>>
  BY DEF StartPayment
<1>2. PICK a \in Account : a = call[c].acct
  BY <1>1, CallTyped DEF RecordsInv
<1>3. a \notin spoiled =>
        profile[a].pin = pinSet[a] /\ Fresh(state[a], gopay[a].token, told[a])
  BY <1>1, <1>2, CallAt
<1> QED
  BY <1>1, <1>2, <1>3, CallEnds DEF SameAccount, Fresh

LEMMA SaveProfileKeeps ==
  ASSUME RecordsInv, Typed', NEW c \in Caller, SaveGopayAccountProfile(c)
  PROVE  RecordsInv'
<1>1. call[c].pc = "edit" /\ End(c) /\ UNCHANGED <<state, device, gopay, flow, told, spoiled>>
  BY DEF SaveGopayAccountProfile
<1>2. PICK a \in Account : a = call[c].acct
  BY <1>1, CallTyped DEF RecordsInv
<1> DEFINE q == call[c]
           Pin(new) == IF new THEN pinSet[a] + 1 ELSE None
<1>3. PICK phone \in BOOLEAN, new \in BOOLEAN, channel \in Channel \cup {NoChannel} :
        /\ profile' = [profile EXCEPT ![a] = Edited(q.pf, phone, Pin(new), channel)]
        /\ pinSet' = [pinSet EXCEPT ![a] = IF new THEN Pin(new) ELSE @]
  BY <1>2 DEF SaveGopayAccountProfile
<1> DEFINE pin == Pin(new)
           pf == Edited(q.pf, phone, pin, channel)
<1>4. /\ q.pf \in Profile /\ profile \in [Account -> Profile]
      /\ pinSet \in [Account -> 0..MaxPins]
  BY <1>1, CallTyped DEF CallType, RecordsInv
<1>5. new => pin # None
  BY <1>4, RecordTypes0 DEF None
<1>6. ~new => pin = None
  OBVIOUS
<1> HIDE DEF pin, Pin
<1>7. pf.pin = IF new THEN pin ELSE q.pf.pin
  BY <1>4, <1>5, <1>6 DEF Edited, Profile
<1>8. /\ profile'[a] = pf /\ \A b \in Account \ {a} : profile'[b] = profile[b]
      /\ pinSet'[a] = IF new THEN pin ELSE pinSet[a]
      /\ \A b \in Account \ {a} : pinSet'[b] = pinSet[b]
  <2> HIDE DEF pf
  <2> QED
    BY <1>3, <1>4 DEF pin, pf
<1> HIDE DEF pf
<1>9. a \notin spoiled => q.pf.pin = pinSet[a] /\ Fresh(state[a], gopay[a].token, told[a])
  BY <1>1, <1>2, CallAt DEF CarriesNow, Carries
<1>10. a \notin spoiled => profile'[a].pin = pinSet'[a]
  BY <1>7, <1>8, <1>9
<1> QED
  BY <1>1, <1>2, <1>8, <1>9, <1>10, CallEnds DEF SameAccount, Fresh

LEMMA WorkKeeps ==
  ASSUME RecordsInv, Typed', NEW c \in Caller, Work(c)
  PROVE  RecordsInv'
<1> DEFINE q == call[c]
<1>1. call[c].pc = "work" /\ UNCHANGED <<state, profile, device, flow, told, pinSet, spoiled>>
  BY DEF Work
<1>2. PICK a \in Account : a = call[c].acct
  BY <1>1, CallTyped DEF RecordsInv
<1> DEFINE st == [q.st EXCEPT !.token = gopay[a].token + 1, !.here = TRUE, !.phone = TRUE]
           r == [q EXCEPT !.pc = "save", !.st = st]
<1>3. /\ gopay' = [gopay EXCEPT ![a].token = @ + 1]
      /\ call' = [call EXCEPT ![c] = r]
  BY <1>2 DEF Work
<1>4. /\ q \in CallType /\ q.st \in State
      /\ gopay \in [Account -> [token : 0..MaxTokens, bal : Amounts]]
  BY <1>1, CallTyped DEF CallType, RecordsInv
<1>5. st.token = gopay'[a].token /\ \A b \in Account \ {a} : gopay'[b] = gopay[b]
  BY <1>3, <1>4 DEF State
<1>6. st.bal = q.st.bal
  BY <1>4 DEF State
<1> HIDE DEF st
<1>7. r.pc = "save" /\ r.acct = a /\ r.st = st
  BY <1>2, <1>4 DEF CallType
<1> HIDE DEF r
<1>8. a \notin spoiled =>
        /\ profile[a].pin = pinSet[a]
        /\ Carries(r, device[a], gopay'[a].token, told[a], pinSet[a])
  BY <1>1, <1>2, <1>5, <1>6, <1>7, CallAt DEF CarriesNow, Carries, Fresh
<1> QED
  BY <1>1, <1>2, <1>3, <1>5, <1>7, <1>8, CallGoesOn DEF SameAccount

LEMMA SaveStateKeeps ==
  ASSUME RecordsInv, Typed', NEW c \in Caller, SaveGopayAccountState(c)
  PROVE  RecordsInv'
<1> DEFINE q == call[c]
           r == [q EXCEPT !.pc = "sync"]
<1>1. call[c].pc = "save" /\ UNCHANGED <<profile, device, gopay, flow, told, pinSet>>
  BY DEF SaveGopayAccountState
<1>2. PICK a \in Account : a = call[c].acct
  BY <1>1, CallTyped DEF RecordsInv
<1>3. /\ call' = [call EXCEPT ![c] = r]
      /\ \/ state' = [state EXCEPT ![a] = q.st] /\ spoiled' = spoiled
         \/ UNCHANGED state /\ spoiled' = spoiled \cup {a}
  BY <1>2 DEF SaveGopayAccountState, Goto
<1>4. q \in CallType /\ state \in [Account -> State]
  BY <1>1, CallTyped DEF RecordsInv
<1>5. r.pc = "sync" /\ r.acct = a
  BY <1>2, <1>4 DEF CallType
<1> HIDE DEF r
<1>6. /\ \A b \in Account \ {a} : state'[b] = state[b]
      /\ spoiled \subseteq spoiled' /\ (a \notin spoiled' => state'[a] = q.st)
  BY <1>3, <1>4
<1>7. a \notin spoiled' =>
        /\ profile[a].pin = pinSet[a]
        /\ Carries(r, device[a], gopay[a].token, told[a], pinSet[a])
        /\ Fresh(q.st, gopay[a].token, told[a])
  BY <1>1, <1>2, <1>5, <1>6, CallAt DEF CarriesNow, Carries
<1> QED
  BY <1>1, <1>2, <1>3, <1>5, <1>6, <1>7, CallGoesOn DEF SameAccount, Fresh

LEMMA SyncKeeps ==
  ASSUME RecordsInv, Typed', NEW c \in Caller, syncAccountProfile(c)
  PROVE  RecordsInv'
<1>1. /\ call[c].pc = "sync"
      /\ UNCHANGED <<state, profile, device, gopay, flow, told, pinSet, spoiled>>
  BY DEF syncAccountProfile
<1>2. PICK a \in Account : a = call[c].acct
  BY <1>1, CallTyped DEF RecordsInv
<1> DEFINE r == [call[c] EXCEPT !.pc = "edit", !.pf = profile[a]]
<1>3. call' = [call EXCEPT ![c] = r]
  BY <1>2 DEF syncAccountProfile
<1>4. call[c] \in CallType
  BY <1>1, CallTyped DEF RecordsInv
<1>5. r.pc = "edit" /\ r.acct = a /\ r.pf = profile[a]
  BY <1>2, <1>4 DEF CallType
<1> HIDE DEF r
<1>6. a \notin spoiled =>
        /\ profile[a].pin = pinSet[a]
        /\ Carries(r, device[a], gopay[a].token, told[a], pinSet[a])
        /\ Fresh(state[a], gopay[a].token, told[a])
  BY <1>1, <1>2, <1>5, CallAt DEF Carries
<1> QED
  BY <1>1, <1>2, <1>3, <1>5, <1>6, CallGoesOn DEF SameAccount, Fresh

LEMMA SaveDeviceKeeps ==
  ASSUME RecordsInv, Typed', NEW c \in Caller, saveAccountProfile(c)
  PROVE  RecordsInv'
<1>1. /\ call[c].pc = "device" /\ End(c)
      /\ UNCHANGED <<state, profile, gopay, flow, told, pinSet, spoiled>>
  BY DEF saveAccountProfile
<1>2. PICK a \in Account : a = call[c].acct
  BY <1>1, CallTyped DEF RecordsInv
<1>3. device' = [device EXCEPT ![a] = ensureDevice(call[c].dev, a)] \/ UNCHANGED device
  BY <1>2 DEF saveAccountProfile
<1>4. \A b \in Account \ {a} : device'[b] = device[b]
  BY <1>1, <1>3, CallTyped DEF RecordsInv
<1>5. a \notin spoiled =>
        profile[a].pin = pinSet[a] /\ Fresh(state[a], gopay[a].token, told[a])
  BY <1>1, <1>2, CallAt
<1> QED
  BY <1>1, <1>2, <1>4, <1>5, CallEnds DEF SameAccount, Fresh

LEMMA RefusedKeeps ==
  ASSUME RecordsInv, Typed', NEW c \in Caller, call[c].pc # "idle", Refused(c)
  PROVE  RecordsInv'
<1>1. PICK a \in Account : a = call[c].acct
  BY CallTyped DEF RecordsInv
<1>2. /\ End(c) /\ spoiled' = spoiled \cup {a}
      /\ UNCHANGED <<state, profile, device, gopay, flow, told, pinSet>>
  BY <1>1 DEF Refused
<1> QED
  BY <1>1, <1>2, CallEnds DEF SameAccount

LEMMA DeleteKeeps ==
  ASSUME RecordsInv, Typed', NEW a \in Account, DeleteGopayAccount(a)
  PROVE  RecordsInv'
<1>1. /\ state' = [state EXCEPT ![a] = NoState]
      /\ UNCHANGED <<profile, device, gopay, call, flow, told, pinSet, spoiled>>
  BY DEF DeleteGopayAccount
<1>2. \A b \in Account : state'[b] = state[b] \/ (state'[b].token = None /\ state'[b].bal = 0)
  BY <1>1 DEF RecordsInv, Typed, TypeOK, NoState
<1>3. ASSUME NEW b \in Account \ spoiled'
      PROVE  AccountOK(b)'
  <2>1. AccountOK(b)
    BY <1>1, <1>3 DEF RecordsInv
  <2> QED
    BY <1>1, <1>2, <2>1 DEF AccountOK, Fresh, CarriesNow, Saving
<1> QED
  BY <1>1, <1>3 DEF RecordsInv, Alone

LEMMA SpendKeeps ==
  ASSUME RecordsInv, Typed', NEW a \in Account, Spend(a)
  PROVE  RecordsInv'
<1>1. UNCHANGED <<state, profile, device, call, flow, told, pinSet, spoiled>>
  BY DEF Spend
<1>2. \A b \in Account : gopay'[b].token = gopay[b].token
  BY DEF Spend, RecordsInv, Typed, TypeOK
<1>3. ASSUME NEW b \in Account \ spoiled'
      PROVE  AccountOK(b)'
  <2>1. AccountOK(b)
    BY <1>1, <1>3 DEF RecordsInv
  <2> QED
    BY <1>1, <1>2, <2>1 DEF AccountOK, Fresh, CarriesNow, Saving
<1> QED
  BY <1>1, <1>3 DEF RecordsInv, Alone

LEMMA NextKeeps == RecordsInv /\ [Next]_vars => RecordsInv'
<1> SUFFICES ASSUME RecordsInv, [Next]_vars
             PROVE  RecordsInv'
  OBVIOUS
<1>1. Typed'
  BY NextTyped DEF RecordsInv
<1>2. ASSUME NEW c \in Caller, Step(c)
      PROVE  RecordsInv'
  <2>1. CASE call[c].pc # "idle" /\ Refused(c)
    BY <1>1, <2>1, RefusedKeeps
  <2> QED
    BY <1>1, <1>2, <2>1, ProfileKeeps, ResolveKeeps, MarkKeeps, CheckKeeps, BalanceKeeps,
       PaymentKeeps, SaveProfileKeeps, WorkKeeps, SaveStateKeeps, SyncKeeps, SaveDeviceKeeps
       DEF Step
<1>3. ASSUME NEW c \in Caller, NEW a \in Account,
             \/ StartGopayPayment(c, a) \/ LoadProfile(c, a) \/ handleCreateAccount(c, a)
             \/ LoadGopayAccountState(c, a) \/ loadAccountProfile(c, a)
      PROVE  RecordsInv'
  BY <1>1, <1>3, StartKeeps, LoadProfileKeeps, CreateKeeps, LoadStateKeeps, LoadDeviceKeeps
<1>4. CASE UNCHANGED vars
  <2>1. \A a \in Account : AccountOK(a) => AccountOK(a)'
    BY <1>4 DEF vars, AccountOK, Fresh, CarriesNow, Saving
  <2> QED
    BY <1>1, <1>4, <2>1 DEF vars, RecordsInv, Alone
<1> QED
  BY <1>1, <1>2, <1>3, <1>4, DeleteKeeps, SpendKeeps DEF Next

-----------------------------------------------------------------------------
LEMMA AlwaysInv == Spec => []RecordsInv
BY InitInv, NextKeeps, PTL DEF Spec

(* Stored records, copies, GoPay's books and the payment handed on are what    *)
(* the code's types say, and a payment's account has its OTP channel from the  *)
(* moment it is resolved: whatever calls overlap and whatever saves fail.      *)
THEOREM RecordTypes == Spec => []TypeOK
<1>1. RecordsInv => TypeOK
  BY DEF RecordsInv, Typed
<1> QED
  BY <1>1, AlwaysInv, PTL

(* Once no call works on it, an account's stored token is the one GoPay issued *)
(* last, also after a payment that was refused (ensurePaymentBalance saves the *)
(* copy before it judges it): for any calls in turn that lost no save.         *)
THEOREM TokensStored == Spec => []TokenStored
<1>1. RecordsInv => TokenStored
  <2> SUFFICES ASSUME RecordsInv, NEW a \in Account \ spoiled, ~Busy(a), state[a].token # None
               PROVE  state[a].token = gopay[a].token
    BY DEF TokenStored
  <2> QED
    BY NobodyAt DEF Fresh
<1> QED
  BY <1>1, AlwaysInv, PTL

(* The profile has the PIN saved last: the writers of other fields keep it     *)
(* (MarkChannel, syncAccountProfile), as they loaded it after it was saved.    *)
THEOREM PINsKept == Spec => []PINKept
<1>1. RecordsInv => PINKept
  BY DEF RecordsInv, AccountOK, PINKept
<1> QED
  BY <1>1, AlwaysInv, PTL

\* StartPayment hands on what its copies hold, and those are of now.
LEMMA PaymentCovered ==
  ASSUME RecordsInv, NEW c \in Caller, StartPayment(c), flow'.acct \notin spoiled, flow' # flow
  PROVE  /\ flow'.amount <= told[flow'.acct]
         /\ flow'.link => flow'.pin = pinSet[flow'.acct] /\ flow'.pin # None
<1>1. call[c].pc = "start"
  BY DEF StartPayment
<1>2. PICK a \in Account : a = call[c].acct
  BY <1>1, CallTyped DEF RecordsInv
<1>3. /\ flow'.acct = a /\ flow'.amount = call[c].amount /\ flow'.link = call[c].link
      /\ flow'.pin = call[c].pf.pin
  BY <1>2 DEF StartPayment
<1>4. CarriesNow(c, a)
  BY <1>1, <1>2, <1>3, CallAt
<1> QED
  BY <1>1, <1>3, <1>4 DEF CarriesNow, Carries

\* A device is written by saveAccountProfile alone, which has the stored one.
LEMMA DeviceStays ==
  ASSUME RecordsInv, [Next]_vars, NEW a \in Account \ spoiled', device[a] # None
  PROVE  device'[a] = device[a]
<1>1. ASSUME NEW c \in Caller, saveAccountProfile(c)
      PROVE  device'[a] = device[a]
  <2>1. call[c].pc = "device" /\ spoiled' = spoiled
    BY <1>1 DEF saveAccountProfile
  <2>2. device \in [Account -> 0..MaxDevices]
    BY DEF RecordsInv, Typed, TypeOK
  <2>3. \/ device' = [device EXCEPT ![call[c].acct] = ensureDevice(call[c].dev, call[c].acct)]
        \/ UNCHANGED device
    BY <1>1 DEF saveAccountProfile
  <2>4. CASE a = call[c].acct
    <3>1. call[c].dev = device[a]
      BY <2>1, <2>4, CallAt DEF CarriesNow, Carries
    <3> QED
      BY <2>2, <2>3, <2>4, <3>1 DEF ensureDevice
  <2>5. CASE a # call[c].acct
    BY <2>2, <2>3, <2>5
  <2> QED
    BY <2>4, <2>5
<1>2. ASSUME NEW c \in Caller, Step(c), ~saveAccountProfile(c)
      PROVE  UNCHANGED device
  BY <1>2 DEF Step, loadGopayAccountProfile, resolvePaymentAccount, MarkChannel,
     checkTokenValid, ensurePaymentBalance, StartPayment, SaveGopayAccountProfile, Work,
     SaveGopayAccountState, syncAccountProfile, Refused
<1>3. CASE \E c \in Caller, b \in Account :
        \/ StartGopayPayment(c, b) \/ LoadProfile(c, b) \/ handleCreateAccount(c, b)
        \/ LoadGopayAccountState(c, b) \/ loadAccountProfile(c, b)
  BY <1>3 DEF StartGopayPayment, LoadProfile, handleCreateAccount, LoadGopayAccountState,
     loadAccountProfile
<1>4. CASE (\E b \in Account : DeleteGopayAccount(b) \/ Spend(b)) \/ UNCHANGED vars
  BY <1>4 DEF DeleteGopayAccount, Spend, vars
<1> QED
  BY <1>1, <1>2, <1>3, <1>4 DEF Next

(* A payment is handed to the payment flows only for an amount that the        *)
(* balance GoPay told last covers, by linking only with the profile's PIN; a   *)
(* device that was stored stays: for any calls in turn that lost no save, any  *)
(* amounts, and a balance that changes at GoPay at any time.                   *)
THEOREM RecordsAreHeeded == Spec => RecordsHeeded
<1>1. RecordsInv /\ [Next]_vars => [CoveredAsTold /\ DeviceKept]_vars
  BY PaymentCovered, DeviceStays DEF CoveredAsTold, DeviceKept
<1> QED
  BY <1>1, AlwaysInv, PTL DEF Spec, RecordsHeeded

-----------------------------------------------------------------------------
(* Devices (DeviceIdentity).                                               *)

\* A device just made in the environment e, and one that is stored.
Shows(d, e) ==
  \A f \in Devices!Field \ {"GMSVersion", "DeviceToken"} :
    d[f] # Devices!Blank \/ (f = "IPAddress" /\ e.static)

Plainly(d) ==
  /\ d["TransactionID"].os \notin Devices!Platforms
  /\ d["AppVersion"] \in {Devices!Blank} \cup [os : {"any"}, n : Devices!Version]

NewDevice(d, e) ==
  /\ d \in Devices!Device /\ Shows(d, e) /\ Plainly(d) /\ Devices!Consistent(d)
  /\ e.version = 0 => d["AppVersion"].n = Devices!DefaultVersion

OldDevice(d) ==
  /\ d \in Devices!Device /\ Plainly(d)
  /\ \/ d = Devices!NoDevice \/ Devices!deviceNeedsBackfill(d)
     \/ \A f \in Devices!Field \ {"GMSVersion", "DeviceToken"} : d[f] # Devices!Blank

LEMMA EnvironmentsAre ==
  ASSUME NEW e \in Environments
  PROVE  e \in Devices!Environment
BY PartConstants DEF Devices!DeviceIdentityConstants

LEMMA BlankIs == Devices!Blank \in Devices!Value /\ Devices!Blank.os = "none"
BY DEF Devices!Blank, Devices!Value

\* The values of a device.
LEMMA ValueIs ==
  ASSUME NEW os \in Devices!Platforms \cup {"any"},
         NEW n \in Devices!Number \cup Devices!Version \cup {1, 2}
  PROVE  /\ [os |-> os, n |-> n] \in Devices!Value
         /\ [os |-> os, n |-> n] # Devices!Blank
BY DEF Devices!Value, Devices!Blank, Devices!Platforms, Devices!Safari, Devices!OtherTLS

Fields(d, e, n, tls) ==
  LET version  == IF e.version = 0 THEN 27 ELSE e.version
      random   == IF e.static THEN 0 ELSE n
      hardware == IF e.hardware /\ ~e.static THEN n ELSE 0
      android  == e.platform = "Android"
      Of(k)    == [os |-> e.platform, n |-> k]
      Any(k)   == [os |-> "any", n |-> k]
  IN /\ DOMAIN d = Devices!Field
     /\ d["AppID"] = Any(0) /\ d["AppVersion"] = Any(version) /\ d["UserAgent"] = Of(version)
     /\ d["Platform"] = Of(0) /\ d["DeviceOS"] = Of(0) /\ d["Installer"] = Of(0)
     /\ d["PhoneModel"] = Of(hardware) /\ d["M1Hardware"] = Of(hardware)
     /\ d["GMSVersion"] = IF android THEN Of(0) ELSE Devices!Blank
     /\ d["DeviceToken"] = IF android /\ e.static THEN Devices!Blank ELSE Of(random)
     /\ d["UniqueID"] = Any(random) /\ d["IMEI"] = Any(random) /\ d["Identity"] = Any(random)
     /\ d["IPAddress"] = IF e.static THEN Devices!Blank ELSE Any(n)
     /\ d["TransactionID"] = Any(n) /\ d["TLSProfileName"] = tls

LEMMA NewDeviceFields ==
  ASSUME NEW e, NEW n, NEW tls
  PROVE  LET d == Devices!NewDeviceFingerprint(e, n, tls) IN
         d = [f \in Devices!Field |-> d[f]] /\ Fields(d, e, n, tls)
BY DEF Devices!NewDeviceFingerprint, Devices!Field, Devices!DefaultVersion, Fields

\* A TLS profile is pinned, or one of the platform's.
LEMMA ProfileIs ==
  ASSUME NEW e \in Devices!Environment, NEW tls \in Devices!TLSChoice(e)
  PROVE  /\ tls \in Devices!Value /\ tls # Devices!Blank
         /\ tls.n # 0 => tls.os = e.platform
<1>1. CASE e.tls # "any"
  <2>1. tls = [os |-> e.tls, n |-> 0] /\ e.tls \in Devices!Platforms
    BY <1>1 DEF Devices!TLSChoice, Devices!Environment
  <2>2. 0 \in Devices!Number
    BY PartConstants DEF Devices!DeviceIdentityConstants, Devices!Number
  <2> QED
    BY <2>1, <2>2, ValueIs
<1>2. CASE e.tls = "any"
  <2>1. PICK kind \in {1, 2} : tls = [os |-> e.platform, n |-> kind]
    BY <1>2 DEF Devices!TLSChoice, Devices!Safari, Devices!OtherTLS
  <2>2. e.platform \in Devices!Platforms
    BY DEF Devices!Environment
  <2> QED
    BY <2>1, <2>2, ValueIs
<1> QED
  BY <1>1, <1>2

LEMMA NewDeviceIs ==
  ASSUME NEW e \in Devices!Environment, NEW n \in 1..MaxMade,
         NEW tls \in Devices!TLSChoice(e)
  PROVE  NewDevice(Devices!NewDeviceFingerprint(e, n, tls), e)
<1> DEFINE d == Devices!NewDeviceFingerprint(e, n, tls)
           version == IF e.version = 0 THEN 27 ELSE e.version
           random  == IF e.static THEN 0 ELSE n
           hardware == IF e.hardware /\ ~e.static THEN n ELSE 0
           Of(k)  == [os |-> e.platform, n |-> k]
           Any(k) == [os |-> "any", n |-> k]
<1>1. d = [f \in Devices!Field |-> d[f]] /\ Fields(d, e, n, tls)
  BY NewDeviceFields
<1>2. /\ version \in Devices!Version
      /\ {0, n, random, hardware} \subseteq Devices!Number
  BY PartConstants DEF Devices!Environment, Devices!Version, Devices!Number,
     Devices!DeviceIdentityConstants
<1>3. e.platform \in Devices!Platforms /\ Devices!Platforms = {"iOS", "Android"}
  BY DEF Devices!Environment, Devices!Platforms
<1>4. /\ tls \in Devices!Value /\ tls # Devices!Blank
      /\ tls.n # 0 => tls.os = e.platform
  BY ProfileIs
<1> HIDE DEF d
<1>5. /\ \A k \in {0, n, random, hardware, version} :
           /\ Of(k) \in Devices!Value /\ Of(k) # Devices!Blank
           /\ Any(k) \in Devices!Value /\ Any(k) # Devices!Blank
      /\ Devices!Blank \in Devices!Value
  BY <1>2, <1>3, ValueIs, BlankIs
<1>6. ASSUME NEW f \in Devices!Field
      PROVE  d[f] \in Devices!Value
  BY <1>1, <1>4, <1>5 DEF Fields, Devices!Field
<1>7. d \in Devices!Device
  BY <1>1, <1>6 DEF Devices!Device
<1>8. Shows(d, e)
  BY <1>1, <1>4, <1>5 DEF Fields, Shows, Devices!Field
<1>9. Plainly(d) /\ (e.version = 0 => d["AppVersion"].n = Devices!DefaultVersion)
  BY <1>1, <1>2, <1>3 DEF Fields, Plainly, Devices!DefaultVersion
<1>10. Devices!Consistent(d)
  <2>1. ASSUME NEW f \in Devices!Field, d[f].os \in Devices!Platforms,
               f = "TLSProfileName" => d[f].n # 0
        PROVE  d[f].os = d["Platform"].os
    <3>1. d["Platform"].os = e.platform
      BY <1>1 DEF Fields
    <3>2. d[f].os \in {e.platform, "any", Devices!Blank.os}
      BY <1>1, <1>4, <2>1 DEF Fields, Devices!Field
    <3> QED
      BY <1>3, <2>1, <3>1, <3>2, BlankIs
  <2>2. d["PhoneModel"].n = d["M1Hardware"].n /\ d["UserAgent"].n = d["AppVersion"].n
    BY <1>1 DEF Fields
  <2> QED
    BY <2>1, <2>2 DEF Devices!Consistent
<1> QED
  BY <1>7, <1>8, <1>9, <1>10 DEF NewDevice, d

\* What is shown is complete but for the address, and a device that is completed
\* is; one that was never stored is a new one.
LEMMA ShownIsOld ==
  ASSUME NEW d \in Devices!Device, NEW e, Plainly(d), Shows(d, e)
  PROVE  OldDevice(d)
<1>1. CASE d["IPAddress"] = Devices!Blank
  <2>1. Devices!deviceNeedsBackfill(d)
    BY <1>1 DEF Devices!deviceNeedsBackfill, Devices!Completed
  <2> QED
    BY <2>1 DEF OldDevice
<1>2. CASE d["IPAddress"] # Devices!Blank
  BY <1>2 DEF OldDevice, Shows
<1> QED
  BY <1>1, <1>2

Ensured(d, fresh, e, r) ==
  /\ OldDevice(r) /\ Shows(r, e)
  /\ ~Devices!Makes(d) => r = d
  /\ d = Devices!NoDevice => r = fresh

LEMMA DeviceEnsured ==
  ASSUME NEW d, OldDevice(d), NEW e, NEW fresh,
         Devices!Makes(d) => NewDevice(fresh, e)
  PROVE  Ensured(d, fresh, e, Devices!ensureDevice(d, fresh))
<1>1. CASE d = Devices!NoDevice
  <2>1. Devices!ensureDevice(d, fresh) = fresh /\ Devices!Makes(d)
    BY <1>1 DEF Devices!ensureDevice, Devices!Makes
  <2>2. OldDevice(fresh) /\ Shows(fresh, e)
    BY <2>1, ShownIsOld DEF NewDevice
  <2> QED
    BY <2>1, <2>2 DEF Ensured
<1>2. CASE d # Devices!NoDevice /\ Devices!deviceNeedsBackfill(d)
  <2> DEFINE r == Devices!mergeDevice(d, fresh)
  <2>1. Devices!ensureDevice(d, fresh) = r /\ Devices!Makes(d)
    BY <1>2 DEF Devices!ensureDevice, Devices!Makes
  <2>2. /\ r = [f \in Devices!Field |-> r[f]]
        /\ \A f \in Devices!Field : r[f] = IF d[f] # Devices!Blank THEN d[f] ELSE fresh[f]
    BY DEF Devices!mergeDevice
  <2> HIDE DEF r
  <2>3. /\ d \in Devices!Device /\ Plainly(d)
        /\ fresh \in Devices!Device /\ Plainly(fresh) /\ Shows(fresh, e)
    BY <2>1 DEF OldDevice, NewDevice
  <2>4. r \in Devices!Device
    BY <2>2, <2>3 DEF Devices!Device
  <2>5. Plainly(r)
    <3>1. {"TransactionID", "AppVersion"} \subseteq Devices!Field
      BY DEF Devices!Field
    <3> QED
      BY <2>2, <2>3, <3>1 DEF Plainly
  <2>6. Shows(r, e)
    BY <2>2, <2>3 DEF Shows
  <2> QED
    BY <1>2, <2>1, <2>4, <2>5, <2>6, ShownIsOld DEF Ensured
<1>3. CASE d # Devices!NoDevice /\ ~Devices!deviceNeedsBackfill(d)
  <2>1. Devices!ensureDevice(d, fresh) = d
    BY <1>3 DEF Devices!ensureDevice
  <2>2. Shows(d, e)
    BY <1>3 DEF OldDevice, Shows
  <2> QED
    BY <1>3, <2>1, <2>2 DEF Ensured
<1> QED
  BY <1>1, <1>2, <1>3

\* Another transaction id leaves a device what it is.
LEMMA Retold ==
  ASSUME NEW d \in Devices!Device, NEW v \in Devices!Value, v # Devices!Blank,
         v.os \notin Devices!Platforms
  PROVE  LET r == [d EXCEPT !["TransactionID"] = v] IN
         /\ r \in Devices!Device /\ r["TransactionID"] = v
         /\ \A f \in Devices!Field \ {"TransactionID"} : r[f] = d[f]
         /\ Plainly(d) => Plainly(r)
         /\ \A e : Shows(d, e) => Shows(r, e)
         /\ Devices!Consistent(d) => Devices!Consistent(r)
         /\ Devices!deviceNeedsBackfill(r) <=> Devices!deviceNeedsBackfill(d)
<1> DEFINE r == [d EXCEPT !["TransactionID"] = v]
<1>0. "TransactionID" \in Devices!Field
  BY DEF Devices!Field
<1>1. /\ r \in Devices!Device /\ r["TransactionID"] = v
      /\ \A f \in Devices!Field \ {"TransactionID"} : r[f] = d[f]
  BY <1>0 DEF Devices!Device
<1> HIDE DEF r
<1>2. Plainly(d) => Plainly(r)
  BY <1>1 DEF Plainly, Devices!Field
<1>3. \A e : Shows(d, e) => Shows(r, e)
  BY <1>1 DEF Shows
<1>4. Devices!Consistent(d) => Devices!Consistent(r)
  BY <1>1 DEF Devices!Consistent, Devices!Field
<1>5. Devices!deviceNeedsBackfill(r) <=> Devices!deviceNeedsBackfill(d)
  <2>1. Devices!Completed \subseteq Devices!Field \ {"TransactionID"}
    BY DEF Devices!Completed, Devices!Field
  <2> QED
    BY <1>1, <2>1 DEF Devices!deviceNeedsBackfill
<1> QED
  BY <1>1, <1>2, <1>3, <1>4, <1>5 DEF r

-----------------------------------------------------------------------------
\* The device in the state is, if it was made at once and is complete, consistent;
\* what is stored is complete or will be completed; what was sent was.
Faced(d, w) ==
  w /\ d # Devices!NoDevice => ~Devices!deviceNeedsBackfill(d) /\ Devices!Consistent(d)

DevicesInv ==
  /\ Devices!TypeOK
  /\ OldDevice(face) /\ OldDevice(kept) /\ Faced(face, whole)
  /\ signup.os \notin Devices!Platforms
  /\ Devices!NothingLacking /\ Devices!SignupVersion

\* What a step may show: what the state holds if that is complete, for a signup
\* with its transaction id.
FaceSteps == Devices!OneFace /\ Devices!OneTransaction

\* A device that is drawn now, if the step makes one.
LEMMA FreshIs ==
  ASSUME DevicesInv, NEW e \in Devices!Environment, NEW fresh \in Devices!Fresh(e),
         drawn < MaxMade
  PROVE  NewDevice(fresh, e)
<1>1. PICK tls \in Devices!TLSChoice(e) :
        fresh = Devices!NewDeviceFingerprint(e, drawn + 1, tls)
  BY DEF Devices!Fresh
<1>2. drawn + 1 \in 1..MaxMade
  BY PartConstants DEF DevicesInv, Devices!TypeOK, Devices!DeviceIdentityConstants
<1> QED
  BY <1>1, <1>2, NewDeviceIs

LEMMA NewIsFaced ==
  ASSUME NEW d, NEW e, NewDevice(d, e)
  PROVE  OldDevice(d) /\ Faced(d, ~Devices!deviceNeedsBackfill(d))
BY ShownIsOld DEF NewDevice, Faced

\* What the state's device becomes when it is completed, and whether it is whole.
LEMMA EnsuredIsFaced ==
  ASSUME NEW d, NEW e, NEW fresh, Devices!Makes(d) => NewDevice(fresh, e),
         NEW r, Ensured(d, fresh, e, r), NEW w, Faced(d, w)
  PROVE  Faced(r, IF d = Devices!NoDevice THEN ~Devices!deviceNeedsBackfill(r) ELSE w)
<1>1. CASE d = Devices!NoDevice
  BY <1>1, NewIsFaced DEF Ensured, Devices!Makes
<1>2. CASE d # Devices!NoDevice
  BY <1>2 DEF Ensured, Devices!Makes, Faced
<1> QED
  BY <1>1, <1>2

LEMMA NoDeviceIs == OldDevice(Devices!NoDevice)
<1>1. Devices!NoDevice \in Devices!Device
  BY BlankIs DEF Devices!NoDevice, Devices!Device
<1>2. /\ Devices!NoDevice["TransactionID"] = Devices!Blank
      /\ Devices!NoDevice["AppVersion"] = Devices!Blank
  BY DEF Devices!NoDevice, Devices!Field
<1> QED
  BY <1>1, <1>2, BlankIs DEF OldDevice, Plainly, Devices!Platforms

LEMMA DevicesInit ==
  ASSUME Devices!Init
  PROVE  DevicesInv
<1>1. env \in Devices!Environment
  BY EnvironmentsAre DEF Devices!Init
<1>2. PICK lacking \in Missing \cup {Devices!Field}, tls \in Devices!TLSChoice(env) :
        face = [f \in Devices!Field |->
                  IF f \in lacking THEN Devices!Blank
                  ELSE Devices!NewDeviceFingerprint(env, 1, tls)[f]]
  BY DEF Devices!Init
<1> DEFINE d == Devices!NewDeviceFingerprint(env, 1, tls)
<1>3. NewDevice(d, env)
  <2>1. 1 \in 1..MaxMade
    BY PartConstants DEF Devices!DeviceIdentityConstants
  <2> QED
    BY <1>1, <2>1, NewDeviceIs
<1> HIDE DEF d
<1>4. /\ face = [f \in Devices!Field |-> face[f]]
      /\ \A f \in Devices!Field : face[f] = IF f \in lacking THEN Devices!Blank ELSE d[f]
  BY <1>2 DEF d
<1>5. face \in Devices!Device
  BY <1>3, <1>4, BlankIs DEF NewDevice, Devices!Device
<1>6. Plainly(face)
  <2>1. {"TransactionID", "AppVersion"} \subseteq Devices!Field
    BY DEF Devices!Field
  <2>2. Devices!Blank.os \notin Devices!Platforms
    BY BlankIs DEF Devices!Platforms
  <2> QED
    BY <1>3, <1>4, <2>1, <2>2 DEF NewDevice, Plainly
<1>7. Devices!Completed \subseteq Devices!Field
  BY DEF Devices!Completed, Devices!Field
<1>8. OldDevice(face) /\ Faced(face, whole)
  <2>1. CASE lacking \cap Devices!Completed # {}
    <3>1. Devices!deviceNeedsBackfill(face)
      BY <1>4, <1>7, <2>1 DEF Devices!deviceNeedsBackfill
    <3>2. whole = (face = Devices!NoDevice \/ ~Devices!deviceNeedsBackfill(face))
      BY DEF Devices!Init
    <3> QED
      BY <1>5, <1>6, <3>1, <3>2 DEF OldDevice, Faced
  <2>2. CASE lacking \cap Devices!Completed = {}
    <3>1. lacking \subseteq {"GMSVersion", "DeviceToken"}
      <4>1. lacking # Devices!Field
        BY <1>7, <2>2 DEF Devices!Completed
      <4> QED
        BY <1>2, <2>2, <4>1, PartConstants DEF Devices!DeviceIdentityConstants
    <3>2. Shows(face, env)
      BY <1>3, <1>4, <3>1 DEF NewDevice, Shows
    <3>3. Devices!Consistent(face)
      <4>1. {"Platform", "PhoneModel", "M1Hardware", "UserAgent", "AppVersion"}
              \subseteq Devices!Field \ {"GMSVersion", "DeviceToken"}
        BY DEF Devices!Field
      <4>2. \A f \in {"Platform", "PhoneModel", "M1Hardware", "UserAgent", "AppVersion"} :
              face[f] = d[f]
        BY <1>4, <3>1, <4>1
      <4>3. \A f \in Devices!Field : face[f] = d[f] \/ face[f].os \notin Devices!Platforms
        BY <1>4, BlankIs DEF Devices!Platforms
      <4>4. Devices!Consistent(d)
        BY <1>3 DEF NewDevice
      <4> QED
        BY <4>2, <4>3, <4>4 DEF Devices!Consistent
    <3>4. whole = (face = Devices!NoDevice \/ ~Devices!deviceNeedsBackfill(face))
      BY DEF Devices!Init
    <3> QED
      BY <1>5, <1>6, <3>2, <3>3, <3>4, ShownIsOld DEF Faced
  <2> QED
    BY <2>1, <2>2
<1>9. OldDevice(Devices!NoDevice)
  BY NoDeviceIs
<1>10. /\ env \in Environments /\ kept \in {face, Devices!NoDevice} /\ drawn = 1
       /\ signup = Devices!Blank /\ whole \in BOOLEAN
       /\ shown = [what |-> "none", device |-> face, env |-> env]
  BY DEF Devices!Init
<1>11. 1 \in 0..MaxMade
  BY PartConstants DEF Devices!DeviceIdentityConstants
<1>12. Devices!TypeOK
  BY <1>5, <1>9, <1>10, <1>11, BlankIs DEF Devices!TypeOK, OldDevice
<1>13. signup.os \notin Devices!Platforms
  BY <1>10, BlankIs DEF Devices!Platforms
<1>14. Devices!NothingLacking /\ Devices!SignupVersion
  BY <1>10 DEF Devices!NothingLacking, Devices!SignupVersion
<1> QED
  BY <1>8, <1>9, <1>10, <1>12, <1>13, <1>14 DEF DevicesInv

-----------------------------------------------------------------------------
\* What is sent for an action or a signup shows all it has to.
LEMMA SentShows ==
  ASSUME shown' = [what |-> shown'.what, device |-> shown'.device, env |-> env],
         Shows(shown'.device, env),
         shown'.what = "signup" /\ env.version = 0
           => shown'.device["AppVersion"].n = Devices!DefaultVersion
  PROVE  Devices!NothingLacking' /\ Devices!SignupVersion'
<1>1. shown'.env = env
  OBVIOUS
<1> QED
  BY <1>1 DEF Devices!NothingLacking, Devices!SignupVersion, Shows

LEMMA SentStays ==
  ASSUME DevicesInv, UNCHANGED shown
  PROVE  Devices!NothingLacking' /\ Devices!SignupVersion'
BY DEF DevicesInv, Devices!NothingLacking, Devices!SignupVersion

LEMMA RestartKeeps ==
  ASSUME DevicesInv, Devices!Restart
  PROVE  DevicesInv' /\ FaceSteps
<1>1. env' \in Environments /\ UNCHANGED <<face, kept, signup, drawn, shown, whole>>
  BY DEF Devices!Restart
<1>2. Devices!NothingLacking' /\ Devices!SignupVersion'
  BY <1>1, SentStays
<1>3. Devices!TypeOK'
  BY <1>1 DEF DevicesInv, Devices!TypeOK
<1>4. FaceSteps
  BY <1>1 DEF FaceSteps, Devices!OneFace, Devices!OneTransaction
<1> QED
  BY <1>1, <1>2, <1>3, <1>4 DEF DevicesInv

LEMMA ActionKeeps ==
  ASSUME DevicesInv, Devices!clientForState
  PROVE  DevicesInv' /\ FaceSteps
<1>1. PICK fresh \in Devices!Fresh(env) :
        LET d == Devices!ensureDevice(face, fresh) IN
        /\ Devices!Sends("action", d)
        /\ \/ face' = d /\ whole' = Devices!Whole(face, d)
           \/ UNCHANGED <<face, whole>>
  BY DEF Devices!clientForState
<1> DEFINE d == Devices!ensureDevice(face, fresh)
<1>2. /\ Devices!Count(Devices!Makes(face)) /\ UNCHANGED <<env, kept, signup>>
      /\ shown' = [what |-> "action", device |-> d, env |-> env]
      /\ \/ face' = d /\ whole' = Devices!Whole(face, d)
         \/ UNCHANGED <<face, whole>>
  BY <1>1 DEF Devices!clientForState, Devices!Sends
<1>3. /\ env \in Environments /\ env \in Devices!Environment
      /\ drawn \in 0..MaxMade /\ MaxMade \in Nat /\ whole \in BOOLEAN
  BY EnvironmentsAre, PartConstants DEF DevicesInv, Devices!TypeOK,
     Devices!DeviceIdentityConstants
<1>4. drawn' \in 0..MaxMade
  BY <1>2, <1>3 DEF Devices!Count
<1>5. Devices!Makes(face) => NewDevice(fresh, env)
  BY <1>2, <1>3, FreshIs DEF Devices!Count
<1>6. Ensured(face, fresh, env, d)
  BY <1>5, DeviceEnsured DEF DevicesInv
<1>7. Faced(d, Devices!Whole(face, d)) /\ Devices!Whole(face, d) \in BOOLEAN
  BY <1>3, <1>5, <1>6, EnsuredIsFaced DEF DevicesInv, Devices!Whole
<1> HIDE DEF d
<1>8. /\ OldDevice(face') /\ Faced(face', whole') /\ whole' \in BOOLEAN
      /\ d \in Devices!Device /\ d["TransactionID"] # Devices!Blank
  <2>1. "TransactionID" \in Devices!Field \ {"GMSVersion", "DeviceToken"}
    BY DEF Devices!Field
  <2> QED
    BY <1>2, <1>3, <1>6, <1>7, <2>1 DEF Ensured, DevicesInv, OldDevice, Shows
<1>9. Devices!TypeOK'
  BY <1>2, <1>3, <1>4, <1>8 DEF DevicesInv, Devices!TypeOK, OldDevice
<1>10. Devices!NothingLacking' /\ Devices!SignupVersion'
  BY <1>2, <1>6, SentShows DEF Ensured
<1>11. whole /\ face # Devices!NoDevice => d = face
  BY <1>6 DEF Ensured, DevicesInv, Faced, Devices!Makes
<1>12. FaceSteps
  BY <1>2, <1>11 DEF FaceSteps, Devices!OneFace, Devices!OneTransaction
<1>13. OldDevice(kept)' /\ (signup.os \notin Devices!Platforms)'
  BY <1>2 DEF DevicesInv
<1> QED
  BY <1>8, <1>9, <1>10, <1>12, <1>13 DEF DevicesInv

LEMMA GenerateKeeps ==
  ASSUME DevicesInv, Devices!generateDeviceProxyState
  PROVE  DevicesInv' /\ FaceSteps
<1>1. PICK fresh \in Devices!Fresh(env) : face' = Devices!ensureDevice(kept, fresh)
  BY DEF Devices!generateDeviceProxyState
<1> DEFINE d == Devices!ensureDevice(kept, fresh)
<1>2. /\ Devices!Count(Devices!Makes(kept)) /\ UNCHANGED <<env, shown>>
      /\ face' = d /\ kept' = d /\ signup' = Devices!Blank
      /\ whole' = IF kept = face THEN Devices!Whole(face, d)
                  ELSE kept = Devices!NoDevice /\ ~Devices!deviceNeedsBackfill(d)
  BY <1>1 DEF Devices!generateDeviceProxyState
<1>3. /\ env \in Environments /\ env \in Devices!Environment
      /\ drawn \in 0..MaxMade /\ MaxMade \in Nat /\ whole \in BOOLEAN
  BY EnvironmentsAre, PartConstants DEF DevicesInv, Devices!TypeOK,
     Devices!DeviceIdentityConstants
<1>4. drawn' \in 0..MaxMade
  BY <1>2, <1>3 DEF Devices!Count
<1>5. Devices!Makes(kept) => NewDevice(fresh, env)
  BY <1>2, <1>3, FreshIs DEF Devices!Count
<1>6. Ensured(kept, fresh, env, d)
  BY <1>5, DeviceEnsured DEF DevicesInv
<1> HIDE DEF d
<1>7. Faced(d, whole') /\ whole' \in BOOLEAN
  <2>1. CASE kept = face
    BY <1>2, <1>3, <1>5, <1>6, <2>1, EnsuredIsFaced DEF DevicesInv, Devices!Whole
  <2>2. CASE kept # face /\ kept = Devices!NoDevice
    <3>1. Faced(kept, FALSE)
      BY DEF Faced
    <3>2. Faced(d, ~Devices!deviceNeedsBackfill(d))
      BY <1>5, <1>6, <2>2, <3>1, EnsuredIsFaced
    <3> QED
      BY <1>2, <2>2, <3>2 DEF Devices!deviceNeedsBackfill
  <2>3. CASE kept # face /\ kept # Devices!NoDevice
    <3>1. whole' = FALSE
      BY <1>2, <2>3
    <3> QED
      BY <3>1 DEF Faced
  <2> QED
    BY <2>1, <2>2, <2>3
<1>8. OldDevice(face') /\ OldDevice(kept')
  BY <1>2, <1>6 DEF Ensured
<1>9. Devices!TypeOK'
  BY <1>2, <1>3, <1>4, <1>7, <1>8, BlankIs DEF DevicesInv, Devices!TypeOK, OldDevice
<1>10. Devices!NothingLacking' /\ Devices!SignupVersion'
  BY <1>2, SentStays
<1>11. (signup.os \notin Devices!Platforms)'
  BY <1>2, BlankIs DEF Devices!Platforms
<1>12. FaceSteps
  BY <1>2 DEF FaceSteps, Devices!OneFace, Devices!OneTransaction
<1> QED
  BY <1>2, <1>7, <1>8, <1>9, <1>10, <1>11, <1>12 DEF DevicesInv

LEMMA RandomKeeps ==
  ASSUME DevicesInv, Devices!ensureRandomDevice
  PROVE  DevicesInv' /\ FaceSteps
<1> DEFINE bare == [platform |-> "iOS", static |-> FALSE, version |-> 0,
                    hardware |-> env.hardware, tls |-> env.tls]
<1>1. /\ Devices!Count(TRUE) /\ face' \in Devices!Fresh(bare) /\ whole' = TRUE
      /\ signup' = Devices!Blank /\ UNCHANGED <<env, kept, shown>>
  BY DEF Devices!ensureRandomDevice
<1>2. /\ env \in Environments /\ env \in Devices!Environment
      /\ drawn \in 0..MaxMade /\ MaxMade \in Nat
  BY EnvironmentsAre, PartConstants DEF DevicesInv, Devices!TypeOK,
     Devices!DeviceIdentityConstants
<1>3. bare \in Devices!Environment /\ bare.static = FALSE
  BY <1>2 DEF Devices!Environment, Devices!Platforms
<1>4. drawn < MaxMade /\ drawn' \in 0..MaxMade
  BY <1>1, <1>2 DEF Devices!Count
<1> HIDE DEF bare
<1>5. NewDevice(face', bare)
  BY <1>1, <1>3, <1>4, FreshIs
<1>6. ~Devices!deviceNeedsBackfill(face')
  <2>1. Devices!Completed \subseteq Devices!Field \ {"GMSVersion", "DeviceToken"}
    BY DEF Devices!Completed, Devices!Field
  <2> QED
    BY <1>3, <1>5, <2>1 DEF NewDevice, Shows, Devices!deviceNeedsBackfill
<1>7. OldDevice(face') /\ Faced(face', TRUE)
  BY <1>5, <1>6, NewIsFaced DEF Faced
<1>8. Devices!TypeOK'
  BY <1>1, <1>2, <1>4, <1>7, BlankIs DEF DevicesInv, Devices!TypeOK, OldDevice
<1>9. Devices!NothingLacking' /\ Devices!SignupVersion'
  BY <1>1, SentStays
<1>10. (signup.os \notin Devices!Platforms)' /\ OldDevice(kept)'
  BY <1>1, BlankIs DEF Devices!Platforms, DevicesInv
<1>11. FaceSteps
  BY <1>1 DEF FaceSteps, Devices!OneFace, Devices!OneTransaction
<1> QED
  BY <1>1, <1>7, <1>8, <1>9, <1>10, <1>11 DEF DevicesInv

LEMMA ProbeKeeps ==
  ASSUME DevicesInv, Devices!checkPhoneByLoginMethods
  PROVE  DevicesInv' /\ FaceSteps
<1>1. PICK tls \in Devices!TLSChoice(Devices!NoPlatform(env)) :
        Devices!Sends("probe", Devices!newSession(face, tls))
  BY DEF Devices!checkPhoneByLoginMethods
<1> DEFINE d == Devices!newSession(face, tls)
<1>2. /\ shown' = [what |-> "probe", device |-> d, env |-> env]
      /\ UNCHANGED <<env, face, kept, signup, drawn, whole>>
  BY <1>1 DEF Devices!checkPhoneByLoginMethods, Devices!Sends
<1>3. env \in Environments /\ env \in Devices!Environment
  BY EnvironmentsAre DEF DevicesInv, Devices!TypeOK
<1>4. Devices!NoPlatform(env) \in Devices!Environment
  BY <1>3 DEF Devices!NoPlatform, Devices!Environment, Devices!Platforms
<1>5. tls \in Devices!Value
  BY <1>4, ProfileIs
<1>6. d \in Devices!Device
  <2>1. face \in Devices!Device
    BY DEF DevicesInv, OldDevice
  <2> QED
    BY <1>5, <2>1 DEF Devices!newSession, Devices!Device
<1>7. whole /\ face # Devices!NoDevice => d = face
  BY DEF DevicesInv, Faced, Devices!deviceNeedsBackfill, Devices!Completed,
     Devices!newSession
<1> HIDE DEF d
<1>8. Devices!TypeOK'
  BY <1>2, <1>3, <1>6 DEF DevicesInv, Devices!TypeOK
<1>9. Devices!NothingLacking' /\ Devices!SignupVersion'
  BY <1>2 DEF Devices!NothingLacking, Devices!SignupVersion
<1>10. FaceSteps
  BY <1>2, <1>7 DEF FaceSteps, Devices!OneFace, Devices!OneTransaction
<1> QED
  BY <1>2, <1>8, <1>9, <1>10 DEF DevicesInv

\* A signup: with the device held, or with one of the service's own version; with
\* the transaction id of the first attempt, if there was one.
LEMMA SignupKeeps ==
  ASSUME DevicesInv, Devices!prepareSignupStartState
  PROVE  DevicesInv' /\ FaceSteps
<1>1. PICK first \in Devices!Fresh(env), second \in Devices!Fresh(env) :
        LET held == Devices!ensureDevice(face, first)
            replaced == env.version = 0 /\ held["AppVersion"] # [os |-> "any", n |-> 27]
            own == IF replaced THEN second ELSE held
            d  == IF signup # Devices!Blank THEN [own EXCEPT !["TransactionID"] = signup]
                  ELSE own
        IN /\ Devices!Count(Devices!Makes(face) \/ replaced)
           /\ face' = d
           /\ signup' = d["TransactionID"]
           /\ Devices!Sends("signup", d)
           /\ whole' = IF replaced THEN ~Devices!deviceNeedsBackfill(d)
                       ELSE Devices!Whole(face, d)
           /\ UNCHANGED <<env, kept>>
  BY DEF Devices!prepareSignupStartState
<1> DEFINE held == Devices!ensureDevice(face, first)
           replaced == env.version = 0 /\ held["AppVersion"] # [os |-> "any", n |-> 27]
           own == IF replaced THEN second ELSE held
           d  == IF signup # Devices!Blank THEN [own EXCEPT !["TransactionID"] = signup]
                 ELSE own
<1>2. /\ Devices!Count(Devices!Makes(face) \/ replaced)
      /\ face' = d /\ signup' = d["TransactionID"]
      /\ shown' = [what |-> "signup", device |-> d, env |-> env]
      /\ whole' = IF replaced THEN ~Devices!deviceNeedsBackfill(d)
                  ELSE Devices!Whole(face, d)
      /\ UNCHANGED <<env, kept>>
  BY <1>1 DEF Devices!Sends
<1>3. /\ env \in Environments /\ env \in Devices!Environment
      /\ drawn \in 0..MaxMade /\ MaxMade \in Nat /\ whole \in BOOLEAN
  BY EnvironmentsAre, PartConstants DEF DevicesInv, Devices!TypeOK,
     Devices!DeviceIdentityConstants
<1>4. /\ drawn' \in 0..MaxMade
      /\ Devices!Makes(face) => NewDevice(first, env)
      /\ replaced => NewDevice(second, env)
  BY <1>2, <1>3, FreshIs DEF Devices!Count
<1>5. Ensured(face, first, env, held)
  BY <1>4, DeviceEnsured DEF DevicesInv
<1> HIDE DEF held
<1>6. /\ OldDevice(own) /\ Shows(own, env)
      /\ env.version = 0 => own["AppVersion"].n = 27
  <2>1. CASE replaced
    BY <1>4, <2>1, NewIsFaced DEF NewDevice, Devices!DefaultVersion
  <2>2. CASE ~replaced
    BY <1>5, <2>2 DEF Ensured
  <2> QED
    BY <2>1, <2>2
<1>7. /\ replaced => Faced(own, ~Devices!deviceNeedsBackfill(own))
      /\ ~replaced => Faced(own, IF face = Devices!NoDevice
                                 THEN ~Devices!deviceNeedsBackfill(own) ELSE whole)
  <2>1. CASE replaced
    BY <1>4, <2>1, NewIsFaced
  <2>2. CASE ~replaced
    BY <1>4, <1>5, <2>2, EnsuredIsFaced DEF DevicesInv
  <2> QED
    BY <2>1, <2>2
<1>8. whole /\ face # Devices!NoDevice => held = face
  BY <1>5 DEF Ensured, DevicesInv, Faced, Devices!Makes
<1>9. whole /\ face # Devices!NoDevice /\ ~(env.version = 0 /\ face["AppVersion"].n # 27)
        => own = face
  <2>1. SUFFICES ASSUME whole, face # Devices!NoDevice,
                        ~(env.version = 0 /\ face["AppVersion"].n # 27)
                 PROVE  ~replaced
    BY <1>8
  <2>2. face["AppVersion"] \in {Devices!Blank} \cup [os : {"any"}, n : Devices!Version]
    BY DEF DevicesInv, OldDevice, Plainly
  <2>3. Devices!Blank.n = 0
    BY DEF Devices!Blank
  <2>4. face["AppVersion"].n = 27 => face["AppVersion"] = [os |-> "any", n |-> 27]
    BY <2>2, <2>3
  <2> QED
    BY <1>8, <2>1, <2>4
<1> HIDE DEF own
<1>10. /\ OldDevice(d) /\ Shows(d, env) /\ d \in Devices!Device
       /\ env.version = 0 => d["AppVersion"].n = Devices!DefaultVersion
       /\ \A f \in Devices!Field \ {"TransactionID"} : d[f] = own[f]
       /\ signup # Devices!Blank => d["TransactionID"] = signup
       /\ Devices!Consistent(own) => Devices!Consistent(d)
       /\ Devices!deviceNeedsBackfill(d) <=> Devices!deviceNeedsBackfill(own)
  <2>1. CASE signup = Devices!Blank
    BY <1>6, <2>1 DEF OldDevice, Devices!DefaultVersion
  <2>2. CASE signup # Devices!Blank
    <3>1. /\ own \in Devices!Device /\ Plainly(own)
          /\ signup \in Devices!Value /\ signup.os \notin Devices!Platforms
      BY <1>6 DEF OldDevice, DevicesInv, Devices!TypeOK
    <3> DEFINE r == [own EXCEPT !["TransactionID"] = signup]
    <3>2. /\ r \in Devices!Device /\ r["TransactionID"] = signup
          /\ \A f \in Devices!Field \ {"TransactionID"} : r[f] = own[f]
          /\ Plainly(r) /\ Shows(r, env)
          /\ Devices!Consistent(own) => Devices!Consistent(r)
          /\ Devices!deviceNeedsBackfill(r) <=> Devices!deviceNeedsBackfill(own)
      BY <1>6, <2>2, <3>1, Retold
    <3> HIDE DEF r
    <3>3. OldDevice(r)
      BY <3>2, ShownIsOld
    <3>4. r["AppVersion"] = own["AppVersion"]
      BY <3>2 DEF Devices!Field
    <3>5. d = r
      BY <2>2 DEF r
    <3> HIDE DEF d
    <3> QED
      BY <1>6, <3>2, <3>3, <3>4, <3>5 DEF Devices!DefaultVersion
  <2> QED
    BY <2>1, <2>2
<1> HIDE DEF d
<1>11. own # Devices!NoDevice
  <2>1. own["AppID"] # Devices!Blank /\ Devices!NoDevice["AppID"] = Devices!Blank
    BY <1>6 DEF Shows, Devices!Field, Devices!NoDevice
  <2> QED
    BY <2>1
<1>12. Faced(face', whole') /\ whole' \in BOOLEAN
  <2>1. CASE replaced
    <3>1. whole' = ~Devices!deviceNeedsBackfill(d)
      BY <1>2, <2>1
    <3>2. whole' \in BOOLEAN
      BY <3>1 DEF Devices!deviceNeedsBackfill
    <3> QED
      BY <1>2, <1>6, <1>7, <1>10, <1>11, <2>1, <3>1, <3>2 DEF Faced
  <2>2. CASE ~replaced
    <3>1. whole' = IF face = Devices!NoDevice THEN ~Devices!deviceNeedsBackfill(d) ELSE whole
      BY <1>2, <2>2 DEF Devices!Whole
    <3>2. whole' \in BOOLEAN
      BY <1>3, <3>1 DEF Devices!deviceNeedsBackfill
    <3> QED
      BY <1>2, <1>6, <1>7, <1>10, <1>11, <2>2, <3>1, <3>2 DEF Faced
  <2> QED
    BY <2>1, <2>2
<1>13. d["TransactionID"] \in Devices!Value /\ d["TransactionID"] # Devices!Blank
  <2>1. "TransactionID" \in Devices!Field \ {"GMSVersion", "DeviceToken"}
    BY DEF Devices!Field
  <2> QED
    BY <1>10, <2>1 DEF Shows, Devices!Device
<1>14. Devices!TypeOK'
  BY <1>2, <1>3, <1>4, <1>10, <1>12, <1>13 DEF DevicesInv, Devices!TypeOK
<1>15. Devices!NothingLacking' /\ Devices!SignupVersion'
  BY <1>2, <1>10, SentShows
<1>16. (signup.os \notin Devices!Platforms)' /\ OldDevice(face)' /\ OldDevice(kept)'
  BY <1>2, <1>10 DEF OldDevice, Plainly, DevicesInv
<1>17. FaceSteps
  <2>1. Devices!OneFace
    BY <1>2, <1>9, <1>10 DEF Devices!OneFace
  <2>2. Devices!OneTransaction
    BY <1>2, <1>10 DEF Devices!OneTransaction
  <2> QED
    BY <2>1, <2>2 DEF FaceSteps
<1> QED
  BY <1>12, <1>14, <1>15, <1>16, <1>17 DEF DevicesInv

LEMMA DevicesNext ==
  ASSUME DevicesInv, Devices!Next
  PROVE  DevicesInv' /\ FaceSteps
BY RestartKeeps, ActionKeeps, GenerateKeeps, RandomKeeps, ProbeKeeps, SignupKeeps
   DEF Devices!Next

LEMMA DevicesStutter ==
  ASSUME DevicesInv, UNCHANGED deviceVars
  PROVE  DevicesInv'
<1>1. UNCHANGED <<env, face, kept, signup, drawn, shown, whole>>
  BY DEF deviceVars
<1> QED
  BY <1>1 DEF DevicesInv, Devices!TypeOK, Devices!NothingLacking, Devices!SignupVersion

-----------------------------------------------------------------------------
(* Requests (GoPayRequests).                                               *)

\* What the headers of f and g, and a single header, are.
LEMMA Merged ==
  ASSUME NEW f, NEW g
  PROVE  DOMAIN Requests!Over(f, g) = DOMAIN f \cup DOMAIN g
BY DEF Requests!Over

LEMMA MergedFirst ==
  ASSUME NEW f, NEW g, NEW n \in DOMAIN f
  PROVE  Requests!Over(f, g)[n] = f[n]
BY DEF Requests!Over

LEMMA MergedSecond ==
  ASSUME NEW f, NEW g, NEW n \in DOMAIN g \ DOMAIN f
  PROVE  Requests!Over(f, g)[n] = g[n]
BY DEF Requests!Over

LEMMA Single ==
  ASSUME NEW n, NEW v
  PROVE  DOMAIN Requests!One(n, v) = {n} /\ Requests!One(n, v)[n] = v
BY DEF Requests!One

LEMMA Nothing == DOMAIN Requests!Plain = {}
BY DEF Requests!Plain

\* What a client sets may name: none of what the signature speaks of but the
\* device, and no authorization but a blank one.
Policed(h, d) ==
  /\ \A n \in Requests!Identity : n \in DOMAIN h /\ h[n] = d
  /\ "Host" \notin DOMAIN h /\ "X-E3" \notin DOMAIN h
  /\ "Authorization" \in DOMAIN h => h["Authorization"] = ""

LEMMA ShownIsPoliced ==
  ASSUME NEW names, NEW constants, NEW d, NEW hasBody \in BOOLEAN,
         Requests!Identity \subseteq names,
         (names \cup constants) \cap {"Host", "X-E3", "Authorization"} = {}
  PROVE  Policed(Requests!Shown(names, constants, d, hasBody), d)
<1> DEFINE f == [n \in names |-> d]
           g == [n \in constants \cup Requests!Constant
                   \cup (IF hasBody THEN {"Content-Type"} ELSE {}) |-> "app"]
<1>1. Requests!Shown(names, constants, d, hasBody) = Requests!Over(f, g)
  BY DEF Requests!Shown
<1>2. DOMAIN f = names /\ \A n \in names : f[n] = d
  OBVIOUS
<1>3. DOMAIN g = constants \cup Requests!Constant
                   \cup (IF hasBody THEN {"Content-Type"} ELSE {})
  OBVIOUS
<1> HIDE DEF f, g
<1>4. DOMAIN g \cap {"Host", "X-E3", "Authorization"} = {}
  <2>1. constants \cap {"Host", "X-E3", "Authorization"} = {}
    OBVIOUS
  <2>2. Requests!Constant \cap {"Host", "X-E3", "Authorization"} = {}
    BY DEF Requests!Constant
  <2>3. (IF hasBody THEN {"Content-Type"} ELSE {}) \cap {"Host", "X-E3", "Authorization"} = {}
    OBVIOUS
  <2> QED
    BY <1>3, <2>1, <2>2, <2>3
<1>5. ASSUME NEW n \in Requests!Identity
      PROVE  n \in DOMAIN Requests!Over(f, g) /\ Requests!Over(f, g)[n] = d
  <2>1. n \in DOMAIN f /\ f[n] = d
    BY <1>2
  <2> QED
    BY <2>1, Merged, MergedFirst
<1>6. DOMAIN Requests!Over(f, g) = names \cup DOMAIN g
  BY <1>2, Merged
<1>7. DOMAIN Requests!Over(f, g) \cap {"Host", "X-E3", "Authorization"} = {}
  BY <1>4, <1>6
<1> QED
  BY <1>1, <1>5, <1>7 DEF Policed

\* More headers of the client's, ahead of those.
LEMMA MoreIsPoliced ==
  ASSUME NEW f, NEW h, NEW d, Policed(h, d),
         DOMAIN f \cap (Requests!Identity \cup {"Host", "X-E3"}) = {},
         "Authorization" \in DOMAIN f => f["Authorization"] = ""
  PROVE  Policed(Requests!Over(f, h), d)
<1>1. ASSUME NEW n \in Requests!Identity
      PROVE  n \in DOMAIN Requests!Over(f, h) /\ Requests!Over(f, h)[n] = d
  <2>1. n \in DOMAIN h /\ h[n] = d
    BY DEF Policed
  <2>2. n \in DOMAIN h \ DOMAIN f
    BY <2>1
  <2>3. /\ DOMAIN Requests!Over(f, h) = DOMAIN f \cup DOMAIN h
        /\ Requests!Over(f, h)[n] = h[n]
    <3>1. DOMAIN Requests!Over(f, h) = DOMAIN f \cup DOMAIN h
      BY Merged
    <3>2. Requests!Over(f, h)[n] = h[n]
      BY <2>2 DEF Requests!Over
    <3> QED
      BY <3>1, <3>2
  <2> QED
    BY <2>1, <2>3
<1>2. /\ "Host" \notin DOMAIN Requests!Over(f, h)
      /\ "X-E3" \notin DOMAIN Requests!Over(f, h)
  <2>1. DOMAIN Requests!Over(f, h) = DOMAIN f \cup DOMAIN h
    BY Merged
  <2>2. "Host" \notin DOMAIN h /\ "X-E3" \notin DOMAIN h
    BY DEF Policed
  <2>3. "Host" \notin DOMAIN f /\ "X-E3" \notin DOMAIN f
    OBVIOUS
  <2> QED
    BY <2>1, <2>2, <2>3
<1>3. "Authorization" \in DOMAIN Requests!Over(f, h)
        => Requests!Over(f, h)["Authorization"] = ""
  <2>1. "Authorization" \in DOMAIN h => h["Authorization"] = ""
    BY DEF Policed
  <2>2. CASE "Authorization" \in DOMAIN f
    <3>1. Requests!Over(f, h)["Authorization"] = f["Authorization"]
      BY <2>2, MergedFirst
    <3> QED
      BY <2>2, <3>1
  <2>3. CASE "Authorization" \notin DOMAIN f
    <3>1. DOMAIN Requests!Over(f, h) = DOMAIN f \cup DOMAIN h
      BY Merged
    <3>2. "Authorization" \in DOMAIN h \ DOMAIN f
            => Requests!Over(f, h)["Authorization"] = h["Authorization"]
      BY MergedSecond
    <3> QED
      BY <2>1, <2>3, <3>1, <3>2
  <2> QED
    BY <2>2, <2>3
<1> QED
  BY <1>1, <1>2, <1>3 DEF Policed

LEMMA AppIsPoliced ==
  ASSUME NEW d, NEW hasBody \in BOOLEAN
  PROVE  /\ Policed(Requests!appHeaders(d, hasBody), d)
         /\ Policed(Requests!gotoAuthHeaders(d, hasBody), d)
         /\ Policed(Requests!supportCustomerHeaders(d, hasBody), d)
         /\ Policed(Requests!defaultSignedHeaders(d, hasBody), d)
<1>0. Requests!Identity \cap {"Host", "X-E3", "Authorization"} = {}
  BY DEF Requests!Identity
<1>1. Policed(Requests!appHeaders(d, hasBody), d)
  BY <1>0, ShownIsPoliced DEF Requests!appHeaders
<1>2. Policed(Requests!gotoAuthHeaders(d, hasBody), d)
  BY <1>0, ShownIsPoliced DEF Requests!gotoAuthHeaders
<1>3. Policed(Requests!supportCustomerHeaders(d, hasBody), d)
  BY <1>0, ShownIsPoliced DEF Requests!supportCustomerHeaders
<1>4. Policed(Requests!defaultSignedHeaders(d, hasBody), d)
  BY <1>0, ShownIsPoliced DEF Requests!defaultSignedHeaders
<1> QED
  BY <1>1, <1>2, <1>3, <1>4

LEMMA PolicyIsPoliced ==
  ASSUME NEW c, c.client \in {"auth", "customer", "gojek"}, NEW d
  PROVE  Policed(Requests!Policy(c, d), d)
<1>0. (c.body # "") \in BOOLEAN
  OBVIOUS
<1>1. CASE c.client = "auth"
  <2> DEFINE g == Requests!gotoAuthHeaders(d, c.body # "")
             key == IF c.path = "/cvs/v1/initiate" /\ c.body = "signup"
                      THEN Requests!One("Key", "value") ELSE Requests!Plain
             blank == IF c.path \in Requests!CVS THEN Requests!Blank ELSE Requests!Plain
  <2>1. Policed(g, d)
    BY <1>0, AppIsPoliced
  <2>2. Policed(Requests!Over(key, g), d)
    <3>1. DOMAIN key \subseteq {"Key"}
      BY Single, Nothing
    <3> QED
      BY <2>1, <3>1, MoreIsPoliced DEF Requests!Identity
  <2>3. Policed(Requests!Over(blank, Requests!Over(key, g)), d)
    <3>1. /\ DOMAIN blank \subseteq {"Authorization"}
          /\ "Authorization" \in DOMAIN blank => blank["Authorization"] = ""
      BY Single, Nothing DEF Requests!Blank
    <3> QED
      BY <2>2, <3>1, MoreIsPoliced DEF Requests!Identity
  <2> QED
    BY <1>1, <2>3 DEF Requests!Policy, Requests!authHeaderPolicy
<1>2. CASE c.client = "customer"
  <2> DEFINE h == CASE c.path = "/v1/support/customer/initiate" ->
                         Requests!supportCustomerHeaders(d, c.body # "")
                    [] c.path \in Requests!CustomerAppPaths ->
                         Requests!appHeaders(d, c.body # "")
                    [] OTHER -> Requests!defaultSignedHeaders(d, c.body # "")
             f == [n \in {"Sdk-Version", "X-Biometric", "X-Verification"} |->
                     CASE n = "Sdk-Version" -> d [] n = "X-Biometric" -> "" [] OTHER -> "PIN"]
  <2>1. Policed(h, d)
    BY <1>0, AppIsPoliced DEF Requests!CustomerAppPaths
  <2>2. Policed(Requests!Over(f, h), d)
    <3>1. DOMAIN f = {"Sdk-Version", "X-Biometric", "X-Verification"}
      OBVIOUS
    <3> HIDE DEF f, h
    <3> QED
      BY <2>1, <3>1, MoreIsPoliced DEF Requests!Identity
  <2> QED
    BY <1>2, <2>1, <2>2 DEF Requests!Policy, Requests!customerHeaderPolicy
<1>3. CASE c.client = "gojek"
  BY <1>0, <1>3, AppIsPoliced DEF Requests!Policy, Requests!gojekHeaderPolicy
<1> QED
  BY <1>1, <1>2, <1>3

\* What a caller adds, ahead of everything: who calls for an account leaves the
\* authorization to the session.
Added(as, e) ==
  /\ DOMAIN e \subseteq {"Authorization", "Verification-Token", "Is-Token-Required", "pin"}
  /\ "Authorization" \in DOMAIN e => as = "nobody" /\ e["Authorization"] \in {"", "basic"}

Called(c) == /\ c.client \in {"auth", "customer", "gojek"}
             /\ c.as \in {"nobody", "account", "refresh"}
             /\ Added(c.as, c.extra)

LEMMA NothingAdded ==
  ASSUME NEW as
  PROVE  Added(as, Requests!Plain)
BY Nothing DEF Added

LEMMA OneAdded ==
  ASSUME NEW as, NEW n \in {"Verification-Token", "Is-Token-Required", "pin"}, NEW v
  PROVE  Added(as, Requests!One(n, v))
<1>1. DOMAIN Requests!One(n, v) = {n}
  BY Single
<1> QED
  BY <1>1 DEF Added

LEMMA AuthorizationAdded ==
  ASSUME NEW v \in {"", "basic"}
  PROVE  Added("nobody", Requests!One("Authorization", v))
<1>1. /\ DOMAIN Requests!One("Authorization", v) = {"Authorization"}
      /\ Requests!One("Authorization", v)["Authorization"] = v
  BY Single
<1> QED
  BY <1>1 DEF Added

LEMMA BothAdded ==
  ASSUME NEW as, NEW e, NEW f, Added(as, e), Added(as, f)
  PROVE  Added(as, Requests!Over(e, f))
<1>1. DOMAIN Requests!Over(e, f) = DOMAIN e \cup DOMAIN f
  BY Merged
<1>2. CASE "Authorization" \in DOMAIN e
  <2>1. Requests!Over(e, f)["Authorization"] = e["Authorization"]
    BY <1>2, MergedFirst
  <2> QED
    BY <1>1, <1>2, <2>1 DEF Added
<1>3. CASE "Authorization" \notin DOMAIN e
  <2>1. "Authorization" \in DOMAIN f \ DOMAIN e
          => Requests!Over(e, f)["Authorization"] = f["Authorization"]
    BY MergedSecond
  <2> QED
    BY <1>1, <1>3, <2>1 DEF Added
<1> QED
  BY <1>2, <1>3

\* A call so made is one, with another body or address too.
LEMMA CallIsCalled ==
  ASSUME NEW as \in {"nobody", "account", "refresh"},
         NEW client \in {"auth", "customer", "gojek"}, NEW method, NEW path, NEW e,
         Added(as, e)
  PROVE  Called(Requests!Call(as, client, method, path, e))
BY DEF Requests!Call, Called

LEMMA OtherIsCalled ==
  ASSUME NEW as \in {"nobody", "account", "refresh"},
         NEW client \in {"auth", "customer", "gojek"}, NEW method, NEW path, NEW e,
         Added(as, e)
  PROVE  /\ Called([Requests!Call(as, client, method, path, e) EXCEPT !.body = "signup"])
         /\ \A h : Called([Requests!Call(as, client, method, path, e)
                             EXCEPT !.at = h, !.body = ""])
BY DEF Requests!Call, Called

LEMMA CallsAreCalled ==
  ASSUME NEW c \in Requests!Calls
  PROVE  Called(c)
<1>1. Added("nobody", Requests!Blank)
  BY AuthorizationAdded DEF Requests!Blank
<1>2. \A as : Added(as, Requests!Plain) /\ Added(as, Requests!Verified)
  BY NothingAdded, OneAdded DEF Requests!Verified
<1>3. CASE c \in Requests!LoginCalls
  <2>1. CASE \E path : c = Requests!Call("nobody", "auth", "POST", path, Requests!Plain)
    BY <1>1, <1>2, <2>1, CallIsCalled
  <2>2. CASE c \in {Requests!Call("nobody", "auth", "POST", "/cvs/v1/initiate",
                                  Requests!Blank),
                    Requests!Call("nobody", "auth", "POST", "/goto-auth/accountlist",
                                  Requests!Verified),
                    Requests!Call("nobody", "auth", "POST", "/goto-auth/token",
                                  Requests!Verified)}
    BY <1>1, <1>2, <2>2, CallIsCalled
  <2>3. CASE c \in {Requests!Call("nobody", "customer", "GET",
                                  "/api/v2/challenges/id/pin-page/nb", Requests!Plain),
                    Requests!Call("nobody", "customer", "POST",
                                  "/api/v1/users/pin/tokens/nb", Requests!Plain)}
    BY <1>1, <1>2, <2>3, CallIsCalled
  <2> QED
    BY <1>3, <2>1, <2>2, <2>3 DEF Requests!LoginCalls
<1>4. CASE c \in Requests!SignupCalls
  <2> DEFINE basic == Requests!Over(Requests!One("Authorization", "basic"),
                                    Requests!Verified)
  <2>1. Added("nobody", basic)
    BY <1>2, AuthorizationAdded, BothAdded
  <2> HIDE DEF basic
  <2>2. CASE c = [Requests!Call("nobody", "auth", "POST", "/cvs/v1/initiate",
                                Requests!Plain) EXCEPT !.body = "signup"]
    BY <1>2, <2>2, CallIsCalled, OtherIsCalled
  <2>3. CASE c = Requests!Call("nobody", "gojek", "POST", "/v7/customers/signup", basic)
    BY <2>1, <2>3, CallIsCalled
  <2>4. CASE \/ c = Requests!Call("nobody", "customer", "POST",
                                  "/v1/support/customer/initiate", Requests!Plain)
             \/ c = Requests!Call("nobody", "auth", "POST", "/cvs/v1/methods", Requests!Plain)
             \/ c = Requests!Call("nobody", "auth", "POST", "/cvs/v1/retry", Requests!Plain)
    BY <1>2, <2>4, CallIsCalled
  <2> QED
    BY <1>4, <2>2, <2>3, <2>4 DEF Requests!SignupCalls, basic
<1>5. CASE c \in Requests!PINCalls
  <2> DEFINE e == Requests!Over(Requests!One("Is-Token-Required", "false"),
                                Requests!Verified)
  <2>1. Added("account", e)
    BY <1>2, OneAdded, BothAdded
  <2> HIDE DEF e
  <2>2. CASE \E client \in {"auth", "customer"} : \E path :
               c = Requests!Call("account", client, "POST", path, Requests!Plain)
    BY <1>2, <2>2, CallIsCalled
  <2>3. CASE c = Requests!Call("account", "customer", "POST",
                               "/api/v2/users/pins/setup/tokens", e)
    BY <2>1, <2>3, CallIsCalled
  <2> QED
    BY <1>5, <2>2, <2>3 DEF Requests!PINCalls, e
<1>6. CASE c \in Requests!ChangePhoneCalls
  <2>1. Added("account", Requests!One("pin", "pin"))
    BY OneAdded
  <2>2. CASE \E method, path :
               c = Requests!Call("account", "gojek", method, path, Requests!Plain)
    BY <1>2, <2>2, CallIsCalled
  <2>3. CASE c = Requests!Call("account", "gojek", "PATCH", "/v5/customers",
                               Requests!One("pin", "pin"))
    BY <2>1, <2>3, CallIsCalled
  <2> QED
    BY <1>6, <2>2, <2>3 DEF Requests!ChangePhoneCalls
<1>7. CASE c \in Requests!AccountCalls
  <2>1. PICK as, client, method, path :
          /\ as \in {"account", "refresh"} /\ client \in {"customer", "auth"}
          /\ c = Requests!Call(as, client, method, path, Requests!Plain)
    BY <1>7 DEF Requests!AccountCalls
  <2> QED
    BY <1>2, <2>1, CallIsCalled
<1>8. CASE c \in Requests!UnlinkCalls
  <2>1. PICK path \in {"/v1/links/service", "/another"},
             h \in {"", "customer.gopayapi.com", "another"} :
          c = [Requests!Call("account", "customer", "PATCH", path, Requests!Plain)
                 EXCEPT !.at = h, !.body = ""]
    BY <1>8 DEF Requests!UnlinkCalls
  <2> QED
    BY <1>2, <2>1, CallIsCalled, OtherIsCalled
<1> QED
  BY <1>3, <1>4, <1>5, <1>6, <1>7, <1>8 DEF Requests!Calls

-----------------------------------------------------------------------------
\* A session as its client makes it, and the headers of a call it sends.
Opened(s) ==
  /\ s.as \in {"nobody", "account", "refresh"} /\ s.device \in Fingerprint
  /\ s.token \in AccessToken \cup {NoToken}
  /\ s.as = "nobody" => s.token = NoToken
  /\ s.as = "account" => s.token \in AccessToken

Headed(h, c, s) ==
  /\ \A n \in Requests!Identity : n \in DOMAIN h /\ h[n] = s.device
  /\ "Host" \in DOMAIN h /\ h["Host"] = Requests!RequestHost(c)
  /\ s.token # NoToken => Requests!Get(h, "Authorization") = s.token
  /\ s.token = NoToken => Requests!Get(h, "Authorization") \in {"", "basic"}
  /\ s.token = NoToken /\ s.as # "nobody" => Requests!Get(h, "Authorization") = ""

LEMMA TokenIsNot ==
  ASSUME NEW t \in AccessToken
  PROVE  t # NoToken /\ t # ""
BY PartConstants DEF Requests!AbsentAssumption

LEMMA HeadersAreHeaded ==
  ASSUME NEW c, Called(c), NEW s, Opened(s), s.as = c.as
  PROVE  Headed(Requests!Headers(c, s), c, s) /\ "X-E3" \notin DOMAIN Requests!Headers(c, s)
<1> DEFINE p == Requests!Policy(c, s.device)
           host == Requests!One("Host", Requests!RequestHost(c))
           f == Requests!Over(host, p)
           b == IF s.token # NoToken THEN Requests!One("Authorization", s.token)
                ELSE Requests!Plain
           g == Requests!Over(b, f)
           h == Requests!Over(c.extra, g)
<1>1. Requests!Headers(c, s) = h
  BY DEF Requests!Headers
<1>2. Policed(p, s.device)
  BY PolicyIsPoliced DEF Called
<1>3. DOMAIN host = {"Host"} /\ host["Host"] = Requests!RequestHost(c)
  BY Single
<1>4. /\ DOMAIN b = IF s.token # NoToken THEN {"Authorization"} ELSE {}
      /\ s.token # NoToken => b["Authorization"] = s.token
  BY Single, Nothing
<1> HIDE DEF p, host, b
<1>5. /\ DOMAIN f = {"Host"} \cup DOMAIN p
      /\ f["Host"] = Requests!RequestHost(c)
      /\ \A n \in DOMAIN p \ {"Host"} : f[n] = p[n]
  <2>1. DOMAIN f = DOMAIN host \cup DOMAIN p
    BY Merged
  <2>2. \A n \in DOMAIN host : f[n] = host[n]
    BY MergedFirst
  <2>3. \A n \in DOMAIN p \ DOMAIN host : f[n] = p[n]
    BY MergedSecond
  <2> HIDE DEF f
  <2> QED
    BY <1>3, <2>1, <2>2, <2>3
<1> HIDE DEF f
<1>6. /\ DOMAIN g = DOMAIN b \cup DOMAIN f
      /\ \A n \in DOMAIN b : g[n] = b[n]
      /\ \A n \in DOMAIN f \ DOMAIN b : g[n] = f[n]
  <2>1. DOMAIN g = DOMAIN b \cup DOMAIN f
    BY Merged
  <2>2. \A n \in DOMAIN b : g[n] = b[n]
    BY MergedFirst
  <2>3. \A n \in DOMAIN f \ DOMAIN b : g[n] = f[n]
    BY MergedSecond
  <2> QED
    BY <2>1, <2>2, <2>3
<1> HIDE DEF g
<1>7. /\ DOMAIN h = DOMAIN c.extra \cup DOMAIN g
      /\ \A n \in DOMAIN c.extra : h[n] = c.extra[n]
      /\ \A n \in DOMAIN g \ DOMAIN c.extra : h[n] = g[n]
  <2>1. DOMAIN h = DOMAIN c.extra \cup DOMAIN g
    BY Merged
  <2>2. \A n \in DOMAIN c.extra : h[n] = c.extra[n]
    BY MergedFirst
  <2>3. \A n \in DOMAIN g \ DOMAIN c.extra : h[n] = g[n]
    BY MergedSecond
  <2> QED
    BY <2>1, <2>2, <2>3
<1> HIDE DEF h
<1>8. /\ DOMAIN c.extra \subseteq {"Authorization", "Verification-Token",
                                   "Is-Token-Required", "pin"}
      /\ "Authorization" \in DOMAIN c.extra =>
           c.as = "nobody" /\ c.extra["Authorization"] \in {"", "basic"}
  BY DEF Called, Added
<1>9. ASSUME NEW n \in Requests!Identity
      PROVE  n \in DOMAIN h /\ h[n] = s.device
  <2>1. n \in DOMAIN p /\ p[n] = s.device
    BY <1>2 DEF Policed
  <2>2. n \notin {"Host", "Authorization", "Verification-Token", "Is-Token-Required", "pin"}
    BY DEF Requests!Identity
  <2>3. n \in DOMAIN f \ DOMAIN b /\ f[n] = s.device
    BY <1>4, <1>5, <2>1, <2>2
  <2>4. n \in DOMAIN g \ DOMAIN c.extra /\ g[n] = s.device
    BY <1>6, <1>8, <2>2, <2>3
  <2> QED
    BY <1>7, <2>4
<1>10. "Host" \in DOMAIN h /\ h["Host"] = Requests!RequestHost(c)
  <2>1. "Host" \in DOMAIN f \ DOMAIN b
    BY <1>4, <1>5
  <2>2. "Host" \in DOMAIN g \ DOMAIN c.extra /\ g["Host"] = f["Host"]
    BY <1>6, <1>8, <2>1
  <2> QED
    BY <1>5, <1>7, <2>2
<1>11. "X-E3" \notin DOMAIN h
  <2>1. "X-E3" \notin DOMAIN p
    BY <1>2 DEF Policed
  <2> QED
    <3>1. "X-E3" \notin DOMAIN f
      BY <1>5, <2>1
    <3>2. "X-E3" \notin DOMAIN g
      BY <1>4, <1>6, <3>1
    <3> QED
      BY <1>7, <1>8, <3>2
<1>12. ASSUME s.token # NoToken
       PROVE  Requests!Get(h, "Authorization") = s.token
  <2>1. "Authorization" \notin DOMAIN c.extra
    BY <1>8, <1>12 DEF Opened
  <2>2. "Authorization" \in DOMAIN b /\ b["Authorization"] = s.token
    BY <1>4, <1>12
  <2>3. "Authorization" \in DOMAIN g \ DOMAIN c.extra /\ g["Authorization"] = s.token
    BY <1>6, <2>1, <2>2
  <2> QED
    BY <1>7, <2>3 DEF Requests!Get
<1>13. ASSUME s.token = NoToken
       PROVE  /\ Requests!Get(h, "Authorization") \in {"", "basic"}
              /\ s.as # "nobody" => Requests!Get(h, "Authorization") = ""
  <2>1. CASE "Authorization" \in DOMAIN c.extra
    BY <1>7, <1>8, <2>1 DEF Requests!Get
  <2>2. CASE "Authorization" \notin DOMAIN c.extra /\ "Authorization" \in DOMAIN p
    <3>1. "Authorization" \in DOMAIN f \ DOMAIN b /\ f["Authorization"] = p["Authorization"]
      BY <1>4, <1>5, <1>13, <2>2
    <3>2. "Authorization" \in DOMAIN g \ DOMAIN c.extra
            /\ g["Authorization"] = p["Authorization"]
      BY <1>6, <2>2, <3>1
    <3>3. p["Authorization"] = ""
      BY <1>2, <2>2 DEF Policed
    <3> QED
      BY <1>7, <3>2, <3>3 DEF Requests!Get
  <2>3. CASE "Authorization" \notin DOMAIN c.extra /\ "Authorization" \notin DOMAIN p
    <3>1. "Authorization" \notin DOMAIN h
      BY <1>4, <1>5, <1>6, <1>7, <1>13, <2>3
    <3> QED
      BY <3>1 DEF Requests!Get
  <2> QED
    BY <2>1, <2>2, <2>3
<1> QED
  BY <1>1, <1>9, <1>10, <1>11, <1>12, <1>13 DEF Headed

\* The digest of the body is one header more.
LEMMA DigestIsHeaded ==
  ASSUME NEW c, NEW s, NEW h, Headed(h, c, s), NEW e, DOMAIN e \subseteq {"X-E3"}
  PROVE  /\ Headed(Requests!Over(e, h), c, s)
         /\ Requests!Get(Requests!Over(e, h), "Authorization")
              = Requests!Get(h, "Authorization")
<1> DEFINE g == Requests!Over(e, h)
<1>1. DOMAIN g = DOMAIN e \cup DOMAIN h /\ \A n \in DOMAIN h \ DOMAIN e : g[n] = h[n]
  BY Merged, MergedSecond
<1> HIDE DEF g
<1>2. \A n \in Requests!Identity : n \in DOMAIN g /\ g[n] = s.device
  <2>1. "X-E3" \notin Requests!Identity
    BY DEF Requests!Identity
  <2> QED
    BY <1>1, <2>1 DEF Headed
<1>3. "Host" \in DOMAIN g /\ g["Host"] = h["Host"]
  BY <1>1 DEF Headed
<1>4. Requests!Get(g, "Authorization") = Requests!Get(h, "Authorization")
  BY <1>1 DEF Requests!Get
<1>5. Headed(g, c, s)
  BY <1>2, <1>3, <1>4 DEF Headed
<1> QED
  BY <1>4, <1>5 DEF g

-----------------------------------------------------------------------------
\* What is sent is the request of a call in such a session, to its client's host.
Made(r) == \E c \in Requests!Calls : \E s :
             /\ Opened(s) /\ s.as = c.as /\ Requests!Endpoint(c)
             /\ r = Requests!Request(c, s)

RequestsInv == /\ Requests!TypeOK
               /\ session # NoSession => Opened(session)
               /\ sent # NoRequest => Made(sent)

Signs(m, c, t, d) ==
  /\ m.token = t /\ m.method = c.method /\ m.body = c.body
  /\ m.url = <<Requests!RequestHost(c), c.path>>
  /\ DOMAIN m.device \subseteq Requests!Identity
  /\ \A n \in DOMAIN m.device : m.device[n] = d
  /\ m.captured \in {FALSE, template}
  /\ Requests!SignVersion(c) # "v2" => m.captured = FALSE

LEMMA SignedFields ==
  ASSUME NEW c, NEW t, NEW d
  PROVE  Signs(Requests!Sign(c, t, d), c, t, d)
<1>1. ASSUME NEW fields \in SUBSET Requests!Identity
      PROVE  LET m == Requests!Message(c, t, d, fields) IN
             /\ m.token = t /\ m.method = c.method /\ m.body = c.body
             /\ m.url = <<Requests!RequestHost(c), c.path>>
             /\ DOMAIN m.device = fields /\ \A n \in fields : m.device[n] = d
             /\ m.captured = FALSE
  BY DEF Requests!Message
<1>2. CASE Requests!SignVersion(c) # "v2"
  <2> DEFINE fields == {"X-AppType", "X-PhoneModel", "X-UniqueId", "X-DeviceOS",
                        "X-AppVersion", "X-M1", "X-AppId", "X-PhoneMake", "X-Platform"}
  <2>1. fields \in SUBSET Requests!Identity
    BY DEF Requests!Identity
  <2>2. Requests!Sign(c, t, d) = Requests!Message(c, t, d, fields)
    BY <1>2 DEF Requests!Sign, Requests!signLegacy
  <2> HIDE DEF fields
  <2> QED
    BY <1>1, <1>2, <2>1, <2>2 DEF Signs
<1>3. CASE Requests!SignVersion(c) = "v2"
  <2> DEFINE fields == {"X-PhoneModel", "X-M1", "X-AppVersion", "X-UniqueId", "X-DeviceOS",
                        "X-AppId"}
             m == Requests!Message(c, t, d, fields)
  <2>1. fields \in SUBSET Requests!Identity
    BY DEF Requests!Identity
  <2>2. Requests!Sign(c, t, d) = [m EXCEPT !.captured = template]
    BY <1>3 DEF Requests!Sign, Requests!signV2
  <2>3. DOMAIN m = {"token", "url", "method", "body", "device", "captured"}
    BY DEF Requests!Message
  <2>4. /\ m.token = t /\ m.method = c.method /\ m.body = c.body
        /\ m.url = <<Requests!RequestHost(c), c.path>>
        /\ DOMAIN m.device = fields /\ \A n \in fields : m.device[n] = d
    BY <1>1, <2>1
  <2> HIDE DEF m, fields
  <2> DEFINE w == [m EXCEPT !.captured = template]
  <2>5. /\ w.token = m.token /\ w.method = m.method /\ w.body = m.body
        /\ w.url = m.url /\ w.device = m.device /\ w.captured = template
    BY <2>3
  <2> QED
    BY <1>3, <2>1, <2>2, <2>4, <2>5 DEF Signs
<1> QED
  BY <1>2, <1>3

\* A request so made is signed as it is sent, and carries the right authorization.
LEMMA MadeIsRight ==
  ASSUME sent # NoRequest, Made(sent)
  PROVE  Requests!SignedIsSent /\ Requests!RightAuthorization
<1>1. PICK c, s :
        /\ c \in Requests!Calls
        /\ Opened(s) /\ s.as = c.as /\ Requests!Endpoint(c)
        /\ sent = Requests!Request(c, s)
  BY DEF Made
<1> DEFINE k == Requests!Headers(c, s)
           e == IF Requests!ShowsDigest(c) THEN Requests!One("X-E3", c.body)
                ELSE Requests!Plain
           h == Requests!Over(e, k)
           t == Requests!SignToken(k, s)
           m == Requests!Sign(c, t, s.device)
<1>2. /\ sent.call = c /\ sent.session = s /\ sent.headers = h /\ sent.signature = m
      /\ sent.version = Requests!SignVersion(c)
  BY <1>1 DEF Requests!Request
<1>3. Called(c)
  BY <1>1, CallsAreCalled
<1>4. Headed(k, c, s) /\ "X-E3" \notin DOMAIN k
  BY <1>1, <1>3, HeadersAreHeaded
<1>5. /\ DOMAIN e \subseteq {"X-E3"}
      /\ "X-E3" \in DOMAIN e => Requests!ShowsDigest(c) /\ e["X-E3"] = c.body
  BY Single, Nothing
<1> HIDE DEF k, e, m, t
<1>6. /\ Headed(h, c, s)
      /\ Requests!Get(h, "Authorization") = Requests!Get(k, "Authorization")
  BY <1>4, <1>5, DigestIsHeaded
<1>7. "X-E3" \in DOMAIN h => Requests!ShowsDigest(c) /\ h["X-E3"] = c.body
  <2>1. DOMAIN h = DOMAIN e \cup DOMAIN k
    BY Merged
  <2>2. "X-E3" \in DOMAIN e => h["X-E3"] = e["X-E3"]
    BY MergedFirst
  <2> QED
    BY <1>4, <1>5, <2>1, <2>2
<1> DEFINE a == Requests!Get(h, "Authorization")
<1>8. /\ s.token # NoToken => a = s.token
      /\ s.token = NoToken => a \in {"", "basic"}
      /\ s.token = NoToken /\ s.as # "nobody" => a = ""
  BY <1>6 DEF Headed
<1>9. t = IF a = "" THEN s.token ELSE a
  BY <1>6 DEF Requests!SignToken, Requests!Get, t
<1> HIDE DEF a, h
<1>10. s.token # NoToken => s.token # "" /\ s.token \in AccessToken
  BY <1>1, TokenIsNot DEF Opened
<1>11. t = Requests!Bare(a)
  BY <1>8, <1>9, <1>10 DEF Requests!Bare
<1>12. Signs(m, c, t, s.device)
  BY SignedFields DEF m
<1>13. Requests!SignedIsSent
  <2>1. m.token = Requests!Bare(a)
    BY <1>11, <1>12 DEF Signs
  <2>2. m.captured => Requests!SignVersion(c) = "v2" /\ "X-E3" \notin DOMAIN h
    BY <1>7, <1>12 DEF Signs, Requests!ShowsDigest
  <2>3. m.url = <<h["Host"], c.path>> /\ m.method = c.method
    BY <1>6, <1>12 DEF Signs, Headed
  <2>4. "X-E3" \in DOMAIN h => h["X-E3"] = m.body
    BY <1>7, <1>12 DEF Signs
  <2>5. \A n \in DOMAIN m.device : n \in DOMAIN h /\ h[n] = m.device[n]
    BY <1>6, <1>12 DEF Signs, Headed
  <2> QED
    BY <1>2, <2>1, <2>2, <2>3, <2>4, <2>5 DEF Requests!SignedIsSent, a
<1>14. Requests!RightAuthorization
  <2>1. c.as = "account" => a = s.token /\ a \in AccessToken
    BY <1>1, <1>8, TokenIsNot DEF Opened
  <2>2. c.as = "refresh" => a \in {s.token, ""}
    BY <1>1, <1>8
  <2>3. c.as = "nobody" => a \in {"", "basic"}
    BY <1>1, <1>8 DEF Opened
  <2>4. h["Host"] = Requests!Host(c.client)
    BY <1>1, <1>6 DEF Headed, Requests!RequestHost, Requests!Endpoint
  <2> QED
    BY <1>2, <2>1, <2>2, <2>3, <2>4 DEF Requests!RightAuthorization, a
<1> QED
  BY <1>13, <1>14

LEMMA RequestsInit ==
  ASSUME Requests!Init
  PROVE  RequestsInv
BY DEF Requests!Init, RequestsInv, Requests!TypeOK

\* The settings of signatures are those of the start.
LEMMA MadeStays ==
  ASSUME sent # NoRequest => Made(sent), UNCHANGED <<signVersion, template, sent>>
  PROVE  (sent # NoRequest => Made(sent))'
BY DEF Made, Requests!Request, Requests!Headers, Requests!ShowsDigest, Requests!SignVersion,
       Requests!Sign, Requests!signV2

LEMMA RequestsNext ==
  ASSUME RequestsInv, Requests!Next \/ UNCHANGED requestVars
  PROVE  RequestsInv'
<1>1. ASSUME NEW as \in {"nobody", "account", "refresh"}, Requests!NewClient(as)
      PROVE  RequestsInv'
  <2> DEFINE s == [as |-> as, device |-> fingerprint,
                   token |-> IF as = "nobody" THEN NoToken ELSE bearer]
  <2>1. /\ as = "account" => bearer # NoToken
        /\ session' = s /\ UNCHANGED <<signVersion, template, bearer, fingerprint, sent>>
    BY <1>1 DEF Requests!NewClient
  <2>2. bearer \in AccessToken \cup {NoToken} /\ fingerprint \in Fingerprint
    BY DEF RequestsInv, Requests!TypeOK
  <2>3. Opened(s)
    BY <2>1, <2>2 DEF Opened
  <2>4. (sent # NoRequest => Made(sent))'
    BY <2>1, MadeStays DEF RequestsInv
  <2>5. Requests!TypeOK'
    BY <2>1, <2>3 DEF RequestsInv, Requests!TypeOK, Opened
  <2> QED
    BY <2>1, <2>3, <2>4, <2>5 DEF RequestsInv
<1>2. ASSUME Requests!Restate
      PROVE  RequestsInv'
  <2>1. /\ bearer' \in AccessToken \cup {NoToken} /\ fingerprint' \in Fingerprint
        /\ UNCHANGED <<signVersion, template, session, sent>>
    BY <1>2 DEF Requests!Restate
  <2>2. (sent # NoRequest => Made(sent))'
    BY <2>1, MadeStays DEF RequestsInv
  <2> QED
    BY <2>1, <2>2 DEF RequestsInv, Requests!TypeOK, Opened
<1>3. ASSUME NEW c \in Requests!Calls, Requests!Send(c)
      PROVE  RequestsInv'
  <2>1. /\ session # NoSession /\ session.as = c.as /\ Requests!Endpoint(c)
        /\ sent' = Requests!Request(c, session)
        /\ UNCHANGED <<signVersion, template, bearer, fingerprint, session>>
    BY <1>3 DEF Requests!Send
  <2>2. Opened(session)
    BY <2>1 DEF RequestsInv
  <2>3. Requests!Request(c, session) = (Requests!Request(c, session))'
    BY <2>1 DEF Requests!Request, Requests!Headers, Requests!ShowsDigest,
                Requests!SignVersion, Requests!Sign, Requests!signV2
  <2>4. Made(sent)'
    BY <2>1, <2>2, <2>3 DEF Made
  <2> QED
    BY <2>1, <2>4 DEF RequestsInv, Requests!TypeOK, Opened
<1>4. ASSUME UNCHANGED requestVars
      PROVE  RequestsInv'
  <2>1. UNCHANGED <<signVersion, template, bearer, fingerprint, session, sent>>
    BY <1>4 DEF requestVars
  <2>2. (sent # NoRequest => Made(sent))'
    BY <2>1, MadeStays DEF RequestsInv
  <2> QED
    BY <2>1, <2>2 DEF RequestsInv, Requests!TypeOK, Opened
<1> QED
  BY <1>1, <1>2, <1>3, <1>4 DEF Requests!Next

LEMMA RequestsInvHolds ==
  ASSUME RequestsInv
  PROVE  Requests!TypeOK /\ Requests!SignedIsSent /\ Requests!RightAuthorization
<1>1. CASE sent = NoRequest
  BY <1>1 DEF RequestsInv, Requests!SignedIsSent, Requests!RightAuthorization
<1>2. CASE sent # NoRequest
  BY <1>2, MadeIsRight DEF RequestsInv
<1> QED
  BY <1>1, <1>2 DEF RequestsInv

-----------------------------------------------------------------------------
(* The parts side by side.                                                 *)

\* The part that runs keeps its invariant, and the others do nothing.
PartInv ==
  /\ part = "ephemeral" => Ephemeral!LeaseInv
  /\ part = "in turn" => InTurn!LeaseInv /\ InTurn!TurnInv
  /\ part = "at once" => AtOnce!LeaseInv
  /\ part = "devices" => DevicesInv
  /\ part = "requests" => RequestsInv

partVars == <<part, leaseVars, vars, deviceVars, requestVars>>

LEMMA PartsBegin == PartInit => PartInv
<1> SUFFICES ASSUME PartInit
             PROVE  PartInv
  OBVIOUS
<1>1. CASE part = "ephemeral"
  <2>1. Ephemeral!Init
    BY <1>1 DEF PartInit
  <2>2. Ephemeral!LeaseInv
    BY <2>1, PartConstants, Ephemeral!InitInv
  <2> QED
    BY <1>1, <2>2 DEF PartInv
<1>2. CASE part = "in turn"
  <2>1. InTurn!Init
    BY <1>2 DEF PartInit
  <2>2. InTurn!LeaseInv /\ InTurn!TurnInv
    BY <2>1, PartConstants, InTurn!InitInv
  <2> QED
    BY <1>2, <2>2 DEF PartInv
<1>3. CASE part = "at once"
  <2>1. AtOnce!Init
    BY <1>3 DEF PartInit
  <2>2. AtOnce!LeaseInv
    BY <2>1, PartConstants, AtOnce!InitInv
  <2> QED
    BY <1>3, <2>2 DEF PartInv
<1>4. CASE part = "devices"
  BY <1>4, DevicesInit DEF PartInit, PartInv
<1>5. CASE part = "requests"
  BY <1>5, RequestsInit DEF PartInit, PartInv
<1>6. CASE part \in {"records", "edit"}
  BY <1>6 DEF PartInv
<1> QED
  BY <1>1, <1>2, <1>3, <1>4, <1>5, <1>6 DEF PartInit

LEMMA PartsKeep == PartInv /\ [PartNext]_partVars => PartInv'
<1> SUFFICES ASSUME PartInv, [PartNext]_partVars
             PROVE  PartInv'
  OBVIOUS
<1>0. UNCHANGED part
  BY DEF PartNext, partVars
<1>1. CASE part = "ephemeral"
  <2>1. Ephemeral!Next \/ UNCHANGED Ephemeral!vars
    <3>1. CASE PartNext
      BY <1>1, <3>1 DEF PartNext
    <3>2. CASE UNCHANGED partVars
      BY <3>2 DEF partVars, leaseVars, Ephemeral!vars
    <3> QED
      BY <3>1, <3>2
  <2>2. Ephemeral!LeaseInv'
    BY <1>1, <2>1, Ephemeral!NextInv DEF PartInv
  <2> QED
    BY <1>0, <1>1, <2>2 DEF PartInv
<1>2. CASE part = "in turn"
  <2>1. InTurn!Next \/ UNCHANGED InTurn!vars
    <3>1. CASE PartNext
      BY <1>2, <3>1 DEF PartNext
    <3>2. CASE UNCHANGED partVars
      BY <3>2 DEF partVars, leaseVars, InTurn!vars
    <3> QED
      BY <3>1, <3>2
  <2>2. InTurn!LeaseInv' /\ InTurn!TurnInv'
    BY <1>2, <2>1, InTurn!NextInv DEF PartInv
  <2> QED
    BY <1>0, <1>2, <2>2 DEF PartInv
<1>3. CASE part = "at once"
  <2>1. AtOnce!Next \/ UNCHANGED AtOnce!vars
    <3>1. CASE PartNext
      BY <1>3, <3>1 DEF PartNext
    <3>2. CASE UNCHANGED partVars
      BY <3>2 DEF partVars, leaseVars, AtOnce!vars
    <3> QED
      BY <3>1, <3>2
  <2>2. AtOnce!LeaseInv'
    BY <1>3, <2>1, AtOnce!NextInv DEF PartInv
  <2> QED
    BY <1>0, <1>3, <2>2 DEF PartInv
<1>4. CASE part = "devices"
  <2>1. Devices!Next \/ UNCHANGED deviceVars
    BY <1>4 DEF PartNext, partVars
  <2>2. DevicesInv'
    BY <1>4, <2>1, DevicesNext, DevicesStutter DEF PartInv
  <2> QED
    BY <1>0, <1>4, <2>2 DEF PartInv
<1>5. CASE part = "requests"
  <2>1. Requests!Next \/ UNCHANGED requestVars
    BY <1>5 DEF PartNext, partVars
  <2>2. RequestsInv'
    BY <1>5, <2>1, RequestsNext DEF PartInv
  <2> QED
    BY <1>0, <1>5, <2>2 DEF PartInv
<1>6. CASE part \notin {"ephemeral", "in turn", "at once", "devices", "requests"}
  BY <1>0, <1>6 DEF PartInv
<1> QED
  BY <1>1, <1>2, <1>3, <1>4, <1>5, <1>6

LEMMA PartsAlways == PartSpec => []PartInv
BY PartsBegin, PartsKeep, PTL DEF PartSpec, partVars

(* A proxy made for a phone check or for a number is given back when that is   *)
(* done with (releaseProxyRuntimeState by identity, in handlePhoneCheck's      *)
(* deferred call and in the executions' release nodes), is not disturbed while *)
(* it is used, and the record under the job names it: for any checks and       *)
(* executions, attempts and leases.                                            *)
THEOREM EphemeralLeasesHold == PartSpec => []EphemeralLeases
<1>1. PartInv => EphemeralLeases
  BY Ephemeral!InvHolds DEF PartInv, EphemeralLeases
<1> QED
  BY <1>1, PartsAlways, PTL

(* The lease an account's state carries (ensureProxyRuntimeSession) is the     *)
(* runtime's where its actions come in turn, and its exit passed the preflight *)
(* where they overlap too: for any accounts, actions, attempts and leases.     *)
THEOREM AccountLeasesHold == PartSpec => []AccountLeases
<1>1. PartInv => AccountLeases
  BY InTurn!TurnHolds, AtOnce!InvHolds DEF PartInv, AccountLeases
<1> QED
  BY <1>1, PartsAlways, PTL

(* A complete device stays that of one platform, phone and app version, no     *)
(* action or signup lacks an identifier, and a signup has the service's own    *)
(* version (ensureDevice, prepareSignupStartState): for any environments of    *)
(* the service, any fields that older versions left out, any number of         *)
(* restarts and of devices made.                                               *)
THEOREM DevicesAreWhole == PartSpec => []DeviceIsWhole
<1>1. DevicesInv => Devices!WholeIsConsistent
  BY DEF DevicesInv, Faced, Devices!WholeIsConsistent
<1>2. PartInv => DeviceIsWhole
  BY <1>1 DEF PartInv, DeviceIsWhole, DevicesInv
<1> QED
  BY <1>2, PartsAlways, PTL

(* Between the actions of an account a complete device changes in nothing but  *)
(* its transaction id, and all attempts at one signup carry the first one's:   *)
(* for any environments and devices that were stored before.                   *)
THEOREM FacesAreKept == PartSpec => FaceKept
<1>1. PartInv /\ [PartNext]_partVars
        => [part = "devices" => Devices!OneFace /\ Devices!OneTransaction]_deviceVars
  <2> SUFFICES ASSUME PartInv, PartNext, part = "devices"
               PROVE  (Devices!OneFace /\ Devices!OneTransaction) \/ UNCHANGED deviceVars
    BY DEF partVars
  <2>1. DevicesInv /\ Devices!Next
    BY DEF PartInv, PartNext
  <2> QED
    BY <2>1, DevicesNext DEF FaceSteps
<1> QED
  BY <1>1, PartsAlways, PTL DEF PartSpec, partVars, FaceKept

(* A signature (signLegacy, signV2) covers the request it is sent with, each   *)
(* header as it is sent; a call for an account carries the account's token, a  *)
(* login or a signup none, and no token goes to another host than the          *)
(* client's: for any tokens and devices, whatever the settings and however     *)
(* the state changes between a client and its calls.                           *)
THEOREM RequestsAreRight == PartSpec => []RequestsHold
<1>1. PartInv => RequestsHold
  BY RequestsInvHolds DEF PartInv, RequestsHold
<1> QED
  BY <1>1, PartsAlways, PTL

=============================================================================
