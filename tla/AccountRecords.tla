--------------------------- MODULE AccountRecords ---------------------------
(***************************************************************************)
(* The three records the service keeps of an account in Redis - its state, *)
(* its profile (PIN, phone, OTP channel) and its device - and the calls    *)
(* that load one, work on the copy and save it whole: the start of a       *)
(* payment, the saving of a profile, the generation of a device, and the   *)
(* actions on the account (AccountJobs), reduced to the tokens they renew. *)
(* There is no lock and no version: a save overwrites what others saved    *)
(* since the load.  GoPay keeps the token it issued last and the balance.  *)
(***************************************************************************)
EXTENDS Naturals, FiniteSets

CONSTANTS
  Account, Caller, NoOne,
  MaxTokens, MaxPins, MaxDevices,  \* bounds: tokens issued, PINs set, devices made
  Amounts,      \* amounts asked for, and balances (0: not given)
  SavesFail,    \* Redis may refuse a save or a load
  BalanceFails, \* GoPay may not tell the balance
  Overlap       \* calls on one account may overlap

\* What the constants are.
AccountRecordsConstants ==
  /\ NoOne \notin Account
  /\ MaxTokens \in Nat /\ MaxPins \in Nat /\ MaxDevices \in Nat
  /\ Amounts \subseteq Nat /\ 0 \in Amounts
  /\ SavesFail \in BOOLEAN /\ BalanceFails \in BOOLEAN /\ Overlap \in BOOLEAN

ASSUME RecordConstants == AccountRecordsConstants

Channel == {"wa", "sms"}
None    == 0
NoChannel == "none"

VARIABLES
  state,    \* stored states
  profile,  \* account-profile:<id>
  device,   \* profile:<hash of id>, the device of an account
  gopay,    \* what GoPay holds: the token issued last, the balance
  call,     \* calls and the copies they work on
  flow,     \* the payment handed to the payment flows last
  told,     \* history: the balance GoPay told last
  pinSet,   \* history: the PIN saved last
  spoiled   \* history: accounts with overlapping calls, or a lost save or load

vars == <<state, profile, device, gopay, call, flow, told, pinSet, spoiled>>

State   == [here : BOOLEAN, phone : BOOLEAN, token : 0..MaxTokens, bal : Amounts,
            channel : Channel \cup {NoChannel}]
Profile == [phone : BOOLEAN, pin : 0..MaxPins, channel : Channel \cup {NoChannel}]

NoState   == [here |-> FALSE, phone |-> FALSE, token |-> None, bal |-> 0, channel |-> NoChannel]
NoProfile == [phone |-> FALSE, pin |-> None, channel |-> NoChannel]

Idle == [pc |-> "idle", acct |-> NoOne, link |-> FALSE, amount |-> 0, st |-> NoState,
         pf |-> NoProfile, valid |-> FALSE, dev |-> None]

NoFlow == [acct |-> NoOne, amount |-> 0, link |-> FALSE, pin |-> None]

Init ==
  /\ state = [a \in Account |-> NoState]
  /\ profile = [a \in Account |-> NoProfile]
  /\ device = [a \in Account |-> None]
  /\ gopay = [a \in Account |-> [token |-> None, bal |-> 0]]
  /\ call = [c \in Caller |-> Idle]
  /\ flow = NoFlow
  /\ told = [a \in Account |-> 0] /\ pinSet = [a \in Account |-> None]
  /\ spoiled = {}

-----------------------------------------------------------------------------
Busy(a) == \E c \in Caller : call[c].acct = a

Begin(c, a, r) ==
  /\ call[c].pc = "idle" /\ (Overlap \/ ~Busy(a))
  /\ call' = [call EXCEPT ![c] = r]
  /\ spoiled' = IF Busy(a) THEN spoiled \cup {a} ELSE spoiled

Goto(c, pc) == call' = [call EXCEPT ![c].pc = pc]
End(c)      == call' = [call EXCEPT ![c] = Idle]

\* A load or a save that Redis refuses ends the call with an error.
Refused(c) ==
  /\ SavesFail /\ End(c)
  /\ spoiled' = spoiled \cup {call[c].acct}
  /\ UNCHANGED <<state, profile, device, gopay, flow, told, pinSet>>

-----------------------------------------------------------------------------
\* Starting a payment (StartGopayPayment): resolvePaymentAccount loads the
\* state, then the profile.

StartGopayPayment(c, a) ==
  /\ \E link \in BOOLEAN, amount \in Amounts :
       Begin(c, a, [Idle EXCEPT !.pc = "profile", !.acct = a, !.link = link,
                                !.amount = amount, !.st = state[a]])
  /\ UNCHANGED <<state, profile, device, gopay, flow, told, pinSet>>

FirstOf(x, y) == IF x # NoChannel THEN x ELSE y

\* A payment by linking needs a phone and a PIN; a QRIS payment needs neither.
loadGopayAccountProfile(c) ==
  /\ call[c].pc = "profile"
  /\ LET r == call[c]
         pf == profile[r.acct]
         channel == FirstOf(FirstOf(pf.channel, r.st.channel), "sms")
     IN IF r.link /\ (pf.pin = None \/ ~(pf.phone \/ r.st.phone)) THEN End(c)
        ELSE call' = [call EXCEPT ![c] = [r EXCEPT !.pc = "resolve", !.pf = pf,
                                                   !.st = [r.st EXCEPT !.channel = channel]]]
  /\ UNCHANGED <<state, profile, device, gopay, flow, told, pinSet, spoiled>>

\* The copy is saved with the OTP channel, whether or not the account was there.
resolvePaymentAccount(c) ==
  /\ call[c].pc = "resolve"
  /\ LET r == call[c]
         st == [r.st EXCEPT !.here = TRUE]
     IN /\ state' = [state EXCEPT ![r.acct] = st]
        /\ call' = [call EXCEPT ![c].st = st,
                                ![c].pc = IF r.pf.channel = NoChannel THEN "mark" ELSE "check"]
  /\ UNCHANGED <<profile, device, gopay, flow, told, pinSet, spoiled>>

\* A profile without a channel gets the one in use; an error is ignored.
MarkChannel(c) ==
  /\ call[c].pc = "mark"
  /\ LET r == call[c] IN
       \/ profile' = [profile EXCEPT ![r.acct] = [r.pf EXCEPT !.channel = r.st.channel]]
       \/ SavesFail /\ UNCHANGED profile
  /\ Goto(c, "check")
  /\ UNCHANGED <<state, device, gopay, flow, told, pinSet, spoiled>>

\* checkTokenValid: verify the token, refresh it if that fails, verify again,
\* then ask for the balance.  A refresh that works is in the copy even when
\* the verification after it fails; an unread balance leaves the old one.
Alive(st, a) == st.token # None /\ st.token = gopay[a].token

checkTokenValid(c) ==
  /\ call[c].pc = "check"
  /\ LET r == call[c]
         a == r.acct
     IN \E refresh \in BOOLEAN, valid \in BOOLEAN, read \in BOOLEAN :
          LET token == IF refresh THEN gopay[a].token + 1 ELSE r.st.token
              bal   == IF valid /\ read THEN gopay[a].bal ELSE r.st.bal
          IN /\ (refresh \/ valid) => Alive(r.st, a)
             /\ refresh => gopay[a].token < MaxTokens
             /\ read \/ BalanceFails
             /\ gopay' = [gopay EXCEPT ![a].token = IF refresh THEN token ELSE @]
             /\ told' = [told EXCEPT ![a] = IF valid /\ read THEN gopay[a].bal ELSE @]
             /\ call' = [call EXCEPT ![c] =
                  [r EXCEPT !.pc = "balance", !.valid = valid,
                            !.st = [r.st EXCEPT !.token = token, !.bal = bal]]]
  /\ UNCHANGED <<state, profile, device, flow, pinSet, spoiled>>

\* Mutant of ensurePaymentBalance: the copy is saved only if the check was good.
BalanceUnsaved(c) ==
  /\ call[c].pc = "balance"
  /\ LET r == call[c] IN
       IF r.valid /\ (r.amount = 0 \/ r.st.bal >= r.amount)
       THEN state' = [state EXCEPT ![r.acct] = r.st] /\ Goto(c, "start")
       ELSE End(c) /\ UNCHANGED state
  /\ UNCHANGED <<profile, device, gopay, flow, told, pinSet, spoiled>>

\* Mutant of ensurePaymentBalance: a payment is refused only if the token is bad.
BalanceUncompared(c) ==
  /\ call[c].pc = "balance"
  /\ LET r == call[c] IN
       /\ state' = [state EXCEPT ![r.acct] = r.st]
       /\ IF r.valid THEN Goto(c, "start") ELSE End(c)
  /\ UNCHANGED <<profile, device, gopay, flow, told, pinSet, spoiled>>

\* The copy is saved first, then judged: the token and, if there is an amount,
\* the balance and its currency.
ensurePaymentBalance(c) ==
  /\ call[c].pc = "balance"
  /\ LET r == call[c] IN
     \E currency \in BOOLEAN :
       /\ state' = [state EXCEPT ![r.acct] = r.st]
       /\ IF r.valid /\ (r.amount = 0 \/ (currency /\ r.st.bal >= r.amount))
          THEN Goto(c, "start") ELSE End(c)
  /\ UNCHANGED <<profile, device, gopay, flow, told, pinSet, spoiled>>

\* The payment flow starts (PaymentFlow), or GoPay refuses it.
StartPayment(c) ==
  /\ call[c].pc = "start"
  /\ LET r == call[c] IN
       \/ flow' = [acct |-> r.acct, amount |-> r.amount, link |-> r.link,
                   pin |-> r.pf.pin]
       \/ UNCHANGED flow
  /\ End(c)
  /\ UNCHANGED <<state, profile, device, gopay, told, pinSet, spoiled>>

-----------------------------------------------------------------------------
\* Profiles (SaveGopayAccountProfile, syncAccountProfileFields): fields that
\* are given replace those of the copy.

LoadProfile(c, a) ==
  /\ Begin(c, a, [Idle EXCEPT !.pc = "edit", !.acct = a, !.pf = profile[a]])
  /\ UNCHANGED <<state, profile, device, gopay, flow, told, pinSet>>

\* Mutant of Edited: a PIN that is not given clears the one in the profile.
EditedBlank(pf, phone, pin, channel) ==
  [pf EXCEPT !.phone = @ \/ phone, !.pin = pin,
             !.channel = IF channel # NoChannel THEN channel ELSE @]

Edited(pf, phone, pin, channel) ==
  [pf EXCEPT !.phone = @ \/ phone, !.pin = IF pin # None THEN pin ELSE @,
             !.channel = IF channel # NoChannel THEN channel ELSE @]

SaveGopayAccountProfile(c) ==
  /\ call[c].pc = "edit"
  /\ LET a == call[c].acct IN
       \E phone \in BOOLEAN, new \in BOOLEAN, channel \in Channel \cup {NoChannel} :
         LET pin == IF new THEN pinSet[a] + 1 ELSE None IN
         /\ new => pinSet[a] < MaxPins
         /\ profile' = [profile EXCEPT ![a] = Edited(call[c].pf, phone, pin, channel)]
         /\ pinSet' = [pinSet EXCEPT ![a] = IF new THEN pin ELSE @]
  /\ End(c)
  /\ UNCHANGED <<state, device, gopay, flow, told, spoiled>>

-----------------------------------------------------------------------------
\* Accounts: created with a random id, worked on by jobs, deleted.

handleCreateAccount(c, a) ==
  /\ profile[a] = NoProfile /\ state[a] = NoState /\ gopay[a].token = None
  /\ Begin(c, a, [Idle EXCEPT !.pc = "edit", !.acct = a, !.pf = NoProfile])
  /\ \E channel \in Channel :
       state' = [state EXCEPT ![a] = [NoState EXCEPT !.here = TRUE, !.phone = TRUE,
                                                     !.channel = channel]]
  /\ UNCHANGED <<profile, device, gopay, flow, told, pinSet>>

DeleteGopayAccount(a) ==
  /\ state' = [state EXCEPT ![a] = NoState]
  /\ UNCHANGED <<profile, device, gopay, call, flow, told, pinSet, spoiled>>

\* An action on the account: it loads, GoPay issues tokens, it saves.
LoadGopayAccountState(c, a) ==
  /\ Begin(c, a, [Idle EXCEPT !.pc = "work", !.acct = a, !.st = state[a]])
  /\ UNCHANGED <<state, profile, device, gopay, flow, told, pinSet>>

Work(c) ==
  /\ call[c].pc = "work"
  /\ LET r == call[c]
         a == r.acct
     IN /\ gopay[a].token < MaxTokens
        /\ gopay' = [gopay EXCEPT ![a].token = @ + 1]
        /\ call' = [call EXCEPT ![c] =
             [r EXCEPT !.pc = "save", !.st = [r.st EXCEPT !.token = gopay[a].token + 1,
                                                          !.here = TRUE, !.phone = TRUE]]]
  /\ UNCHANGED <<state, profile, device, flow, told, pinSet, spoiled>>

\* A save that fails is not noticed; the fields of the profile are next.
SaveGopayAccountState(c) ==
  /\ call[c].pc = "save"
  /\ \/ /\ state' = [state EXCEPT ![call[c].acct] = call[c].st]
        /\ UNCHANGED spoiled
     \/ /\ SavesFail /\ UNCHANGED state
        /\ spoiled' = spoiled \cup {call[c].acct}
  /\ Goto(c, "sync")
  /\ UNCHANGED <<profile, device, gopay, flow, told, pinSet>>

syncAccountProfile(c) ==
  /\ call[c].pc = "sync"
  /\ call' = [call EXCEPT ![c].pc = "edit", ![c].pf = profile[call[c].acct]]
  /\ UNCHANGED <<state, profile, device, gopay, flow, told, pinSet, spoiled>>

\* The balance changes at GoPay.
Spend(a) ==
  /\ \E bal \in Amounts : gopay' = [gopay EXCEPT ![a].bal = bal]
  /\ UNCHANGED <<state, profile, device, call, flow, told, pinSet, spoiled>>

-----------------------------------------------------------------------------
\* The device of an account (generateDeviceProxyState without ephemeral): a
\* load that fails counts as an account without a device.

loadAccountProfile(c, a) ==
  /\ \/ Begin(c, a, [Idle EXCEPT !.pc = "device", !.acct = a, !.dev = device[a]])
     \/ /\ SavesFail /\ call[c].pc = "idle" /\ (Overlap \/ ~Busy(a))
        /\ call' = [call EXCEPT ![c] = [Idle EXCEPT !.pc = "device", !.acct = a]]
        /\ spoiled' = spoiled \cup {a}
  /\ UNCHANGED <<state, profile, device, gopay, flow, told, pinSet>>

\* A device the profile has, or a new one (numbered per account).
ensureDevice(dev, a) == IF dev # None THEN dev ELSE device[a] + 1

\* After the proxy was acquired; an error of the save is ignored.
saveAccountProfile(c) ==
  /\ call[c].pc = "device"
  /\ LET a == call[c].acct
         dev == ensureDevice(call[c].dev, a)
     IN /\ dev <= MaxDevices
        /\ \/ device' = [device EXCEPT ![a] = dev]
           \/ UNCHANGED device
  /\ End(c)
  /\ UNCHANGED <<state, profile, gopay, flow, told, pinSet, spoiled>>

Step(c) ==
  \/ loadGopayAccountProfile(c) \/ resolvePaymentAccount(c) \/ MarkChannel(c)
  \/ checkTokenValid(c) \/ ensurePaymentBalance(c) \/ StartPayment(c)
  \/ SaveGopayAccountProfile(c) \/ Work(c) \/ SaveGopayAccountState(c)
  \/ syncAccountProfile(c) \/ saveAccountProfile(c)
  \/ call[c].pc \in {"profile", "resolve", "balance", "edit", "work", "sync"} /\ Refused(c)

Next ==
  \/ \E c \in Caller : Step(c)
  \/ \E c \in Caller, a \in Account :
       \/ StartGopayPayment(c, a) \/ LoadProfile(c, a) \/ handleCreateAccount(c, a)
       \/ LoadGopayAccountState(c, a) \/ loadAccountProfile(c, a)
  \/ \E a \in Account : DeleteGopayAccount(a) \/ Spend(a)

Spec == Init /\ [][Next]_vars

-----------------------------------------------------------------------------
\* Type invariant; a payment's account has an OTP channel once it is resolved.
TypeOK ==
  /\ state \in [Account -> State] /\ profile \in [Account -> Profile]
  /\ device \in [Account -> 0..MaxDevices]
  /\ gopay \in [Account -> [token : 0..MaxTokens, bal : Amounts]]
  /\ call \in [Caller ->
       [pc : {"idle", "profile", "resolve", "mark", "check", "balance", "start",
              "edit", "work", "save", "sync", "device"},
        acct : Account \cup {NoOne}, link : BOOLEAN, amount : Amounts, st : State,
        pf : Profile, valid : BOOLEAN, dev : 0..MaxDevices]]
  /\ \A c \in Caller :
       call[c].pc \in {"resolve", "mark", "check", "balance", "start"} =>
         call[c].st.channel \in Channel
  /\ flow \in [acct : Account \cup {NoOne}, amount : Amounts, link : BOOLEAN,
              pin : 0..MaxPins]
  /\ told \in [Account -> Amounts] /\ pinSet \in [Account -> 0..MaxPins]
  /\ spoiled \subseteq Account

(* The token in the store is the one GoPay issued last, whatever became of the *)
(* call that renewed it: also a payment that is refused after a refresh stores *)
(* the new token.  Exceptions: overlapping calls, and saves Redis refuses.     *)
TokenStored ==
  \A a \in Account \ spoiled :
    ~Busy(a) /\ state[a].here /\ state[a].token # None => state[a].token = gopay[a].token

(* The profile has the PIN that was saved last, whoever else saves other       *)
(* fields of it, unless two writers of the profile overlap.                    *)
PINKept == \A a \in Account \ spoiled : profile[a].pin = pinSet[a]

(* A payment with an amount is handed on only if the balance GoPay told last   *)
(* covers it, and a payment by linking only with the PIN of the profile; an    *)
(* account keeps its device: later generations find the first one.             *)
CoveredAsTold ==
  \A c \in Caller : StartPayment(c) /\ flow'.acct \notin spoiled /\ flow' # flow =>
    /\ flow'.amount <= told[flow'.acct]
    /\ flow'.link => flow'.pin = pinSet[flow'.acct] /\ flow'.pin # None
DeviceKept ==
  \A a \in Account \ spoiled' : device[a] # None => device'[a] = device[a]
RecordsHeeded == [][CoveredAsTold /\ DeviceKept]_vars
=============================================================================
