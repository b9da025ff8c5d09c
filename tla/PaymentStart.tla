---------------------------- MODULE PaymentStart ----------------------------
(***************************************************************************)
(* How a payment is started (paymentsvc): the requests of a StartPayment   *)
(* call to Midtrans and GoPay, what is repeated when one is refused, and   *)
(* the flow that is stored at the end.                                     *)
(*                                                                         *)
(* A payment with tokenization "true" links the account first and asks     *)
(* GoPay for the user's consent, which may send a code; without a code it  *)
(* is charged at once, as are "false" and "qris".  PaymentFlow takes all   *)
(* of this as the two steps Prepare and Charge: StartImplements says that  *)
(* this module implements them.                                            *)
(*                                                                         *)
(* A request may be executed although its answer is an error or is lost.   *)
(***************************************************************************)
EXTENDS Naturals, FiniteSets, Sequences

CONSTANTS
  Start,            \* StartPayment calls, each with a snap token
  Ref,              \* Midtrans linking references
  Order,            \* charges at Midtrans
  Tokenizations,    \* subset of {"true", "false", "qris"}
  LinkRetryLimit,   \* linkRetryLimit
  ChargeRetryLimit, \* midtransChargeRetryLimit
  MaxTime,          \* bounds the clock
  NoStart, NoRef, NoOrder

ASSUME TokenizationsAssumption == Tokenizations \subseteq {"true", "false", "qris"}
ASSUME LimitsAssumption ==
  LinkRetryLimit \in Nat /\ ChargeRetryLimit \in Nat \ {0} /\ MaxTime \in Nat
ASSUME AbsentAssumption == NoStart \notin Start /\ NoRef \notin Ref /\ NoOrder \notin Order

VARIABLES
  \* each call
  pc, tokenization, channel, phone,
  refused,    \* linking attempts refused with 406
  ref,        \* the linking reference it was given
  issued,     \* issued_after_unix
  otp,        \* otp_required, "unknown" before the user's consent
  attempt,    \* its next charge attempt
  order,      \* the charge its flow is to have
  flow,       \* calls whose flow was stored
  answer,
  \* Midtrans and GoPay
  linkedBy, linkings, needs, codes, chargedBy, denied, told,
  now

callVars == <<pc, tokenization, channel, phone, refused, ref, issued, otp,
              attempt, order, flow, answer>>
linkVars == <<linkedBy, linkings, needs, codes>>
payVars  == <<chargedBy, denied, told>>
vars     == <<callVars, linkVars, payVars, now>>

Channels == {"wa", "sms"}

Init ==
  /\ pc = [s \in Start |-> "idle"]
  /\ tokenization = [s \in Start |-> "none"]
  /\ channel \in [Start -> Channels]
  /\ phone \in [Start -> BOOLEAN]
  /\ refused = [s \in Start |-> 0]
  /\ ref = [s \in Start |-> NoRef]
  /\ issued = [s \in Start |-> 0]
  /\ otp = [s \in Start |-> "unknown"]
  /\ attempt = [s \in Start |-> 1]
  /\ order = [s \in Start |-> NoOrder]
  /\ flow = {}
  /\ answer = [s \in Start |-> "none"]
  /\ linkedBy = [r \in Ref |-> NoStart]
  /\ linkings = [s \in Start |-> 0]
  /\ needs \in [Ref -> BOOLEAN]
  /\ codes = [r \in Ref |-> {}]
  /\ chargedBy = [o \in Order |-> NoStart]
  /\ denied = {}
  /\ told = [o \in Order |-> "none"]
  /\ now = 0

-----------------------------------------------------------------------------

Goto(s, label) == pc' = [pc EXCEPT ![s] = label]

Labels == {"idle", "load", "link", "bypass", "validate", "consent", "resend",
           "charge", "put", "close", "done"}

\* Mutant: without the user's consent the reference is validated again.
FailsAgain(s) ==
  /\ pc[s] \in {"load", "link", "bypass", "validate", "consent", "charge"}
  /\ IF pc[s] = "consent"
     THEN Goto(s, "validate") /\ UNCHANGED answer
     ELSE Goto(s, "close") /\ answer' = [answer EXCEPT ![s] = "failed"]
  /\ UNCHANGED <<tokenization, channel, phone, refused, ref, issued, otp, attempt, order, flow>>
  /\ UNCHANGED <<linkVars, payVars, now>>

\* A request of the call is refused for good, fails or times out; its context
\* ends while it waits; the phone number of a payment to be linked is missing.
\* StartPayment closes the session and answers with the error.
Fails(s) ==
  /\ pc[s] \in {"load", "link", "bypass", "validate", "consent", "charge"}
  /\ answer' = [answer EXCEPT ![s] = "failed"]
  /\ Goto(s, "close")
  /\ UNCHANGED <<tokenization, channel, phone, refused, ref, issued, otp, attempt, order, flow>>
  /\ UNCHANGED <<linkVars, payVars, now>>

Close(s) ==
  /\ pc[s] = "close"
  /\ Goto(s, "done")
  /\ UNCHANGED <<tokenization, channel, phone, refused, ref, issued, otp, attempt, order, flow>>
  /\ UNCHANGED <<answer, linkVars, payVars, now>>

\* newCharger: the session is opened.
StartPayment(s, t) ==
  /\ pc[s] = "idle"
  /\ tokenization' = [tokenization EXCEPT ![s] = t]
  /\ Goto(s, "load")
  /\ UNCHANGED <<channel, phone, refused, ref, issued, otp, attempt, order, flow>>
  /\ UNCHANGED <<answer, linkVars, payVars, now>>

\* startPreparedLinkingUntilOTP or startPreparedQRISToPaymentCharge, up to the
\* transaction: what the redirect and the warming requests say is ignored.
LoadTransaction(s) ==
  /\ pc[s] = "load"
  /\ tokenization[s] = "true" => phone[s]
  /\ Goto(s, IF tokenization[s] = "true" THEN "link" ELSE "charge")
  /\ UNCHANGED <<tokenization, channel, phone, refused, ref, issued, otp, attempt, order, flow>>
  /\ UNCHANGED <<answer, linkVars, payVars, now>>

-----------------------------------------------------------------------------
(* midtransInitLinking.                                                    *)

\* Midtrans counts the request and may give out a reference, which the answer
\* carries to the call or not.
Grants(s, r) ==
  /\ linkedBy[r] = NoStart
  /\ linkedBy' = [linkedBy EXCEPT ![r] = s]
  /\ UNCHANGED <<needs, codes>>

Requests(s) == linkings' = [linkings EXCEPT ![s] = @ + 1]

\* parseLinkingReference: 201 with a reference in its activation link.
Linked(s) ==
  /\ pc[s] \in {"link", "bypass"}
  /\ Requests(s)
  /\ \E r \in Ref : Grants(s, r) /\ ref' = [ref EXCEPT ![s] = r]
  /\ Goto(s, "validate")
  /\ UNCHANGED <<tokenization, channel, phone, refused, issued, otp, attempt, order, flow>>
  /\ UNCHANGED <<answer, payVars, now>>

\* The reference was given out but the call never learns it.
LinkedUnheard(s) ==
  /\ pc[s] \in {"link", "bypass"}
  /\ Requests(s)
  /\ \E r \in Ref : Grants(s, r)
  /\ answer' = [answer EXCEPT ![s] = "failed"]
  /\ Goto(s, "close")
  /\ UNCHANGED <<tokenization, channel, phone, refused, ref, issued, otp, attempt, order, flow>>
  /\ UNCHANGED <<payVars, now>>

\* Mutant: refused attempts are not counted.
NotAcceptableForEver(s) ==
  /\ pc[s] = "link"
  /\ Requests(s)
  /\ UNCHANGED <<callVars, linkedBy, needs, codes, payVars, now>>

\* 406: once more after a pause, LinkRetryLimit times.
NotAcceptable(s) ==
  /\ pc[s] = "link"
  /\ Requests(s)
  /\ refused' = [refused EXCEPT ![s] = @ + 1]
  /\ IF refused[s] < LinkRetryLimit
     THEN UNCHANGED <<pc, answer>>
     ELSE answer' = [answer EXCEPT ![s] = "failed"] /\ Goto(s, "close")
  /\ UNCHANGED <<tokenization, channel, phone, ref, issued, otp, attempt, order, flow>>
  /\ UNCHANGED <<linkedBy, needs, codes, payVars, now>>

\* Too many requests: one more without the authorization, and no other.
RateLimited(s) ==
  /\ pc[s] = "link"
  /\ Requests(s)
  /\ Goto(s, "bypass")
  /\ UNCHANGED <<tokenization, channel, phone, refused, ref, issued, otp, attempt, order, flow>>
  /\ UNCHANGED <<answer, linkedBy, needs, codes, payVars, now>>

-----------------------------------------------------------------------------
(* GoPay.                                                                  *)

\* gopayValidateReference; the time is taken before the consent is asked for.
ValidateReference(s) ==
  /\ pc[s] = "validate"
  /\ issued' = [issued EXCEPT ![s] = now]
  /\ Goto(s, "consent")
  /\ UNCHANGED <<tokenization, channel, phone, refused, ref, otp, attempt, order, flow>>
  /\ UNCHANGED <<answer, linkVars, payVars, now>>

\* linkingConsentRequiresOTP over the values of the fields that say so: the
\* first one found in an answer whose objects have no order; yes if none does.
RequiresOTP(fields) == IF fields = {} THEN {TRUE} ELSE fields

\* GoPay sends a code for reference r now.
SendsCode(r) == codes' = [codes EXCEPT ![r] = @ \cup {now}]

\* gopayLinkingConsent: GoPay sends a code if it needs one, and its answer may
\* say so.  With the channel "sms" the code is asked for again.
Consent(s) ==
  /\ pc[s] = "consent"
  /\ IF needs[ref[s]] THEN SendsCode(ref[s]) ELSE UNCHANGED codes
  /\ \E fields \in SUBSET {needs[ref[s]]} : \E b \in RequiresOTP(fields) :
       /\ otp' = [otp EXCEPT ![s] = IF b THEN "yes" ELSE "no"]
       /\ Goto(s, CASE b /\ channel[s] = "sms" -> "resend"
                    [] b /\ channel[s] # "sms" -> "put"
                    [] OTHER -> "charge")
  /\ UNCHANGED <<tokenization, channel, phone, refused, ref, issued, attempt, order, flow>>
  /\ UNCHANGED <<answer, linkedBy, linkings, needs, payVars, now>>

\* The code was sent but the call fails.
ConsentUnheard(s) ==
  /\ pc[s] = "consent" /\ needs[ref[s]]
  /\ SendsCode(ref[s])
  /\ answer' = [answer EXCEPT ![s] = "failed"]
  /\ Goto(s, "close")
  /\ UNCHANGED <<tokenization, channel, phone, refused, ref, issued, otp, attempt, order, flow>>
  /\ UNCHANGED <<linkedBy, linkings, needs, payVars, now>>

\* Mutant: the call's time is taken again with the second code.
ResendStamped(s) ==
  /\ pc[s] = "resend"
  /\ SendsCode(ref[s]) \/ UNCHANGED codes
  /\ issued' = [issued EXCEPT ![s] = now]
  /\ Goto(s, "put")
  /\ UNCHANGED <<tokenization, channel, phone, refused, ref, otp, attempt, order, flow>>
  /\ UNCHANGED <<answer, linkedBy, linkings, needs, payVars, now>>

\* gopayResendOTP, whether GoPay sends a second code or not.
ResendSMS(s) ==
  /\ pc[s] = "resend"
  /\ SendsCode(ref[s]) \/ UNCHANGED codes
  /\ Goto(s, "put")
  /\ UNCHANGED <<tokenization, channel, phone, refused, ref, issued, otp, attempt, order, flow>>
  /\ UNCHANGED <<answer, linkedBy, linkings, needs, payVars, now>>

-----------------------------------------------------------------------------
(* midtransCreateCharge.                                                   *)

QRIS(s) == tokenization[s] = "qris"

\* The bodies tried: with "qris" the code of a bank's app, then GoPay's own.
Attempts(s) ==
  IF QRIS(s) THEN <<"qris", "gopay">> ELSE [i \in 1..ChargeRetryLimit |-> "gopay"]

\* What an answer to a charge carries: a payment reference (in whatever
\* field), a QR code or its address, the deep link to the app.
Contents == SUBSET {"reference", "qr", "deeplink"}

\* Mutant: every payment's answer must look usable.
TakesUsable(s, carried) == carried # {}

\* midtransChargeLooksUsable; without QRIS any answer ends the attempts.
Taken(s, carried) == QRIS(s) => carried # {}

\* extractMidtransChargeReference; with a QR code the snap token will do for a
\* QRIS payment, with a deep link alone it will not.
HasReference(s, carried) == "reference" \in carried \/ (QRIS(s) /\ "qr" \in carried)

\* Midtrans makes a new charge for the call's transaction.
Makes(s, o, word) ==
  /\ chargedBy[o] = NoStart
  /\ chargedBy' = [chargedBy EXCEPT ![o] = s]
  /\ told' = [told EXCEPT ![o] = word]

\* The next body is tried, or the last one was.
Again(s) ==
  IF attempt[s] < Len(Attempts(s))
  THEN attempt' = [attempt EXCEPT ![s] = @ + 1] /\ UNCHANGED <<pc, answer>>
  ELSE /\ answer' = [answer EXCEPT ![s] = "failed"] /\ Goto(s, "close")
       /\ UNCHANGED attempt

\* Mutant: every body is tried and the last answer counts.
ChargeAll(s) ==
  /\ pc[s] = "charge"
  /\ \E o \in Order, carried \in Contents :
       /\ Taken(s, carried) /\ HasReference(s, carried)
       /\ Makes(s, o, "taken")
       /\ order' = [order EXCEPT ![s] = o]
  /\ IF attempt[s] < Len(Attempts(s))
     THEN attempt' = [attempt EXCEPT ![s] = @ + 1] /\ UNCHANGED pc
     ELSE Goto(s, "put") /\ UNCHANGED attempt
  /\ UNCHANGED <<tokenization, channel, phone, refused, ref, issued, otp, flow>>
  /\ UNCHANGED <<answer, denied, linkVars, now>>

\* 200 or 201 with an answer midtransCreateChargeData makes a flow of.
Charge(s) ==
  /\ pc[s] = "charge"
  /\ \E o \in Order, carried \in Contents :
       /\ Taken(s, carried) /\ HasReference(s, carried)
       /\ Makes(s, o, "taken")
       /\ order' = [order EXCEPT ![s] = o]
       /\ Goto(s, "put")
  /\ UNCHANGED <<tokenization, channel, phone, refused, ref, issued, otp, attempt, flow>>
  /\ UNCHANGED <<answer, denied, linkVars, now>>

\* 200 or 201 with a transaction that is denied, cancelled, expired or failed.
ChargeDenied(s) ==
  /\ pc[s] = "charge"
  /\ \E o \in Order : Makes(s, o, "denied") /\ denied' = denied \cup {o}
  /\ answer' = [answer EXCEPT ![s] = "failed"]
  /\ Goto(s, "close")
  /\ UNCHANGED <<tokenization, channel, phone, refused, ref, issued, otp, attempt, order, flow>>
  /\ UNCHANGED <<linkVars, now>>

\* 200 or 201 with an answer that ends the attempts and has no reference.
ChargeUnreferenced(s) ==
  /\ pc[s] = "charge"
  /\ \E o \in Order, carried \in Contents :
       /\ Taken(s, carried) /\ ~HasReference(s, carried)
       /\ Makes(s, o, "unreferenced")
  /\ answer' = [answer EXCEPT ![s] = "failed"]
  /\ Goto(s, "close")
  /\ UNCHANGED <<tokenization, channel, phone, refused, ref, issued, otp, attempt, order, flow>>
  /\ UNCHANGED <<denied, linkVars, now>>

\* Any other status, or a QRIS answer of no use: the next body is tried.  The
\* charge may have been made all the same.
ChargeRefused(s) ==
  /\ pc[s] = "charge"
  /\ \/ \E o \in Order : Makes(s, o, "refused")
     \/ \E o \in Order, carried \in Contents : ~Taken(s, carried) /\ Makes(s, o, "unusable")
     \/ UNCHANGED <<chargedBy, told>>
  /\ Again(s)
  /\ UNCHANGED <<tokenization, channel, phone, refused, ref, issued, otp, order, flow>>
  /\ UNCHANGED <<denied, linkVars, now>>

\* The charge was made and its answer lost: the call fails.
ChargeUnheard(s) ==
  /\ pc[s] = "charge"
  /\ \E o \in Order : Makes(s, o, "unheard")
  /\ answer' = [answer EXCEPT ![s] = "failed"]
  /\ Goto(s, "close")
  /\ UNCHANGED <<tokenization, channel, phone, refused, ref, issued, otp, attempt, order, flow>>
  /\ UNCHANGED <<denied, linkVars, now>>

-----------------------------------------------------------------------------

\* flowStore.put and startResponse.
Put(s) ==
  /\ pc[s] = "put"
  /\ flow' = flow \cup {s}
  /\ answer' = [answer EXCEPT ![s] = IF otp[s] = "yes" THEN "otp" ELSE "started"]
  /\ Goto(s, "done")
  /\ UNCHANGED <<tokenization, channel, phone, refused, ref, issued, otp, attempt, order>>
  /\ UNCHANGED <<linkVars, payVars, now>>

Tick == now < MaxTime /\ now' = now + 1 /\ UNCHANGED <<callVars, linkVars, payVars>>

Handler(s) ==
  \/ LoadTransaction(s) \/ Linked(s) \/ LinkedUnheard(s) \/ NotAcceptable(s)
  \/ RateLimited(s) \/ ValidateReference(s) \/ Consent(s) \/ ConsentUnheard(s)
  \/ ResendSMS(s) \/ Charge(s) \/ ChargeDenied(s) \/ ChargeUnreferenced(s)
  \/ ChargeRefused(s) \/ ChargeUnheard(s) \/ Put(s) \/ Fails(s) \/ Close(s)

Next ==
  \/ \E s \in Start : Handler(s) \/ \E t \in Tokenizations : StartPayment(s, t)
  \/ Tick

Spec == Init /\ [][Next]_vars

\* A call under way goes on: every request has a timeout.
FairSpec == Spec /\ \A s \in Start : WF_vars(Handler(s))

-----------------------------------------------------------------------------

\* Types of the calls' and the providers' state.
TypeOK ==
  /\ pc \in [Start -> Labels]
  /\ tokenization \in [Start -> Tokenizations \cup {"none"}]
  /\ channel \in [Start -> Channels] /\ phone \in [Start -> BOOLEAN]
  /\ refused \in [Start -> 0..(LinkRetryLimit + 1)]
  /\ ref \in [Start -> Ref \cup {NoRef}] /\ order \in [Start -> Order \cup {NoOrder}]
  /\ issued \in [Start -> 0..MaxTime] /\ now \in 0..MaxTime
  /\ otp \in [Start -> {"unknown", "yes", "no"}]
  /\ attempt \in [Start -> Nat] /\ \A s \in Start : attempt[s] \in DOMAIN Attempts(s)
  /\ flow \subseteq Start /\ answer \in [Start -> {"none", "otp", "started", "failed"}]
  /\ linkedBy \in [Ref -> Start \cup {NoStart}] /\ linkings \in [Start -> Nat]
  /\ needs \in [Ref -> BOOLEAN] /\ codes \in [Ref -> SUBSET (0..MaxTime)]
  /\ chargedBy \in [Order -> Start \cup {NoStart}] /\ denied \subseteq Order
  /\ told \in [Order -> {"none", "taken", "denied", "unreferenced", "refused",
                         "unusable", "unheard"}]

\* What a stored flow says is so at the providers: its linking reference was
\* given out for this call; waiting for a code, none of the codes GoPay sent for
\* it is older than the time from which codes are taken; else no code was
\* needed and it has a charge of its own which Midtrans did not deny.
FlowIsBacked ==
  \A s \in flow :
    /\ tokenization[s] = "true" => ref[s] \in Ref /\ linkedBy[ref[s]] = s
    /\ IF otp[s] = "yes"
       THEN \A at \in codes[ref[s]] : issued[s] <= at
       ELSE /\ order[s] \in Order \ denied /\ chargedBy[order[s]] = s
            /\ tokenization[s] = "true" => ~needs[ref[s]]

\* A charge Midtrans made that no flow has is one the call could not know of or
\* use: once an answer is taken, nothing else is charged, and whatever was
\* charged before was refused, lost or of no use.
StrayIsUnusable ==
  \A o \in Order : \A s \in Start :
    chargedBy[o] = s =>
      \/ order[s] = o
      \/ told[o] \in {"denied", "refused", "unheard", "unreferenced"}
      \/ told[o] = "unusable" /\ QRIS(s)

\* Midtrans is asked to link at most LinkRetryLimit + 1 times with the
\* authorization and once without; no code is sent before that succeeded.
LinkingIsBounded ==
  \A s \in Start :
    /\ linkings[s] <= LinkRetryLimit + 2
    /\ Cardinality({r \in Ref : linkedBy[r] = s}) <= 1

\* Every call is answered.
StartEnds == \A s \in Start : pc[s] # "idle" ~> pc[s] = "done"

-----------------------------------------------------------------------------
(* The refinement: the steps up to the user's consent are PaymentFlow's    *)
(* Prepare, the attempts at a charge its Charge.                           *)

Mode(t) == CASE t = "none" -> "none" [] t = "true" -> "link" [] OTHER -> "manual"

Label(s) ==
  IF pc[s] \in {"load", "link", "bypass", "validate", "consent", "resend"}
  THEN "prepare" ELSE pc[s]

Kept(s) == [otp |-> otp[s] = "yes" /\ pc[s] # "resend",
            linked |-> otp[s] # "unknown" /\ pc[s] # "resend",
            charge |-> order[s]]

NothingKept == [otp |-> FALSE, linked |-> FALSE, charge |-> NoOrder]

stBar       == [s \in Start |-> IF s \in flow THEN Kept(s) ELSE NothingKept]
modeBar     == [s \in Start |-> Mode(tokenization[s])]
tokenBar    == [s \in Start |-> "snap_token"]
openedBar   == {s \in Start : pc[s] # "idle"}
closingsBar == [s \in Start |-> IF pc[s] = "done" /\ answer[s] = "failed" THEN 1 ELSE 0]
pcBar       == [s \in Start |-> Label(s)]
opBar       == [s \in Start |-> IF pc[s] = "idle" THEN "none" ELSE "start"]
onBar       == [s \in Start |-> IF pc[s] = "idle" THEN NoStart ELSE s]
gaveBar     == [s \in Start |-> FALSE]
keptBar     == [s \in Start |-> Kept(s)]
chargedBar  == [o \in Order |-> IF \E s \in Start : order[s] = o THEN chargedBy[o] ELSE NoStart]

Payments == INSTANCE PaymentFlow WITH
  Flow <- Start, Call <- Start, Ref <- Order, NoFlow <- NoStart, NoRef <- NoOrder,
  Token <- {"snap_token"}, Modes <- {"link", "manual"},
  Exclusive <- FALSE, Protocol <- FALSE, Crashes <- FALSE,
  stored <- flow, st <- stBar, mode <- modeBar, token <- tokenBar, opened <- openedBar,
  closings <- closingsBar, restarted <- FALSE,
  pc <- pcBar, op <- opBar, on <- onBar, gave <- gaveBar, kept <- keptBar,
  chargedFor <- chargedBar, paid <- {}, settled <- {}, dead <- {}

\* Whatever is repeated or lost on the way, a start call is one preparation,
\* at most one charge that counts and one flow, as PaymentFlow takes it to be:
\* what is checked and proved there holds of payments started like this.
StartImplements == Payments!Spec
=============================================================================
