------------------------- MODULE PaymentStartProofs -------------------------
(***************************************************************************)
(* Proofs about PaymentStart, for any number of start calls, references    *)
(* and charges, any limits of retries and whatever is refused or lost: a   *)
(* stored flow is backed by the providers, what is left behind could not   *)
(* be used, and a start is the one that PaymentFlow takes it to be.        *)
(*                                                                         *)
(* The invariant follows a call from label to label: where it may be with  *)
(* what its tokenization and the user's consent said (Stage), whose its    *)
(* charge is (ChargeOK), and since when its reference's codes are sent     *)
(* (RefOK).  With it each step of a start is a step of PaymentFlow or none *)
(* (StepRefines): whatever fails is Fails, the requests that are repeated  *)
(* are no steps.                                                           *)
(***************************************************************************)
EXTENDS PaymentStart, SequenceTheorems, FiniteSetTheorems, TLAPS

Early == {"idle", "load", "link", "bypass", "validate", "consent"}

\* The labels of a call, with what is known there.
Stage(s) ==
  /\ pc[s] = "idle" => tokenization[s] = "none" /\ attempt[s] = 1
  /\ pc[s] # "idle" => tokenization[s] \in Tokenizations
  /\ pc[s] \in {"link", "bypass", "validate", "consent", "resend"} => tokenization[s] = "true"
  /\ pc[s] \in Early => otp[s] = "unknown"
  /\ pc[s] \in {"idle", "load", "link"} => refused[s] <= LinkRetryLimit
  /\ pc[s] = "resend" => otp[s] = "yes"
  /\ pc[s] = "close" => answer[s] = "failed"
  /\ pc[s] = "charge" => otp[s] # "yes"
  /\ pc[s] \notin Early \cup {"close", "done"} =>
       (otp[s] # "unknown" <=> tokenization[s] = "true")
  /\ s \in flow => /\ pc[s] = "done" /\ answer[s] # "failed"
                   /\ otp[s] # "unknown" <=> tokenization[s] = "true"

\* Only a call with an answer it took has a charge, which is its own.
ChargeOK(s) ==
  /\ pc[s] \notin {"put", "done"} => order[s] = NoOrder
  /\ (pc[s] = "put" \/ s \in flow) => (order[s] = NoOrder <=> otp[s] = "yes")
  /\ order[s] \in Order =>
       /\ chargedBy[order[s]] = s /\ order[s] \notin denied /\ told[order[s]] = "taken"

\* A call has its linking.
Links(s) ==
  \/ pc[s] \in {"validate", "consent", "resend"}
  \/ tokenization[s] = "true" /\ (pc[s] \in {"charge", "put"} \/ s \in flow)

\* The reference was given out for the call; no code is sent before the user's
\* consent, and those sent then are not older than the call's time.
RefOK(s) ==
  /\ Links(s) => ref[s] \in Ref /\ linkedBy[ref[s]] = s
  /\ pc[s] \in {"validate", "consent"} => codes[ref[s]] = {}
  /\ issued[s] <= now
  /\ (Links(s) /\ otp[s] = "yes") => \A at \in codes[ref[s]] : issued[s] <= at
  /\ (Links(s) /\ otp[s] = "no") => ~needs[ref[s]]

\* A reference nobody has had no code, a charge nobody made no answer.
Unused ==
  /\ \A r \in Ref : linkedBy[r] = NoStart => codes[r] = {}
  /\ \A o \in Order : chargedBy[o] = NoStart => o \notin denied

CallOK(s) == Stage(s) /\ ChargeOK(s) /\ RefOK(s)

IInv == TypeOK /\ Unused /\ StrayIsUnusable /\ \A s \in Start : CallOK(s)

-----------------------------------------------------------------------------
(* Types.                                                                  *)

LEMMA AttemptsAre ==
  ASSUME NEW s \in Start
  PROVE  /\ Len(Attempts(s)) \in Nat /\ DOMAIN Attempts(s) = 1..Len(Attempts(s))
         /\ 1 \in DOMAIN Attempts(s)
<1>1. CASE QRIS(s)
  BY <1>1 DEF Attempts
<1>2. CASE ~QRIS(s)
  <2>1. Attempts(s) = [i \in 1..ChargeRetryLimit |-> "gopay"]
    BY <1>2 DEF Attempts
  <2>2. ChargeRetryLimit \in Nat /\ 1 \in 1..ChargeRetryLimit
    BY LimitsAssumption
  <2>3. Attempts(s) \in Seq({"gopay"})
    <3>1. Attempts(s) \in [1..ChargeRetryLimit -> {"gopay"}]
      BY <2>1
    <3> QED
      BY <2>2, <3>1, SeqDef
  <2>4. Len(Attempts(s)) = ChargeRetryLimit
    BY <2>1, <2>2, <2>3, LenProperties
  <2> QED
    BY <2>1, <2>2, <2>4
<1> QED
  BY <1>1, <1>2

LEMMA InitTypes == Init => TypeOK
  BY LimitsAssumption, AttemptsAre DEF Init, TypeOK, Labels, Channels

\* Nothing but its start changes what a call's bodies are.
LEMMA AttemptsKept ==
  ASSUME UNCHANGED tokenization, NEW s \in Start
  PROVE  Attempts(s)' = Attempts(s)
  BY DEF Attempts, QRIS

LEMMA StepTypes ==
  ASSUME TypeOK, NEW s \in Start, Stage(s), Handler(s)
  PROVE  TypeOK'
<1> USE DEF TypeOK, Labels, Goto, callVars, linkVars, payVars
<1>0. UNCHANGED tokenization => \A t \in Start : (Attempts(t))' = Attempts(t)
  BY AttemptsKept
<1>1. CASE LoadTransaction(s)
  BY <1>0, <1>1, LimitsAssumption DEF LoadTransaction
<1>2. CASE Linked(s)
  BY <1>0, <1>2, LimitsAssumption DEF Linked, Requests, Grants
<1>3. CASE LinkedUnheard(s)
  BY <1>0, <1>3, LimitsAssumption DEF LinkedUnheard, Requests, Grants
<1>4. CASE NotAcceptable(s)
  <2>1. refused' \in [Start -> 0..(LinkRetryLimit + 1)]
    BY <1>4, LimitsAssumption DEF Stage, NotAcceptable
  <2>2. pc' \in [Start -> Labels] /\ answer' \in [Start -> {"none", "otp", "started", "failed"}]
    BY <1>4 DEF NotAcceptable
  <2>3. linkings' \in [Start -> Nat]
    BY <1>4 DEF NotAcceptable, Requests
  <2>4. UNCHANGED <<tokenization, attempt>> /\ \A t \in Start : attempt'[t] \in (DOMAIN Attempts(t))'
    BY <1>0, <1>4 DEF NotAcceptable
  <2> QED
    BY <1>4, <2>1, <2>2, <2>3, <2>4 DEF NotAcceptable
<1>5. CASE RateLimited(s)
  BY <1>0, <1>5, LimitsAssumption DEF RateLimited, Requests
<1>6. CASE ValidateReference(s)
  BY <1>0, <1>6, LimitsAssumption DEF ValidateReference
<1>7. CASE Consent(s)
  BY <1>0, <1>7, LimitsAssumption DEF Consent, RequiresOTP, SendsCode
<1>8. CASE ConsentUnheard(s)
  <2>1. codes' \in [Ref -> SUBSET (0..MaxTime)]
    BY <1>8 DEF ConsentUnheard, SendsCode
  <2>2. pc' \in [Start -> Labels] /\ answer' \in [Start -> {"none", "otp", "started", "failed"}]
    BY <1>8 DEF ConsentUnheard
  <2> QED
    BY <1>0, <1>8, <2>1, <2>2 DEF ConsentUnheard
<1>9. CASE ResendSMS(s)
  <2>1. codes' \in [Ref -> SUBSET (0..MaxTime)]
    BY <1>9 DEF ResendSMS, SendsCode
  <2>2. pc' \in [Start -> Labels]
    BY <1>9 DEF ResendSMS
  <2> QED
    BY <1>0, <1>9, <2>1, <2>2 DEF ResendSMS
<1>10. CASE Charge(s)
  BY <1>0, <1>10, LimitsAssumption DEF Charge, Makes
<1>11. CASE ChargeDenied(s)
  BY <1>0, <1>11, LimitsAssumption DEF ChargeDenied, Makes
<1>12. CASE ChargeUnreferenced(s)
  BY <1>0, <1>12, LimitsAssumption DEF ChargeUnreferenced, Makes
<1>13. CASE ChargeRefused(s)
  <2>1. chargedBy' \in [Order -> Start \cup {NoStart}] /\ told' \in [Order ->
          {"none", "taken", "denied", "unreferenced", "refused", "unusable", "unheard"}]
    <3>1. CASE \E o \in Order : Makes(s, o, "refused") \/ Makes(s, o, "unusable")
      BY <3>1 DEF Makes
    <3>2. CASE UNCHANGED <<chargedBy, told>>
      BY <3>2
    <3> QED
      BY <1>13, <3>1, <3>2 DEF ChargeRefused
  <2>2. attempt[s] \in DOMAIN Attempts(s) /\ Len(Attempts(s)) \in Nat
        /\ DOMAIN Attempts(s) = 1..Len(Attempts(s))
    BY AttemptsAre
  <2>3. /\ attempt' \in [Start -> Nat]
        /\ \A t \in Start : attempt'[t] \in (DOMAIN Attempts(t))'
    <3>1. UNCHANGED tokenization
      BY <1>13 DEF ChargeRefused
    <3>2. attempt'[s] \in DOMAIN Attempts(s) /\ \A t \in Start : t # s => attempt'[t] = attempt[t]
      BY <1>13, <2>2 DEF ChargeRefused, Again
    <3>3. attempt' \in [Start -> Nat]
      <4>1. attempt' = [attempt EXCEPT ![s] = @ + 1] \/ attempt' = attempt
        BY <1>13 DEF ChargeRefused, Again
      <4> QED
        BY <4>1
    <3>4. \A t \in Start : attempt'[t] \in DOMAIN Attempts(t)
      BY <3>2
    <3> QED
      BY <1>0, <3>1, <3>3, <3>4
  <2>4. pc' \in [Start -> Labels] /\ answer' \in [Start -> {"none", "otp", "started", "failed"}]
    BY <1>13 DEF ChargeRefused, Again
  <2> QED
    BY <1>13, <2>1, <2>3, <2>4 DEF ChargeRefused
<1>14. CASE ChargeUnheard(s)
  BY <1>0, <1>14, LimitsAssumption DEF ChargeUnheard, Makes
<1>15. CASE Put(s)
  BY <1>0, <1>15, LimitsAssumption DEF Put
<1>16. CASE Fails(s)
  BY <1>0, <1>16, LimitsAssumption DEF Fails
<1>17. CASE Close(s)
  BY <1>0, <1>17, LimitsAssumption DEF Close
<1> QED
  BY <1>1, <1>2, <1>3, <1>4, <1>5, <1>6, <1>7, <1>8, <1>9, <1>10, <1>11, <1>12, <1>13, <1>14, <1>15, <1>16, <1>17 DEF Handler
-----------------------------------------------------------------------------
(* The calls among each other.                                             *)

\* Call t finds what it left.
Untouched(t) ==
  /\ pc'[t] = pc[t] /\ tokenization'[t] = tokenization[t] /\ refused'[t] = refused[t]
  /\ ref'[t] = ref[t] /\ issued'[t] = issued[t] /\ otp'[t] = otp[t]
  /\ attempt'[t] = attempt[t] /\ order'[t] = order[t] /\ answer'[t] = answer[t]
  /\ t \in flow' <=> t \in flow

\* What call s may do: touch no other call, take references and charges nobody
\* has, have codes sent for its own reference.
Apart(s) ==
  /\ \A t \in Start \ {s} : Untouched(t)
  /\ UNCHANGED <<needs, now>> /\ UNCHANGED tokenization
  /\ \A r \in Ref :
       /\ linkedBy'[r] = linkedBy[r] \/ (linkedBy[r] = NoStart /\ linkedBy'[r] = s)
       /\ codes'[r] = codes[r] \/ linkedBy[r] = s
  /\ \A o \in Order :
       \/ chargedBy'[o] = chargedBy[o] /\ told'[o] = told[o] /\ (o \in denied' <=> o \in denied)
       \/ /\ chargedBy[o] = NoStart /\ chargedBy'[o] = s
          /\ \/ order'[s] = o
             \/ told'[o] \in {"denied", "refused", "unheard", "unreferenced"}
             \/ told'[o] = "unusable" /\ QRIS(s)
  /\ order'[s] = order[s] \/ order[s] = NoOrder

LEMMA StepApart ==
  ASSUME TypeOK, NEW s \in Start, CallOK(s), Handler(s)
  PROVE  Apart(s)
<1> USE AbsentAssumption DEF TypeOK, Goto, callVars, linkVars, payVars, Apart, Untouched, Grants, Makes
<1>1. CASE LoadTransaction(s)
  BY <1>1 DEF LoadTransaction
<1>2. CASE Linked(s)
  BY <1>2 DEF Linked, Requests
<1>3. CASE LinkedUnheard(s)
  BY <1>3 DEF LinkedUnheard, Requests
<1>4. CASE NotAcceptable(s)
  BY <1>4 DEF NotAcceptable, Requests
<1>5. CASE RateLimited(s)
  BY <1>5 DEF RateLimited, Requests
<1>6. CASE ValidateReference(s)
  BY <1>6 DEF ValidateReference
<1>7. CASE Consent(s)
  <2>1. ref[s] \in Ref /\ linkedBy[ref[s]] = s
    BY <1>7 DEF Consent, CallOK, RefOK, Links
  <2> QED
    BY <1>7, <2>1 DEF Consent, SendsCode
<1>8. CASE ConsentUnheard(s)
  <2>1. ref[s] \in Ref /\ linkedBy[ref[s]] = s
    BY <1>8 DEF ConsentUnheard, CallOK, RefOK, Links
  <2> QED
    BY <1>8, <2>1 DEF ConsentUnheard, SendsCode
<1>9. CASE ResendSMS(s)
  <2>1. ref[s] \in Ref /\ linkedBy[ref[s]] = s
    BY <1>9 DEF ResendSMS, CallOK, RefOK, Links
  <2> QED
    BY <1>9, <2>1 DEF ResendSMS, SendsCode
<1>10. CASE Charge(s)
  <2>1. order[s] = NoOrder
    BY <1>10 DEF Charge, CallOK, ChargeOK
  <2> QED
    BY <1>10, <2>1 DEF Charge
<1>11. CASE ChargeDenied(s)
  BY <1>11 DEF ChargeDenied
<1>12. CASE ChargeUnreferenced(s)
  BY <1>12 DEF ChargeUnreferenced
<1>13. CASE ChargeRefused(s)
  BY <1>13 DEF ChargeRefused, Again, Taken
<1>14. CASE ChargeUnheard(s)
  BY <1>14 DEF ChargeUnheard
<1>15. CASE Put(s)
  BY <1>15 DEF Put
<1>16. CASE Fails(s)
  BY <1>16 DEF Fails
<1>17. CASE Close(s)
  BY <1>17 DEF Close
<1> QED
  BY <1>1, <1>2, <1>3, <1>4, <1>5, <1>6, <1>7, <1>8, <1>9, <1>10, <1>11, <1>12, <1>13, <1>14, <1>15, <1>16, <1>17 DEF Handler

LEMMA OthersOK ==
  ASSUME TypeOK, TypeOK', NEW s \in Start, Apart(s), NEW t \in Start, t # s, CallOK(t)
  PROVE  CallOK(t)'
<1>1. Untouched(t)
  BY DEF Apart
<1>2. Stage(t)'
  BY <1>1 DEF CallOK, Stage, Untouched, Early
<1>3. ChargeOK(t)'
  <2>1. \A o \in Order : chargedBy[o] = t =>
          chargedBy'[o] = t /\ told'[o] = told[o] /\ (o \in denied' <=> o \in denied)
    BY AbsentAssumption DEF Apart
  <2> QED
    BY <1>1, <2>1 DEF CallOK, ChargeOK, Untouched
<1>4. RefOK(t)'
  <2>1. \A r \in Ref : linkedBy[r] = t => linkedBy'[r] = t /\ codes'[r] = codes[r]
    BY AbsentAssumption DEF Apart
  <2>2. Links(t)' <=> Links(t)
    BY <1>1 DEF Links, Untouched
  <2>3. pc[t] \in {"validate", "consent"} => Links(t)
    BY DEF Links
  <2>4. needs' = needs /\ now' = now
    BY DEF Apart
  <2> QED
    BY <1>1, <2>1, <2>2, <2>3, <2>4 DEF CallOK, RefOK, Untouched
<1> QED
  BY <1>2, <1>3, <1>4 DEF CallOK

LEMMA UnusedStays ==
  ASSUME TypeOK, Unused, NEW s \in Start, Apart(s)
  PROVE  Unused'
BY AbsentAssumption DEF Unused, Apart

LEMMA StrayStays ==
  ASSUME TypeOK, StrayIsUnusable, NEW s \in Start, CallOK(s), Apart(s)
  PROVE  StrayIsUnusable'
<1> SUFFICES ASSUME NEW o \in Order, NEW t \in Start, chargedBy'[o] = t
             PROVE  \/ order'[t] = o
                    \/ told'[o] \in {"denied", "refused", "unheard", "unreferenced"}
                    \/ told'[o] = "unusable" /\ QRIS(t)'
  BY DEF StrayIsUnusable
<1>1. QRIS(t)' <=> QRIS(t)
  BY DEF Apart, QRIS
<1>2. CASE chargedBy'[o] = chargedBy[o] /\ told'[o] = told[o]
  <2>1. order[t] = o => order'[t] = o
    BY AbsentAssumption DEF Apart, Untouched
  <2> QED
    BY <1>1, <1>2, <2>1 DEF StrayIsUnusable
<1>3. CASE /\ chargedBy[o] = NoStart /\ chargedBy'[o] = s
           /\ \/ order'[s] = o
              \/ told'[o] \in {"denied", "refused", "unheard", "unreferenced"}
              \/ told'[o] = "unusable" /\ QRIS(s)
  BY <1>1, <1>3
<1> QED
  BY <1>2, <1>3 DEF Apart

-----------------------------------------------------------------------------
(* Each step of a call.                                                    *)

LEMMA StepStage ==
  ASSUME TypeOK, NEW s \in Start, Stage(s), Handler(s)
  PROVE  Stage(s)'
<1> USE LimitsAssumption DEF TypeOK, Labels, Goto, callVars, linkVars, payVars, Stage, Early
<1>1. CASE LoadTransaction(s)
  BY <1>1 DEF LoadTransaction
<1>2. CASE Linked(s)
  BY <1>2 DEF Linked
<1>3. CASE LinkedUnheard(s)
  BY <1>3 DEF LinkedUnheard
<1>4. CASE NotAcceptable(s)
  BY <1>4 DEF NotAcceptable
<1>5. CASE RateLimited(s)
  BY <1>5 DEF RateLimited
<1>6. CASE ValidateReference(s)
  BY <1>6 DEF ValidateReference
<1>7. CASE Consent(s)
  BY <1>7 DEF Consent, RequiresOTP
<1>8. CASE ConsentUnheard(s)
  BY <1>8 DEF ConsentUnheard
<1>9. CASE ResendSMS(s)
  BY <1>9 DEF ResendSMS
<1>10. CASE Charge(s)
  BY <1>10 DEF Charge
<1>11. CASE ChargeDenied(s)
  BY <1>11 DEF ChargeDenied
<1>12. CASE ChargeUnreferenced(s)
  BY <1>12 DEF ChargeUnreferenced
<1>13. CASE ChargeRefused(s)
  BY <1>13 DEF ChargeRefused, Again
<1>14. CASE ChargeUnheard(s)
  BY <1>14 DEF ChargeUnheard
<1>15. CASE Put(s)
  BY <1>15 DEF Put
<1>16. CASE Fails(s)
  BY <1>16 DEF Fails
<1>17. CASE Close(s)
  BY <1>17 DEF Close
<1> QED
  BY <1>1, <1>2, <1>3, <1>4, <1>5, <1>6, <1>7, <1>8, <1>9, <1>10, <1>11, <1>12, <1>13, <1>14, <1>15, <1>16, <1>17 DEF Handler

LEMMA StepCharge ==
  ASSUME TypeOK, Unused, NEW s \in Start, Stage(s), ChargeOK(s), Handler(s)
  PROVE  ChargeOK(s)'
<1> USE AbsentAssumption DEF TypeOK, Labels, Goto, callVars, linkVars, payVars, Stage, ChargeOK, Early
<1>1. CASE LoadTransaction(s)
  BY <1>1 DEF LoadTransaction
<1>2. CASE Linked(s)
  BY <1>2 DEF Linked
<1>3. CASE LinkedUnheard(s)
  BY <1>3 DEF LinkedUnheard
<1>4. CASE NotAcceptable(s)
  BY <1>4 DEF NotAcceptable
<1>5. CASE RateLimited(s)
  BY <1>5 DEF RateLimited
<1>6. CASE ValidateReference(s)
  BY <1>6 DEF ValidateReference
<1>7. CASE Consent(s)
  BY <1>7 DEF Consent
<1>8. CASE ConsentUnheard(s)
  BY <1>8 DEF ConsentUnheard
<1>9. CASE ResendSMS(s)
  BY <1>9 DEF ResendSMS
<1>10. CASE Charge(s)
  BY <1>10 DEF Charge, Makes, Unused
<1>11. CASE ChargeDenied(s)
  BY <1>11 DEF ChargeDenied, Makes, Unused
<1>12. CASE ChargeUnreferenced(s)
  BY <1>12 DEF ChargeUnreferenced, Makes, Unused
<1>13. CASE ChargeRefused(s)
  BY <1>13 DEF ChargeRefused, Makes, Again, Unused
<1>14. CASE ChargeUnheard(s)
  BY <1>14 DEF ChargeUnheard, Makes, Unused
<1>15. CASE Put(s)
  BY <1>15 DEF Put
<1>16. CASE Fails(s)
  BY <1>16 DEF Fails
<1>17. CASE Close(s)
  BY <1>17 DEF Close
<1> QED
  BY <1>1, <1>2, <1>3, <1>4, <1>5, <1>6, <1>7, <1>8, <1>9, <1>10, <1>11, <1>12, <1>13, <1>14, <1>15, <1>16, <1>17 DEF Handler

\* A required code is not read out of an answer that says otherwise.
LEMMA SaysSo ==
  ASSUME NEW x, NEW fields \in SUBSET {x}, NEW b \in RequiresOTP(fields)
  PROVE  b = x \/ b = TRUE
BY Zenon DEF RequiresOTP

LEMMA ConsentSays ==
  ASSUME TypeOK, NEW s \in Start, Consent(s), otp'[s] = "no"
  PROVE  ~needs[ref[s]]
<1>1. PICK fields \in SUBSET {needs[ref[s]]} : \E b \in RequiresOTP(fields) :
        otp' = [otp EXCEPT ![s] = IF b THEN "yes" ELSE "no"]
  BY DEF Consent
<1>2. PICK b \in RequiresOTP(fields) : otp' = [otp EXCEPT ![s] = IF b THEN "yes" ELSE "no"]
  BY <1>1
<1>3. otp'[s] = IF b THEN "yes" ELSE "no"
  BY <1>2 DEF TypeOK
<1>4. ~b
  BY <1>3
<1>5. b = needs[ref[s]] \/ b = TRUE
  BY <1>2, SaysSo
<1> QED
  BY <1>4, <1>5

LEMMA StepRef ==
  ASSUME TypeOK, TypeOK', Unused, NEW s \in Start, Stage(s), RefOK(s), Handler(s)
  PROVE  RefOK(s)'
<1> USE AbsentAssumption DEF TypeOK, Labels, Goto, callVars, linkVars, payVars, Stage, RefOK, Links, Early
<1>1. CASE LoadTransaction(s)
  BY <1>1 DEF LoadTransaction
<1>2. CASE Linked(s)
  BY <1>2 DEF Linked, Grants, Unused
<1>3. CASE LinkedUnheard(s)
  BY <1>3 DEF LinkedUnheard, Grants, Unused
<1>4. CASE NotAcceptable(s)
  BY <1>4 DEF NotAcceptable
<1>5. CASE RateLimited(s)
  BY <1>5 DEF RateLimited
<1>6. CASE ValidateReference(s)
  BY <1>6 DEF ValidateReference
<1>7. CASE Consent(s)
  <2>1. /\ ref[s] \in Ref /\ linkedBy[ref[s]] = s /\ codes[ref[s]] = {}
        /\ tokenization[s] = "true" /\ tokenization' = tokenization
        /\ UNCHANGED <<ref, issued, needs, now, linkedBy>> /\ pc'[s] \notin {"validate", "consent"}
    BY <1>7 DEF Consent
  <2>2. \A at \in codes'[ref[s]] : at = now
    BY <1>7, <2>1 DEF Consent, SendsCode
  <2>3. otp'[s] = "no" => ~needs[ref[s]]
    BY <1>7, ConsentSays
  <2> QED
    BY <2>1, <2>2, <2>3
<1>8. CASE ConsentUnheard(s)
  BY <1>8 DEF ConsentUnheard, SendsCode
<1>9. CASE ResendSMS(s)
  BY <1>9 DEF ResendSMS, SendsCode
<1>10. CASE Charge(s)
  BY <1>10 DEF Charge
<1>11. CASE ChargeDenied(s)
  BY <1>11 DEF ChargeDenied
<1>12. CASE ChargeUnreferenced(s)
  BY <1>12 DEF ChargeUnreferenced
<1>13. CASE ChargeRefused(s)
  BY <1>13 DEF ChargeRefused, Again
<1>14. CASE ChargeUnheard(s)
  BY <1>14 DEF ChargeUnheard
<1>15. CASE Put(s)
  BY <1>15 DEF Put
<1>16. CASE Fails(s)
  BY <1>16 DEF Fails
<1>17. CASE Close(s)
  BY <1>17 DEF Close
<1> QED
  BY <1>1, <1>2, <1>3, <1>4, <1>5, <1>6, <1>7, <1>8, <1>9, <1>10, <1>11, <1>12, <1>13, <1>14, <1>15, <1>16, <1>17 DEF Handler

-----------------------------------------------------------------------------
(* The invariant.                                                          *)

LEMMA InitInv == Init => IInv
<1> SUFFICES ASSUME Init PROVE IInv
  OBVIOUS
<1>1. TypeOK
  BY InitTypes
<1>2. Unused
  BY DEF Init, Unused
<1>3. StrayIsUnusable
  BY AbsentAssumption DEF Init, StrayIsUnusable
<1>4. \A s \in Start : CallOK(s)
  BY AbsentAssumption, LimitsAssumption
  DEF Init, CallOK, Stage, ChargeOK, RefOK, Links, Early
<1> QED
  BY <1>1, <1>2, <1>3, <1>4 DEF IInv

LEMMA HandlerInv ==
  ASSUME IInv, NEW s \in Start, Handler(s)
  PROVE  IInv'
<1>1. TypeOK'
  BY StepTypes DEF IInv, CallOK
<1>2. Apart(s)
  BY StepApart DEF IInv
<1>3. Unused' /\ StrayIsUnusable'
  BY <1>2, UnusedStays, StrayStays DEF IInv
<1>4. CallOK(s)'
  BY <1>1, StepStage, StepCharge, StepRef DEF IInv, CallOK
<1>5. ASSUME NEW t \in Start, t # s PROVE CallOK(t)'
  BY <1>1, <1>2, <1>5, OthersOK DEF IInv
<1> QED
  BY <1>1, <1>3, <1>4, <1>5 DEF IInv

LEMMA StartInv ==
  ASSUME IInv, NEW s \in Start, NEW t \in Tokenizations, StartPayment(s, t)
  PROVE  IInv'
<1> USE DEF StartPayment, Goto, linkVars, payVars
<1>1. TypeOK'
  <2>1. TypeOK /\ tokenization[s] = "none" /\ attempt[s] = 1
    BY DEF IInv, CallOK, Stage
  <2>2. \A u \in Start : attempt'[u] \in (DOMAIN Attempts(u))'
    <3>1. ASSUME NEW u \in Start, u # s PROVE (DOMAIN Attempts(u))' = DOMAIN Attempts(u)
      BY <2>1, <3>1 DEF Attempts, QRIS, TypeOK
    <3>2. 1 \in (DOMAIN Attempts(s))'
      BY LimitsAssumption DEF Attempts
    <3> QED
      BY <2>1, <3>1, <3>2 DEF TypeOK
  <2> QED
    BY <2>1, <2>2 DEF TypeOK, Labels
<1>2. Unused'
  BY DEF IInv, Unused
<1>3. StrayIsUnusable'
  <2>1. ASSUME NEW u \in Start, QRIS(u) PROVE QRIS(u)'
    BY <2>1, TokenizationsAssumption DEF IInv, CallOK, Stage, QRIS, TypeOK
  <2> QED
    BY <2>1 DEF IInv, StrayIsUnusable
<1>4. CallOK(s)'
  BY TokenizationsAssumption DEF IInv, TypeOK, CallOK, Stage, ChargeOK, RefOK, Links, Early
<1>5. ASSUME NEW u \in Start, u # s PROVE CallOK(u)'
  <2>1. CallOK(u) /\ TypeOK
    BY DEF IInv
  <2> QED
    BY <1>5, <2>1 DEF TypeOK, CallOK, Stage, ChargeOK, RefOK, Links
<1> QED
  BY <1>1, <1>2, <1>3, <1>4, <1>5 DEF IInv

LEMMA QuietInv ==
  ASSUME IInv, UNCHANGED <<callVars, linkVars, payVars>>, now' \in 0..MaxTime, now <= now'
  PROVE  IInv'
<1> USE DEF callVars, linkVars, payVars
<1>1. TypeOK' /\ Unused' /\ StrayIsUnusable'
  BY DEF IInv, TypeOK, Attempts, QRIS, Unused, StrayIsUnusable
<1>2. ASSUME NEW u \in Start PROVE CallOK(u)'
  <2>1. CallOK(u) /\ issued[u] \in Nat /\ now \in Nat /\ now' \in Nat
    BY LimitsAssumption DEF IInv, TypeOK
  <2> QED
    BY <2>1 DEF CallOK, Stage, ChargeOK, RefOK, Links
<1> QED
  BY <1>1, <1>2 DEF IInv

LEMMA NextInv == IInv /\ [Next]_vars => IInv'
<1> SUFFICES ASSUME IInv, [Next]_vars PROVE IInv'
  OBVIOUS
<1>1. ASSUME NEW s \in Start, Handler(s) PROVE IInv'
  BY <1>1, HandlerInv
<1>2. ASSUME NEW s \in Start, NEW t \in Tokenizations, StartPayment(s, t) PROVE IInv'
  BY <1>2, StartInv
<1>3. CASE Tick
  <2>1. now' \in 0..MaxTime /\ now <= now'
    BY <1>3, LimitsAssumption DEF Tick, IInv, TypeOK
  <2> QED
    BY <1>3, <2>1, QuietInv DEF Tick
<1>4. CASE UNCHANGED vars
  <2>1. now' \in 0..MaxTime /\ now <= now'
    BY <1>4, LimitsAssumption DEF vars, IInv, TypeOK
  <2> QED
    BY <1>4, <2>1, QuietInv DEF vars
<1> QED
  BY <1>1, <1>2, <1>3, <1>4 DEF Next

LEMMA AlwaysInv == Spec => []IInv
BY InitInv, NextInv, PTL DEF Spec

\* Types, for any number of calls, references and charges and any limits.
THEOREM StartTypes == Spec => []TypeOK
<1>1. IInv => TypeOK
  BY DEF IInv
<1> QED
  BY <1>1, AlwaysInv, PTL

\* What a stored flow says is so at Midtrans and GoPay, however often a request
\* was repeated and whatever was executed without the call hearing of it.
THEOREM FlowsAreBacked == Spec => []FlowIsBacked
<1>1. IInv => FlowIsBacked
  <2> SUFFICES ASSUME IInv, NEW s \in flow
               PROVE  /\ tokenization[s] = "true" => ref[s] \in Ref /\ linkedBy[ref[s]] = s
                      /\ IF otp[s] = "yes"
                         THEN \A at \in codes[ref[s]] : issued[s] <= at
                         ELSE /\ order[s] \in Order \ denied /\ chargedBy[order[s]] = s
                              /\ tokenization[s] = "true" => ~needs[ref[s]]
    BY DEF FlowIsBacked
  <2>1. s \in Start /\ TypeOK /\ CallOK(s)
    BY DEF IInv, TypeOK
  <2> QED
    BY <2>1 DEF TypeOK, CallOK, Stage, ChargeOK, RefOK, Links
<1> QED
  BY <1>1, AlwaysInv, PTL

\* A charge that no flow has was denied, refused, lost or of no use to its call:
\* however many bodies are tried, at most one is taken.
THEOREM StraysAreUnusable == Spec => []StrayIsUnusable
<1>1. IInv => StrayIsUnusable
  BY DEF IInv
<1> QED
  BY <1>1, AlwaysInv, PTL

-----------------------------------------------------------------------------
(* How often Midtrans is asked to link.                                    *)

\* Before a reference is given out a call has none, and each request it made
\* was refused; then it has one, and one request more.
LinkOK(s) ==
  /\ pc[s] \in {"idle", "load", "link", "bypass"} => \A r \in Ref : linkedBy[r] # s
  /\ \A q, r \in Ref : linkedBy[q] = s /\ linkedBy[r] = s => q = r
  /\ pc[s] \in {"idle", "load", "link"} => linkings[s] <= refused[s]
  /\ pc[s] = "bypass" => linkings[s] <= LinkRetryLimit + 1
  /\ linkings[s] <= LinkRetryLimit + 2

LInv == IInv /\ \A s \in Start : LinkOK(s)

LEMMA InitLinks == Init => \A s \in Start : LinkOK(s)
BY AbsentAssumption, LimitsAssumption DEF Init, LinkOK

\* The requests and references of a step are those of its call.
LEMMA StepLinks ==
  ASSUME TypeOK, NEW s \in Start, Stage(s), LinkOK(s), Handler(s)
  PROVE  /\ LinkOK(s)'
         /\ \A t \in Start \ {s} :
              linkings'[t] = linkings[t] /\ \A r \in Ref : linkedBy'[r] = t <=> linkedBy[r] = t
<1> USE AbsentAssumption, LimitsAssumption DEF TypeOK, Goto, callVars, linkVars, payVars, LinkOK
<1>1. CASE LoadTransaction(s)
  BY <1>1 DEF LoadTransaction
<1>2. CASE Linked(s)
  BY <1>2 DEF Linked, Grants, Requests, Stage
<1>3. CASE LinkedUnheard(s)
  BY <1>3 DEF LinkedUnheard, Grants, Requests, Stage
<1>4. CASE NotAcceptable(s)
  BY <1>4 DEF NotAcceptable, Requests, Stage
<1>5. CASE RateLimited(s)
  BY <1>5 DEF RateLimited, Requests, Stage
<1>6. CASE ValidateReference(s)
  BY <1>6 DEF ValidateReference
<1>7. CASE Consent(s)
  BY <1>7 DEF Consent
<1>8. CASE ConsentUnheard(s)
  BY <1>8 DEF ConsentUnheard
<1>9. CASE ResendSMS(s)
  BY <1>9 DEF ResendSMS
<1>10. CASE Charge(s)
  BY <1>10 DEF Charge
<1>11. CASE ChargeDenied(s)
  BY <1>11 DEF ChargeDenied
<1>12. CASE ChargeUnreferenced(s)
  BY <1>12 DEF ChargeUnreferenced
<1>13. CASE ChargeRefused(s)
  BY <1>13 DEF ChargeRefused, Again
<1>14. CASE ChargeUnheard(s)
  BY <1>14 DEF ChargeUnheard
<1>15. CASE Put(s)
  BY <1>15 DEF Put
<1>16. CASE Fails(s)
  BY <1>16 DEF Fails
<1>17. CASE Close(s)
  BY <1>17 DEF Close
<1> QED
  BY <1>1, <1>2, <1>3, <1>4, <1>5, <1>6, <1>7, <1>8, <1>9, <1>10, <1>11, <1>12, <1>13, <1>14, <1>15, <1>16, <1>17 DEF Handler

LEMMA NextLinks == LInv /\ [Next]_vars => LInv'
<1> SUFFICES ASSUME LInv, [Next]_vars PROVE \A t \in Start : LinkOK(t)'
  BY NextInv DEF LInv
<1>0. TypeOK /\ \A t \in Start : Stage(t) /\ LinkOK(t)
  BY DEF LInv, IInv, CallOK
<1>1. ASSUME NEW s \in Start, Handler(s) PROVE \A t \in Start : LinkOK(t)'
  <2>1. LinkOK(s)' /\ Apart(s)
    BY <1>0, <1>1, StepLinks, StepApart DEF LInv, IInv
  <2>2. ASSUME NEW t \in Start, t # s PROVE LinkOK(t)'
    <3>1. Untouched(t)
      BY <2>1, <2>2 DEF Apart
    <3>2. linkings'[t] = linkings[t] /\ \A r \in Ref : linkedBy'[r] = t <=> linkedBy[r] = t
      BY <1>0, <1>1, <2>2, StepLinks
    <3> QED
      BY <1>0, <3>1, <3>2 DEF LinkOK, Untouched
  <2> QED
    BY <2>1, <2>2
<1>2. ASSUME NEW s \in Start, NEW t \in Tokenizations, StartPayment(s, t)
      PROVE \A u \in Start : LinkOK(u)'
  BY <1>0, <1>2 DEF StartPayment, Goto, linkVars, payVars, LinkOK, TypeOK
<1>3. CASE Tick \/ UNCHANGED vars
  BY <1>0, <1>3 DEF Tick, vars, callVars, linkVars, LinkOK
<1> QED
  BY <1>1, <1>2, <1>3 DEF Next

\* Midtrans is asked to link LinkRetryLimit + 2 times at most, whatever is
\* refused or lost, and gives out one reference for a call.
THEOREM LinkingsAreBounded == Spec => []LinkingIsBounded
<1>1. Init => LInv
  BY InitInv, InitLinks DEF LInv
<1>2. LInv => LinkingIsBounded
  <2> SUFFICES ASSUME LInv, NEW s \in Start
               PROVE  /\ linkings[s] <= LinkRetryLimit + 2
                      /\ Cardinality({r \in Ref : linkedBy[r] = s}) <= 1
    BY DEF LinkingIsBounded
  <2>1. LinkOK(s)
    BY DEF LInv
  <2>2. CASE {r \in Ref : linkedBy[r] = s} = {}
    BY <2>1, <2>2, FS_EmptySet DEF LinkOK
  <2>3. CASE {r \in Ref : linkedBy[r] = s} # {}
    <3>1. PICK q \in Ref : linkedBy[q] = s
      BY <2>3
    <3>2. {r \in Ref : linkedBy[r] = s} = {q}
      BY <2>1, <3>1 DEF LinkOK
    <3>3. Cardinality({q}) = 1
      BY FS_Singleton
    <3> QED
      BY <2>1, <3>2, <3>3 DEF LinkOK
  <2> QED
    BY <2>2, <2>3
<1> QED
  BY <1>1, <1>2, NextLinks, PTL DEF Spec

-----------------------------------------------------------------------------
(* The refinement.                                                         *)

\* PaymentFlow's variables after a step of call s.
LEMMA Bars ==
  ASSUME TypeOK, NEW s \in Start, Apart(s), pc[s] # "idle", pc'[s] # "idle"
  PROVE  /\ pcBar' = [pcBar EXCEPT ![s] = Label(s)']
         /\ keptBar' = [keptBar EXCEPT ![s] = Kept(s)']
         /\ closingsBar' = [closingsBar EXCEPT ![s] =
                              IF pc'[s] = "done" /\ answer'[s] = "failed" THEN 1 ELSE 0]
         /\ UNCHANGED <<modeBar, tokenBar, openedBar, opBar, onBar, gaveBar>>
<1>1. \A t \in Start \ {s} : Untouched(t)
  BY DEF Apart
<1>2. pcBar' = [pcBar EXCEPT ![s] = Label(s)']
  BY <1>1 DEF pcBar, Label, Untouched
<1>3. keptBar' = [keptBar EXCEPT ![s] = Kept(s)']
  <2>1. \A t \in Start \ {s} : Kept(t)' = Kept(t)
    BY <1>1 DEF Kept, Untouched
  <2> QED
    BY <2>1 DEF keptBar
<1>4. closingsBar' = [closingsBar EXCEPT ![s] =
                        IF pc'[s] = "done" /\ answer'[s] = "failed" THEN 1 ELSE 0]
  BY <1>1 DEF closingsBar, Untouched
<1>5. modeBar' = modeBar
  BY DEF Apart, modeBar
<1>6. tokenBar' = tokenBar /\ gaveBar' = gaveBar
  BY DEF tokenBar, gaveBar
<1>7. openedBar' = openedBar
  BY <1>1 DEF openedBar, Untouched
<1>8. opBar' = opBar /\ onBar' = onBar
  BY <1>1 DEF opBar, onBar, Untouched
<1> QED
  BY <1>2, <1>3, <1>4, <1>5, <1>6, <1>7, <1>8

\* A step that stores no flow and takes no charge.
LEMMA StoreSame ==
  ASSUME TypeOK, NEW s \in Start, CallOK(s), Apart(s), pc[s] # "done", flow' = flow
  PROVE  stBar' = stBar
<1>1. s \notin flow /\ \A t \in Start \ {s} : Untouched(t)
  BY DEF Apart, CallOK, Stage
<1> QED
  BY <1>1 DEF stBar, Kept, Untouched

LEMMA ChargesSame ==
  ASSUME IInv, NEW s \in Start, Apart(s), order' = order
  PROVE  chargedBar' = chargedBar
<1>1. ASSUME NEW o \in Order, NEW t \in Start, order[t] = o PROVE chargedBy'[o] = chargedBy[o]
  <2>1. chargedBy[o] = t
    BY <1>1 DEF IInv, CallOK, ChargeOK
  <2> QED
    BY <2>1, AbsentAssumption DEF Apart
<1> QED
  BY <1>1 DEF chargedBar

LEMMA QuietStep ==
  ASSUME IInv, NEW s \in Start, Apart(s), pc[s] \notin {"idle", "done"}, pc'[s] \notin {"idle", "done"},
         Label(s)' = Label(s), Kept(s)' = Kept(s), answer' = answer, flow' = flow, order' = order
  PROVE  UNCHANGED Payments!vars
<1>1. TypeOK /\ CallOK(s)
  BY DEF IInv
<1>2. pcBar' = pcBar /\ keptBar' = keptBar /\ closingsBar' = closingsBar
  <2>1. pcBar' = [pcBar EXCEPT ![s] = Label(s)] /\ keptBar' = [keptBar EXCEPT ![s] = Kept(s)]
        /\ closingsBar' = [closingsBar EXCEPT ![s] = 0]
    BY <1>1, Bars
  <2>2. closingsBar[s] = 0
    BY DEF closingsBar
  <2> QED
    BY <2>1, <2>2 DEF pcBar, keptBar, closingsBar
<1>3. UNCHANGED <<modeBar, tokenBar, openedBar, opBar, onBar, gaveBar>>
  BY <1>1, Bars
<1>4. stBar' = stBar /\ chargedBar' = chargedBar
  BY <1>1, StoreSame, ChargesSame
<1> QED
  BY <1>2, <1>3, <1>4 DEF Payments!vars, Payments!flowVars, Payments!callVars, Payments!payVars

LEMMA FailStep ==
  ASSUME IInv, NEW s \in Start, Apart(s), Label(s) \in {"prepare", "charge"}, pc'[s] = "close",
         answer' = [answer EXCEPT ![s] = "failed"], Kept(s)' = Kept(s),
         flow' = flow, order' = order
  PROVE  Payments!Fails(s)
<1>0. pc[s] \notin {"idle", "done"}
  BY DEF Label
<1>1. TypeOK /\ CallOK(s)
  BY DEF IInv
<1>2. keptBar' = keptBar /\ closingsBar' = closingsBar
  BY <1>0, <1>1, Bars DEF keptBar, closingsBar
<1>3. pcBar' = [pcBar EXCEPT ![s] = "close"]
  BY <1>0, <1>1, Bars DEF Label
<1>4. UNCHANGED <<modeBar, tokenBar, openedBar, opBar, onBar, gaveBar>>
  BY <1>0, <1>1, Bars
<1>5. stBar' = stBar /\ chargedBar' = chargedBar
  BY <1>0, <1>1, StoreSame, ChargesSame
<1>6. pcBar[s] \in {"prepare", "charge"} /\ opBar[s] = "start" /\ onBar[s] = s
  BY <1>0 DEF pcBar, opBar, onBar
<1> QED
  BY <1>2, <1>3, <1>4, <1>5, <1>6
  DEF Payments!Fails, Payments!MayFail, Payments!Answer, Payments!Goto, Payments!payVars

LEMMA PrepareStep ==
  ASSUME IInv, NEW s \in Start, Apart(s), Label(s) = "prepare", NEW required \in BOOLEAN,
         Label(s)' = (IF required THEN "put" ELSE "charge"),
         tokenization[s] # "true" => ~required,
         Kept(s)' = [otp |-> required, linked |-> tokenization[s] = "true", charge |-> NoOrder],
         answer' = answer, flow' = flow, order' = order
  PROVE  Payments!Prepare(s)
<1>0. pc[s] \notin {"idle", "done"} /\ pc'[s] \notin {"idle", "done"}
  BY DEF Label
<1>1. TypeOK /\ CallOK(s)
  BY DEF IInv
<1>2. keptBar' = [keptBar EXCEPT ![s] = Kept(s)'] /\ closingsBar' = closingsBar
  BY <1>0, <1>1, Bars DEF closingsBar
<1>3. pcBar' = [pcBar EXCEPT ![s] = IF required THEN "put" ELSE "charge"]
  BY <1>0, <1>1, Bars
<1>4. UNCHANGED <<modeBar, tokenBar, openedBar, opBar, onBar, gaveBar>>
  BY <1>0, <1>1, Bars
<1>5. stBar' = stBar /\ chargedBar' = chargedBar
  BY <1>0, <1>1, StoreSame, ChargesSame
<1>6. pcBar[s] = "prepare" /\ onBar[s] = s
  BY <1>0 DEF pcBar, onBar
<1>7. modeBar[s] = (IF tokenization[s] = "true" THEN "link" ELSE "manual")
  <2>1. tokenization[s] # "none"
    BY <1>0, <1>1, TokenizationsAssumption DEF CallOK, Stage
  <2> QED
    BY <2>1 DEF modeBar, Mode
<1> QED
  BY <1>2, <1>3, <1>4, <1>5, <1>6, <1>7
  DEF Payments!Prepare, Payments!Goto, Payments!flowVars, Payments!payVars

LEMMA ChargeStep ==
  ASSUME IInv, NEW s \in Start, Charge(s), Apart(s)
  PROVE  Payments!Charge(s)
<1>1. TypeOK /\ CallOK(s) /\ pc[s] = "charge" /\ order[s] = NoOrder
  BY DEF IInv, Charge, CallOK, ChargeOK
<1>2. PICK o \in Order : /\ chargedBy[o] = NoStart /\ chargedBy' = [chargedBy EXCEPT ![o] = s]
                         /\ order' = [order EXCEPT ![s] = o]
  BY DEF Charge, Makes
<1>3. /\ pc' = [pc EXCEPT ![s] = "put"] /\ pc'[s] = "put"
      /\ UNCHANGED <<otp, flow, answer>>
  BY <1>1 DEF Charge, Goto, TypeOK
<1>4. closingsBar' = closingsBar
  BY <1>1, <1>3, Bars DEF closingsBar
<1>5. pcBar' = [pcBar EXCEPT ![s] = "put"]
  BY <1>1, <1>3, Bars DEF Label
<1>6. keptBar' = [keptBar EXCEPT ![s].charge = o]
  <2>1. keptBar' = [keptBar EXCEPT ![s] = Kept(s)']
    BY <1>1, <1>3, Bars
  <2>2. Kept(s)' = [Kept(s) EXCEPT !.charge = o]
    BY <1>1, <1>2, <1>3 DEF Kept, TypeOK
  <2> QED
    BY <2>1, <2>2 DEF keptBar
<1>7. UNCHANGED <<modeBar, tokenBar, openedBar, opBar, onBar, gaveBar>>
  BY <1>1, <1>3, Bars
<1>8. stBar' = stBar
  BY <1>1, <1>3, StoreSame
<1>9. chargedBar[o] = NoStart /\ chargedBar' = [chargedBar EXCEPT ![o] = s]
  <2>1. \A t \in Start : order[t] # o
    BY <1>2, AbsentAssumption DEF IInv, CallOK, ChargeOK
  <2>2. ASSUME NEW p \in Order, p # o PROVE chargedBar'[p] = chargedBar[p]
    <3>1. chargedBy'[p] = chargedBy[p] /\ \A t \in Start : order'[t] = p <=> order[t] = p
      BY <1>1, <1>2, <2>2, AbsentAssumption DEF TypeOK
    <3> QED
      BY <3>1 DEF chargedBar
  <2>3. chargedBar'[o] = s
    BY <1>1, <1>2 DEF chargedBar, TypeOK
  <2>4. /\ chargedBar \in [Order -> Start \cup {NoStart}]
        /\ chargedBar' \in [Order -> Start \cup {NoStart}]
    <3>1. chargedBy' \in [Order -> Start \cup {NoStart}]
      BY <1>1, <1>2 DEF TypeOK
    <3> QED
      BY <1>1, <3>1 DEF chargedBar, TypeOK
  <2>5. chargedBar[o] = NoStart
    BY <2>1 DEF chargedBar
  <2> QED
    BY <2>2, <2>3, <2>4, <2>5
<1>10. pcBar[s] = "charge" /\ opBar[s] = "start" /\ onBar[s] = s
  BY <1>1 DEF pcBar, opBar, onBar, Label
<1> QED
  BY <1>2, <1>3, <1>4, <1>5, <1>6, <1>7, <1>8, <1>9, <1>10
  DEF Payments!Charge, Payments!Goto, Payments!flowVars

LEMMA PutStep ==
  ASSUME IInv, NEW s \in Start, Put(s), Apart(s)
  PROVE  Payments!Put(s)
<1>1. TypeOK /\ CallOK(s) /\ pc[s] = "put" /\ s \notin flow
  BY DEF IInv, Put, CallOK, Stage
<1>2. /\ pc'[s] = "done" /\ flow' = flow \cup {s}
      /\ answer' = [answer EXCEPT ![s] = IF otp[s] = "yes" THEN "otp" ELSE "started"]
      /\ UNCHANGED <<otp, order>>
  BY <1>1 DEF Put, Goto, TypeOK
<1>3. Kept(s)' = Kept(s) /\ keptBar[s] = Kept(s) /\ Kept(s).otp = (otp[s] = "yes")
  BY <1>1, <1>2 DEF Kept, keptBar
<1>4. closingsBar' = closingsBar
  <2>1. answer'[s] # "failed"
    BY <1>1, <1>2 DEF TypeOK
  <2> QED
    BY <1>1, <1>2, <2>1, Bars DEF closingsBar
<1>5. pcBar' = [pcBar EXCEPT ![s] = "done"]
  BY <1>1, <1>2, Bars DEF Label
<1>6. keptBar' = keptBar
  BY <1>1, <1>2, <1>3, Bars DEF keptBar
<1>7. UNCHANGED <<modeBar, tokenBar, openedBar, opBar, onBar, gaveBar>>
  BY <1>1, <1>2, Bars
<1>8. stBar' = [stBar EXCEPT ![s] = keptBar[s]]
  <2>1. \A t \in Start \ {s} : Kept(t)' = Kept(t) /\ (t \in flow' <=> t \in flow)
    BY DEF Apart, Untouched, Kept
  <2> QED
    BY <1>2, <1>3, <2>1 DEF stBar
<1>9. chargedBar' = chargedBar
  BY <1>1, <1>2, ChargesSame
<1>10. pcBar[s] = "put" /\ onBar[s] = s
  BY <1>1 DEF pcBar, onBar, Label
<1>11. answer' = [answer EXCEPT ![s] = IF keptBar[s].otp THEN "otp" ELSE "started"]
  BY <1>2, <1>3
<1> QED
  BY <1>2, <1>4, <1>5, <1>6, <1>7, <1>8, <1>9, <1>10, <1>11
  DEF Payments!Put, Payments!Answer, Payments!Goto, Payments!payVars

LEMMA CloseStep ==
  ASSUME IInv, NEW s \in Start, Close(s), Apart(s)
  PROVE  Payments!Close(s)
<1>1. TypeOK /\ CallOK(s) /\ pc[s] = "close" /\ answer[s] = "failed" /\ s \notin flow
  BY DEF IInv, Close, CallOK, Stage
<1>2. pc'[s] = "done" /\ UNCHANGED <<answer, flow, otp, order>>
  BY <1>1 DEF Close, Goto, TypeOK
<1>3. Kept(s)' = Kept(s)
  BY <1>1, <1>2 DEF Kept
<1>4. closingsBar' = [closingsBar EXCEPT ![s] = @ + 1]
  BY <1>1, <1>2, Bars DEF closingsBar
<1>5. pcBar' = [pcBar EXCEPT ![s] = "done"]
  BY <1>1, <1>2, Bars DEF Label
<1>6. keptBar' = keptBar
  BY <1>1, <1>2, <1>3, Bars DEF keptBar
<1>7. UNCHANGED <<modeBar, tokenBar, openedBar, opBar, onBar, gaveBar>>
  BY <1>1, <1>2, Bars
<1>8. stBar' = stBar /\ chargedBar' = chargedBar
  BY <1>1, <1>2, StoreSame, ChargesSame
<1>9. pcBar[s] = "close" /\ onBar[s] = s
  BY <1>1 DEF pcBar, onBar, Label
<1> QED
  BY <1>2, <1>4, <1>5, <1>6, <1>7, <1>8, <1>9
  DEF Payments!Close, Payments!Goto, Payments!payVars

\* A handler's step is one of PaymentFlow's, or none.
LEMMA HandlerRefines ==
  ASSUME IInv, NEW s \in Start, Handler(s)
  PROVE  Payments!Handler(s) \/ UNCHANGED Payments!vars
<1>0. TypeOK /\ CallOK(s) /\ Stage(s) /\ ChargeOK(s) /\ Apart(s)
  BY StepApart DEF IInv, CallOK
<1>1. CASE LoadTransaction(s)
  <2>1. CASE tokenization[s] = "true"
    <3>1. /\ Label(s)' = Label(s) /\ Kept(s)' = Kept(s) /\ pc[s] = "load" /\ pc'[s] = "link"
          /\ UNCHANGED <<answer, flow, order>>
      BY <1>0, <1>1, <2>1 DEF LoadTransaction, Goto, TypeOK, Stage, Early, Label, Kept
    <3> QED
      BY <1>0, <3>1, QuietStep
  <2>2. CASE tokenization[s] # "true"
    <3>1. /\ Label(s) = "prepare" /\ Label(s)' = "charge" /\ UNCHANGED <<answer, flow, order>>
          /\ Kept(s)' = [otp |-> FALSE, linked |-> FALSE, charge |-> NoOrder]
      BY <1>0, <1>1, <2>2 DEF LoadTransaction, Goto, TypeOK, Stage, ChargeOK, Early, Label, Kept
    <3> QED
      BY <1>0, <2>2, <3>1, PrepareStep DEF Payments!Handler
  <2> QED
    BY <2>1, <2>2
<1>2. CASE Linked(s)
  <2>1. /\ Label(s)' = Label(s) /\ Kept(s)' = Kept(s) /\ pc[s] \notin {"idle", "done"}
        /\ pc'[s] \notin {"idle", "done"} /\ UNCHANGED <<answer, flow, order>>
    BY <1>0, <1>2 DEF Linked, Goto, TypeOK, Stage, Early, Label, Kept
  <2> QED
    BY <1>0, <2>1, QuietStep
<1>3. CASE LinkedUnheard(s)
  <2>1. /\ Label(s) \in {"prepare", "charge"} /\ pc'[s] = "close" /\ Kept(s)' = Kept(s)
        /\ answer' = [answer EXCEPT ![s] = "failed"] /\ UNCHANGED <<flow, order>>
    BY <1>0, <1>3 DEF LinkedUnheard, Goto, TypeOK, Stage, Early, Label, Kept
  <2> QED
    BY <1>0, <2>1, FailStep DEF Payments!Handler
<1>4. CASE NotAcceptable(s)
  <2>1. CASE UNCHANGED <<pc, answer>>
    <3>1. /\ Label(s)' = Label(s) /\ Kept(s)' = Kept(s) /\ pc[s] = "link" /\ pc'[s] = "link"
          /\ UNCHANGED <<answer, flow, order>>
      BY <1>0, <1>4, <2>1 DEF NotAcceptable, Label, Kept
    <3> QED
      BY <1>0, <3>1, QuietStep
  <2>2. CASE answer' = [answer EXCEPT ![s] = "failed"] /\ Goto(s, "close")
    <3>1. /\ Label(s) \in {"prepare", "charge"} /\ pc'[s] = "close" /\ Kept(s)' = Kept(s)
          /\ UNCHANGED <<flow, order>>
      BY <1>0, <1>4, <2>2 DEF NotAcceptable, Goto, TypeOK, Label, Kept
    <3> QED
      BY <1>0, <2>2, <3>1, FailStep DEF Payments!Handler
  <2> QED
    BY <1>4, <2>1, <2>2 DEF NotAcceptable
<1>5. CASE RateLimited(s)
  <2>1. /\ Label(s)' = Label(s) /\ Kept(s)' = Kept(s) /\ pc[s] \notin {"idle", "done"}
        /\ pc'[s] \notin {"idle", "done"} /\ UNCHANGED <<answer, flow, order>>
    BY <1>0, <1>5 DEF RateLimited, Goto, TypeOK, Stage, Early, Label, Kept
  <2> QED
    BY <1>0, <2>1, QuietStep
<1>6. CASE ValidateReference(s)
  <2>1. /\ Label(s)' = Label(s) /\ Kept(s)' = Kept(s) /\ pc[s] \notin {"idle", "done"}
        /\ pc'[s] \notin {"idle", "done"} /\ UNCHANGED <<answer, flow, order>>
    BY <1>0, <1>6 DEF ValidateReference, Goto, TypeOK, Stage, Early, Label, Kept
  <2> QED
    BY <1>0, <2>1, QuietStep
<1>7. CASE Consent(s)
  <2>1. /\ pc[s] = "consent" /\ tokenization[s] = "true" /\ order[s] = NoOrder
        /\ UNCHANGED <<answer, flow, order>> /\ otp[s] = "unknown"
    BY <1>0, <1>7 DEF Consent, Stage, ChargeOK, Early
  <2>2. PICK b : /\ otp' = [otp EXCEPT ![s] = IF b THEN "yes" ELSE "no"]
                 /\ pc' = [pc EXCEPT ![s] = CASE b /\ channel[s] = "sms" -> "resend"
                                              [] b /\ channel[s] # "sms" -> "put"
                                              [] OTHER -> "charge"]
    <3>1. PICK fields \in SUBSET {needs[ref[s]]} : \E b \in RequiresOTP(fields) :
            /\ otp' = [otp EXCEPT ![s] = IF b THEN "yes" ELSE "no"]
            /\ pc' = [pc EXCEPT ![s] = CASE b /\ channel[s] = "sms" -> "resend"
                                         [] b /\ channel[s] # "sms" -> "put"
                                         [] OTHER -> "charge"]
      BY <1>7 DEF Consent, Goto
    <3> QED
      BY <3>1
  <2>3. CASE b /\ channel[s] = "sms"
    <3>1. Label(s)' = Label(s) /\ Kept(s)' = Kept(s) /\ pc'[s] = "resend"
      BY <1>0, <2>1, <2>2, <2>3 DEF TypeOK, Label, Kept
    <3> QED
      BY <1>0, <2>1, <3>1, QuietStep
  <2>4. CASE b /\ channel[s] # "sms"
    <3>1. /\ Label(s) = "prepare" /\ Label(s)' = "put"
          /\ Kept(s)' = [otp |-> TRUE, linked |-> TRUE, charge |-> NoOrder]
      BY <1>0, <2>1, <2>2, <2>4 DEF TypeOK, Label, Kept
    <3> QED
      BY <1>0, <2>1, <3>1, PrepareStep DEF Payments!Handler
  <2>5. CASE ~b
    <3>1. /\ Label(s) = "prepare" /\ Label(s)' = "charge"
          /\ Kept(s)' = [otp |-> FALSE, linked |-> TRUE, charge |-> NoOrder]
      BY <1>0, <2>1, <2>2, <2>5 DEF TypeOK, Label, Kept
    <3> QED
      BY <1>0, <2>1, <3>1, PrepareStep DEF Payments!Handler
  <2> QED
    BY <2>3, <2>4, <2>5
<1>8. CASE ConsentUnheard(s)
  <2>1. /\ Label(s) \in {"prepare", "charge"} /\ pc'[s] = "close" /\ Kept(s)' = Kept(s)
        /\ answer' = [answer EXCEPT ![s] = "failed"] /\ UNCHANGED <<flow, order>>
    BY <1>0, <1>8 DEF ConsentUnheard, Goto, TypeOK, Stage, Early, Label, Kept
  <2> QED
    BY <1>0, <2>1, FailStep DEF Payments!Handler
<1>9. CASE ResendSMS(s)
  <2>1. /\ Label(s) = "prepare" /\ Label(s)' = "put" /\ tokenization[s] = "true"
        /\ Kept(s)' = [otp |-> TRUE, linked |-> TRUE, charge |-> NoOrder]
        /\ UNCHANGED <<answer, flow, order>>
    BY <1>0, <1>9 DEF ResendSMS, Goto, TypeOK, Stage, ChargeOK, Label, Kept
  <2> QED
    BY <1>0, <2>1, PrepareStep DEF Payments!Handler
<1>10. CASE Charge(s)
  BY <1>0, <1>10, ChargeStep DEF Payments!Handler
<1>11. CASE ChargeDenied(s)
  <2>1. /\ Label(s) \in {"prepare", "charge"} /\ pc'[s] = "close" /\ Kept(s)' = Kept(s)
        /\ answer' = [answer EXCEPT ![s] = "failed"] /\ UNCHANGED <<flow, order>>
    BY <1>0, <1>11 DEF ChargeDenied, Goto, TypeOK, Stage, Early, Label, Kept
  <2> QED
    BY <1>0, <2>1, FailStep DEF Payments!Handler
<1>12. CASE ChargeUnreferenced(s)
  <2>1. /\ Label(s) \in {"prepare", "charge"} /\ pc'[s] = "close" /\ Kept(s)' = Kept(s)
        /\ answer' = [answer EXCEPT ![s] = "failed"] /\ UNCHANGED <<flow, order>>
    BY <1>0, <1>12 DEF ChargeUnreferenced, Goto, TypeOK, Stage, Early, Label, Kept
  <2> QED
    BY <1>0, <2>1, FailStep DEF Payments!Handler
<1>13. CASE ChargeRefused(s)
  <2>1. CASE UNCHANGED <<pc, answer>>
    <3>1. /\ Label(s)' = Label(s) /\ Kept(s)' = Kept(s) /\ pc[s] = "charge" /\ pc'[s] = "charge"
          /\ UNCHANGED <<answer, flow, order>>
      BY <1>0, <1>13, <2>1 DEF ChargeRefused, Label, Kept
    <3> QED
      BY <1>0, <3>1, QuietStep
  <2>2. CASE answer' = [answer EXCEPT ![s] = "failed"] /\ Goto(s, "close")
    <3>1. /\ Label(s) \in {"prepare", "charge"} /\ pc'[s] = "close" /\ Kept(s)' = Kept(s)
          /\ UNCHANGED <<flow, order>>
      BY <1>0, <1>13, <2>2 DEF ChargeRefused, Goto, TypeOK, Label, Kept
    <3> QED
      BY <1>0, <2>2, <3>1, FailStep DEF Payments!Handler
  <2> QED
    BY <1>13, <2>1, <2>2 DEF ChargeRefused, Again
<1>14. CASE ChargeUnheard(s)
  <2>1. /\ Label(s) \in {"prepare", "charge"} /\ pc'[s] = "close" /\ Kept(s)' = Kept(s)
        /\ answer' = [answer EXCEPT ![s] = "failed"] /\ UNCHANGED <<flow, order>>
    BY <1>0, <1>14 DEF ChargeUnheard, Goto, TypeOK, Stage, Early, Label, Kept
  <2> QED
    BY <1>0, <2>1, FailStep DEF Payments!Handler
<1>15. CASE Put(s)
  BY <1>0, <1>15, PutStep DEF Payments!Handler
<1>16. CASE Fails(s)
  <2>1. /\ Label(s) \in {"prepare", "charge"} /\ pc'[s] = "close" /\ Kept(s)' = Kept(s)
        /\ answer' = [answer EXCEPT ![s] = "failed"] /\ UNCHANGED <<flow, order>>
    BY <1>0, <1>16 DEF Fails, Goto, TypeOK, Stage, Early, Label, Kept
  <2> QED
    BY <1>0, <2>1, FailStep DEF Payments!Handler
<1>17. CASE Close(s)
  BY <1>0, <1>17, CloseStep DEF Payments!Handler
<1> QED
  BY <1>1, <1>2, <1>3, <1>4, <1>5, <1>6, <1>7, <1>8, <1>9, <1>10, <1>11, <1>12, <1>13, <1>14, <1>15, <1>16, <1>17 DEF Handler

LEMMA StartRefines ==
  ASSUME IInv, NEW s \in Start, NEW t \in Tokenizations, StartPayment(s, t)
  PROVE  \E m \in {"link", "manual"} : Payments!StartPayment(s, s, m)
<1>1. /\ TypeOK /\ pc[s] = "idle" /\ tokenization[s] = "none" /\ s \notin flow
  BY DEF IInv, CallOK, Stage, StartPayment
<1>2. /\ pc' = [pc EXCEPT ![s] = "load"] /\ tokenization' = [tokenization EXCEPT ![s] = t]
      /\ UNCHANGED <<otp, order, flow, answer, chargedBy>>
  BY DEF StartPayment, Goto, payVars
<1>3. pcBar[s] = "idle" /\ pcBar' = [pcBar EXCEPT ![s] = "prepare"]
  BY <1>1, <1>2 DEF pcBar, Label, TypeOK
<1>4. modeBar[s] = "none" /\ modeBar' = [modeBar EXCEPT ![s] = Mode(t)]
  BY <1>1, <1>2 DEF modeBar, Mode, TypeOK
<1>5. openedBar' = openedBar \cup {s}
  BY <1>1, <1>2 DEF openedBar, TypeOK
<1>6. opBar' = [opBar EXCEPT ![s] = "start"] /\ onBar' = [onBar EXCEPT ![s] = s]
  BY <1>1, <1>2 DEF opBar, onBar, TypeOK
<1>7. keptBar' = keptBar /\ stBar' = stBar
  <2>1. \A u \in Start : Kept(u)' = Kept(u)
    BY <1>1, <1>2 DEF Kept, TypeOK
  <2> QED
    BY <1>2, <2>1 DEF keptBar, stBar
<1>8. closingsBar' = closingsBar
  BY <1>1, <1>2 DEF closingsBar, TypeOK
<1>9. UNCHANGED <<tokenBar, gaveBar, chargedBar>>
  BY <1>2 DEF tokenBar, gaveBar, chargedBar
<1>10. Mode(t) \in {"link", "manual"}
  BY TokenizationsAssumption DEF Mode
<1>11. Payments!StartPayment(s, s, Mode(t))
  BY <1>2, <1>3, <1>4, <1>5, <1>6, <1>7, <1>8, <1>9
  DEF Payments!StartPayment, Payments!Goto, Payments!payVars
<1> QED
  BY <1>10, <1>11

LEMMA IdleRefines ==
  ASSUME UNCHANGED callVars, UNCHANGED payVars
  PROVE  UNCHANGED Payments!vars
<1>1. /\ UNCHANGED <<pcBar, modeBar, tokenBar, openedBar>>
      /\ UNCHANGED <<opBar, onBar, gaveBar, keptBar, stBar, closingsBar, chargedBar>>
  BY DEF callVars, payVars, pcBar, modeBar, tokenBar, openedBar, opBar, onBar, gaveBar, keptBar,
         stBar, closingsBar, chargedBar, Label, Kept
<1> QED
  BY <1>1 DEF callVars, Payments!vars, Payments!flowVars, Payments!callVars, Payments!payVars

LEMMA InitRefines == Init => Payments!Init
<1> SUFFICES ASSUME Init PROVE Payments!Init
  OBVIOUS
<1>1. stBar = [f \in Start |-> NothingKept] /\ keptBar = [f \in Start |-> NothingKept]
  BY DEF Init, stBar, keptBar, Kept, NothingKept
<1>2. modeBar = [f \in Start |-> "none"] /\ tokenBar \in [Start -> {"snap_token"}]
  BY DEF Init, modeBar, tokenBar, Mode
<1>3. openedBar = {} /\ closingsBar = [f \in Start |-> 0]
  BY DEF Init, openedBar, closingsBar
<1>4. pcBar = [c \in Start |-> "idle"] /\ opBar = [c \in Start |-> "none"]
  BY DEF Init, pcBar, opBar, Label
<1>5. onBar = [c \in Start |-> NoStart] /\ gaveBar = [c \in Start |-> FALSE]
  BY DEF Init, onBar, gaveBar
<1>6. chargedBar = [r \in Order |-> NoStart]
  BY DEF Init, chargedBar
<1> QED
  BY <1>1, <1>2, <1>3, <1>4, <1>5, <1>6 DEF Init, Payments!Init, Payments!NoState, NothingKept

LEMMA StepRefines == IInv /\ [Next]_vars => [Payments!Next]_Payments!vars
<1> SUFFICES ASSUME IInv, [Next]_vars PROVE [Payments!Next]_Payments!vars
  OBVIOUS
<1>1. ASSUME NEW s \in Start, Handler(s) PROVE [Payments!Next]_Payments!vars
  BY <1>1, HandlerRefines DEF Payments!Next
<1>2. ASSUME NEW s \in Start, NEW t \in Tokenizations, StartPayment(s, t)
      PROVE [Payments!Next]_Payments!vars
  BY <1>2, StartRefines DEF Payments!Next, Payments!Caller
<1>3. CASE Tick \/ UNCHANGED vars
  BY <1>3, IdleRefines DEF Tick, vars
<1> QED
  BY <1>1, <1>2, <1>3 DEF Next

\* A start is what PaymentFlow takes it to be: a preparation, at most one charge
\* that counts and one flow, for any calls, limits, refusals and lost answers.
THEOREM StartsImplement == Spec => StartImplements
<1>1. Init => Payments!Init
  BY InitRefines
<1>2. IInv /\ [Next]_vars => [Payments!Next]_Payments!vars
  BY StepRefines
<1> QED
  BY <1>1, <1>2, AlwaysInv, PTL DEF Spec, StartImplements, Payments!Spec
=============================================================================
