---------------------------- MODULE AccountMoves ----------------------------
(***************************************************************************)
(* Changing an account's number, deactivating the account that was moved   *)
(* away, unlinking, and the calls that only use a token                    *)
(* (appsvc/change_phone*.go, deactivate.go, operations_*.go,               *)
(* rpc_status.go) on the worlds of AccountState.                           *)
(***************************************************************************)
EXTENDS AccountSignup

\* A number takes two changes; more is PHONE_EXHAUSTED.
MaxUsage == 2

\* Mutant: the token is put aside when the change starts.
StoreChangeMigrating(w, q) ==
  {Returns(With(w, migrateActiveTokensToTmp(
     [w.s EXCEPT !.change = [phone |-> q, acct |-> w.s.token.acct],
                 !.stage = "change_phone_otp_pending"])), "sent")}

storeChangePhoneOTPState(w, q) ==
  {Returns(With(w, [w.s EXCEPT !.change = [phone |-> q, acct |-> w.s.token.acct],
                               !.stage = "change_phone_otp_pending"]), "sent")}

\* The profile is read where GoPay shows it, and its fields kept.
loadGojekProfile(w) == {w} \cup syncProfileFields(w)

changePhoneStart(w, q) ==
  LET Request(v) ==
        Refused(v) \cup
        When(LiveToken(v.g, v.s.token) /\ ~Registered(v.g, q),
             storeChangePhoneOTPState(v, q))
      Profile(v) == UNION {Request(u) : u \in loadGojekProfile(v)}
  IN  IF ~tokenUsable(w.s.token) \/ q = NoPhone THEN Refused(w)
      ELSE IF w.s.usage[q] >= MaxUsage THEN Refused(w)
      ELSE Then(Then(resolveGoPayAccountPin(w), "ok", clientForState), "ok", Profile)

changePhoneRetry(w) ==
  LET Retry(v) ==
        Refused(v) \cup
        {Returns(With(v, [v.s EXCEPT !.stage = "change_phone_otp_pending"]), "sent")}
  IN  IF w.s.change = NoChange THEN Refused(w)
      ELSE Then(clientForState(w), "ok", Retry)

\* GoPay moves the account its code was sent for, once.
Move(w) ==
  LET c == w.s.change
  IN  [w EXCEPT !.g.owner = [p \in Phone |->
                   IF p = c.phone THEN c.acct
                   ELSE IF @[p] = c.acct THEN NoAccount ELSE @[p]],
                !.g.moved = @ \cup {c.acct}]

\* The profile is polled until it names the new number or time is up.
confirmChangePhone(w) == Refused(w) \cup {w}

\* Neither the stage nor the code's window is looked at.
changePhoneComplete(w) ==
  LET Confirmed(v) ==
        LET q == v.s.change.phone
            s == [v.s EXCEPT !.phone = q, !.usage[q] = @ + 1,
                             !.stage = "phone_changed", !.change = NoChange]
        IN  {Returns(With(v, migrateActiveTokensToTmp(s)), "done")}
      Post(v) ==
        Refused(v) \cup
        When(/\ LiveToken(v.g, v.s.token) /\ v.s.token.acct = v.s.change.acct
             /\ ~Registered(v.g, v.s.change.phone),
             Then(confirmChangePhone(Move(v)), "ok", Confirmed))
  IN  IF w.s.change = NoChange THEN Refused(w)
      ELSE Then(clientForState(w), "ok", Post)

-----------------------------------------------------------------------------
deactivationCheckReady(w) == Refused(w) \cup {w}

deactivateStart(w) ==
  LET Sent(v) ==
        {Returns(With(v, [v.s EXCEPT !.stage = "deactivate_otp_pending"]), "sent")}
      Check(v) == Then(deactivationCheckReady(v), "ok", Sent)
  IN  IF ~tmpTokenUsable(w.s) THEN Refused(w)
      ELSE Then(tmpClientForState(w), "ok", Check)

\* Mutant: without a token kept aside the account in use is deactivated.
DeactivateActive(w) ==
  LET a == IF w.s.tmp.acct # NoAccount THEN w.s.tmp.acct ELSE w.s.token.acct
      s == [clearTmpTokens(w.s) EXCEPT !.gone = TRUE, !.stage = "deactivated"]
  IN  Refused(w) \cup
      When(NumberOf(w.g, a) # {},
           {Returns(With([w EXCEPT !.g.owner = [p \in Phone |->
                       IF @[p] = a THEN NoAccount ELSE @[p]]], s), "done")})

\* The stage is not looked at: what counts is the token kept aside.
deactivateComplete(w) ==
  LET Post(v) ==
        LET a == v.s.tmp.acct
            s == [clearTmpTokens(v.s) EXCEPT !.gone = TRUE, !.stage = "deactivated"]
        IN  Refused(v) \cup
            When(NumberOf(v.g, a) # {},
                 {Returns(With([v EXCEPT !.g.owner = [p \in Phone |->
                             IF @[p] = a THEN NoAccount ELSE @[p]]], s), "done")})
  IN  Then(tmpClientForState(w), "ok", Post)

CheckDeactivation(w) == {Returns(w, IF w.s.gone THEN "completed" ELSE "fail")}

-----------------------------------------------------------------------------
\* Every linked service that can be is unlinked; one failure fails the call.
unlink(w) ==
  LET Services(v) ==
        Refused(v) \cup {Returns(With(v, [v.s EXCEPT !.stage = "consumed"]), "done")}
  IN  Then(clientForState(w), "ok", Services)

UseToken(w) ==
  LET Request(v) == Refused(v) \cup When(LiveToken(v.g, v.s.token), {Returns(v, "done")})
  IN  Then(clientForState(w), "ok", Request)
getQrID(w) == IF w.s.token.acct = NoAccount THEN Refused(w) ELSE UseToken(w)
claimEnvelope(w) == Refused(w) \cup UseToken(w)

\* A status of a ready account renews its token, whatever comes of it.
Status(w0) ==
  LET w == Expired(w0)
  IN  IF w.s.stage = "ready" THEN {Returns(v, "done") : v \in ensureAccessToken(w)}
      ELSE {Returns(w, "done")}

GetReadyAccountToken(w) ==
  LET Hand(v) ==
        IF v.s.stage = "ready" /\ tokenUsable(v.s.token) /\ HasMin(v)
          THEN {Returns(v, "ready")} ELSE Refused(v)
  IN  IF w.s.stage = "ready" THEN Then(checkTokenValid(w), "valid", Hand)
      ELSE Refused(w)
=============================================================================
