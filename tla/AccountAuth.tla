---------------------------- MODULE AccountAuth -----------------------------
(***************************************************************************)
(* An account's state and its owner's calls, in any order.                 *)
(*                                                                         *)
(* The caller holds the state (st) and makes one call at a time on it;     *)
(* GoPay's state (gopay) is changed by the calls alone.  Callers are not   *)
(* assumed to follow a protocol: every RPC may be made at every stage,     *)
(* which is all the service can rely on.  Calls on stale copies of the     *)
(* state are the subject of AccountJobs and AccountRecords.                *)
(***************************************************************************)
EXTENDS AccountMoves

\* Callers of the service, each with the RPCs it uses (ops) and what may end
\* while it does (wanes: windows, "token", "tmp").
CONSTANT Callers

VARIABLES
  caller,   \* the one at work
  st,       \* the account's state, as last answered
  gopay,    \* owner, pinned, born, moved: see AccountState
  answer    \* of the last call: the RPC, if it said "ready", and what it did

vars == <<caller, st, gopay, answer>>

Silent == [ready |-> "none", seen |-> {}]

\* Numbers may have accounts from before, which may have a PIN.
Init ==
  /\ caller \in Callers
  /\ st = EmptyState
  /\ \E owner \in [Phone -> MaybeAccount] :
       LET old == {owner[p] : p \in Phone} \ {NoAccount} IN
       /\ \A p, q \in Phone : owner[p] = owner[q] /\ owner[p] # NoAccount => p = q
       /\ \E pinned \in SUBSET old :
            gopay = [owner |-> owner, pinned |-> pinned, born |-> old,
                     moved |-> {}]
  /\ answer = Silent

-----------------------------------------------------------------------------
(* AuthStart: a token that is good, the pending code, a login, or a signup *)
(* where there is no account.                                              *)

AuthStart(w0, p) ==
  LET w == Expired(w0)
      stage == w.s.stage
      Judged(v) == {Returns(v, "ready")}
      Pin(v) == {Returns([v EXCEPT !.s.stage = stage],
                   IF ~tokenCheckValid(v) THEN "fail"
                   ELSE IF stage = "signup_pin_otp_pending" THEN "sent" ELSE "pin_required")}
      Ready(v) == Then(checkTokenValid(v), "valid", Judged)
      SignUp(v) == startSignup(v, p, FALSE)
      Start(v) ==
        CASE stage \in {"login_otp_pending", "signup_otp_pending"} -> {Returns(v, "sent")}
          [] p = NoPhone -> Refused(v)
          [] OTHER -> Then(Then(startLogin(v, p), "ready", Ready), "unregistered", SignUp)
  IN  IF stage \in {"signup_pin_required", "signup_pin_otp_pending"}
        THEN UNION {Pin(v) : v \in checkTokenValid(w)}
        ELSE UNION {IF tokenCheckValid(v) THEN Judged(v) ELSE Start(v) :
                      v \in checkTokenValid(w)}

AuthComplete(w0) ==
  LET w == Expired(w0)
      stage == w.s.stage
      Judged(v) == {Returns(v, "ready")}
  IN  CASE stage = "ready" /\ tokenUsable(w.s.token) ->
             Then(checkTokenValid(w), "valid", Judged)
        [] stage = "login_otp_pending" -> completeLogin(w)
        [] stage = "signup_otp_pending" -> completeSignup(w)
        [] stage = "signup_pin_otp_pending" -> completeSignupPIN(w)
        [] OTHER -> Refused(w)

CheckTokenValid(w) == checkTokenValid(w)

-----------------------------------------------------------------------------
Now == World(st, gopay)

\* A call of an RPC that may end in each of the worlds W.
Call(op, W) ==
  /\ op \in caller.ops
  /\ \E w \in W :
       /\ st' = w.s
       /\ gopay' = w.g
       /\ answer' = IF w.res = "ready" THEN [ready |-> op, seen |-> w.seen]
                    ELSE [ready |-> "none", seen |-> w.seen \ {"verified"}]
  /\ UNCHANGED caller

\* Time passes between calls: a window closes, a token ages.
Pass ==
  /\ \/ \E x \in st.open \cap caller.wanes : st' = [st EXCEPT !.open = @ \ {x}]
     \/ "token" \in caller.wanes /\ st.token.life > 0 /\ st' = [st EXCEPT !.token.life = @ - 1]
     \/ "tmp" \in caller.wanes /\ st.tmp.life > 0 /\ st' = [st EXCEPT !.tmp.life = @ - 1]
  /\ answer' = Silent
  /\ UNCHANGED <<caller, gopay>>

CallLoginStart ==
  \E p \in MaybePhone : Call("LoginStart", LoginStart(Now, p))
CallLoginComplete == Call("LoginComplete", LoginComplete(Now))
CallAuthStart ==
  \E p \in MaybePhone : Call("AuthStart", AuthStart(Now, p))
CallAuthComplete == Call("AuthComplete", AuthComplete(Now))
CallCheckTokenValid == Call("CheckTokenValid", CheckTokenValid(Now))
CallCheckPhone == \E p \in Phone : Call("CheckPhone", CheckPhone(Now, p))
CallSignupStart ==
  \E p \in MaybePhone, skip \in BOOLEAN :
    Call("SignupStart", SignupStart(Now, p, skip))
CallSignupRetry == Call("SignupRetry", SignupRetry(Now))
CallSignupComplete == Call("SignupComplete", SignupComplete(Now))
CallCreatePinStart == Call("CreatePinStart", CreatePinStart(Now))
CallCreatePinRetry == Call("CreatePinRetry", CreatePinRetry(Now))
CallCreatePinComplete == Call("CreatePinComplete", CreatePinComplete(Now))
CallChangePhoneStart ==
  \E q \in MaybePhone : Call("ChangePhoneStart", changePhoneStart(Now, q))
CallChangePhoneRetry == Call("ChangePhoneRetry", changePhoneRetry(Now))
CallChangePhoneComplete == Call("ChangePhoneComplete", changePhoneComplete(Now))
CallDeactivateStart == Call("DeactivateStart", deactivateStart(Now))
CallDeactivateComplete == Call("DeactivateComplete", deactivateComplete(Now))
CallCheckDeactivation == Call("CheckDeactivation", CheckDeactivation(Now))
CallUnlink == Call("Unlink", unlink(Now))
CallGetQrId == Call("GetQrId", getQrID(Now))
CallClaimEnvelope == Call("ClaimEnvelope", claimEnvelope(Now))
CallStatus == Call("Status", Status(Now))
CallGetReadyAccountToken == Call("GetReadyAccountToken", GetReadyAccountToken(Now))

Login_Next == CallLoginStart \/ CallLoginComplete \/ CallCheckPhone
Auth_Next == CallAuthStart \/ CallAuthComplete \/ CallCheckTokenValid
Signup_Next == CallSignupStart \/ CallSignupRetry \/ CallSignupComplete
Pin_Next == CallCreatePinStart \/ CallCreatePinRetry \/ CallCreatePinComplete
Change_Next == CallChangePhoneStart \/ CallChangePhoneRetry \/ CallChangePhoneComplete
Deactivate_Next ==
  CallDeactivateStart \/ CallDeactivateComplete \/ CallCheckDeactivation
Use_Next ==
  CallUnlink \/ CallGetQrId \/ CallClaimEnvelope \/ CallStatus \/ CallGetReadyAccountToken

Next ==
  \/ Login_Next \/ Auth_Next \/ Signup_Next \/ Pin_Next
  \/ Change_Next \/ Deactivate_Next \/ Use_Next \/ Pass

Spec == Init /\ [][Next]_vars

-----------------------------------------------------------------------------
(* Properties.                                                             *)

\* The variables have their types.
TypeOK ==
  /\ caller \in Callers /\ st \in StateMap
  /\ gopay \in [owner : [Phone -> MaybeAccount], pinned : SUBSET Account,
                born : SUBSET Account, moved : SUBSET Account]
  /\ answer.seen \subseteq {"verified", "late", "rushed"}

\* A stage that waits for something has what its completion needs, however
\* the calls before it were mixed: each completion reads keys that other
\* flows' starts, time-outs and token checks also write and delete.
HasKeys(s) ==
  /\ s.stage = "login_otp_pending" => LoginPending(s) /\ s.login.phone # NoPhone
  /\ s.stage = "signup_otp_pending" => s.signup.code /\ s.signup.phone # NoPhone
  /\ s.stage = "signup_pin_required" => s.token.acct # NoAccount
  /\ s.stage = "signup_pin_otp_pending" =>
       s.pin # NoAccount /\ s.token.acct # NoAccount /\ PINPhone(s) # NoPhone
  /\ s.stage = "change_phone_otp_pending" => s.change # NoChange
  /\ s.stage = "deactivate_otp_pending" => s.tmp.acct # NoAccount
  /\ s.stage = "phone_changed" => s.tmp.acct # NoAccount

\* The state is one of those that the operators of this service work on.
StateOK == TypeOK /\ HasKeys(st)

\* A login, signup or PIN code whose window is over is never posted, though
\* the completions themselves do not look at the window.
NoLateCode == "late" \notin answer.seen

\* No signup code is asked for while a rate limit's cooldown runs.
CooldownRespected == "rushed" \notin answer.seen

\* Codes are posted while they are valid and asked for when they may be.
CodesInTime == NoLateCode /\ CooldownRespected

\* Whoever is told that the account is ready, by any RPC but the completion
\* of a login or of the PIN, is told so after GoPay accepted its token in
\* that very call; LoginStart and GetReadyAccountToken also require a
\* balance that was read as sufficient.
ReadyIsVerified ==
  answer.ready \in {"LoginStart", "AuthStart", "GetReadyAccountToken"} =>
    /\ "verified" \in answer.seen
    /\ tokenUsable(st.token)
    /\ st.stage = "ready"
    /\ answer.ready # "AuthStart" => st.min # NoAccount

\* After a change of number the token kept aside is that of the account
\* which now has the state's number, until it is deactivated or replaced.
MovedAside == st.stage = "phone_changed" => gopay.owner[st.phone] = st.tmp.acct

\* A token is kept aside for no other account than one whose number was
\* changed, so that deactivating it never takes a number with it that the
\* account had from the start.
AsideWasMoved == st.tmp.acct # NoAccount => st.tmp.acct \in gopay.moved

\* A number is used for at most MaxUsage confirmed changes, though the limit
\* is read at the start of a change and counted at its end.
UsageWithinLimit == \A p \in Phone : st.usage[p] <= MaxUsage

\* A change of number sets aside the token of the account it moved, of no
\* other, and no more of them than the number may be used for.
ChangesAccounted == MovedAside /\ AsideWasMoved /\ UsageWithinLimit

\* A token leaves the state only for that of an account which has just been
\* logged in or signed up, for the place aside, or when a signup starts; a
\* call that fails for any other reason keeps it.
TokenKept ==
  [][st.token.acct \notin {NoAccount, st'.token.acct} =>
       \/ st'.token.acct # NoAccount /\ st'.stage \in {"ready", "signup_pin_required"}
       \/ st'.tmp.acct = st.token.acct /\ st'.stage = "phone_changed"
       \/ st'.tmp = NoToken /\ st'.signup.phone # NoPhone]_vars

\* AccountLife: the accounts behind the numbers go through their life as
\* promised, whatever the caller does with the state.
LifeOf(a) ==
  IF a \notin gopay.born THEN "unborn"
  ELSE IF NumberOf(gopay, a) = {} THEN "gone"
  ELSE IF a \in gopay.moved THEN "moved" ELSE "settled"
Life == INSTANCE AccountLife WITH life <- [a \in Account |-> LifeOf(a)]
LifeSpec == Life!Spec

=============================================================================
