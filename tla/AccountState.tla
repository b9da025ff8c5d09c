---------------------------- MODULE AccountState ----------------------------
(***************************************************************************)
(* The state of a GoPay account (appsvc's stateMap) and the operators that *)
(* work on its tokens, stages and windows.                                 *)
(*                                                                         *)
(* The service keeps nothing between two calls of these RPCs: the caller   *)
(* sends the whole state as JSON and is answered with the changed one.     *)
(* A call is therefore a function of a WORLD, the state s and GoPay's own  *)
(* state g, to the set of worlds in which it may end: GoPay may refuse a   *)
(* request, fail to answer it or answer without what was asked for at      *)
(* every point, and what the state holds by then is what the caller gets.  *)
(*                                                                         *)
(* Times are abstracted to windows.  s.open holds the windows that still   *)
(* run: that of a sent code ("login", "signup", "pin"), the time for which *)
(* a probe of a number may be reused ("probe") and the wait a rate limit   *)
(* imposes ("cooldown").  A token's life is 2 (longer than the refresh     *)
(* threshold), 1 (still usable) or 0 (over).                               *)
(***************************************************************************)
EXTENDS Naturals

CONSTANTS
  Phone,           \* numbers, normalised
  Account,         \* GoPay's accounts
  NoPhone, NoAccount

ASSUME AccountNames == NoPhone \notin Phone /\ NoAccount \notin Account

MaybePhone   == Phone \cup {NoPhone}
MaybeAccount == Account \cup {NoAccount}

Stages ==
  {"idle", "login", "login_otp_pending", "signup", "signup_otp_pending",
   "signup_pin_required", "signup_pin_otp_pending", "ready", "consumed",
   "change_phone_otp_pending", "phone_changed", "deactivate_otp_pending",
   "deactivated"}
SignupStages ==
  {"signup", "signup_otp_pending", "signup_pin_required", "signup_pin_otp_pending"}
Windows == {"login", "signup", "pin", "probe", "cooldown"}

TokenState == [acct : MaybeAccount, life : 0..2, refresh : BOOLEAN]
NoToken    == [acct |-> NoAccount, life |-> 0, refresh |-> FALSE]

\* id: the number a verification id was issued for; code: the flow whose
\* code was sent, with its otp_token (and, for "2fa", the 2fa token).
LoginState == [phone : MaybePhone, id : MaybePhone, code : {"none", "1fa", "2fa"}]
NoLogin    == [phone |-> NoPhone, id |-> NoPhone, code |-> "none"]
\* code: the verification id and the otp_token are both present.
SignupState == [phone : MaybePhone, code : BOOLEAN]
NoSignup    == [phone |-> NoPhone, code |-> FALSE]
\* phone and otp_token of a pending change, issued for account acct.
ChangeState == [phone : MaybePhone, acct : MaybeAccount]
NoChange    == [phone |-> NoPhone, acct |-> NoAccount]

\* min: the account whose balance was last read as sufficient, if it was.
\* pin: the account a code for setting the PIN was sent to.
StateMap ==
  [stage : Stages, phone : MaybePhone, open : SUBSET Windows,
   login : LoginState, signup : SignupState, pin : MaybeAccount,
   change : ChangeState, usage : [Phone -> 0..3],
   token : TokenState, tmp : TokenState, min : MaybeAccount, gone : BOOLEAN]

EmptyState ==
  [stage |-> "idle", phone |-> NoPhone, open |-> {}, login |-> NoLogin,
   signup |-> NoSignup, pin |-> NoAccount, change |-> NoChange,
   usage |-> [p \in Phone |-> 0], token |-> NoToken, tmp |-> NoToken,
   min |-> NoAccount, gone |-> FALSE]

-----------------------------------------------------------------------------
(* Worlds.  res is what the function returns; seen records what the call   *)
(* did: had a token "verified" by GoPay, posted a code whose window was    *)
(* over ("late"), asked for a signup code while a cooldown ran ("rushed"). *)

World(s, g) == [s |-> s, g |-> g, res |-> "ok", seen |-> {}]

Returns(w, r)  == [w EXCEPT !.res = r]
With(w, s)     == [w EXCEPT !.s = s]
Saw(w, what)   == [w EXCEPT !.seen = @ \cup {what}]
Ended(W, r)    == {w \in W : w.res = r}
When(cond, W)  == IF cond THEN W ELSE {}
Then(W, r, F(_)) == {w \in W : w.res # r} \cup UNION {F(w) : w \in Ended(W, r)}

\* A missing input, a refusal, no answer, an answer without its data.
Refused(w)  == {Returns(w, "fail")}
FailsAt(w, s) == Refused(With(w, s))

\* GoPay: the account a number belongs to (owner), the accounts that have a
\* PIN (pinned), that were ever opened (born) and whose number was ever
\* changed (moved).
NumberOf(g, a) == {p \in Phone : g.owner[p] = a}
Registered(g, p) == g.owner[p] # NoAccount
LiveToken(g, t) == t.acct # NoAccount /\ t.life > 0 /\ NumberOf(g, t.acct) # {}

-----------------------------------------------------------------------------
(* Keys of the state and their removal.                                    *)

DropLogin(s)  == [s EXCEPT !.login = NoLogin, !.open = @ \ {"login", "probe"}]
DropSignupOTP(s) == [s EXCEPT !.signup.code = FALSE, !.open = @ \ {"signup"}]
DropSignupPIN(s) == [s EXCEPT !.pin = NoAccount, !.open = @ \ {"pin"}]
DropSignup(s) == DropSignupPIN([DropSignupOTP(s) EXCEPT !.signup = NoSignup])

\* Mutant: the keys go, the stage stays.
ClearLoginKeepingStage(s) == DropLogin(s)

clearLoginState(s) ==
  IF s.stage \in {"login", "login_otp_pending"}
    THEN [DropLogin(s) EXCEPT !.stage = IF s.gone THEN "deactivated" ELSE "idle"]
    ELSE DropLogin(s)

clearSignupState(s) ==
  IF s.stage \in SignupStages
    THEN [DropSignup(s) EXCEPT !.stage =
            IF s.gone /\ s.token.acct = NoAccount THEN "deactivated" ELSE "idle"]
    ELSE DropSignup(s)

-----------------------------------------------------------------------------
(* Windows.                                                                *)

\* Without expires_at or sent_at a pending code counts as expired.
pendingExpired(s, window) == window \notin s.open

expireLoginIfNeeded(s) ==
  IF s.stage = "login_otp_pending" /\ pendingExpired(s, "login")
    THEN clearLoginState(s) ELSE s

expireSignupIfNeeded(s) ==
  CASE s.stage = "signup_otp_pending" /\ pendingExpired(s, "signup") ->
         [DropSignupOTP(s) EXCEPT !.stage = "idle"]
    [] s.stage = "signup_pin_otp_pending" /\ pendingExpired(s, "pin") ->
         [DropSignupPIN(s) EXCEPT !.stage =
            IF s.token.acct # NoAccount THEN "signup_pin_required" ELSE "idle"]
    [] OTHER -> s

Expired(w) == With(w, expireSignupIfNeeded(expireLoginIfNeeded(w.s)))

-----------------------------------------------------------------------------
(* Tokens.                                                                 *)

tokenUsable(t) == t.acct # NoAccount /\ t.life > 0
tmpTokenUsable(s) == s.tmp.acct # NoAccount /\ s.tmp.life > 0

\* The states in which an answer about account a may leave the tokens; a 201
\* without an access_token leaves them as they are.
storeTokenResponse(s, a, preserveRefresh) ==
  {[s EXCEPT !.token =
      [acct |-> a, life |-> 2,
       refresh |-> r \/ (preserveRefresh /\ s.token.refresh)]] : r \in BOOLEAN}
  \cup {s}

migrateActiveTokensToTmp(s) ==
  [s EXCEPT !.tmp = IF s.token.acct # NoAccount THEN s.token ELSE @,
            !.token = NoToken]

clearTmpTokens(s) == [s EXCEPT !.tmp = NoToken]

\* Mutant: a failed refresh drops the tokens.
RefreshDropping(w) ==
  FailsAt(w, [w.s EXCEPT !.token = NoToken]) \cup
  When(w.s.token.refresh /\ NumberOf(w.g, w.s.token.acct) # {},
       {Returns(With(w, [w.s EXCEPT !.token.life = 2]), "ok")})

\* A refresh needs a refresh token; only an answer with a token counts.
refreshAccessToken(w) ==
  Refused(w) \cup
  When(w.s.token.refresh /\ NumberOf(w.g, w.s.token.acct) # {},
       {Returns(With(w, [w.s EXCEPT !.token.life = 2]), "ok")})

\* A failed refresh is forgiven as long as the token is usable.
ensureAccessToken(w) ==
  IF w.s.token.life = 2 /\ w.s.token.acct # NoAccount
    THEN {Returns(w, "ok")}
    ELSE {Returns(v, IF v.res = "ok" \/ tokenUsable(v.s.token) THEN "ok" ELSE "fail") :
            v \in refreshAccessToken(w)}

\* A session with the account's token; the proxy or the device may fail.
clientForState(w) ==
  LET Session(v) == Refused(v) \cup {v} IN Then(ensureAccessToken(w), "ok", Session)

newClientWithState(w, requireToken) ==
  IF requireToken THEN clientForState(w) ELSE Refused(w) \cup {Returns(w, "ok")}

tmpClientForState(w) ==
  Refused(w) \cup When(tmpTokenUsable(w.s), {Returns(w, "ok")})

\* The number a profile names: the account's, unless the answer has none.
syncProfileFields(w) ==
  {With(w, [w.s EXCEPT !.phone = p]) :
     p \in {w.s.phone} \cup NumberOf(w.g, w.s.token.acct)}

verifyAccessToken(w) ==
  Refused(w) \cup
  When(LiveToken(w.g, w.s.token),
       {Returns(Saw(With(v, [v.s EXCEPT !.stage = "ready"]), "verified"), "ok") :
          v \in syncProfileFields(w)})

\* A balance read sets whether it suffices; a failed one leaves the last.
checkBalanceOnce(w) ==
  {With(w, [w.s EXCEPT !.min = m]) : m \in {w.s.min, NoAccount, w.s.token.acct}}

\* Tried again after a transport error, which changes nothing more.
checkBalance(w) == checkBalanceOnce(w)

\* "valid", and in HasMin whether the balance, read now or before, suffices.
tokenValidResult(w) == {Returns(v, "valid") : v \in checkBalance(w)}
HasMin(w) == w.s.min # NoAccount
tokenCheckReady(w) == w.res = "valid" /\ HasMin(w)
tokenCheckValid(w) == w.res = "valid"

\* Mutant: a token that has not expired counts as valid.
CheckTokenLocally(w) ==
  IF tokenUsable(w.s.token) THEN tokenValidResult(w) ELSE Refused(w)

checkTokenValid(w) ==
  LET Refreshed(v) == Then(refreshAccessToken(v), "ok", verifyAccessToken)
      Checked == Then(verifyAccessToken(w), "fail", Refreshed)
  IN  Then(Checked, "ok", tokenValidResult)
=============================================================================
