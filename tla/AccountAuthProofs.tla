------------------------- MODULE AccountAuthProofs -------------------------
(***************************************************************************)
(* Proofs about AccountAuth, for any numbers, accounts and callers, any    *)
(* order of the RPCs and any answers of GoPay.                             *)
(*                                                                         *)
(* An RPC is a function from a world to the worlds it may end in, put      *)
(* together from the functions of the source.  So the proof goes the same  *)
(* way: a lemma for each function says what it leaves of a good world, the *)
(* lemma of an RPC (named ...OK) that it leaves what Called says, and one  *)
(* step of the system is one call (CallStep).                              *)
(*                                                                         *)
(* The properties are not inductive.  A completion finds the keys of its   *)
(* stage only because the functions in between keep those of every stage   *)
(* (Sound), a number is used once more only because a pending change has   *)
(* a use left (ChangeOK), and the account kept aside has the state's       *)
(* number only while nothing else is pending (MovedOK).                    *)
(***************************************************************************)
EXTENDS AccountAuth, TLAPS

\* GoPay's side, and what a call may note about itself.
GoPay  == [owner : [Phone -> MaybeAccount], pinned : SUBSET Account,
           born : SUBSET Account, moved : SUBSET Account]
Marks  == {"verified", "late", "rushed"}
\* A world has these fields and no other.
IsWorld(w) == w = [s |-> w.s, g |-> w.g, res |-> w.res, seen |-> w.seen]

\* A pending change of number has its number, its account and a use left.
ChangeOK(s) ==
  s.change # NoChange =>
    /\ s.change.phone \in Phone /\ s.change.acct \in Account
    /\ s.usage[s.change.phone] < MaxUsage

\* A number belongs to an account that was opened, and only such moved.
Accounts(g) ==
  /\ \A p \in Phone : g.owner[p] \in g.born \cup {NoAccount}
  /\ g.moved \subseteq g.born

\* After a change of number: nothing else is pending, the token kept aside
\* is that of the account which has the number.
MovedOK(s, g) ==
  s.stage = "phone_changed" =>
    /\ s.change = NoChange /\ s.token = NoToken
    /\ s.phone \in Phone /\ g.owner[s.phone] = s.tmp.acct

\* What every state a call answers with satisfies, beside its type.
Sound(s, g) ==
  /\ s \in StateMap
  /\ HasKeys(s)
  /\ s.token.acct = NoAccount => s.token = NoToken
  /\ ChangeOK(s)
  /\ \A p \in Phone : s.usage[p] <= MaxUsage
  /\ MovedOK(s, g)
  /\ s.tmp.acct \in g.moved \cup {NoAccount}

\* What holds of every world a call goes through.
Good(w) ==
  IsWorld(w) /\ w.g \in GoPay /\ w.seen \subseteq Marks /\ Sound(w.s, w.g) /\ Accounts(w.g)

\* The state, or the state with its token renewed.
Life2(s) == {s, [s EXCEPT !.token.life = 2]}

\* What a call for a token may leave of a world.
Renewed(w, v) ==
  /\ Good(v) /\ v.g = w.g /\ v.seen = w.seen /\ v.res \in {"ok", "fail"}
  /\ v.s \in Life2(w.s)

\* A result changes nothing else.
LEMMA Returned ==
  ASSUME NEW w, Good(w), NEW r
  PROVE  /\ Good(Returns(w, r)) /\ Returns(w, r).s = w.s /\ Returns(w, r).g = w.g
         /\ Returns(w, r).res = r /\ Returns(w, r).seen = w.seen
BY DEF Good, Returns, IsWorld

\* A sound state may take the place of a world's state.
LEMMA Made ==
  ASSUME NEW w, Good(w), NEW s, Sound(s, w.g), NEW r
  PROVE  /\ Good(With(w, s)) /\ With(w, s).s = s /\ With(w, s).g = w.g
         /\ With(w, s).res = w.res /\ With(w, s).seen = w.seen
         /\ Good(Returns(With(w, s), r)) /\ Returns(With(w, s), r).s = s
         /\ Returns(With(w, s), r).g = w.g
         /\ Returns(With(w, s), r).res = r /\ Returns(With(w, s), r).seen = w.seen
<1>1. /\ Good(With(w, s)) /\ With(w, s).s = s /\ With(w, s).g = w.g
      /\ With(w, s).res = w.res /\ With(w, s).seen = w.seen
  BY DEF Good, With, IsWorld
<1> QED
  BY <1>1, Returned

\* A note changes nothing else.
LEMMA Marked ==
  ASSUME NEW w, Good(w), NEW m \in Marks
  PROVE  /\ Good(Saw(w, m)) /\ Saw(w, m).s = w.s /\ Saw(w, m).g = w.g
         /\ Saw(w, m).res = w.res /\ Saw(w, m).seen = w.seen \cup {m}
BY DEF Good, Saw, IsWorld

\* A renewed token leaves the state sound.
LEMMA Life2Sound ==
  ASSUME NEW s, NEW g, Sound(s, g), s.token.refresh
  PROVE  Sound([s EXCEPT !.token.life = 2], g)
BY DEF Sound, HasKeys, ChangeOK, MovedOK, StateMap, TokenState, NoToken, LoginPending, PINPhone

\* refreshAccessToken succeeds with a token of full life or fails.
LEMMA Refreshing ==
  ASSUME NEW w, Good(w), NEW v \in refreshAccessToken(w)
  PROVE  Renewed(w, v) /\ (v.res = "ok" => v.s.token.acct # NoAccount /\ v.s.token.life = 2)
<1>1. CASE v = Returns(w, "fail")
  BY <1>1, Returned DEF Renewed, Life2
<1>2. CASE /\ w.s.token.refresh
           /\ v = Returns(With(w, [w.s EXCEPT !.token.life = 2]), "ok")
  <2>1. Sound([w.s EXCEPT !.token.life = 2], w.g)
    BY <1>2, Life2Sound DEF Good
  <2>2. w.s.token.acct # NoAccount /\ w.s.token \in TokenState /\ w.s \in StateMap
    BY <1>2 DEF Good, Sound, NoToken, StateMap
  <2> QED
    BY <1>2, <2>1, <2>2, Made DEF Renewed, Life2, StateMap, TokenState
<1> QED
  BY <1>1, <1>2 DEF refreshAccessToken, Refused, When

\* ensureAccessToken succeeds with some account's token or fails.
LEMMA EnsureToken ==
  ASSUME NEW w, Good(w), NEW v \in ensureAccessToken(w)
  PROVE  Renewed(w, v) /\ (v.res = "ok" => v.s.token.acct # NoAccount)
<1>1. CASE w.s.token.life = 2 /\ w.s.token.acct # NoAccount
  <2>1. v = Returns(w, "ok")
    BY <1>1 DEF ensureAccessToken
  <2> QED
    BY <1>1, <2>1, Returned DEF Renewed, Life2
<1>2. CASE ~(w.s.token.life = 2 /\ w.s.token.acct # NoAccount)
  <2>1. PICK u \in refreshAccessToken(w) :
           v = Returns(u, IF u.res = "ok" \/ tokenUsable(u.s.token) THEN "ok" ELSE "fail")
    BY <1>2 DEF ensureAccessToken
  <2>2. Renewed(w, u) /\ (u.res = "ok" => u.s.token.acct # NoAccount)
    BY Refreshing
  <2>3. Renewed(w, v) /\ v.s = u.s /\ (v.res = "ok" => u.res = "ok" \/ tokenUsable(u.s.token))
    BY <2>1, <2>2, Returned DEF Renewed
  <2> QED
    BY <2>2, <2>3 DEF tokenUsable
<1> QED
  BY <1>1, <1>2

\* clientForState succeeds with some account's token or fails.
LEMMA ClientOf ==
  ASSUME NEW w, Good(w), NEW v \in clientForState(w)
  PROVE  Renewed(w, v) /\ (v.res = "ok" => v.s.token.acct # NoAccount)
<1>1. PICK u \in ensureAccessToken(w) : v = u \/ v = Returns(u, "fail")
  BY DEF clientForState, Then, Ended, Refused
<1>2. Renewed(w, u) /\ (u.res = "ok" => u.s.token.acct # NoAccount)
  BY EnsureToken
<1> QED
  BY <1>1, <1>2, Returned DEF Renewed

\* What a check of the token leaves.
Verified(w) ==
  "verified" \in w.seen /\ tokenUsable(w.s.token) /\ w.s.stage = "ready"

\* What a check of the token leaves alone.
Alike(s, t) ==
  /\ t.token.acct = s.token.acct /\ t.tmp = s.tmp /\ t.change = s.change
  /\ t.signup = s.signup /\ t.login = s.login /\ t.pin = s.pin /\ t.usage = s.usage
  /\ t.open = s.open
  /\ t.phone = s.phone \/ t.phone \in Phone

\* The end of a check: the token was verified and the stage is ready, or
\* neither has happened.
TokenChecked(w, v) ==
  /\ Good(v) /\ v.g = w.g /\ Alike(w.s, v.s)
  /\ \/ v.res = "fail" /\ v.seen = w.seen /\ v.s.stage = w.s.stage
     \/ v.res \in {"ok", "valid"} /\ Verified(v) /\ v.seen = w.seen \cup {"verified"}

\* A renewal leaves alone what a check leaves alone.
LEMMA RenewedAlike ==
  ASSUME NEW w, Good(w), NEW v, Renewed(w, v)
  PROVE  Alike(w.s, v.s) /\ v.s.stage = w.s.stage
BY DEF Renewed, Life2, Alike, Good, Sound, StateMap, TokenState

\* A state whose keys are in order may become ready.
LEMMA ReadySound ==
  ASSUME NEW s, NEW g, Sound(s, g), NEW p, p = s.phone \/ p \in Phone
  PROVE  Sound([s EXCEPT !.phone = p, !.stage = "ready"], g)
<1> DEFINE t == [s EXCEPT !.phone = p, !.stage = "ready"]
<1>1. s \in StateMap
  BY DEF Sound
<1>2. t \in StateMap
  BY <1>1 DEF StateMap, MaybePhone, Stages
<1>3. /\ t.stage = "ready" /\ t.token = s.token /\ t.change = s.change
      /\ t.usage = s.usage /\ t.tmp = s.tmp
  BY <1>1 DEF StateMap
<1> QED
  BY <1>2, <1>3 DEF Sound, HasKeys, ChangeOK, MovedOK

\* verifyAccessToken is a check of the token.
LEMMA Verifying ==
  ASSUME NEW w, Good(w), NEW v \in verifyAccessToken(w)
  PROVE  TokenChecked(w, v) /\ v.res # "valid"
<1>1. CASE v = Returns(w, "fail")
  BY <1>1, Returned DEF TokenChecked, Alike
<1>2. CASE /\ LiveToken(w.g, w.s.token)
           /\ \E u \in syncProfileFields(w) :
                v = Returns(Saw(With(u, [u.s EXCEPT !.stage = "ready"]), "verified"), "ok")
  <2>1. PICK p \in {w.s.phone} \cup NumberOf(w.g, w.s.token.acct) :
           LET u == With(w, [w.s EXCEPT !.phone = p])
           IN  v = Returns(Saw(With(u, [u.s EXCEPT !.stage = "ready"]), "verified"), "ok")
    BY <1>2 DEF syncProfileFields
  <2> DEFINE s == [w.s EXCEPT !.phone = p, !.stage = "ready"]
  <2>2. w.s \in StateMap /\ IsWorld(w)
    BY DEF Good, Sound
  <2>3. v = Returns(Saw(With(w, s), "verified"), "ok")
    BY <2>1, <2>2 DEF With, Returns, Saw, StateMap, IsWorld
  <2>4. Sound(s, w.g)
    BY <2>1, ReadySound DEF Good, NumberOf
  <2>5. /\ Good(With(w, s)) /\ With(w, s).s = s /\ With(w, s).g = w.g
        /\ With(w, s).seen = w.seen
    BY <2>4, Made
  <2>6. Good(v) /\ v.s = s /\ v.g = w.g /\ v.seen = w.seen \cup {"verified"} /\ v.res = "ok"
    <3>1. "verified" \in Marks
      BY DEF Marks
    <3> QED
      BY <2>3, <2>5, <3>1, Marked, Returned
  <2>7. /\ s.token = w.s.token /\ s.stage = "ready" /\ Alike(w.s, s)
    BY <2>1, <2>2 DEF StateMap, Alike, NumberOf
  <2> QED
    BY <1>2, <2>6, <2>7 DEF TokenChecked, Verified, LiveToken, tokenUsable
<1> QED
  BY <1>1, <1>2 DEF verifyAccessToken, Refused, When

\* A check after a renewal is a check.
LEMMA CheckedAfter ==
  ASSUME NEW w, Good(w), NEW u, Renewed(w, u), NEW v, TokenChecked(u, v)
  PROVE  TokenChecked(w, v)
BY RenewedAlike DEF TokenChecked, Renewed, Alike

\* A check after a failed one is a check.
LEMMA CheckedAgain ==
  ASSUME NEW w, NEW u, TokenChecked(w, u), u.res = "fail", NEW v, TokenChecked(u, v)
  PROVE  TokenChecked(w, v)
BY DEF TokenChecked, Alike

\* Reading the balance after a check does not undo it.
LEMMA BalanceChecked ==
  ASSUME NEW w, Good(w), NEW u, TokenChecked(w, u), u.res = "ok",
         NEW v \in tokenValidResult(u)
  PROVE  TokenChecked(w, v) /\ v.res = "valid"
<1>1. PICK m \in {u.s.min, NoAccount, u.s.token.acct} :
         v = Returns(With(u, [u.s EXCEPT !.min = m]), "valid")
  BY DEF tokenValidResult, checkBalance, checkBalanceOnce
<1> DEFINE s == [u.s EXCEPT !.min = m]
<1>2. u.s \in StateMap /\ Good(u) /\ Sound(u.s, u.g)
  BY DEF TokenChecked, Good, Sound
<1>3. Sound(s, u.g)
  BY <1>2 DEF Sound, HasKeys, ChangeOK, MovedOK, StateMap, TokenState, MaybeAccount,
              LoginPending, PINPhone
<1>4. Good(v) /\ v.s = s /\ v.g = u.g /\ v.res = "valid" /\ v.seen = u.seen
  BY <1>1, <1>2, <1>3, Made
<1>5. s.token = u.s.token /\ s.stage = u.s.stage /\ (Alike(w.s, u.s) => Alike(w.s, s))
  BY <1>2 DEF StateMap, Alike
<1> QED
  BY <1>4, <1>5 DEF TokenChecked, Verified

\* checkTokenValid is a check of the token, valid or failed.
LEMMA CheckToken ==
  ASSUME NEW w, Good(w), NEW v \in checkTokenValid(w)
  PROVE  TokenChecked(w, v) /\ v.res \in {"valid", "fail"}
<1> DEFINE Refreshed(x) == Then(refreshAccessToken(x), "ok", verifyAccessToken)
           Checked == Then(verifyAccessToken(w), "fail", Refreshed)
<1>1. ASSUME NEW u \in Checked
      PROVE  TokenChecked(w, u) /\ u.res # "valid"
  <2>1. CASE u \in verifyAccessToken(w)
    BY <2>1, Verifying
  <2>2. ASSUME NEW x \in verifyAccessToken(w), x.res = "fail", u \in Refreshed(x)
        PROVE  TokenChecked(w, u) /\ u.res # "valid"
    <3>1. TokenChecked(w, x) /\ Good(x)
      BY <2>2, Verifying DEF TokenChecked
    <3>2. TokenChecked(x, u) /\ u.res # "valid"
      <4>1. CASE u \in refreshAccessToken(x) /\ u.res # "ok"
        BY <3>1, <4>1, Refreshing, RenewedAlike DEF TokenChecked, Renewed
      <4>2. ASSUME NEW y \in refreshAccessToken(x), u \in verifyAccessToken(y)
            PROVE  TokenChecked(x, u) /\ u.res # "valid"
        BY <3>1, <4>2, Refreshing, Verifying, CheckedAfter DEF Renewed
      <4> QED
        BY <2>2, <4>1, <4>2 DEF Then, Ended
    <3> QED
      BY <2>2, <3>1, <3>2, CheckedAgain
  <2> QED
    BY <2>1, <2>2 DEF Then, Ended
<1>2. CASE v \in Checked /\ v.res # "ok"
  BY <1>1, <1>2 DEF TokenChecked
<1>3. ASSUME NEW u \in Checked, u.res = "ok", v \in tokenValidResult(u)
      PROVE  TokenChecked(w, v) /\ v.res = "valid"
  BY <1>1, <1>3, BalanceChecked
<1> QED
  BY <1>2, <1>3 DEF checkTokenValid, Then, Ended

-----------------------------------------------------------------------------
(* Removing keys. *)

\* What the removal of login and signup keys leaves alone.
Kept(s, t) ==
  /\ t.token = s.token /\ t.tmp = s.tmp /\ t.change = s.change /\ t.usage = s.usage
  /\ t.phone = s.phone /\ t.gone = s.gone /\ t.min = s.min /\ t.open \subseteq s.open

\* clearLoginState leaves a sound state whose stage waits for no login.
LEMMA ClearLogin ==
  ASSUME NEW s, NEW g, Sound(s, g)
  PROVE  /\ Sound(clearLoginState(s), g) /\ Kept(s, clearLoginState(s))
         /\ clearLoginState(s).stage \notin {"login", "login_otp_pending"}
         /\ clearLoginState(s).signup = s.signup /\ clearLoginState(s).pin = s.pin
         /\ clearLoginState(s).stage \in {s.stage, "idle", "deactivated"}
         /\ {"signup", "pin", "cooldown"} \cap clearLoginState(s).open
              = {"signup", "pin", "cooldown"} \cap s.open
<1> DEFINE d == DropLogin(s)  t == clearLoginState(s)
<1>1. s \in StateMap
  BY DEF Sound
<1>2. /\ d = [s EXCEPT !.login = NoLogin, !.open = s.open \ {"login", "probe"}]
      /\ d \in StateMap
  BY <1>1 DEF DropLogin, StateMap, NoLogin, LoginState, MaybePhone
<1>3. CASE s.stage \in {"login", "login_otp_pending"}
  <2>1. t = [d EXCEPT !.stage = IF s.gone THEN "deactivated" ELSE "idle"]
    BY <1>3 DEF clearLoginState
  <2>2. t \in StateMap /\ t.stage \in {"idle", "deactivated"}
    BY <1>2, <2>1 DEF StateMap, Stages
  <2>3. Kept(s, t) /\ t.signup = s.signup /\ t.pin = s.pin
        /\ t.open = s.open \ {"login", "probe"}
    BY <1>1, <1>2, <2>1 DEF StateMap, Kept
  <2> QED
    BY <2>2, <2>3 DEF Sound, HasKeys, ChangeOK, MovedOK, Kept
<1>4. CASE s.stage \notin {"login", "login_otp_pending"}
  <2>1. t = d
    BY <1>4 DEF clearLoginState
  <2>3. Kept(s, t) /\ t.signup = s.signup /\ t.pin = s.pin /\ t.stage = s.stage
        /\ t.open = s.open \ {"login", "probe"}
    BY <1>1, <1>2, <2>1 DEF StateMap, Kept
  <2> QED
    BY <1>2, <1>4, <2>1, <2>3 DEF Sound, HasKeys, ChangeOK, MovedOK, Kept, PINPhone
<1> QED
  BY <1>3, <1>4

\* clearSignupState leaves a sound state whose stage waits for no signup.
LEMMA ClearSignup ==
  ASSUME NEW s, NEW g, Sound(s, g)
  PROVE  /\ Sound(clearSignupState(s), g) /\ Kept(s, clearSignupState(s))
         /\ clearSignupState(s).login = s.login
         /\ clearSignupState(s).stage \notin SignupStages
<1> DEFINE d == DropSignup(s)  t == clearSignupState(s)
<1>1. s \in StateMap
  BY DEF Sound
<1>2. /\ d = [s EXCEPT !.signup = NoSignup, !.pin = NoAccount,
                       !.open = (s.open \ {"signup"}) \ {"pin"}]
      /\ d \in StateMap
  BY <1>1 DEF DropSignup, DropSignupPIN, DropSignupOTP, StateMap, NoSignup, SignupState,
              MaybePhone, MaybeAccount
<1>3. CASE s.stage \in SignupStages
  <2>1. t = [d EXCEPT !.stage = IF s.gone /\ s.token.acct = NoAccount
                                THEN "deactivated" ELSE "idle"]
    BY <1>3 DEF clearSignupState
  <2>2. t \in StateMap /\ t.stage \in {"idle", "deactivated"}
    BY <1>2, <2>1 DEF StateMap, Stages
  <2>3. Kept(s, t) /\ t.login = s.login
    BY <1>1, <1>2, <2>1 DEF StateMap, Kept
  <2> QED
    BY <2>2, <2>3 DEF Sound, HasKeys, ChangeOK, MovedOK, Kept, SignupStages
<1>4. CASE s.stage \notin SignupStages
  <2>1. t = d
    BY <1>4 DEF clearSignupState
  <2>3. Kept(s, t) /\ t.login = s.login /\ t.stage = s.stage
    BY <1>1, <1>2, <2>1 DEF StateMap, Kept
  <2>4. s.stage = "login_otp_pending" => (LoginPending(s) <=> LoginPending(t))
    BY <2>3 DEF LoginPending
  <2> QED
    BY <1>2, <1>4, <2>1, <2>3, <2>4 DEF Sound, HasKeys, ChangeOK, MovedOK, Kept, SignupStages
<1> QED
  BY <1>3, <1>4

\* After expireLoginIfNeeded a login that still waits is in its window.
LEMMA ExpiringLogin ==
  ASSUME NEW w, Good(w)
  PROVE  LET v == With(w, expireLoginIfNeeded(w.s)) IN
         /\ Good(v) /\ v.g = w.g /\ v.seen = w.seen /\ v.res = w.res /\ Kept(w.s, v.s)
         /\ v.s.stage = "login_otp_pending" => "login" \in v.s.open
  BY ClearLogin, Made DEF expireLoginIfNeeded, pendingExpired, Good, Kept

\* After expireSignupIfNeeded a signup that still waits is in its window.
LEMMA ExpiringSignup ==
  ASSUME NEW w, Good(w)
  PROVE  LET v == With(w, expireSignupIfNeeded(w.s)) IN
         /\ Good(v) /\ v.g = w.g /\ v.seen = w.seen /\ v.res = w.res
         /\ Kept(w.s, v.s)
         /\ v.s.stage = "login_otp_pending" => v.s = w.s
         /\ v.s.stage = "signup_otp_pending" => "signup" \in v.s.open
         /\ v.s.stage = "signup_pin_otp_pending" => "pin" \in v.s.open
<1> DEFINE s == w.s  t == expireSignupIfNeeded(s)
<1>1. Sound(s, w.g)
  BY DEF Good
<1>2. s \in StateMap
  BY <1>1 DEF Sound
<1> HIDE DEF s
<1>3. CASE s.stage = "signup_otp_pending" /\ "signup" \notin s.open
  <2>1. t = [s EXCEPT !.signup.code = FALSE, !.open = s.open \ {"signup"}, !.stage = "idle"]
    BY <1>2, <1>3 DEF expireSignupIfNeeded, pendingExpired, DropSignupOTP, StateMap, SignupState
  <2>2. t \in StateMap /\ t.stage = "idle" /\ Kept(s, t)
    <3>1. t \in StateMap
      <4>1. "idle" \in Stages
        BY DEF Stages
      <4> HIDE DEF t
      <4> QED
        BY <1>2, <2>1, <4>1 DEF StateMap, SignupState
    <3> QED
      BY <1>2, <2>1, <3>1 DEF StateMap, Kept
  <2>3. Sound(t, w.g)
    BY <1>1, <2>2 DEF Sound, HasKeys, ChangeOK, MovedOK, Kept
  <2> QED
    BY <1>1, <2>2, <2>3, Made DEF Kept, s
<1>4. CASE s.stage = "signup_pin_otp_pending" /\ "pin" \notin s.open
  <2>1. t = [s EXCEPT !.pin = NoAccount, !.open = s.open \ {"pin"},
                      !.stage = IF s.token.acct # NoAccount THEN "signup_pin_required" ELSE "idle"]
    BY <1>2, <1>4 DEF expireSignupIfNeeded, pendingExpired, DropSignupPIN, StateMap
  <2>2. /\ t \in StateMap /\ Kept(s, t)
        /\ t.stage = IF s.token.acct # NoAccount THEN "signup_pin_required" ELSE "idle"
    <3>1. t \in StateMap
      BY <1>2, <2>1 DEF StateMap, MaybeAccount, Stages
    <3> QED
      BY <1>2, <2>1, <3>1 DEF StateMap, Kept
  <2>3. Sound(t, w.g)
    BY <1>1, <2>2 DEF Sound, HasKeys, ChangeOK, MovedOK, Kept
  <2> QED
    BY <1>1, <2>2, <2>3, Made DEF Kept, s
<1>5. CASE /\ ~(s.stage = "signup_otp_pending" /\ "signup" \notin s.open)
           /\ ~(s.stage = "signup_pin_otp_pending" /\ "pin" \notin s.open)
  <2>1. t = s
    BY <1>5 DEF expireSignupIfNeeded, pendingExpired
  <2> QED
    BY <1>1, <1>5, <2>1, Made DEF Kept, s
<1> QED
  BY <1>3, <1>4, <1>5

\* After both, whatever code is waited for is in its window.
LEMMA Expiring ==
  ASSUME NEW w, Good(w)
  PROVE  LET v == Expired(w) IN
         /\ Good(v) /\ v.g = w.g /\ v.seen = w.seen /\ v.res = w.res
         /\ Kept(w.s, v.s)
         /\ v.s.stage = "login_otp_pending" => "login" \in v.s.open
         /\ v.s.stage = "signup_otp_pending" => "signup" \in v.s.open
         /\ v.s.stage = "signup_pin_otp_pending" => "pin" \in v.s.open
<1> DEFINE u == With(w, expireLoginIfNeeded(w.s))
<1>1. /\ Good(u) /\ u.g = w.g /\ u.seen = w.seen /\ u.res = w.res /\ Kept(w.s, u.s)
      /\ u.s.stage = "login_otp_pending" => "login" \in u.s.open
  BY ExpiringLogin
<1>2. Expired(w) = With(u, expireSignupIfNeeded(u.s))
  BY DEF Expired, With, Good, IsWorld
<1> HIDE DEF u
<1> QED
  BY <1>1, <1>2, ExpiringSignup DEF Kept

-----------------------------------------------------------------------------
(* Logging in. *)

\* What a login leaves: it replaces the token only when it is done.
LoginLeaves(w, v) ==
  /\ Good(v) /\ v.g = w.g /\ v.seen = w.seen /\ v.s.tmp = w.s.tmp
  /\ v.res \in {"fail", "unregistered", "sent", "ready"}
  /\ \/ v.s.token = w.s.token
     \/ v.res = "ready" /\ v.s.token.acct \in Account /\ v.s.stage = "ready"

\* A token response is stored as a whole or not at all.
LEMMA TokenResponse ==
  ASSUME NEW s \in StateMap, NEW a \in Account, NEW t \in storeTokenResponse(s, a, FALSE)
  PROVE  \/ t = s
         \/ \E r \in BOOLEAN : t = [s EXCEPT !.token = [acct |-> a, life |-> 2, refresh |-> r]]
BY DEF storeTokenResponse

\* A login that is done leaves a sound, ready state.
LEMMA LoginReady ==
  ASSUME NEW s, NEW g, Sound(s, g), NEW a \in Account, NEW p \in Phone,
         NEW t \in persistLoginReady(s, a, p)
  PROVE  /\ Sound(t, g) /\ t.tmp = s.tmp /\ t.stage = "ready"
         /\ t.token = s.token \/ t.token.acct = a
<1>1. s \in StateMap
  BY DEF Sound
<1>2. PICK u \in storeTokenResponse(s, a, FALSE) :
         t = [DropLogin(u) EXCEPT !.phone = p, !.stage = "ready"]
  BY DEF persistLoginReady
<1>3. PICK k : /\ u = [s EXCEPT !.token = k] /\ k \in TokenState
               /\ k = s.token \/ k.acct = a
  <2>1. CASE u = s
    BY <1>1, <2>1 DEF StateMap
  <2>2. CASE \E r \in BOOLEAN : u = [s EXCEPT !.token = [acct |-> a, life |-> 2, refresh |-> r]]
    <3>1. PICK r \in BOOLEAN : u = [s EXCEPT !.token = [acct |-> a, life |-> 2, refresh |-> r]]
      BY <2>2
    <3>2. [acct |-> a, life |-> 2, refresh |-> r] \in TokenState
      BY DEF TokenState, MaybeAccount
    <3> QED
      BY <3>1, <3>2
  <2> QED
    BY <1>1, <2>1, <2>2, TokenResponse
<1>4. t = [s EXCEPT !.token = k, !.login = NoLogin, !.open = s.open \ {"login", "probe"},
                    !.phone = p, !.stage = "ready"]
  BY <1>1, <1>2, <1>3 DEF DropLogin, StateMap
<1>5. t \in StateMap
  BY <1>1, <1>3, <1>4 DEF StateMap, NoLogin, LoginState, MaybePhone, Stages
<1>6. /\ t.stage = "ready" /\ t.token = k /\ t.tmp = s.tmp /\ t.change = s.change
      /\ t.usage = s.usage
  BY <1>1, <1>4 DEF StateMap
<1>7. t.token.acct = NoAccount => t.token = NoToken
  BY <1>3, <1>6, AccountNames DEF Sound
<1> QED
  BY <1>3, <1>5, <1>6, <1>7 DEF Sound, HasKeys, ChangeOK, MovedOK

\* Asking for a login code leaves what a login leaves.
LEMMA LoginOTP ==
  ASSUME NEW w, Good(w), w.s.login.phone \in Phone, NEW code \in {"1fa", "2fa"},
         NEW v \in RequestLoginOTP(w, code)
  PROVE  LoginLeaves(w, v)
<1>1. CASE v = Returns(w, "fail")
  BY <1>1, Returned DEF LoginLeaves
<1>2. CASE v = Returns(With(w, persistLoginOTP(w.s, w.s.login.phone, code)), "sent")
  <2> DEFINE s == persistLoginOTP(w.s, w.s.login.phone, code)
  <2>1. w.s \in StateMap
    BY DEF Good, Sound
  <2>2. s \in StateMap
    BY <2>1 DEF persistLoginOTP, StateMap, LoginState, MaybePhone, Stages, Windows
  <2>3. Sound(s, w.g) /\ s.token = w.s.token /\ s.tmp = w.s.tmp
    BY <2>1, <2>2, AccountNames
    DEF Good, Sound, HasKeys, ChangeOK, MovedOK, persistLoginOTP, StateMap, LoginState,
        LoginPending
  <2> QED
    BY <1>2, <2>3, Made DEF LoginLeaves
<1> QED
  BY <1>1, <1>2 DEF RequestLoginOTP, Refused

\* So does posting the code.
LEMMA LoginOf ==
  ASSUME NEW w, Good(w), w.s.login.phone \in Phone, Registered(w.g, w.s.login.phone),
         NEW v \in Login(w)
  PROVE  LoginLeaves(w, v)
<1>1. PICK s \in persistLoginReady(w.s, Owner(w), w.s.login.phone) :
         v = Returns(With(w, s), "ready")
  BY DEF Login
<1>2. Owner(w) \in Account
  BY DEF Owner, Registered, Good, GoPay, MaybeAccount
<1>3. Sound(s, w.g) /\ s.tmp = w.s.tmp /\ s.stage = "ready"
      /\ (s.token = w.s.token \/ s.token.acct \in Account)
  BY <1>1, <1>2, LoginReady DEF Good
<1> QED
  BY <1>1, <1>3, Made DEF LoginLeaves

\* Storing the answer of a probe leaves a sound state in stage login.
LEMMA ProbeSound ==
  ASSUME NEW s, NEW g, Sound(s, g), NEW p \in Phone, NEW id \in MaybePhone
  PROVE  LET t == persistLoginProbe(s, p, id) IN
         /\ Sound(t, g) /\ t.tmp = s.tmp /\ t.token = s.token
         /\ t.stage = "login" /\ t.login.phone = p
<1> DEFINE t == persistLoginProbe(s, p, id)
<1>1. s \in StateMap
  BY DEF Sound
<1>2. t \in StateMap
  BY <1>1 DEF persistLoginProbe, StateMap, LoginState, MaybePhone, Stages, Windows
<1>3. /\ t.stage = "login" /\ t.login.phone = p /\ t.token = s.token /\ t.tmp = s.tmp
      /\ t.change = s.change /\ t.usage = s.usage
  BY <1>1 DEF persistLoginProbe, StateMap, LoginState
<1> QED
  BY <1>2, <1>3 DEF Sound, HasKeys, ChangeOK, MovedOK

\* A world on its way through a login of p.
AtLogin(w, p, v) ==
  /\ Good(v) /\ v.g = w.g /\ v.seen = w.seen /\ v.s.tmp = w.s.tmp /\ v.s.token = w.s.token
  /\ v.s.stage = "login" /\ v.s.login.phone = p

\* Asking for the methods of a login does not leave the way.
LEMMA Methods ==
  ASSUME NEW w, NEW p \in Phone, NEW u, AtLogin(w, p, u), u.res = "ok",
         NEW v \in LoginMethods(u, p)
  PROVE  AtLogin(w, p, v) /\ v.res \in {"ok", "fail", "unregistered"}
<1> DEFINE P(id) == With(u, persistLoginProbe(u.s, p, id))
<1>1. CASE v = u \/ v = Returns(u, "fail") \/ v = Returns(u, "unregistered")
  BY <1>1, Returned DEF AtLogin
<1>2. CASE \E id \in MaybePhone : v = P(id) \/ v = Returns(P(id), "fail")
  <2>1. PICK id \in MaybePhone : v = P(id) \/ v = Returns(P(id), "fail")
    BY <1>2
  <2> DEFINE t == persistLoginProbe(u.s, p, id)
  <2>2. /\ Sound(t, u.g) /\ t.tmp = u.s.tmp /\ t.token = u.s.token
        /\ t.stage = "login" /\ t.login.phone = p
    BY ProbeSound DEF AtLogin, Good
  <2> HIDE DEF t
  <2>3. /\ Good(v) /\ v.s = t /\ v.g = u.g /\ v.seen = u.seen /\ v.res \in {u.res, "fail"}
    BY <2>1, <2>2, Made DEF AtLogin, t
  <2> QED
    BY <2>2, <2>3 DEF AtLogin
<1> QED
  BY <1>1, <1>2 DEF LoginMethods, Refused, FailsAt, MaybePhone

\* startLogin leaves what a login leaves.
LEMMA StartLogin ==
  ASSUME NEW w, Good(w), NEW p \in Phone, NEW v \in startLogin(w, p)
  PROVE  LoginLeaves(w, v)
<1> DEFINE at == [w.s EXCEPT !.login.phone = p, !.stage = "login"]
           u0 == Returns(With(w, at), "ok")
           Meets(x) == RequestLoginOTP(x, "1fa") \cup startLoginWithPIN(x)
           Probed(x) == Then(Initiated(x), "ok", Meets)
<1>1. AtLogin(w, p, u0) /\ u0.res = "ok"
  <2>1. w.s \in StateMap
    BY DEF Good, Sound
  <2>2. at \in StateMap
    BY <2>1 DEF StateMap, LoginState, MaybePhone, Stages
  <2>3. /\ at.stage = "login" /\ at.login.phone = p /\ at.token = w.s.token
        /\ at.tmp = w.s.tmp /\ at.change = w.s.change /\ at.usage = w.s.usage
    BY <2>1 DEF StateMap, LoginState
  <2>4. Sound(at, w.g)
    BY <2>2, <2>3 DEF Good, Sound, HasKeys, ChangeOK, MovedOK
  <2> QED
    <3> HIDE DEF at
    <3>1. /\ Good(u0) /\ u0.s = at /\ u0.g = w.g /\ u0.seen = w.seen /\ u0.res = "ok"
      BY <2>4, Made
    <3> QED
      BY <2>3, <3>1 DEF AtLogin
<1>2. CASE v = Returns(w, "fail")
  BY <1>2, Returned DEF LoginLeaves
<1>3. CASE v \in LoginMethods(u0, p) /\ v.res # "ok"
  BY <1>1, <1>3, Methods DEF AtLogin, LoginLeaves
<1>4. ASSUME NEW x \in LoginMethods(u0, p), x.res = "ok", v \in Probed(x)
      PROVE  LoginLeaves(w, v)
  <2>1. AtLogin(w, p, x)
    BY <1>1, <1>4, Methods
  <2>2. CASE v = Returns(x, "fail")
    BY <2>1, <2>2, Returned DEF AtLogin, LoginLeaves
  <2>3. CASE v \in Meets(x) /\ Registered(x.g, x.s.login.phone)
    <3>1. LoginLeaves(x, v)
      <4>1. CASE v \in RequestLoginOTP(x, "1fa") \cup RequestLoginOTP(x, "2fa")
        BY <2>1, <4>1, LoginOTP DEF AtLogin
      <4>2. CASE v \in Login(x)
        BY <2>1, <2>3, <4>2, LoginOf DEF AtLogin
      <4>3. CASE v = Returns(x, "fail")
        BY <2>1, <4>3, Returned DEF AtLogin, LoginLeaves
      <4> QED
        BY <2>3, <4>1, <4>2, <4>3 DEF startLoginWithPIN, Refused
    <3> QED
      BY <2>1, <3>1 DEF AtLogin, LoginLeaves
  <2>4. ASSUME NEW y \in Initiated(x), v = y \/ (y.res = "ok" /\ v \in Meets(y))
        PROVE  \/ v = Returns(x, "fail")
               \/ y = x /\ Registered(x.g, x.s.login.phone)
    <3>1. Returns(x, "fail").res # "ok"
      BY <2>1, Returned DEF AtLogin
    <3> QED
      BY <2>4, <3>1 DEF Initiated, Refused, When
  <2> QED
    BY <1>4, <2>2, <2>3, <2>4 DEF Then, Ended
<1> QED
  BY <1>2, <1>3, <1>4 DEF startLogin, Then, Ended, Refused

-----------------------------------------------------------------------------
(* The RPCs. *)

\* TokenKept of one call.
TokenStep(s, t) ==
  s.token.acct \notin {NoAccount, t.token.acct} =>
    \/ t.token.acct # NoAccount /\ t.stage \in {"ready", "signup_pin_required"}
    \/ t.tmp.acct = s.token.acct /\ t.stage = "phone_changed"
    \/ t.tmp = NoToken /\ t.signup.phone # NoPhone

\* What a call may do to GoPay's accounts: nothing, open one for a number
\* without, give one a free number, close one that was moved.
AccountsStep(g, h) ==
  \/ h.owner = g.owner /\ h.born = g.born /\ h.moved = g.moved
  \/ \E a \in Account \ g.born, p \in Phone :
       /\ g.owner[p] = NoAccount /\ h.owner = [g.owner EXCEPT ![p] = a]
       /\ h.born = g.born \cup {a} /\ h.moved = g.moved
  \/ \E a \in Account, p \in Phone :
       /\ NumberOf(g, a) # {} /\ g.owner[p] = NoAccount
       /\ h.owner = [q \in Phone |-> IF q = p THEN a
                                     ELSE IF g.owner[q] = a THEN NoAccount ELSE g.owner[q]]
       /\ h.born = g.born /\ h.moved = g.moved \cup {a}
  \/ \E a \in g.moved :
       /\ NumberOf(g, a) # {}
       /\ h.owner = [q \in Phone |-> IF g.owner[q] = a THEN NoAccount ELSE g.owner[q]]
       /\ h.born = g.born /\ h.moved = g.moved

\* What every call leaves of the world it began with.
Called(w, v) ==
  /\ Good(v) /\ v.seen \subseteq {"verified"}
  /\ TokenStep(w.s, v.s) /\ AccountsStep(w.g, v.g)

\* The world a call begins with.
Begins(w) == Good(w) /\ w.seen = {} /\ w.res = "ok"

\* What a login leaves is what a call leaves.
LEMMA LoginCalled ==
  ASSUME NEW w, Begins(w), NEW u, Good(u), u.g = w.g, u.seen = {},
         u.s.token.acct = w.s.token.acct, NEW v, LoginLeaves(u, v)
  PROVE  Called(w, v)
BY AccountNames DEF Called, Begins, LoginLeaves, TokenStep, AccountsStep

\* A login that is done, and the check of its token.
LEMMA LoginChecked ==
  ASSUME NEW w, Begins(w), NEW u, Good(u), u.g = w.g, u.seen = {},
         u.s.token.acct = w.s.token.acct, NEW x, LoginLeaves(u, x), NEW v, TokenChecked(x, v)
  PROVE  Called(w, v)
<1>1. Good(v) /\ v.g = w.g /\ v.seen \subseteq {"verified"} /\ v.s.token.acct = x.s.token.acct
  BY DEF LoginLeaves, TokenChecked, Alike
<1>2. x.s.token # u.s.token => v.s.token.acct \in Account /\ v.s.stage = "ready"
  BY <1>1 DEF LoginLeaves, TokenChecked, Verified
<1> QED
  BY <1>1, <1>2, AccountNames DEF Called, TokenStep, AccountsStep

\* completeLogin, within the code's window.
LEMMA CompleteLogin ==
  ASSUME NEW w, Begins(w), NEW u, Good(u), u.g = w.g, u.seen = {},
         u.s.token.acct = w.s.token.acct,
         u.s.stage = "login_otp_pending", "login" \in u.s.open,
         NEW v \in completeLogin(u)
  PROVE  Called(w, v)
<1>1. CASE v = Returns(u, "fail")
  BY <1>1, LoginCalled, Returned DEF LoginLeaves
<1>2. CASE /\ Registered(u.g, u.s.login.phone)
           /\ v \in Login(u) \cup continueLogin2FA(u)
  <2>1. u.s.login.phone \in Phone
    BY DEF Good, Sound, HasKeys, StateMap, LoginState, MaybePhone
  <2>2. LoginLeaves(u, v)
    BY <1>2, <2>1, LoginOf, LoginOTP DEF continueLogin2FA
  <2> QED
    BY <2>2, LoginCalled
<1> QED
  BY <1>1, <1>2 DEF completeLogin, pendingExpired, Refused, When

\* LoginComplete closes an expired login before it posts a code.
LEMMA LoginCompleteOK ==
  ASSUME NEW w, Begins(w), NEW v \in LoginComplete(w)
  PROVE  Called(w, v)
<1> DEFINE u == With(w, expireLoginIfNeeded(w.s))
<1>1. /\ Good(u) /\ u.g = w.g /\ u.seen = {} /\ u.s.token = w.s.token
      /\ u.s.stage = "login_otp_pending" => "login" \in u.s.open
  BY ExpiringLogin DEF Begins, Kept
<1> HIDE DEF u
<1>2. CASE v = Returns(u, "fail")
  BY <1>1, <1>2, LoginCalled, Returned DEF LoginLeaves
<1>3. CASE u.s.stage = "login_otp_pending" /\ v \in completeLogin(u)
  BY <1>1, <1>3, CompleteLogin
<1> QED
  BY <1>2, <1>3 DEF LoginComplete, u, Refused

\* LoginStart says ready only of a token it has just had verified.
LEMMA LoginStartOK ==
  ASSUME NEW w0, Begins(w0), NEW given \in MaybePhone, NEW v \in LoginStart(w0, given)
  PROVE  Called(w0, v) /\ (v.res = "ready" => Verified(v) /\ v.s.min # NoAccount)
<1> DEFINE w == With(w0, expireLoginIfNeeded(w0.s))
           p == IF given = NoPhone /\ w.s.stage \in {"login", "login_otp_pending"}
                  THEN w.s.login.phone ELSE given
           Judged(x) == {Returns(x, IF tokenCheckReady(x) THEN "ready" ELSE "fail")}
           Ready(x) == Then(checkTokenValid(x), "valid", Judged)
           Start(x) == IF p = NoPhone THEN Refused(x)
                       ELSE IF LoginPending(w.s) THEN {Returns(x, "sent")}
                       ELSE Then(startLogin(x, p), "ready", Ready)
           Right(x) == Called(w0, x) /\ (x.res = "ready" => Verified(x) /\ x.s.min # NoAccount)
           From(x) == Good(x) /\ x.g = w0.g /\ x.seen = {} /\ x.s.token.acct = w0.s.token.acct
<1>1. From(w)
  BY ExpiringLogin DEF Begins, Kept
<1>2. p \in MaybePhone
  <2>1. w.s \in StateMap
    BY <1>1 DEF Good, Sound
  <2> QED
    BY <2>1 DEF StateMap, LoginState
<1> HIDE DEF w, p
<1>3. ASSUME NEW x, Called(w0, x), NEW y \in Judged(x), x.res = "valid" => Verified(x)
      PROVE  Right(y)
  <2>1. Good(y) /\ y.s = x.s /\ y.g = x.g /\ y.seen = x.seen
        /\ (y.res = "ready" => x.res = "valid" /\ x.s.min # NoAccount)
    BY <1>3, Returned DEF Called, tokenCheckReady, HasMin
  <2> QED
    BY <1>3, <2>1 DEF Called, Verified
<1>4. ASSUME NEW x, From(x), NEW y \in Start(x)
      PROVE  Right(y)
  <2>1. CASE y = Returns(x, "fail") \/ y = Returns(x, "sent")
    <3>1. Good(y) /\ y.s = x.s /\ y.g = x.g /\ y.seen = x.seen /\ y.res \in {"fail", "sent"}
      <4>0. Good(x)
        BY <1>4
      <4>1. CASE y = Returns(x, "fail")
        BY <4>0, <4>1, Returned
      <4>2. CASE y = Returns(x, "sent")
        BY <4>0, <4>2, Returned
      <4> QED
        BY <2>1, <4>1, <4>2
    <3>2. LoginLeaves(x, y) /\ y.res # "ready"
      BY <3>1 DEF LoginLeaves
    <3> QED
      BY <1>4, <3>2, LoginCalled
  <2>2. CASE p # NoPhone /\ y \in Then(startLogin(x, p), "ready", Ready)
    <3>1. ASSUME NEW z \in startLogin(x, p)
          PROVE  Called(w0, z) /\ LoginLeaves(x, z)
      BY <1>2, <1>4, <2>2, <3>1, StartLogin, LoginCalled DEF MaybePhone
    <3>2. CASE y \in startLogin(x, p) /\ y.res # "ready"
      BY <3>1, <3>2
    <3>3. ASSUME NEW z \in startLogin(x, p), z.res = "ready", NEW c \in checkTokenValid(z)
          PROVE  Called(w0, c) /\ (c.res = "valid" => Verified(c)) /\ c.res # "ready"
      <4>1. LoginLeaves(x, z) /\ Good(z)
        BY <3>1, <3>3 DEF LoginLeaves
      <4>2. TokenChecked(z, c) /\ c.res \in {"valid", "fail"}
        BY <3>3, <4>1, CheckToken
      <4> QED
        BY <1>4, <4>1, <4>2, LoginChecked DEF TokenChecked
    <3>4. ASSUME NEW z \in startLogin(x, p), z.res = "ready", y \in Ready(z)
          PROVE  Right(y)
      <4>1. PICK c \in checkTokenValid(z) :
               (y = c /\ c.res # "valid") \/ (c.res = "valid" /\ y \in Judged(c))
        <5> HIDE DEF Judged
        <5> QED
          BY <3>4 DEF Then, Ended
      <4> QED
        BY <3>3, <3>4, <4>1, <1>3
    <3> QED
      BY <2>2, <3>2, <3>4 DEF Then, Ended
  <2> QED
    BY <1>4, <2>1, <2>2 DEF Refused
<1>5. ASSUME NEW x \in checkTokenValid(w)
      PROVE  /\ Called(w0, x) /\ (x.res = "valid" => Verified(x))
             /\ x.res = "fail" => From(x)
  <2>1. TokenChecked(w, x) /\ x.res \in {"valid", "fail"}
    BY <1>1, CheckToken
  <2> QED
    BY <1>1, <2>1 DEF TokenChecked, Called, TokenStep, AccountsStep, Alike
<1>6. CASE v \in Start(w)
  BY <1>1, <1>4, <1>6
<1>7. CASE \E x \in checkTokenValid(w) :
             (x.res = "valid" /\ v \in Judged(x)) \/ (x.res = "fail" /\ v \in Start(x))
  BY <1>3, <1>4, <1>5, <1>7
<1>8. v \in IF w.s.stage \in {"ready", "consumed"}
           THEN (UNION {Judged(x) : x \in Ended(checkTokenValid(w), "valid")})
                \cup UNION {Start(x) : x \in Ended(checkTokenValid(w), "fail")}
           ELSE Start(w)
  BY DEF LoginStart, w, p
<1> HIDE DEF Judged, Start
<1>9. CASE w.s.stage \in {"ready", "consumed"}
  <2> DEFINE J == {Judged(x) : x \in Ended(checkTokenValid(w), "valid")}
             S == {Start(x) : x \in Ended(checkTokenValid(w), "fail")}
  <2>1. v \in (UNION J) \cup (UNION S)
    BY <1>8, <1>9
  <2>2. ASSUME NEW Y \in J, v \in Y
        PROVE  \E x \in Ended(checkTokenValid(w), "valid") : v \in Judged(x)
    BY <2>2
  <2>3. ASSUME NEW Y \in S, v \in Y
        PROVE  \E x \in Ended(checkTokenValid(w), "fail") : v \in Start(x)
    BY <2>3
  <2> HIDE DEF J, S
  <2>4. (\E Y \in J : v \in Y) \/ (\E Y \in S : v \in Y)
    BY <2>1
  <2> QED
    BY <1>7, <2>2, <2>3, <2>4 DEF Ended
<1> QED
  BY <1>6, <1>8, <1>9

\* A call that keeps the token's account and GoPay's accounts.
LEMMA Still ==
  ASSUME NEW w, Begins(w), NEW v, Good(v), v.g = w.g, v.seen \subseteq {"verified"},
         v.s.token.acct = w.s.token.acct
  PROVE  Called(w, v)
BY DEF Called, Begins, TokenStep, AccountsStep

\* A renewal is such a call.
LEMMA Renewing ==
  ASSUME NEW w, Begins(w), NEW v, Renewed(w, v)
  PROVE  Called(w, v) /\ v.seen = {} /\ v.s.token.acct = w.s.token.acct
BY Still, RenewedAlike DEF Renewed, Begins, Alike

\* A check of the token is such a call.
LEMMA Checking ==
  ASSUME NEW w, Begins(w), NEW v, TokenChecked(w, v)
  PROVE  Called(w, v)
BY Still DEF TokenChecked, Begins, Alike

\* A sound state may take a stage whose keys it has.
LEMMA StageSound ==
  ASSUME NEW s, NEW g, Sound(s, g), NEW k \in Stages,
         k \notin {"login_otp_pending", "signup_otp_pending", "signup_pin_required",
                   "signup_pin_otp_pending", "phone_changed"},
         k = "change_phone_otp_pending" => s.change # NoChange,
         k = "deactivate_otp_pending" => s.tmp.acct # NoAccount
  PROVE  LET t == [s EXCEPT !.stage = k] IN
         Sound(t, g) /\ t.token = s.token /\ t.stage = k
<1> DEFINE t == [s EXCEPT !.stage = k]
<1>1. s \in StateMap
  BY DEF Sound
<1>2. t \in StateMap
  BY <1>1 DEF StateMap
<1>3. /\ t.stage = k /\ t.token = s.token /\ t.tmp = s.tmp /\ t.change = s.change
      /\ t.usage = s.usage
  BY <1>1 DEF StateMap
<1> HIDE DEF t
<1>4. Sound(t, g)
  BY <1>2, <1>3 DEF Sound, HasKeys, ChangeOK, MovedOK
<1> QED
  BY <1>3, <1>4 DEF t

\* A sound state may have any windows.
LEMMA OpenSound ==
  ASSUME NEW s, NEW g, Sound(s, g), NEW W, W \subseteq Windows
  PROVE  LET t == [s EXCEPT !.open = W] IN
         Sound(t, g) /\ t.token = s.token /\ t.stage = s.stage
<1> DEFINE t == [s EXCEPT !.open = W]
<1>1. s \in StateMap
  BY DEF Sound
<1>2. t \in StateMap
  BY <1>1 DEF StateMap
<1>3. /\ t.stage = s.stage /\ t.token = s.token /\ t.tmp = s.tmp /\ t.change = s.change
      /\ t.usage = s.usage /\ t.login = s.login /\ t.signup = s.signup /\ t.pin = s.pin
      /\ t.phone = s.phone
  BY <1>1 DEF StateMap
<1> HIDE DEF t
<1>4. Sound(t, g)
  BY <1>2, <1>3 DEF Sound, HasKeys, ChangeOK, MovedOK, LoginPending, PINPhone
<1> QED
  BY <1>3, <1>4 DEF t

\* CheckTokenValid.
LEMMA CheckTokenOK ==
  ASSUME NEW w, Begins(w), NEW v \in CheckTokenValid(w)
  PROVE  Called(w, v)
BY CheckToken, Checking DEF CheckTokenValid, Begins

\* CheckPhone.
LEMMA CheckPhoneOK ==
  ASSUME NEW w, Begins(w), NEW p \in Phone, NEW v \in CheckPhone(w, p)
  PROVE  Called(w, v)
<1>1. CASE v = Returns(w, "fail")
  BY <1>1, Returned, Still DEF Begins
<1>2. CASE v = Returns(w, "available")
  BY <1>2, Returned, Still DEF Begins
<1>3. CASE \E id \in MaybePhone : v = Returns(With(w, persistLoginProbe(w.s, p, id)), "registered")
  <2>1. PICK id \in MaybePhone : v = Returns(With(w, persistLoginProbe(w.s, p, id)), "registered")
    BY <1>3
  <2> DEFINE t == persistLoginProbe(w.s, p, id)
  <2>2. Sound(t, w.g) /\ t.token = w.s.token
    BY ProbeSound DEF Begins, Good
  <2> HIDE DEF t
  <2>3. Good(v) /\ v.s = t /\ v.g = w.g /\ v.seen = w.seen
    BY <2>1, <2>2, Made DEF Begins, t
  <2> QED
    BY <2>2, <2>3, Still DEF Begins
<1> QED
  BY <1>1, <1>2, <1>3 DEF CheckPhone, checkPhoneByLoginMethods, Refused, MaybePhone

\* Status.
LEMMA StatusOK ==
  ASSUME NEW w, Begins(w), NEW v \in Status(w)
  PROVE  Called(w, v)
<1> DEFINE u == Expired(w)
<1>1. Good(u) /\ u.g = w.g /\ u.seen = {} /\ u.s.token = w.s.token
  BY Expiring DEF Begins, Kept
<1> HIDE DEF u
<1>2. CASE v = Returns(u, "done")
  BY <1>1, <1>2, Returned, Still
<1>3. CASE \E x \in ensureAccessToken(u) : v = Returns(x, "done")
  <2>1. PICK x \in ensureAccessToken(u) : v = Returns(x, "done")
    BY <1>3
  <2>2. Renewed(u, x)
    BY <1>1, EnsureToken
  <2>3. Good(v) /\ v.s = x.s /\ v.g = x.g /\ v.seen = x.seen
    BY <2>1, <2>2, Returned DEF Renewed
  <2>4. Alike(u.s, x.s)
    BY <1>1, <2>2, RenewedAlike
  <2>5. v.g = w.g /\ v.seen = {} /\ v.s.token.acct = w.s.token.acct
    BY <1>1, <2>2, <2>3, <2>4 DEF Renewed, Alike
  <2> QED
    BY <2>3, <2>5, Still
<1> QED
  BY <1>2, <1>3 DEF Status, u

\* GetReadyAccountToken says ready only of a token it has just had verified.
LEMMA GetReadyOK ==
  ASSUME NEW w, Begins(w), NEW v \in GetReadyAccountToken(w)
  PROVE  Called(w, v) /\ (v.res = "ready" => Verified(v) /\ v.s.min # NoAccount)
<1>1. CASE v = Returns(w, "fail")
  BY <1>1, Returned, Still DEF Begins
<1>2. CASE v \in checkTokenValid(w)
  BY <1>2, CheckToken, Checking DEF Begins
<1>3. CASE \E x \in checkTokenValid(w) :
             /\ x.res = "valid"
             /\ v = Returns(x, "fail") \/ (v = Returns(x, "ready") /\ HasMin(x))
  <2>1. PICK x \in checkTokenValid(w) :
          /\ x.res = "valid"
          /\ v = Returns(x, "fail") \/ (v = Returns(x, "ready") /\ HasMin(x))
    BY <1>3
  <2>2. TokenChecked(w, x) /\ Good(x) /\ Verified(x)
    BY <2>1, CheckToken DEF Begins, TokenChecked
  <2>3. Good(v) /\ v.s = x.s /\ v.g = x.g /\ v.seen = x.seen /\ (v.res = "ready" => HasMin(x))
    BY <2>1, <2>2, Returned
  <2> QED
    BY <2>2, <2>3, Still DEF Begins, TokenChecked, Alike, Verified, HasMin
<1> QED
  BY <1>1, <1>2, <1>3 DEF GetReadyAccountToken, Then, Ended, Refused

\* Unlink.
LEMMA UnlinkOK ==
  ASSUME NEW w, Begins(w), NEW v \in unlink(w)
  PROVE  Called(w, v)
<1>1. PICK u \in clientForState(w) :
        \/ v = u \/ v = Returns(u, "fail")
        \/ v = Returns(With(u, [u.s EXCEPT !.stage = "consumed"]), "done")
  BY DEF unlink, Then, Ended, Refused
<1>2. Renewed(w, u) /\ Good(u)
  BY ClientOf DEF Renewed, Begins
<1>3. Called(w, u) /\ u.seen = {} /\ u.s.token.acct = w.s.token.acct /\ u.g = w.g
  BY <1>2, Renewing DEF Renewed
<1>4. CASE v = Returns(u, "fail")
  BY <1>2, <1>3, <1>4, Returned, Still
<1>5. CASE v = Returns(With(u, [u.s EXCEPT !.stage = "consumed"]), "done")
  <2> DEFINE t == [u.s EXCEPT !.stage = "consumed"]
  <2>1. Sound(t, u.g) /\ t.token = u.s.token
    BY <1>2, StageSound DEF Good, Stages
  <2> HIDE DEF t
  <2>2. Good(v) /\ v.s = t /\ v.g = u.g /\ v.seen = u.seen
    BY <1>2, <1>5, <2>1, Made DEF t
  <2> QED
    BY <1>3, <2>1, <2>2, Still
<1> QED
  BY <1>1, <1>3, <1>4, <1>5

\* GetQrId and ClaimEnvelope.
LEMMA UseTokenOK ==
  ASSUME NEW w, Begins(w), NEW v, v \in getQrID(w) \/ v \in claimEnvelope(w)
  PROVE  Called(w, v)
<1>1. CASE v = Returns(w, "fail")
  BY <1>1, Returned, Still DEF Begins
<1>2. CASE v \in UseToken(w)
  <2>1. PICK u \in clientForState(w) : v = u \/ v = Returns(u, "fail") \/ v = Returns(u, "done")
    BY <1>2 DEF UseToken, Then, Ended, Refused, When
  <2>2. Renewed(w, u) /\ Good(u)
    BY ClientOf DEF Renewed, Begins
  <2>3. Called(w, u) /\ u.seen = {} /\ u.s.token.acct = w.s.token.acct /\ u.g = w.g
    BY <2>2, Renewing DEF Renewed
  <2>4. CASE v = Returns(u, "fail")
    BY <2>2, <2>3, <2>4, Returned, Still
  <2>5. CASE v = Returns(u, "done")
    BY <2>2, <2>3, <2>5, Returned, Still
  <2> QED
    BY <2>1, <2>3, <2>4, <2>5
<1> QED
  BY <1>1, <1>2 DEF getQrID, claimEnvelope, Refused

-----------------------------------------------------------------------------
(* Changing the number. *)

\* Reading the profile keeps the token and the uses.
LEMMA ProfileRead ==
  ASSUME NEW u, Good(u), u.s.token.acct # NoAccount, NEW x \in loadGojekProfile(u)
  PROVE  /\ Good(x) /\ x.g = u.g /\ x.seen = u.seen /\ x.s.token = u.s.token
         /\ x.s.usage = u.s.usage
<1>1. CASE x = u
  BY <1>1
<1>2. CASE x \in syncProfileFields(u)
  <2>1. PICK p \in {u.s.phone} \cup NumberOf(u.g, u.s.token.acct) :
           x = With(u, [u.s EXCEPT !.phone = p])
    BY <1>2 DEF syncProfileFields
  <2> DEFINE t == [u.s EXCEPT !.phone = p]
  <2>2. u.s \in StateMap /\ Sound(u.s, u.g)
    BY DEF Good, Sound
  <2>3. t \in StateMap
    BY <2>1, <2>2 DEF StateMap, MaybePhone, NumberOf
  <2>4. /\ t.token = u.s.token /\ t.usage = u.s.usage /\ t.stage = u.s.stage
        /\ t.tmp = u.s.tmp /\ t.change = u.s.change /\ t.signup = u.s.signup
        /\ t.login = u.s.login /\ t.pin = u.s.pin /\ t.phone = p
        /\ p = u.s.phone \/ p \in Phone
    BY <2>1, <2>2 DEF StateMap, NumberOf
  <2>5. u.s.stage # "phone_changed"
    BY <2>2 DEF Sound, MovedOK, NoToken
  <2>6. x = With(u, t)
    BY <2>1
  <2> HIDE DEF t
  <2>7. Sound(t, u.g)
    <3>1. u.s.stage = "signup_pin_otp_pending" => PINPhone(t) # NoPhone
      BY <2>2, <2>4, AccountNames DEF Sound, HasKeys, PINPhone
    <3> QED
      BY <2>2, <2>3, <2>4, <2>5, <3>1 DEF Sound, HasKeys, ChangeOK, MovedOK, LoginPending
  <2> QED
    BY <2>4, <2>6, <2>7, Made
<1> QED
  BY <1>1, <1>2 DEF loadGojekProfile

\* ChangePhoneStart: a change is pending only with a use of its number left.
LEMMA ChangeStartOK ==
  ASSUME NEW w, Begins(w), NEW q \in MaybePhone, NEW v \in changePhoneStart(w, q)
  PROVE  Called(w, v)
<1>1. CASE v = Returns(w, "fail")
  BY <1>1, Returned, Still DEF Begins
<1>2. ASSUME q \in Phone, ~(w.s.usage[q] >= MaxUsage),
             NEW u \in clientForState(w), u.res = "ok", NEW x \in loadGojekProfile(u),
             v = Returns(x, "fail") \/ (/\ LiveToken(x.g, x.s.token)
                                        /\ v \in storeChangePhoneOTPState(x, q))
      PROVE  Called(w, v)
  <2>1. Renewed(w, u) /\ Good(u) /\ u.s.token.acct # NoAccount
    BY <1>2, ClientOf DEF Renewed, Begins
  <2>2. /\ u.g = w.g /\ u.seen = {} /\ u.s.token.acct = w.s.token.acct
        /\ u.s.usage = w.s.usage
    BY <2>1, Renewing, RenewedAlike DEF Renewed, Begins, Alike
  <2>3. /\ Good(x) /\ x.g = u.g /\ x.seen = u.seen /\ x.s.token = u.s.token
        /\ x.s.usage = u.s.usage
    BY <1>2, <2>1, ProfileRead
  <2>4. CASE v = Returns(x, "fail")
    BY <2>2, <2>3, <2>4, Returned, Still
  <2>5. CASE /\ LiveToken(x.g, x.s.token)
             /\ v \in storeChangePhoneOTPState(x, q)
    <3> DEFINE t == [x.s EXCEPT !.change = [phone |-> q, acct |-> x.s.token.acct],
                                !.stage = "change_phone_otp_pending"]
    <3>1. x.s \in StateMap /\ Sound(x.s, x.g)
      BY <2>3 DEF Good, Sound
    <3>2. x.s.token.acct \in Account
      BY <2>5, <3>1 DEF LiveToken, StateMap, TokenState, MaybeAccount
    <3>3. t \in StateMap
      BY <1>2, <3>1, <3>2 DEF StateMap, ChangeState, MaybePhone, MaybeAccount, Stages
    <3>4. /\ t.stage = "change_phone_otp_pending" /\ t.token = x.s.token
          /\ t.change.phone = q /\ t.change.acct = x.s.token.acct /\ t.tmp = x.s.tmp
          /\ t.usage = x.s.usage
      BY <3>1 DEF StateMap
    <3>5. t.change # NoChange
      BY <1>2, <3>4, AccountNames DEF NoChange
    <3>9. x.s.usage[q] < MaxUsage
      BY <1>2, <2>2, <2>3, <3>1 DEF StateMap, MaxUsage
    <3> HIDE DEF t
    <3>6. Sound(t, x.g)
      BY <1>2, <2>3, <3>1, <3>2, <3>3, <3>4, <3>5, <3>9
      DEF Sound, HasKeys, ChangeOK, MovedOK
    <3>7. v = Returns(With(x, t), "sent")
      BY <2>5 DEF t, storeChangePhoneOTPState
    <3>8. Good(v) /\ v.s = t /\ v.g = x.g /\ v.seen = x.seen
      BY <2>3, <3>6, <3>7, Made
    <3> QED
      BY <2>2, <2>3, <3>4, <3>8, Still
  <2> QED
    BY <1>2, <2>4, <2>5
<1>3. CASE v \in clientForState(w)
  BY <1>3, ClientOf, Renewing DEF Begins
<1> QED
  <2> DEFINE Request(x) ==
               Refused(x) \cup When(LiveToken(x.g, x.s.token) /\ ~Registered(x.g, q),
                                    storeChangePhoneOTPState(x, q))
             Profile(u) == UNION {Request(x) : x \in loadGojekProfile(u)}
  <2>1. ASSUME q \in Phone, ~(w.s.usage[q] >= MaxUsage), NEW u \in clientForState(w),
               u.res = "ok", v \in Profile(u)
        PROVE  Called(w, v)
    BY <1>2, <2>1 DEF Refused, When
  <2>2. v \in IF ~tokenUsable(w.s.token) \/ q = NoPhone THEN Refused(w)
             ELSE IF w.s.usage[q] >= MaxUsage THEN Refused(w)
             ELSE Then(Then(resolveGoPayAccountPin(w), "ok", clientForState), "ok", Profile)
    BY DEF changePhoneStart
  <2>3. CASE v \in Then(Then(Refused(w) \cup {w}, "ok", clientForState), "ok", Profile)
             /\ q \in Phone /\ ~(w.s.usage[q] >= MaxUsage)
    <3> HIDE DEF Profile
    <3>1. PICK u \in Then(Refused(w) \cup {w}, "ok", clientForState) :
             v = u \/ (u.res = "ok" /\ v \in Profile(u))
      BY <2>3 DEF Then, Ended
    <3>2. u = Returns(w, "fail") \/ u \in clientForState(w)
      <4>1. Returns(w, "fail").res # "ok"
        BY Returned DEF Begins
      <4> QED
        BY <3>1, <4>1 DEF Then, Ended, Refused, Begins
    <3>3. u = Returns(w, "fail") => u.res = "fail"
      BY Returned DEF Begins
    <3> QED
      BY <1>1, <1>3, <2>1, <2>3, <3>1, <3>2, <3>3
  <2> QED
    <3> HIDE DEF Profile
    <3> QED
      BY <1>1, <2>2, <2>3 DEF Refused, resolveGoPayAccountPin, MaybePhone

\* ChangePhoneRetry.
LEMMA ChangeRetryOK ==
  ASSUME NEW w, Begins(w), NEW v \in changePhoneRetry(w)
  PROVE  Called(w, v)
<1>1. CASE v = Returns(w, "fail")
  BY <1>1, Returned, Still DEF Begins
<1>2. ASSUME NEW u \in clientForState(w), w.s.change # NoChange,
             \/ v = u \/ v = Returns(u, "fail")
             \/ v = Returns(With(u, [u.s EXCEPT !.stage = "change_phone_otp_pending"]), "sent")
      PROVE  Called(w, v)
  <2>1. Renewed(w, u) /\ Good(u)
    BY ClientOf DEF Renewed, Begins
  <2>2. Called(w, u) /\ u.seen = {} /\ u.s.token.acct = w.s.token.acct /\ u.g = w.g
    BY <2>1, Renewing DEF Renewed
  <2>3. u.s.change # NoChange
    BY <1>2, <2>1, RenewedAlike DEF Alike, Begins
  <2>4. CASE v = Returns(u, "fail")
    BY <2>1, <2>2, <2>4, Returned, Still
  <2>5. CASE v = Returns(With(u, [u.s EXCEPT !.stage = "change_phone_otp_pending"]), "sent")
    <3> DEFINE t == [u.s EXCEPT !.stage = "change_phone_otp_pending"]
    <3>1. Sound(t, u.g) /\ t.token = u.s.token
      BY <2>1, <2>3, StageSound DEF Good, Stages
    <3> HIDE DEF t
    <3>2. Good(v) /\ v.s = t /\ v.g = u.g /\ v.seen = u.seen
      BY <2>1, <2>5, <3>1, Made DEF t
    <3> QED
      BY <2>2, <3>1, <3>2, Still
  <2> QED
    BY <1>2, <2>2, <2>4, <2>5
<1> QED
  BY <1>1, <1>2 DEF changePhoneRetry, Then, Ended, Refused

\* An account is moved to a free number.
LEMMA Moving ==
  ASSUME NEW u, Good(u), LiveToken(u.g, u.s.token),
         u.s.change # NoChange, u.s.token.acct = u.s.change.acct,
         ~Registered(u.g, u.s.change.phone)
  PROVE  LET m == Move(u) IN
         /\ Good(m) /\ m.s = u.s /\ m.seen = u.seen /\ m.res = u.res
         /\ AccountsStep(u.g, m.g)
         /\ m.g.owner[u.s.change.phone] = u.s.token.acct
         /\ u.s.token.acct \in m.g.moved
<1> DEFINE c == u.s.change
           o == [q \in Phone |-> IF q = c.phone THEN c.acct
                                 ELSE IF u.g.owner[q] = c.acct THEN NoAccount ELSE u.g.owner[q]]
           h == [u.g EXCEPT !.owner = o, !.moved = u.g.moved \cup {c.acct}]
           m == Move(u)
<1>1. /\ u.s \in StateMap /\ Sound(u.s, u.g) /\ Accounts(u.g) /\ IsWorld(u)
      /\ u.g \in GoPay
  BY DEF Good, Sound
<1>2. c.phone \in Phone /\ c.acct \in Account
  BY <1>1 DEF Sound, ChangeOK
<1>3. u.g.owner[c.phone] = NoAccount
  BY DEF Registered
<1>4. o \in [Phone -> MaybeAccount]
  BY <1>1, <1>2 DEF GoPay, MaybeAccount
<1>5. h \in GoPay /\ h.owner = o /\ h.born = u.g.born /\ h.moved = u.g.moved \cup {c.acct}
  BY <1>1, <1>2, <1>4 DEF GoPay
<1>6. NumberOf(u.g, c.acct) # {}
  BY DEF LiveToken
<1>7. c.acct \in u.g.born
  BY <1>1, <1>2, <1>6, AccountNames DEF NumberOf, Accounts
<1>8. m = [u EXCEPT !.g = h]
  BY <1>1 DEF Move, GoPay
<1>9. m.s = u.s /\ m.g = h /\ m.seen = u.seen /\ m.res = u.res /\ IsWorld(m)
  BY <1>1, <1>8 DEF IsWorld
<1>10. Accounts(h)
  BY <1>1, <1>5, <1>7 DEF Accounts
<1>11. Sound(u.s, h)
  BY <1>1, <1>5 DEF Sound, MovedOK
<1>12. AccountsStep(u.g, h)
  BY <1>1, <1>2, <1>3, <1>5, <1>6 DEF AccountsStep
<1>13. o[c.phone] = u.s.token.acct /\ u.s.token.acct \in h.moved
  BY <1>2, <1>5
<1>14. Good(m)
  BY <1>1, <1>5, <1>9, <1>10, <1>11 DEF Good
<1> HIDE DEF h, o, c
<1> QED
  BY <1>5, <1>9, <1>12, <1>13, <1>14 DEF c

\* What a confirmed change leaves of the state.
ChangedTo(s) ==
  migrateActiveTokensToTmp(
    [s EXCEPT !.phone = s.change.phone, !.usage[s.change.phone] = @ + 1,
              !.stage = "phone_changed", !.change = NoChange])

\* A confirmed change leaves a sound state: the use is counted, the token
\* is aside.
LEMMA ChangedSound ==
  ASSUME NEW s, NEW g, Sound(s, g), s.change # NoChange, s.token.acct # NoAccount,
         g.owner[s.change.phone] = s.token.acct, s.token.acct \in g.moved
  PROVE  LET t == ChangedTo(s) IN
         Sound(t, g) /\ t.tmp.acct = s.token.acct /\ t.stage = "phone_changed"
<1> DEFINE q == s.change.phone
           use == [s.usage EXCEPT ![q] = @ + 1]
           t == ChangedTo(s)
<1>1. s \in StateMap /\ q \in Phone /\ s.usage[q] < MaxUsage
      /\ \A p \in Phone : s.usage[p] <= MaxUsage
  BY DEF Sound, ChangeOK
<1>2. use \in [Phone -> 0..3] /\ \A p \in Phone : use[p] <= MaxUsage
  BY <1>1 DEF StateMap, MaxUsage
<1>3. t = [s EXCEPT !.phone = q, !.usage = use, !.stage = "phone_changed",
                    !.change = NoChange, !.tmp = s.token, !.token = NoToken]
  BY <1>1 DEF ChangedTo, migrateActiveTokensToTmp, StateMap
<1>4. t \in StateMap
  <2> HIDE DEF use, t
  <2>1. NoChange \in ChangeState /\ NoToken \in TokenState /\ "phone_changed" \in Stages
    BY DEF NoChange, ChangeState, NoToken, TokenState, MaybePhone, MaybeAccount, Stages
  <2> QED
    BY <1>1, <1>2, <1>3, <2>1 DEF StateMap, MaybePhone
<1>5. /\ t.phone = q /\ t.usage = use /\ t.stage = "phone_changed" /\ t.change = NoChange
      /\ t.tmp = s.token /\ t.token = NoToken
  <2> HIDE DEF use, t
  <2> QED
    BY <1>1, <1>3 DEF StateMap
<1> HIDE DEF use, t
<1>6. Sound(t, g)
  BY <1>1, <1>2, <1>4, <1>5 DEF Sound, HasKeys, ChangeOK, MovedOK
<1> QED
  BY <1>5, <1>6 DEF t

\* ChangePhoneComplete.
LEMMA ChangeCompleteOK ==
  ASSUME NEW w, Begins(w), NEW v \in changePhoneComplete(w)
  PROVE  Called(w, v)
<1> DEFINE Confirmed(x) == {Returns(With(x, ChangedTo(x.s)), "done")}
           Post(x) ==
             Refused(x) \cup
             When(/\ LiveToken(x.g, x.s.token) /\ x.s.token.acct = x.s.change.acct
                  /\ ~Registered(x.g, x.s.change.phone),
                  Then(confirmChangePhone(Move(x)), "ok", Confirmed))
<1>1. v \in IF w.s.change = NoChange THEN Refused(w) ELSE Then(clientForState(w), "ok", Post)
  BY DEF changePhoneComplete, ChangedTo
<1>2. CASE v = Returns(w, "fail")
  BY <1>2, Returned, Still DEF Begins
<1>3. CASE v \in clientForState(w)
  BY <1>3, ClientOf, Renewing DEF Begins
<1>4. ASSUME w.s.change # NoChange, NEW u \in clientForState(w), u.res = "ok", v \in Post(u)
      PROVE  Called(w, v)
  <2>1. Renewed(w, u) /\ Good(u) /\ u.s.token.acct # NoAccount
    BY <1>4, ClientOf DEF Renewed, Begins
  <2>2. u.seen = {} /\ u.s.token.acct = w.s.token.acct /\ u.g = w.g /\ u.s.change # NoChange
    BY <1>4, <2>1, Renewing, RenewedAlike DEF Renewed, Alike, Begins
  <2>3. CASE v = Returns(u, "fail")
    BY <2>1, <2>2, <2>3, Returned, Still
  <2>4. CASE /\ LiveToken(u.g, u.s.token) /\ u.s.token.acct = u.s.change.acct
             /\ ~Registered(u.g, u.s.change.phone)
             /\ v \in Then(confirmChangePhone(Move(u)), "ok", Confirmed)
    <3> DEFINE m == Move(u)
    <3>1. /\ Good(m) /\ m.s = u.s /\ m.seen = u.seen /\ m.res = u.res
          /\ AccountsStep(u.g, m.g)
          /\ m.g.owner[u.s.change.phone] = u.s.token.acct
          /\ u.s.token.acct \in m.g.moved
      BY <2>1, <2>2, <2>4, Moving
    <3>2. v = Returns(m, "fail") \/ v = Returns(With(m, ChangedTo(m.s)), "done")
      <4> HIDE DEF m
      <4>1. Returns(m, "fail").res # "ok"
        BY <3>1, Returned
      <4> QED
        BY <1>4, <2>4, <3>1, <4>1 DEF Then, Ended, confirmChangePhone, Refused, m
    <3> HIDE DEF m
    <3>3. CASE v = Returns(m, "fail")
      <4>1. Good(v) /\ v.s = u.s /\ v.g = m.g /\ v.seen = u.seen
        BY <3>1, <3>3, Returned
      <4> QED
        BY <2>2, <3>1, <4>1 DEF Called, TokenStep
    <3>4. CASE v = Returns(With(m, ChangedTo(m.s)), "done")
      <4> DEFINE t == ChangedTo(u.s)
      <4>1. Sound(t, m.g) /\ t.tmp.acct = u.s.token.acct /\ t.stage = "phone_changed"
        BY <2>1, <2>2, <3>1, ChangedSound DEF Good
      <4> HIDE DEF t
      <4>2. Good(v) /\ v.s = t /\ v.g = m.g /\ v.seen = u.seen
        BY <3>1, <3>4, <4>1, Made DEF t
      <4> QED
        BY <2>2, <3>1, <4>1, <4>2 DEF Called, TokenStep
    <3> QED
      BY <3>2, <3>3, <3>4
  <2> QED
    BY <1>4, <2>3, <2>4 DEF Refused, When
<1> HIDE DEF Post
<1> QED
  BY <1>1, <1>2, <1>3, <1>4 DEF Then, Ended, Refused

-----------------------------------------------------------------------------
(* Deactivating. *)

\* DeactivateStart asks for the code of the account kept aside.
LEMMA DeactivateStartOK ==
  ASSUME NEW w, Begins(w), NEW v \in deactivateStart(w)
  PROVE  Called(w, v)
<1> DEFINE u == Returns(w, "ok")
<1>1. Good(u) /\ u.s = w.s /\ u.g = w.g /\ u.seen = {} /\ u.res = "ok"
  BY Returned DEF Begins
<1>2. \/ v = Returns(w, "fail") \/ v = u \/ v = Returns(u, "fail")
      \/ /\ tmpTokenUsable(w.s)
         /\ v = Returns(With(u, [u.s EXCEPT !.stage = "deactivate_otp_pending"]), "sent")
  <2>1. Returns(w, "fail").res = "fail" /\ Returns(u, "fail").res = "fail"
    <3> HIDE DEF u
    <3> QED
      BY <1>1, Returned DEF Begins
  <2>2. CASE ~tmpTokenUsable(w.s)
    BY <2>2 DEF deactivateStart, Refused
  <2>3. CASE tmpTokenUsable(w.s)
    <3>1. tmpClientForState(w) = {Returns(w, "fail"), u}
      BY <2>3 DEF tmpClientForState, Refused, When
    <3>2. deactivationCheckReady(u) = {Returns(u, "fail"), u}
      BY DEF deactivationCheckReady, Refused
    <3> DEFINE Sent(x) ==
                 {Returns(With(x, [x.s EXCEPT !.stage = "deactivate_otp_pending"]), "sent")}
               Check(x) == Then(deactivationCheckReady(x), "ok", Sent)
    <3>3. v \in Then(tmpClientForState(w), "ok", Check)
      BY <2>3 DEF deactivateStart
    <3> HIDE DEF u, Check
    <3>4. v = Returns(w, "fail") \/ v \in Check(u)
      <4>1. PICK y \in tmpClientForState(w) :
               (v = y /\ y.res # "ok") \/ (y.res = "ok" /\ v \in Check(y))
        BY <3>3 DEF Then, Ended
      <4>2. y = Returns(w, "fail") \/ y = u
        BY <3>1
      <4> QED
        BY <1>1, <2>1, <4>1, <4>2
    <3>5. v \in Check(u) => v = Returns(u, "fail") \/ v = u \/ v \in Sent(u)
      <4> HIDE DEF Sent
      <4> QED
        BY <2>1, <3>2 DEF Then, Ended, Check
    <3> QED
      BY <2>3, <3>4, <3>5
  <2> QED
    BY <2>2, <2>3
<1> HIDE DEF u
<1>3. CASE v = Returns(w, "fail")
  BY <1>3, Returned, Still DEF Begins
<1>4. CASE v = u \/ v = Returns(u, "fail")
  BY <1>1, <1>4, Returned, Still
<1>5. CASE /\ tmpTokenUsable(w.s)
           /\ v = Returns(With(u, [u.s EXCEPT !.stage = "deactivate_otp_pending"]), "sent")
  <2> DEFINE t == [u.s EXCEPT !.stage = "deactivate_otp_pending"]
  <2>3. Sound(u.s, u.g) /\ u.s.tmp.acct # NoAccount /\ "deactivate_otp_pending" \in Stages
    BY <1>1, <1>5 DEF Good, Stages, tmpTokenUsable
  <2>1. Sound(t, u.g) /\ t.token = u.s.token
    BY <2>3, StageSound
  <2> HIDE DEF t
  <2>2. Good(v) /\ v.s = t /\ v.g = u.g /\ v.seen = u.seen
    BY <1>1, <1>5, <2>1, Made DEF t
  <2> QED
    BY <1>1, <2>1, <2>2, Still
<1> QED
  BY <1>2, <1>3, <1>4, <1>5

\* DeactivateComplete closes no account but the one kept aside, which moved.
LEMMA DeactivateCompleteOK ==
  ASSUME NEW w, Begins(w), NEW v \in deactivateComplete(w)
  PROVE  Called(w, v)
<1> DEFINE u == Returns(w, "ok")
           a == u.s.tmp.acct
           t == [clearTmpTokens(u.s) EXCEPT !.gone = TRUE, !.stage = "deactivated"]
           o == [p \in Phone |-> IF u.g.owner[p] = a THEN NoAccount ELSE u.g.owner[p]]
           h == [u.g EXCEPT !.owner = o]
           x == [u EXCEPT !.g = h]
<1>1. Good(u) /\ u.s = w.s /\ u.g = w.g /\ u.seen = {} /\ u.res = "ok"
  BY Returned DEF Begins
<1>2. \/ v = Returns(w, "fail") \/ v = u \/ v = Returns(u, "fail")
      \/ /\ NumberOf(u.g, a) # {} /\ tmpTokenUsable(w.s)
         /\ v = Returns(With([u EXCEPT !.g.owner = [p \in Phone |->
                  IF @[p] = a THEN NoAccount ELSE @[p]]], t), "done")
  <2>1. Returns(w, "fail").res = "fail"
    BY Returned DEF Begins
  <2>2. tmpClientForState(w) = IF tmpTokenUsable(w.s) THEN {Returns(w, "fail"), u}
                               ELSE {Returns(w, "fail")}
    BY DEF tmpClientForState, Refused, When
  <2> DEFINE Done(y) ==
               {Returns(With([y EXCEPT !.g.owner = [p \in Phone |->
                           IF @[p] = y.s.tmp.acct THEN NoAccount ELSE @[p]]],
                   [clearTmpTokens(y.s) EXCEPT !.gone = TRUE, !.stage = "deactivated"]), "done")}
             Post(y) == Refused(y) \cup When(NumberOf(y.g, y.s.tmp.acct) # {}, Done(y))
  <2>3. v \in Then(tmpClientForState(w), "ok", Post)
    BY DEF deactivateComplete
  <2>4. v = Returns(w, "fail") \/ (tmpTokenUsable(w.s) /\ v \in Post(u))
    <3> HIDE DEF u, Post
    <3> QED
      <4>1. PICK y \in tmpClientForState(w) :
               (v = y /\ y.res # "ok") \/ (y.res = "ok" /\ v \in Post(y))
        BY <2>3 DEF Then, Ended
      <4>2. y = Returns(w, "fail") \/ (tmpTokenUsable(w.s) /\ y = u)
        BY <2>2
      <4> QED
        BY <1>1, <2>1, <4>1, <4>2
  <2>5. v \in Post(u) => v = Returns(u, "fail") \/ (NumberOf(u.g, a) # {} /\ v \in Done(u))
    <3> HIDE DEF Done, u
    <3> QED
      BY DEF Refused, When
  <2> HIDE DEF u, Post, t
  <2> QED
    BY <2>4, <2>5 DEF t
<1>3. CASE v = Returns(w, "fail")
  BY <1>3, Returned, Still DEF Begins
<1>4. CASE v = u \/ v = Returns(u, "fail")
  <2> HIDE DEF u
  <2> QED
    BY <1>1, <1>4, Returned, Still
<1>5. CASE /\ NumberOf(u.g, a) # {} /\ tmpTokenUsable(w.s)
           /\ v = Returns(With([u EXCEPT !.g.owner = [p \in Phone |->
                    IF @[p] = a THEN NoAccount ELSE @[p]]], t), "done")
  <2> HIDE DEF u
  <2>1. v = Returns(With(x, t), "done")
    BY <1>5
  <2>2. /\ u.s \in StateMap /\ Sound(u.s, u.g) /\ Accounts(u.g) /\ u.g \in GoPay /\ IsWorld(u)
    BY <1>1 DEF Good, Sound
  <2>3. a \in u.g.moved
    BY <1>1, <1>5, <2>2 DEF Sound, tmpTokenUsable
  <2>4. o \in [Phone -> MaybeAccount]
    BY <2>2 DEF GoPay, MaybeAccount
  <2>5. h \in GoPay /\ h.owner = o /\ h.born = u.g.born /\ h.moved = u.g.moved
    BY <2>2, <2>4 DEF GoPay
  <2>6. Accounts(h)
    BY <2>2, <2>5 DEF Accounts
  <2>7. AccountsStep(u.g, h)
    BY <1>5, <2>3, <2>5 DEF AccountsStep
  <2>8. t = [u.s EXCEPT !.tmp = NoToken, !.gone = TRUE, !.stage = "deactivated"]
    BY <2>2 DEF clearTmpTokens, StateMap
  <2>9. t \in StateMap
    <3>1. NoToken \in TokenState /\ "deactivated" \in Stages
      BY DEF NoToken, TokenState, MaybeAccount, Stages
    <3> HIDE DEF t
    <3> QED
      BY <2>2, <2>8, <3>1 DEF StateMap
  <2>10. /\ t.token = u.s.token /\ t.tmp = NoToken /\ t.change = u.s.change
         /\ t.usage = u.s.usage /\ t.stage = "deactivated"
    <3> HIDE DEF t
    <3> QED
      BY <2>2, <2>8 DEF StateMap
  <2> HIDE DEF t, h, o, a
  <2>11. Sound(u.s, u.g) => Sound(t, h)
    BY <2>9, <2>10 DEF Sound, HasKeys, ChangeOK, MovedOK, NoToken
  <2>12. x.s = u.s /\ x.g = h /\ x.seen = u.seen /\ x.res = u.res /\ IsWorld(x)
    BY <2>2 DEF IsWorld
  <2>13. With(x, t) = [s |-> t, g |-> h, res |-> x.res, seen |-> x.seen]
    <3> HIDE DEF x
    <3> QED
      BY <2>12 DEF With, IsWorld
  <2>14. v.s = t /\ v.g = h /\ v.seen = u.seen /\ IsWorld(v)
    <3> HIDE DEF x
    <3> QED
      BY <2>1, <2>12, <2>13 DEF Returns, IsWorld
  <2>15. Good(v)
    BY <1>1, <2>2, <2>5, <2>6, <2>11, <2>14 DEF Good
  <2> QED
    BY <1>1, <2>7, <2>10, <2>14, <2>15 DEF Called, TokenStep
<1> QED
  BY <1>2, <1>3, <1>4, <1>5

\* CheckDeactivation.
LEMMA CheckDeactivationOK ==
  ASSUME NEW w, Begins(w), NEW v \in CheckDeactivation(w)
  PROVE  Called(w, v)
<1>1. CASE v = Returns(w, "completed")
  BY <1>1, Returned, Still DEF Begins
<1>2. CASE v = Returns(w, "fail")
  BY <1>2, Returned, Still DEF Begins
<1> QED
  BY <1>1, <1>2 DEF CheckDeactivation

-----------------------------------------------------------------------------
(* Signing up. *)

\* A world in which a signup of p has begun: the tokens are gone.
AtSignup(w, p, v) ==
  /\ Good(v) /\ v.g = w.g /\ v.seen = w.seen /\ v.s.tmp = NoToken
  /\ v.s.signup.phone = p /\ v.s.open \subseteq w.s.open

\* What the start of a signup leaves: the tokens, or none of them.
SignupLeaves(w, v) ==
  /\ Good(v) /\ v.g = w.g /\ v.seen = w.seen /\ v.res \in {"fail", "sent"}
  /\ v.s.token = w.s.token \/ (v.s.tmp = NoToken /\ v.s.signup.phone # NoPhone)

\* Preparing a signup gives up the tokens or fails.
LEMMA Prepared ==
  ASSUME NEW w, Good(w), NEW p \in Phone,
         NEW v \in prepareSignupStartState(Returns(w, "ok"), p)
  PROVE  \/ v.res = "fail" /\ SignupLeaves(w, v)
         \/ v.res = "ok" /\ AtSignup(w, p, v)
<1> DEFINE u == Returns(w, "ok")
           s == clearLoginState(clearSignupState(u.s))
           t == [clearTmpTokens(s) EXCEPT !.token = NoToken, !.signup.phone = p, !.stage = "signup"]
<1>1. Good(u) /\ u.s = w.s /\ u.g = w.g /\ u.seen = w.seen /\ u.res = "ok"
  BY Returned
<1>2. v = Returns(With(u, s), "fail") \/ v = Returns(With(u, t), "fail") \/ v = With(u, t)
  <2> HIDE DEF u
  <2> QED
    BY DEF prepareSignupStartState, FailsAt, Refused, u
<1> HIDE DEF u
<1>3. Sound(s, u.g) /\ Kept(u.s, s)
  <2>1. Sound(clearSignupState(u.s), u.g) /\ Kept(u.s, clearSignupState(u.s))
    BY <1>1, ClearSignup DEF Good
  <2> QED
    BY <2>1, ClearLogin DEF Kept
<1> HIDE DEF s
<1>4. s \in StateMap
  BY <1>3 DEF Sound
<1>5. t \in StateMap
  <2>1. NoToken \in TokenState /\ "signup" \in Stages
    BY DEF NoToken, TokenState, MaybeAccount, Stages
  <2> QED
    BY <1>4, <2>1 DEF clearTmpTokens, StateMap, SignupState, MaybePhone
<1>6. /\ t.token = NoToken /\ t.tmp = NoToken /\ t.signup.phone = p /\ t.stage = "signup"
      /\ t.open = s.open /\ t.change = s.change /\ t.usage = s.usage
  BY <1>4 DEF clearTmpTokens, StateMap, SignupState
<1> HIDE DEF t
<1>7. Sound(t, u.g)
  BY <1>3, <1>5, <1>6 DEF Sound, HasKeys, ChangeOK, MovedOK, NoToken
<1>8. CASE v = Returns(With(u, s), "fail")
  <2>1. Good(v) /\ v.s = s /\ v.g = u.g /\ v.seen = u.seen /\ v.res = "fail"
    BY <1>1, <1>3, <1>8, Made
  <2> QED
    BY <1>1, <1>3, <2>1 DEF SignupLeaves, Kept
<1>9. CASE v = Returns(With(u, t), "fail")
  <2>1. Good(v) /\ v.s = t /\ v.g = u.g /\ v.seen = u.seen /\ v.res = "fail"
    BY <1>1, <1>7, <1>9, Made
  <2> QED
    BY <1>1, <1>6, <2>1, AccountNames DEF SignupLeaves
<1>10. CASE v = With(u, t)
  <2>1. Good(v) /\ v.s = t /\ v.g = u.g /\ v.seen = u.seen /\ v.res = "ok"
    BY <1>1, <1>7, <1>10, Made
  <2> QED
    BY <1>1, <1>3, <1>6, <2>1 DEF AtSignup, Kept
<1> QED
  BY <1>2, <1>8, <1>9, <1>10

\* A signup that has begun and goes no further.
LEMMA SignupEnds ==
  ASSUME NEW w, NEW p \in Phone, NEW x, AtSignup(w, p, x),
         NEW v, v = Returns(x, "fail") \/ v \in signupRateLimitResult(x)
  PROVE  SignupLeaves(w, v) /\ v.res = "fail"
<1>1. CASE v = Returns(x, "fail")
  <2>1. Good(v) /\ v.s = x.s /\ v.g = x.g /\ v.seen = x.seen /\ v.res = "fail"
    BY <1>1, Returned DEF AtSignup
  <2> QED
    BY <2>1, AccountNames DEF AtSignup, SignupLeaves
<1>2. CASE v \in signupRateLimitResult(x)
  <2> DEFINE t == [x.s EXCEPT !.open = x.s.open \cup {"cooldown"}, !.stage = "idle"]
  <2>1. x.s \in StateMap /\ Sound(x.s, x.g)
    BY DEF AtSignup, Good, Sound
  <2>2. t \in StateMap
    BY <2>1 DEF StateMap, Windows, Stages
  <2>3. /\ t.stage = "idle" /\ t.token = x.s.token /\ t.tmp = x.s.tmp
        /\ t.change = x.s.change /\ t.usage = x.s.usage /\ t.signup = x.s.signup
    BY <2>1 DEF StateMap
  <2>4. v = Returns(With(x, t), "fail")
    BY <1>2 DEF signupRateLimitResult, FailsAt, Refused
  <2> HIDE DEF t
  <2>5. Sound(t, x.g)
    BY <2>1, <2>2, <2>3 DEF Sound, HasKeys, ChangeOK, MovedOK
  <2>6. Good(v) /\ v.s = t /\ v.g = x.g /\ v.seen = x.seen /\ v.res = "fail"
    BY <2>4, <2>5, Made DEF AtSignup
  <2> QED
    BY <2>3, <2>6, AccountNames DEF AtSignup, SignupLeaves
<1> QED
  BY <1>1, <1>2

\* A signup's code is asked for outside a cooldown only.
LEMMA SignupOTP ==
  ASSUME NEW w, NEW p \in Phone, NEW x, AtSignup(w, p, x), "cooldown" \notin w.s.open,
         NEW v \in requestSignupOTP(x)
  PROVE  SignupLeaves(w, v)
<1> DEFINE t == persistSignupOTP(x.s)
<1>1. \/ v = Returns(x, "fail") \/ v \in signupRateLimitResult(x)
      \/ v = Returns(With(x, t), "sent")
  BY DEF requestSignupOTP, Refused, signupCooldownResult, AtSignup
<1>2. x.s \in StateMap /\ Sound(x.s, x.g) /\ x.s.signup.phone = p
  BY DEF AtSignup, Good, Sound
<1>3. t \in StateMap
  BY <1>2 DEF persistSignupOTP, StateMap, SignupState, Windows, Stages
<1>4. /\ t.stage = "signup_otp_pending" /\ t.token = x.s.token /\ t.tmp = x.s.tmp
      /\ t.change = x.s.change /\ t.usage = x.s.usage
      /\ t.signup.code /\ t.signup.phone = p
  BY <1>2 DEF persistSignupOTP, StateMap, SignupState
<1> HIDE DEF t
<1>5. Sound(t, x.g)
  BY <1>2, <1>3, <1>4, AccountNames DEF Sound, HasKeys, ChangeOK, MovedOK
<1>6. CASE v = Returns(With(x, t), "sent")
  <2>1. Good(v) /\ v.s = t /\ v.g = x.g /\ v.seen = x.seen /\ v.res = "sent"
    BY <1>5, <1>6, Made DEF AtSignup
  <2> QED
    BY <1>4, <2>1, AccountNames DEF AtSignup, SignupLeaves
<1> QED
  BY <1>1, <1>6, SignupEnds

\* startSignup leaves what the start of a signup leaves.
LEMMA StartSignup ==
  ASSUME NEW w, Good(w), NEW p \in Phone, NEW skip, NEW v \in startSignup(w, p, skip)
  PROVE  SignupLeaves(w, v)
<1> DEFINE Probe(x) == Refused(x) \cup probeSignupPhone(x, p, skip)
           P == prepareSignupStartState(Returns(w, "ok"), p)
<1>1. v \in IF signupCooldownResult(w.s) THEN Refused(w)
           ELSE Then(Then(P, "ok", Probe), "ok", requestSignupOTP)
  BY DEF startSignup
<1>2. CASE v = Returns(w, "fail")
  BY <1>2, Returned DEF SignupLeaves
<1>3. CASE "cooldown" \notin w.s.open /\ v \in Then(Then(P, "ok", Probe), "ok", requestSignupOTP)
  <2> HIDE DEF Probe, P
  <2>1. PICK y \in Then(P, "ok", Probe) :
           (v = y /\ y.res # "ok") \/ (y.res = "ok" /\ v \in requestSignupOTP(y))
    BY <1>3 DEF Then, Ended
  <2>2. PICK x \in P : (y = x /\ x.res # "ok") \/ (x.res = "ok" /\ y \in Probe(x))
    BY DEF Then, Ended
  <2>3. \/ x.res = "fail" /\ SignupLeaves(w, x)
        \/ x.res = "ok" /\ AtSignup(w, p, x)
    BY Prepared DEF P
  <2>4. CASE x.res = "fail" /\ SignupLeaves(w, x)
    BY <2>1, <2>2, <2>4
  <2>5. CASE x.res = "ok" /\ AtSignup(w, p, x) /\ y \in Probe(x)
    <3>1. y = x \/ y = Returns(x, "fail") \/ y \in signupRateLimitResult(x)
      BY <2>5 DEF Probe, probeSignupPhone, Refused, When
    <3>2. CASE y = x
      BY <1>3, <2>1, <2>5, <3>2, SignupOTP
    <3>3. CASE y = Returns(x, "fail") \/ y \in signupRateLimitResult(x)
      BY <2>1, <2>5, <3>3, SignupEnds
    <3> QED
      BY <3>1, <3>2, <3>3
  <2> QED
    BY <2>2, <2>3, <2>4, <2>5
<1> QED
  BY <1>1, <1>2, <1>3 DEF Refused, signupCooldownResult

\* What the start of a signup leaves is what a call leaves.
LEMMA SignupCalled ==
  ASSUME NEW w, Begins(w), NEW u, u.g = w.g, u.seen = {},
         u.s.token.acct = w.s.token.acct, NEW v, SignupLeaves(u, v)
  PROVE  Called(w, v)
BY DEF Called, Begins, SignupLeaves, TokenStep, AccountsStep

\* SignupStart.
LEMMA SignupStartOK ==
  ASSUME NEW w0, Begins(w0), NEW p \in MaybePhone, NEW skip, NEW v \in SignupStart(w0, p, skip)
  PROVE  Called(w0, v)
<1> DEFINE w == Expired(w0)
<1>1. Good(w) /\ w.g = w0.g /\ w.seen = {} /\ w.s.token = w0.s.token
  BY Expiring DEF Begins, Kept
<1> HIDE DEF w
<1>2. CASE v = Returns(w, "fail")
  BY <1>1, <1>2, Returned, Still
<1>3. CASE p \in Phone /\ v \in startSignup(w, p, skip)
  <2>1. SignupLeaves(w, v)
    BY <1>1, <1>3, StartSignup
  <2> QED
    BY <1>1, <2>1, SignupCalled
<1> QED
  BY <1>2, <1>3 DEF SignupStart, w, Refused, MaybePhone

\* SignupRetry.
LEMMA SignupRetryOK ==
  ASSUME NEW w, Begins(w), NEW v \in SignupRetry(w)
  PROVE  Called(w, v)
<1> DEFINE t == [w.s EXCEPT !.open = w.s.open \cup {"signup"}]
<1>1. CASE v = Returns(w, "fail")
  BY <1>1, Returned, Still DEF Begins
<1>2. CASE v = Returns(With(w, t), "sent")
  <2>1. w.s.open \cup {"signup"} \subseteq Windows /\ Sound(w.s, w.g)
    BY DEF Begins, Good, Sound, StateMap, Windows
  <2>2. Sound(t, w.g) /\ t.token = w.s.token
    BY <2>1, OpenSound
  <2> HIDE DEF t
  <2>3. Good(v) /\ v.s = t /\ v.g = w.g /\ v.seen = w.seen
    BY <1>2, <2>2, Made DEF Begins
  <2> QED
    BY <2>2, <2>3, Still DEF Begins
<1> QED
  BY <1>1, <1>2 DEF SignupRetry, retrySignupOTP, Refused

\* completeSignup, within the code's window: it opens the number's account.
LEMMA CompleteSignup ==
  ASSUME NEW w, Begins(w), NEW u, Good(u), u.g = w.g, u.seen = {},
         u.s.token.acct = w.s.token.acct,
         u.s.stage = "signup_otp_pending" => "signup" \in u.s.open,
         NEW v \in completeSignup(u)
  PROVE  Called(w, v)
<1> DEFINE s == u.s
           p == s.signup.phone
           Posted == IF pendingExpired(s, "signup") THEN Saw(u, "late") ELSE u
           Opened(a) == [Posted EXCEPT !.g.owner[p] = a, !.g.born = @ \cup {a}]
           Ready(t) == [DropSignupOTP(t) EXCEPT !.phone = p, !.stage = "signup_pin_required"]
<1>1. \/ v = Returns(u, "fail")
      \/ /\ s.stage = "signup_otp_pending" /\ p # NoPhone /\ ~Registered(u.g, p)
         /\ \E a \in Account \ u.g.born : \E t \in storeTokenResponse(s, a, FALSE) :
              IF t.token.acct = NoAccount THEN v = Returns(Opened(a), "fail")
              ELSE v = Returns(With(Opened(a), Ready(t)), "pin_required")
  <2>1. CASE s.stage # "signup_otp_pending" \/ p = NoPhone \/ ~s.signup.code
    BY <2>1 DEF completeSignup, Refused
  <2>2. CASE s.stage = "signup_otp_pending" /\ p # NoPhone /\ s.signup.code
    <3>1. Posted = u
      BY <2>2 DEF pendingExpired
    <3> DEFINE Keeps(a, t) ==
                 IF t.token.acct = NoAccount THEN Refused(Opened(a))
                 ELSE {Returns(With(Opened(a), Ready(t)), "pin_required")}
    <3>2. v \in Refused(Posted) \cup
                When(~Registered(u.g, p),
                     UNION {UNION {Keeps(a, t) : t \in storeTokenResponse(s, a, FALSE)} :
                              a \in Account \ u.g.born})
      BY <2>2 DEF completeSignup
    <3> HIDE DEF Keeps
    <3>3. \/ v = Returns(u, "fail")
          \/ /\ ~Registered(u.g, p)
             /\ \E a \in Account \ u.g.born : \E t \in storeTokenResponse(s, a, FALSE) :
                  v \in Keeps(a, t)
      <4> DEFINE In(a) == {Keeps(a, t) : t \in storeTokenResponse(s, a, FALSE)}
                 Out == {UNION In(a) : a \in Account \ u.g.born}
      <4> HIDE DEF Posted
      <4>1. v = Returns(u, "fail") \/ (~Registered(u.g, p) /\ v \in UNION Out)
        BY <3>1, <3>2 DEF Refused, When
      <4>2. ASSUME NEW Y \in Out, v \in Y
            PROVE  \E a \in Account \ u.g.born : \E t \in storeTokenResponse(s, a, FALSE) :
                     v \in Keeps(a, t)
        <5>1. PICK a \in Account \ u.g.born : v \in UNION In(a)
          BY <4>2
        <5>2. PICK Z \in In(a) : v \in Z
          BY <5>1
        <5>3. PICK t \in storeTokenResponse(s, a, FALSE) : Z = Keeps(a, t)
          BY <5>2
        <5> QED
          BY <5>2, <5>3
      <4> HIDE DEF Out
      <4> QED
        BY <4>1, <4>2
    <3> HIDE DEF Opened, Ready
    <3> QED
      BY <2>2, <3>3 DEF Keeps, Refused
  <2> QED
    BY <2>1, <2>2
<1>2. CASE v = Returns(u, "fail")
  BY <1>2, Returned, Still
<1>3. ASSUME s.stage = "signup_otp_pending", p # NoPhone, ~Registered(u.g, p),
             NEW a \in Account \ u.g.born, NEW t \in storeTokenResponse(s, a, FALSE),
             IF t.token.acct = NoAccount THEN v = Returns(Opened(a), "fail")
             ELSE v = Returns(With(Opened(a), Ready(t)), "pin_required")
      PROVE  Called(w, v)
  <2> DEFINE o == [u.g.owner EXCEPT ![p] = a]
             h == [u.g EXCEPT !.owner = o, !.born = u.g.born \cup {a}]
             x == [u EXCEPT !.g = h]
  <2>1. /\ s \in StateMap /\ Sound(s, u.g) /\ Accounts(u.g) /\ u.g \in GoPay /\ IsWorld(u)
    BY DEF Good, Sound
  <2>2. p \in Phone /\ u.g.owner[p] = NoAccount
    BY <1>3, <2>1 DEF StateMap, SignupState, MaybePhone, Registered
  <2>3. o \in [Phone -> MaybeAccount]
    BY <2>1 DEF GoPay, MaybeAccount
  <2>4. h \in GoPay /\ h.owner = o /\ h.born = u.g.born \cup {a} /\ h.moved = u.g.moved
    BY <2>1, <2>3 DEF GoPay
  <2>5. Opened(a) = x
    <3>1. Posted = u
      BY <1>3 DEF pendingExpired
    <3> QED
      BY <2>1, <3>1 DEF GoPay, IsWorld
  <2>6. Accounts(h)
    BY <2>1, <2>2, <2>4 DEF Accounts, GoPay
  <2>7. AccountsStep(u.g, h)
    BY <2>2, <2>4 DEF AccountsStep
  <2> HIDE DEF o, h
  <2>8. x.s = s /\ x.g = h /\ x.seen = u.seen /\ x.res = u.res /\ IsWorld(x)
    BY <2>1 DEF IsWorld
  <2> HIDE DEF x
  <2>9. Sound(s, h)
    BY <1>3, <2>1, <2>4 DEF Sound, MovedOK
  <2>10. Good(x)
    BY <2>4, <2>6, <2>8, <2>9 DEF Good
  <2> HIDE DEF Opened
  <2>11. CASE t.token.acct = NoAccount
    <3>1. Good(v) /\ v.s = s /\ v.g = h /\ v.seen = u.seen
      BY <1>3, <2>5, <2>8, <2>10, <2>11, Returned
    <3> QED
      BY <2>7, <3>1 DEF Called, TokenStep
  <2>12. CASE t.token.acct # NoAccount
    <3> DEFINE r == Ready(t)
    <3>1. PICK k : /\ t = [s EXCEPT !.token = k] /\ k \in TokenState
                   /\ k = s.token \/ k.acct = a
      <4> HIDE DEF s
      <4>1. CASE t = s
        BY <2>1, <4>1 DEF StateMap
      <4>2. CASE \E b \in BOOLEAN : t = [s EXCEPT !.token = [acct |-> a, life |-> 2, refresh |-> b]]
        <5>1. PICK b \in BOOLEAN : t = [s EXCEPT !.token = [acct |-> a, life |-> 2, refresh |-> b]]
          BY <4>2
        <5> DEFINE r0 == [acct |-> a, life |-> 2, refresh |-> b]
        <5>2. t = [s EXCEPT !.token = r0] /\ r0 \in TokenState /\ r0.acct = a
          BY <5>1 DEF TokenState, MaybeAccount
        <5> HIDE DEF r0
        <5> QED
          BY <5>2
      <4> QED
        BY <2>1, <4>1, <4>2, TokenResponse
    <3>2. t.token = k
      BY <2>1, <3>1 DEF StateMap
    <3>3. r = [s EXCEPT !.token = k, !.signup.code = FALSE, !.open = s.open \ {"signup"},
                        !.phone = p, !.stage = "signup_pin_required"]
      BY <2>1, <3>1 DEF DropSignupOTP, StateMap, SignupState
    <3>4. r \in StateMap
      <4>1. "signup_pin_required" \in Stages
        BY DEF Stages
      <4> HIDE DEF r
      <4> QED
        BY <2>1, <2>2, <3>1, <3>3, <4>1 DEF StateMap, SignupState, MaybePhone
    <3>5. /\ r.stage = "signup_pin_required" /\ r.token = k /\ r.tmp = s.tmp
          /\ r.change = s.change /\ r.usage = s.usage
      <4> HIDE DEF r
      <4> QED
        BY <2>1, <3>1, <3>3 DEF StateMap
    <3> HIDE DEF r
    <3>6. Sound(r, h)
      BY <2>9, <2>12, <3>2, <3>4, <3>5 DEF Sound, HasKeys, ChangeOK, MovedOK
    <3>7. v = Returns(With(x, r), "pin_required")
      BY <1>3, <2>5, <2>12 DEF r
    <3>8. Good(v) /\ v.s = r /\ v.g = h /\ v.seen = u.seen
      BY <2>8, <2>10, <3>6, <3>7, Made
    <3> QED
      BY <2>7, <2>12, <3>1, <3>2, <3>5, <3>8, AccountNames DEF Called, TokenStep
  <2> QED
    BY <2>11, <2>12
<1> QED
  BY <1>1, <1>2, <1>3

\* SignupComplete closes an expired signup before it posts a code.
LEMMA SignupCompleteOK ==
  ASSUME NEW w, Begins(w), NEW v \in SignupComplete(w)
  PROVE  Called(w, v)
<1>1. LET u == With(w, expireSignupIfNeeded(w.s)) IN
      /\ Good(u) /\ u.g = w.g /\ u.seen = {} /\ u.s.token = w.s.token
      /\ u.s.stage = "signup_otp_pending" => "signup" \in u.s.open
  BY ExpiringSignup DEF Begins, Kept
<1> QED
  BY <1>1, CompleteSignup DEF SignupComplete

-----------------------------------------------------------------------------
(* The PIN. *)

\* A world that a call has reached without touching the token.
Goes(w, u) ==
  /\ Begins(w) /\ Good(u) /\ u.g = w.g /\ u.seen = {}
  /\ u.s.token.acct = w.s.token.acct

\* From there on as from the beginning of the call.
LEMMA StillGoes ==
  ASSUME NEW w, NEW u, Goes(w, u), NEW v, Good(v), v.g = u.g, v.seen \subseteq {"verified"},
         v.s.token.acct = u.s.token.acct
  PROVE  Called(w, v)
BY Still DEF Goes

\* A call may end there.
LEMMA ReturnGoes ==
  ASSUME NEW w, NEW u, Goes(w, u), NEW r
  PROVE  Called(w, u) /\ Called(w, Returns(u, r)) /\ Returns(u, r).res = r
BY StillGoes, Returned DEF Goes

\* A renewal goes on.
LEMMA RenewedGoes ==
  ASSUME NEW w, NEW u, Goes(w, u), NEW v, Renewed(u, v)
  PROVE  Goes(w, v) /\ v.s.stage = u.s.stage /\ Alike(u.s, v.s)
BY RenewedAlike DEF Goes, Renewed, Alike

\* So does closing an expired signup; a PIN's code is then in its window.
LEMMA SignupExpired ==
  ASSUME NEW w, Begins(w)
  PROVE  LET u == With(w, expireSignupIfNeeded(w.s)) IN
         /\ Goes(w, u) /\ u.res = "ok"
         /\ u.s.stage = "signup_pin_otp_pending" => "pin" \in u.s.open
BY ExpiringSignup DEF Goes, Begins, Kept

\* A PIN that is set leaves a sound state.
LEMMA PINDoneSound ==
  ASSUME NEW v, Good(v), NEW p \in Phone, NEW x \in PINDone(v, p)
  PROVE  Good(x) /\ x.g = v.g /\ x.seen = v.seen /\ x.s.token = v.s.token
<1> DEFINE d == DropSignup(v.s)
           t == [d EXCEPT !.phone = p, !.stage = "ready"]
<1>1. v.s \in StateMap /\ Sound(v.s, v.g)
  BY DEF Good, Sound
<1>2. t = [v.s EXCEPT !.signup = NoSignup, !.pin = NoAccount,
                      !.open = (v.s.open \ {"signup"}) \ {"pin"}, !.phone = p, !.stage = "ready"]
  BY <1>1 DEF DropSignup, DropSignupPIN, DropSignupOTP, StateMap, SignupState
<1>3. x = Returns(With(v, t), "ready")
  BY DEF PINDone
<1> HIDE DEF t
<1>4. t \in StateMap
  <2>1. NoSignup \in SignupState /\ "ready" \in Stages
    BY DEF NoSignup, SignupState, MaybePhone, Stages
  <2> QED
    BY <1>1, <1>2, <2>1 DEF StateMap, MaybePhone, MaybeAccount
<1>5. /\ t.stage = "ready" /\ t.token = v.s.token /\ t.tmp = v.s.tmp
      /\ t.change = v.s.change /\ t.usage = v.s.usage
  BY <1>1, <1>2 DEF StateMap
<1>6. Sound(t, v.g)
  BY <1>1, <1>4, <1>5 DEF Sound, HasKeys, ChangeOK, MovedOK
<1> QED
  BY <1>3, <1>5, <1>6, Made

\* Reading whether a PIN is set changes nothing.
LEMMA Resolved ==
  ASSUME NEW w, Good(w), w.res = "ok",
         NEW y \in Then(resolveGoPayAccountPin(w), "ok", ensureAccessToken)
  PROVE  y = Returns(w, "fail") \/ y \in ensureAccessToken(w)
<1>1. PICK x \in {Returns(w, "fail"), w} :
         (y = x /\ x.res # "ok") \/ (x.res = "ok" /\ y \in ensureAccessToken(x))
  BY DEF Then, Ended, resolveGoPayAccountPin, Refused
<1>2. Returns(w, "fail").res # "ok"
  BY Returned
<1> QED
  BY <1>1, <1>2

\* CreatePinStart.
LEMMA CreatePinStartOK ==
  ASSUME NEW w0, Begins(w0), NEW v \in CreatePinStart(w0)
  PROVE  Called(w0, v)
<1> DEFINE w == With(w0, expireSignupIfNeeded(w0.s))
           Sent(x) == {Returns(With(x, [x.s EXCEPT !.pin = x.s.token.acct,
                         !.open = @ \cup {"pin"}, !.stage = "signup_pin_otp_pending"]), "sent")}
           Done(x) == UNION {PINDone(x, p) :
                               p \in {PINPhone(x.s)} \cup NumberOf(x.g, x.s.token.acct)}
           Setup(x) ==
             IF PINPhone(x.s) = NoPhone THEN Refused(x)
             ELSE Refused(x)
               \cup When(LiveToken(x.g, x.s.token) /\ x.s.token.acct \in x.g.pinned, Done(x))
               \cup When(LiveToken(x.g, x.s.token), Sent(x))
<1>1. Goes(w0, w) /\ w.res = "ok" /\ Good(w)
  BY SignupExpired DEF Goes
<1>2. v \in Then(Then(resolveGoPayAccountPin(w), "ok", ensureAccessToken), "ok", Setup)
  BY DEF CreatePinStart, startSignupPIN, startSignupPINOnce
<1> HIDE DEF w, Setup
<1>3. PICK y \in Then(resolveGoPayAccountPin(w), "ok", ensureAccessToken) :
         (v = y /\ y.res # "ok") \/ (y.res = "ok" /\ v \in Setup(y))
  BY <1>2 DEF Then, Ended
<1>4. y = Returns(w, "fail") \/ y \in ensureAccessToken(w)
  BY <1>1, Resolved
<1>5. CASE y = Returns(w, "fail")
  BY <1>1, <1>3, <1>5, ReturnGoes
<1>6. CASE y \in ensureAccessToken(w)
  <2>1. Goes(w0, y) /\ Good(y)
    BY <1>1, <1>6, EnsureToken, RenewedGoes DEF Goes
  <2>2. CASE v = y \/ v = Returns(y, "fail")
    BY <2>1, <2>2, ReturnGoes
  <2>3. y.s \in StateMap /\ Sound(y.s, y.g)
    BY <2>1 DEF Good, Sound
  <2>4. PINPhone(y.s) \in MaybePhone
    BY <2>3 DEF PINPhone, StateMap, SignupState
  <2>5. CASE PINPhone(y.s) # NoPhone /\ v \in Done(y)
    <3>1. PICK p \in {PINPhone(y.s)} \cup NumberOf(y.g, y.s.token.acct) : v \in PINDone(y, p)
      BY <2>5
    <3>2. p \in Phone
      BY <2>4, <2>5, <3>1 DEF NumberOf, MaybePhone
    <3> QED
      BY <2>1, <3>1, <3>2, PINDoneSound, StillGoes DEF Goes
  <2>6. CASE PINPhone(y.s) # NoPhone /\ LiveToken(y.g, y.s.token) /\ v \in Sent(y)
    <3> DEFINE t == [y.s EXCEPT !.pin = y.s.token.acct, !.open = @ \cup {"pin"},
                                !.stage = "signup_pin_otp_pending"]
    <3>1. y.s.token.acct # NoAccount /\ y.s.token.acct \in MaybeAccount
      BY <2>3, <2>6 DEF LiveToken, StateMap, TokenState
    <3>2. t \in StateMap
      BY <2>3, <3>1 DEF StateMap, Windows, Stages
    <3>3. /\ t.stage = "signup_pin_otp_pending" /\ t.token = y.s.token /\ t.tmp = y.s.tmp
          /\ t.change = y.s.change /\ t.usage = y.s.usage /\ t.pin = y.s.token.acct
          /\ t.signup = y.s.signup /\ t.phone = y.s.phone
      BY <2>3 DEF StateMap
    <3> HIDE DEF t
    <3>4. PINPhone(t) # NoPhone
      BY <2>6, <3>3 DEF PINPhone
    <3>5. Sound(t, y.g)
      BY <2>3, <3>1, <3>2, <3>3, <3>4 DEF Sound, HasKeys, ChangeOK, MovedOK
    <3>6. v = Returns(With(y, t), "sent")
      BY <2>6 DEF t
    <3>7. Good(v) /\ v.s = t /\ v.g = y.g /\ v.seen = y.seen
      BY <2>1, <3>5, <3>6, Made
    <3> QED
      BY <2>1, <3>3, <3>7, StillGoes DEF Goes
  <2>7. v \in Setup(y) => \/ v = Returns(y, "fail")
                          \/ PINPhone(y.s) # NoPhone /\ v \in Done(y)
                          \/ /\ PINPhone(y.s) # NoPhone /\ LiveToken(y.g, y.s.token)
                             /\ v \in Sent(y)
    <3> HIDE DEF Done, Sent
    <3> QED
      BY DEF Setup, Refused, When
  <2> HIDE DEF Done, Sent
  <2> QED
    BY <1>3, <2>2, <2>5, <2>6, <2>7
<1> QED
  BY <1>4, <1>5, <1>6

\* CreatePinRetry.
LEMMA CreatePinRetryOK ==
  ASSUME NEW w0, Begins(w0), NEW v \in CreatePinRetry(w0)
  PROVE  Called(w0, v)
<1> DEFINE w == With(w0, expireSignupIfNeeded(w0.s))
           t(u) == [u.s EXCEPT !.open = @ \cup {"pin"}]
           Retry(u) == Refused(u) \cup {Returns(With(u, t(u)), "sent")}
<1>1. Goes(w0, w) /\ Good(w)
  BY SignupExpired DEF Goes
<1>2. v \in Refused(w) \/ v \in Then(clientForState(w), "ok", Retry)
  BY DEF CreatePinRetry, retrySignupPIN, newClientWithState
<1> HIDE DEF w, Retry
<1>3. CASE v \in Refused(w)
  BY <1>1, <1>3, ReturnGoes DEF Refused
<1>4. CASE v \in Then(clientForState(w), "ok", Retry)
  <2>1. PICK u \in clientForState(w) : v = u \/ v \in Retry(u)
    BY <1>4 DEF Then, Ended
  <2>2. Goes(w0, u) /\ Good(u)
    BY <1>1, ClientOf, RenewedGoes DEF Goes
  <2>3. CASE v = u \/ v = Returns(u, "fail")
    BY <2>2, <2>3, ReturnGoes
  <2>4. CASE v = Returns(With(u, t(u)), "sent")
    <3> DEFINE r == [u.s EXCEPT !.open = u.s.open \cup {"pin"}]
    <3>1. Sound(u.s, u.g) /\ u.s.open \cup {"pin"} \subseteq Windows
      BY <2>2 DEF Good, Sound, StateMap, Windows
    <3>2. Sound(r, u.g) /\ r.token = u.s.token
      BY <3>1, OpenSound
    <3>3. t(u) = r
      OBVIOUS
    <3> HIDE DEF r, t
    <3>4. Good(v) /\ v.s = r /\ v.g = u.g /\ v.seen = u.seen
      BY <2>2, <2>4, <3>2, <3>3, Made
    <3> QED
      BY <2>2, <3>2, <3>4, StillGoes DEF Goes
  <2> HIDE DEF t
  <2> QED
    BY <2>1, <2>3, <2>4 DEF Retry, Refused
<1> QED
  BY <1>2, <1>3, <1>4

\* A PIN changes no account.
LEMMA Pinning ==
  ASSUME NEW u, Good(u), NEW a \in Account
  PROVE  LET x == [u EXCEPT !.g.pinned = @ \cup {a}] IN
         /\ Good(x) /\ x.s = u.s /\ x.seen = u.seen /\ AccountsStep(u.g, x.g)
<1> DEFINE h == [u.g EXCEPT !.pinned = u.g.pinned \cup {a}]
           x == [u EXCEPT !.g.pinned = @ \cup {a}]
<1>1. u.g \in GoPay /\ IsWorld(u) /\ Sound(u.s, u.g) /\ Accounts(u.g)
  BY DEF Good
<1>2. h \in GoPay /\ h.owner = u.g.owner /\ h.born = u.g.born /\ h.moved = u.g.moved
  BY <1>1 DEF GoPay
<1>3. x = [u EXCEPT !.g = h]
  BY <1>1 DEF IsWorld, GoPay
<1>4. x.s = u.s /\ x.g = h /\ x.seen = u.seen /\ x.res = u.res /\ IsWorld(x)
  BY <1>1, <1>3 DEF IsWorld
<1> HIDE DEF x, h
<1>5. Sound(u.s, h) /\ Accounts(h)
  BY <1>1, <1>2 DEF Sound, MovedOK, Accounts
<1>6. Good(x)
  BY <1>2, <1>4, <1>5 DEF Good
<1> QED
  BY <1>2, <1>4, <1>6 DEF AccountsStep, x

\* completeSignupPIN, within the code's window.
LEMMA CompleteSignupPIN ==
  ASSUME NEW w0, NEW w, Goes(w0, w),
         w.s.stage = "signup_pin_otp_pending" => "pin" \in w.s.open,
         NEW v \in completeSignupPIN(w)
  PROVE  Called(w0, v)
<1> DEFINE Posted(x) == IF pendingExpired(x.s, "pin") THEN Saw(x, "late") ELSE x
           Kept1(x) == [Posted(x) EXCEPT !.g.pinned = @ \cup {x.s.token.acct}]
           Post(x) ==
             Refused(Posted(x))
             \cup When(LiveToken(x.g, x.s.token) /\ x.s.pin = x.s.token.acct,
                       PINDone(Kept1(x), PINPhone(x.s)))
<1>1. \/ v \in Refused(w)
      \/ w.s.stage = "signup_pin_otp_pending" /\ v \in Then(clientForState(w), "ok", Post)
  BY DEF completeSignupPIN, newClientWithState
<1>2. CASE v \in Refused(w)
  BY <1>2, ReturnGoes DEF Refused
<1> HIDE DEF Post
<1>3. ASSUME w.s.stage = "signup_pin_otp_pending",
             NEW u \in clientForState(w), v = u \/ v \in Post(u)
      PROVE  Called(w0, v)
  <2>1. Goes(w0, u) /\ Good(u) /\ u.s.stage = w.s.stage /\ Alike(w.s, u.s)
    BY ClientOf, RenewedGoes DEF Goes
  <2>2. CASE v = u \/ v = Returns(u, "fail")
    BY <2>1, <2>2, ReturnGoes
  <2>3. Posted(u) = u
    BY <1>3, <2>1 DEF pendingExpired, Alike
  <2> HIDE DEF Posted
  <2>4. CASE LiveToken(u.g, u.s.token) /\ v \in PINDone(Kept1(u), PINPhone(u.s))
    <3> DEFINE x == [u EXCEPT !.g.pinned = @ \cup {u.s.token.acct}]
    <3>1. Kept1(u) = x
      BY <2>3
    <3>2. u.s \in StateMap /\ Sound(u.s, u.g)
      BY <2>1 DEF Good, Sound
    <3>3. u.s.token.acct \in Account
      BY <2>4, <3>2 DEF LiveToken, StateMap, TokenState, MaybeAccount
    <3>4. Good(x) /\ x.s = u.s /\ x.seen = u.seen /\ AccountsStep(u.g, x.g)
      BY <2>1, <3>3, Pinning
    <3>5. PINPhone(u.s) \in Phone
      BY <1>3, <2>1, <3>2 DEF Sound, HasKeys, PINPhone, StateMap, SignupState, MaybePhone
    <3> HIDE DEF x, Kept1
    <3>6. Good(v) /\ v.g = x.g /\ v.seen = x.seen /\ v.s.token = x.s.token
      BY <2>4, <3>1, <3>4, <3>5, PINDoneSound
    <3> QED
      BY <2>1, <3>4, <3>6 DEF Goes, Called, TokenStep
  <2> HIDE DEF Kept1
  <2> QED
    BY <1>3, <2>2, <2>3, <2>4 DEF Post, Refused, When
<1>4. ASSUME v \in Then(clientForState(w), "ok", Post)
      PROVE  \E u \in clientForState(w) : v = u \/ v \in Post(u)
  BY <1>4 DEF Then, Ended
<1> QED
  BY <1>1, <1>2, <1>3, <1>4

\* CreatePinComplete closes an expired signup before it posts a code.
LEMMA CreatePinCompleteOK ==
  ASSUME NEW w, Begins(w), NEW v \in CreatePinComplete(w)
  PROVE  Called(w, v)
BY SignupExpired, CompleteSignupPIN DEF CreatePinComplete

-----------------------------------------------------------------------------
(* AuthStart and AuthComplete. *)

\* Closing what is expired goes on.
LEMMA BothExpired ==
  ASSUME NEW w, Begins(w)
  PROVE  LET u == Expired(w) IN
         /\ Goes(w, u) /\ u.res = "ok"
         /\ u.s.stage = "login_otp_pending" => "login" \in u.s.open
         /\ u.s.stage = "signup_otp_pending" => "signup" \in u.s.open
         /\ u.s.stage = "signup_pin_otp_pending" => "pin" \in u.s.open
BY Expiring DEF Goes, Begins, Kept

\* A check of the token that fails goes on.
LEMMA CheckedGoes ==
  ASSUME NEW w0, NEW w, Goes(w0, w), NEW v \in checkTokenValid(w)
  PROVE  /\ Called(w0, v) /\ v.res \in {"valid", "fail"} /\ TokenChecked(w, v)
         /\ v.res = "valid" => Verified(v)
         /\ v.res = "fail" => Goes(w0, v)
<1>1. TokenChecked(w, v) /\ v.res \in {"valid", "fail"}
  BY CheckToken DEF Goes
<1>2. Good(v) /\ v.g = w.g /\ v.seen \subseteq {"verified"} /\ v.s.token.acct = w.s.token.acct
  BY <1>1 DEF TokenChecked, Alike, Goes
<1>3. Called(w0, v)
  BY <1>2, StillGoes
<1> QED
  BY <1>1, <1>2, <1>3 DEF TokenChecked, Goes

\* AuthComplete.
LEMMA AuthCompleteOK ==
  ASSUME NEW w0, Begins(w0), NEW v \in AuthComplete(w0)
  PROVE  Called(w0, v)
<1> DEFINE w == Expired(w0)
           Judged(x) == {Returns(x, "ready")}
<1>1. /\ Goes(w0, w) /\ w.res = "ok"
      /\ w.s.stage = "login_otp_pending" => "login" \in w.s.open
      /\ w.s.stage = "signup_otp_pending" => "signup" \in w.s.open
      /\ w.s.stage = "signup_pin_otp_pending" => "pin" \in w.s.open
  BY BothExpired
<1>2. \/ v \in Then(checkTokenValid(w), "valid", Judged)
      \/ w.s.stage = "login_otp_pending" /\ v \in completeLogin(w)
      \/ v \in completeSignup(w) \/ v \in completeSignupPIN(w) \/ v \in Refused(w)
  BY DEF AuthComplete
<1> HIDE DEF w
<1>3. CASE v \in Then(checkTokenValid(w), "valid", Judged)
  <2>1. PICK x \in checkTokenValid(w) : v = x \/ v = Returns(x, "ready")
    BY <1>3 DEF Then, Ended
  <2>2. Called(w0, x) /\ Good(x) /\ TokenChecked(w, x)
    BY <1>1, CheckedGoes DEF TokenChecked
  <2>3. Good(Returns(x, "ready")) /\ Returns(x, "ready").s = x.s
        /\ Returns(x, "ready").g = x.g /\ Returns(x, "ready").seen = x.seen
    BY <2>2, Returned
  <2> QED
    BY <2>1, <2>2, <2>3 DEF Called
<1>4. CASE w.s.stage = "login_otp_pending" /\ v \in completeLogin(w)
  BY <1>1, <1>4, CompleteLogin DEF Goes
<1>5. CASE v \in completeSignup(w)
  BY <1>1, <1>5, CompleteSignup DEF Goes
<1>6. CASE v \in completeSignupPIN(w)
  BY <1>1, <1>6, CompleteSignupPIN
<1>7. CASE v \in Refused(w)
  BY <1>1, <1>7, ReturnGoes DEF Refused
<1> QED
  BY <1>2, <1>3, <1>4, <1>5, <1>6, <1>7

\* The stage of a signup that waits for its PIN survives a token check.
LEMMA StageKept ==
  ASSUME NEW w, Good(w), w.s.stage \in {"signup_pin_required", "signup_pin_otp_pending"},
         NEW x, TokenChecked(w, x), NEW r
  PROVE  LET v == Returns([x EXCEPT !.s.stage = w.s.stage], r) IN
         /\ Good(v) /\ v.g = x.g /\ v.seen = x.seen /\ v.res = r
         /\ v.s.token = x.s.token
<1> DEFINE k == w.s.stage
           t == [x.s EXCEPT !.stage = k]
<1>1. /\ w.s \in StateMap /\ Sound(w.s, w.g) /\ x.s \in StateMap /\ Sound(x.s, x.g)
      /\ Good(x) /\ Alike(w.s, x.s) /\ IsWorld(x)
  BY DEF Good, Sound, TokenChecked
<1>2. t \in StateMap
  BY <1>1 DEF StateMap
<1>3. /\ t.stage = k /\ t.token = x.s.token /\ t.tmp = x.s.tmp /\ t.change = x.s.change
      /\ t.usage = x.s.usage /\ t.signup = x.s.signup /\ t.pin = x.s.pin /\ t.phone = x.s.phone
  BY <1>1 DEF StateMap
<1>4. [x EXCEPT !.s.stage = k] = With(x, t)
  BY <1>1 DEF With, IsWorld
<1> HIDE DEF t
<1>5. t.token.acct # NoAccount
  BY <1>1, <1>3 DEF Sound, HasKeys, Alike
<1>6. k = "signup_pin_otp_pending" => t.pin # NoAccount /\ PINPhone(t) # NoPhone
  BY <1>1, <1>3, AccountNames DEF Sound, HasKeys, Alike, PINPhone
<1>7. Sound(t, x.g)
  BY <1>1, <1>2, <1>3, <1>5, <1>6 DEF Sound, HasKeys, ChangeOK, MovedOK
<1> QED
  BY <1>1, <1>3, <1>4, <1>7, Made

\* AuthStart says ready only of a token it has just had verified.
LEMMA AuthStartOK ==
  ASSUME NEW w0, Begins(w0), NEW p \in MaybePhone, NEW v \in AuthStart(w0, p)
  PROVE  Called(w0, v) /\ (v.res = "ready" => Verified(v))
<1> DEFINE w == Expired(w0)
           stage == w.s.stage
           Judged(x) == {Returns(x, "ready")}
           Pin(x) == {Returns([x EXCEPT !.s.stage = stage],
                        IF ~tokenCheckValid(x) THEN "fail"
                        ELSE IF stage = "signup_pin_otp_pending" THEN "sent" ELSE "pin_required")}
           Ready(x) == Then(checkTokenValid(x), "valid", Judged)
           SignUp(x) == startSignup(x, p, FALSE)
           LogIn(x) == Then(startLogin(x, p), "ready", Ready)
           Start(x) ==
             CASE stage \in {"login_otp_pending", "signup_otp_pending"} -> {Returns(x, "sent")}
               [] p = NoPhone -> Refused(x)
               [] OTHER -> Then(LogIn(x), "unregistered", SignUp)
           One(x) == IF tokenCheckValid(x) THEN Judged(x) ELSE Start(x)
           Right(x) == Called(w0, x) /\ (x.res = "ready" => Verified(x))
<1>1. Goes(w0, w) /\ Good(w)
  BY BothExpired DEF Goes
<1>2. v \in IF stage \in {"signup_pin_required", "signup_pin_otp_pending"}
            THEN UNION {Pin(x) : x \in checkTokenValid(w)}
            ELSE UNION {One(x) : x \in checkTokenValid(w)}
  BY DEF AuthStart
<1> HIDE DEF w
<1>3. ASSUME NEW x, Called(w0, x), Verified(x)
      PROVE  Right(Returns(x, "ready"))
  <2>1. LET y == Returns(x, "ready") IN Good(y) /\ y.s = x.s /\ y.g = x.g /\ y.seen = x.seen
    BY <1>3, Returned DEF Called
  <2> QED
    BY <1>3, <2>1 DEF Called, Verified
<1>4. ASSUME NEW x \in checkTokenValid(w), v \in Pin(x),
             stage \in {"signup_pin_required", "signup_pin_otp_pending"}
      PROVE  Right(v)
  <2>1. TokenChecked(w, x)
    BY <1>1, CheckedGoes
  <2>2. PICK r \in {"fail", "sent", "pin_required"} : v = Returns([x EXCEPT !.s.stage = stage], r)
    BY <1>4
  <2>3. Good(v) /\ v.g = x.g /\ v.seen = x.seen /\ v.res = r /\ v.s.token = x.s.token
    BY <1>1, <1>4, <2>1, <2>2, StageKept
  <2> QED
    BY <1>1, <2>1, <2>3, StillGoes DEF TokenChecked, Alike, Goes
<1>5. ASSUME NEW x, Goes(w0, x), p \in Phone, NEW y \in LogIn(x)
      PROVE  Right(y) /\ (y.res = "unregistered" => Goes(w0, y))
  <2>1. PICK z \in startLogin(x, p) :
           (y = z /\ z.res # "ready") \/ (z.res = "ready" /\ y \in Ready(z))
    <3> HIDE DEF Ready
    <3> QED
      BY <1>5 DEF Then, Ended
  <2>2. LoginLeaves(x, z) /\ Called(w0, z)
    BY <1>5, StartLogin, LoginCalled DEF Goes
  <2>3. CASE y = z /\ z.res # "ready"
    BY <1>5, <2>2, <2>3 DEF LoginLeaves, Goes
  <2>4. CASE z.res = "ready" /\ y \in Ready(z)
    <3>1. PICK c \in checkTokenValid(z) :
             (y = c /\ c.res # "valid") \/ (c.res = "valid" /\ y \in Judged(c))
      <4> HIDE DEF Judged
      <4> QED
        BY <2>4 DEF Then, Ended
    <3>2. TokenChecked(z, c) /\ c.res \in {"valid", "fail"}
      BY <2>2, CheckToken DEF LoginLeaves
    <3>3. Called(w0, c) /\ (c.res = "valid" => Verified(c))
      BY <1>5, <2>2, <3>2, LoginChecked DEF Goes, TokenChecked
    <3>4. Returns(c, "ready").res = "ready"
      BY <3>3, Returned DEF Called
    <3> QED
      BY <1>3, <3>1, <3>2, <3>3, <3>4
  <2> QED
    BY <2>1, <2>3, <2>4
<1>6. ASSUME NEW x, Goes(w0, x), v \in Start(x)
      PROVE  Right(v)
  <2>1. CASE v = Returns(x, "sent")
    BY <1>6, <2>1, ReturnGoes
  <2>2. CASE v = Returns(x, "fail")
    BY <1>6, <2>2, ReturnGoes
  <2>3. CASE p \in Phone /\ v \in Then(LogIn(x), "unregistered", SignUp)
    <3> HIDE DEF LogIn
    <3>1. PICK y \in LogIn(x) : v = y \/ (y.res = "unregistered" /\ v \in startSignup(y, p, FALSE))
      BY <2>3 DEF Then, Ended
    <3>2. Right(y) /\ (y.res = "unregistered" => Goes(w0, y))
      BY <1>5, <1>6, <2>3
    <3>3. CASE y.res = "unregistered" /\ v \in startSignup(y, p, FALSE)
      <4>1. SignupLeaves(y, v)
        BY <2>3, <3>2, <3>3, StartSignup DEF Goes
      <4> QED
        BY <3>2, <3>3, <4>1, SignupCalled DEF Goes, SignupLeaves
    <3> QED
      BY <3>1, <3>2, <3>3
  <2> HIDE DEF LogIn, SignUp
  <2> QED
    BY <1>6, <2>1, <2>2, <2>3 DEF Refused, MaybePhone
<1>7. CASE stage \in {"signup_pin_required", "signup_pin_otp_pending"}
  <2>1. PICK Y \in {Pin(x) : x \in checkTokenValid(w)} : v \in Y
    BY <1>2, <1>7
  <2> QED
    BY <1>4, <1>7, <2>1
<1>8. CASE stage \notin {"signup_pin_required", "signup_pin_otp_pending"}
  <2>1. PICK Y \in {One(x) : x \in checkTokenValid(w)} : v \in Y
    BY <1>2, <1>8
  <2>2. PICK x \in checkTokenValid(w) : v \in One(x)
    BY <2>1
  <2> HIDE DEF Start
  <2>3. /\ Called(w0, x) /\ (x.res = "valid" => Verified(x))
        /\ (x.res = "fail" => Goes(w0, x)) /\ x.res \in {"valid", "fail"}
    BY <1>1, CheckedGoes
  <2> QED
    BY <1>3, <1>6, <2>2, <2>3 DEF tokenCheckValid
<1> QED
  BY <1>7, <1>8

-----------------------------------------------------------------------------
(* The inductive invariant and what every step does. *)

\* Beside what the properties say: the state is sound, not only the keys of
\* its stage, and numbers belong to accounts that were opened.
IInv ==
  /\ caller \in Callers
  /\ gopay \in GoPay /\ Sound(st, gopay) /\ Accounts(gopay)
  /\ answer.seen \subseteq {"verified"}
  /\ ReadyIsVerified

\* What every step leaves.
Stepped == IInv' /\ TokenStep(st, st') /\ AccountsStep(gopay, gopay')

\* Every call begins with a good world.
LEMMA Beginning ==
  ASSUME IInv
  PROVE  Begins(Now) /\ Now.s = st /\ Now.g = gopay
BY DEF IInv, Begins, Good, Now, World, IsWorld, Marks

\* One call, of whose worlds all are as Called promises.
LEMMA CallStep ==
  ASSUME IInv, NEW op, NEW W, Call(op, W),
         \A v \in W :
           /\ Called(Now, v)
           /\ op \in {"LoginStart", "AuthStart", "GetReadyAccountToken"} /\ v.res = "ready" =>
                Verified(v) /\ (op # "AuthStart" => v.s.min # NoAccount)
  PROVE  Stepped
<1>1. PICK v \in W :
        /\ st' = v.s /\ gopay' = v.g /\ caller' = caller
        /\ answer' = IF v.res = "ready" THEN [ready |-> op, seen |-> v.seen]
                     ELSE [ready |-> "none", seen |-> v.seen \ {"verified"}]
  BY DEF Call
<1>2. Now.s = st /\ Now.g = gopay
  BY Beginning
<1>3. /\ Called(Now, v)
      /\ op \in {"LoginStart", "AuthStart", "GetReadyAccountToken"} /\ v.res = "ready" =>
           Verified(v) /\ (op # "AuthStart" => v.s.min # NoAccount)
  OBVIOUS
<1>4. /\ gopay' \in GoPay /\ Sound(st', gopay') /\ Accounts(gopay')
      /\ TokenStep(st, st') /\ AccountsStep(gopay, gopay')
  BY <1>1, <1>2, <1>3 DEF Called, Good
<1>5. answer'.seen \subseteq {"verified"}
  BY <1>1, <1>3 DEF Called
<1>6. ReadyIsVerified'
  BY <1>1, <1>3 DEF ReadyIsVerified, Verified
<1> QED
  BY <1>1, <1>4, <1>5, <1>6 DEF Stepped, IInv

\* Time closes windows and ends tokens; no key goes with them.
LEMMA PassStep ==
  ASSUME IInv, Pass
  PROVE  Stepped
<1>1. gopay' = gopay /\ caller' = caller /\ answer' = Silent
  BY DEF Pass
<1>2. ASSUME Sound(st', gopay), st'.token.acct = st.token.acct
      PROVE  Stepped
  <2>1. ReadyIsVerified' /\ answer'.seen \subseteq {"verified"}
    BY <1>1 DEF ReadyIsVerified, Silent
  <2> QED
    BY <1>1, <1>2, <2>1 DEF Stepped, IInv, TokenStep, AccountsStep
<1>3. st \in StateMap /\ Sound(st, gopay)
  BY DEF IInv, Sound
<1>4. ASSUME NEW x, st' = [st EXCEPT !.open = @ \ {x}]
      PROVE  Stepped
  <2>1. st.open \ {x} \subseteq Windows
    BY <1>3 DEF StateMap
  <2>2. Sound(st', gopay) /\ st'.token = st.token
    BY <1>3, <1>4, <2>1, OpenSound
  <2> QED
    BY <1>2, <2>2
<1>5. CASE st.token.life > 0 /\ st' = [st EXCEPT !.token.life = @ - 1]
  <2> DEFINE k == [st.token EXCEPT !.life = @ - 1]
  <2>1. k \in TokenState /\ k.acct = st.token.acct
    BY <1>3, <1>5 DEF StateMap, TokenState
  <2>2. st' = [st EXCEPT !.token = k]
    BY <1>3, <1>5 DEF StateMap
  <2> HIDE DEF k
  <2>3. st' \in StateMap
    BY <1>3, <2>1, <2>2 DEF StateMap
  <2>4. /\ st'.stage = st.stage /\ st'.token = k /\ st'.tmp = st.tmp /\ st'.change = st.change
        /\ st'.usage = st.usage /\ st'.login = st.login /\ st'.signup = st.signup
        /\ st'.pin = st.pin /\ st'.phone = st.phone
    BY <1>3, <2>2 DEF StateMap
  <2>5. st.token.acct # NoAccount /\ st.stage # "phone_changed"
    BY <1>3, <1>5 DEF Sound, MovedOK, NoToken
  <2>6. Sound(st', gopay)
    BY <1>3, <2>1, <2>3, <2>4, <2>5 DEF Sound, HasKeys, ChangeOK, MovedOK, LoginPending, PINPhone
  <2> QED
    BY <1>2, <2>1, <2>4, <2>6
<1>6. CASE st.tmp.life > 0 /\ st' = [st EXCEPT !.tmp.life = @ - 1]
  <2> DEFINE k == [st.tmp EXCEPT !.life = @ - 1]
  <2>1. k \in TokenState /\ k.acct = st.tmp.acct
    BY <1>3, <1>6 DEF StateMap, TokenState
  <2>2. st' = [st EXCEPT !.tmp = k]
    BY <1>3, <1>6 DEF StateMap
  <2> HIDE DEF k
  <2>3. st' \in StateMap
    BY <1>3, <2>1, <2>2 DEF StateMap
  <2>4. /\ st'.stage = st.stage /\ st'.token = st.token /\ st'.tmp = k /\ st'.change = st.change
        /\ st'.usage = st.usage /\ st'.login = st.login /\ st'.signup = st.signup
        /\ st'.pin = st.pin /\ st'.phone = st.phone
    BY <1>3, <2>2 DEF StateMap
  <2>5. Sound(st', gopay)
    BY <1>3, <2>1, <2>3, <2>4 DEF Sound, HasKeys, ChangeOK, MovedOK, LoginPending, PINPhone
  <2> QED
    BY <1>2, <2>4, <2>5
<1> QED
  BY <1>4, <1>5, <1>6 DEF Pass

\* Every step leaves what Stepped says: each RPC by its lemma above.
LEMMA Steps ==
  ASSUME IInv, [Next]_vars
  PROVE  Stepped
<1>1. CASE UNCHANGED vars
  BY <1>1 DEF vars, Stepped, IInv, ReadyIsVerified, TokenStep, AccountsStep
<1>2. CASE Pass
  BY <1>2, PassStep
<1>3. Begins(Now)
  BY Beginning
<1>4. CASE Login_Next
  <2>1. CASE CallLoginStart
    <3>1. PICK p \in MaybePhone : Call("LoginStart", LoginStart(Now, p))
      BY <2>1 DEF CallLoginStart
    <3>2. \A v \in LoginStart(Now, p) :
            Called(Now, v) /\ (v.res = "ready" => Verified(v) /\ v.s.min # NoAccount)
      BY <1>3, LoginStartOK
    <3> QED
      BY <3>1, <3>2, CallStep
  <2>2. CASE CallLoginComplete
    <3>1. \A v \in LoginComplete(Now) : Called(Now, v)
      BY <1>3, LoginCompleteOK
    <3> QED
      BY <2>2, <3>1, CallStep DEF CallLoginComplete
  <2>3. CASE CallCheckPhone
    <3>1. PICK p \in Phone : Call("CheckPhone", CheckPhone(Now, p))
      BY <2>3 DEF CallCheckPhone
    <3>2. \A v \in CheckPhone(Now, p) : Called(Now, v)
      BY <1>3, CheckPhoneOK
    <3> QED
      BY <3>1, <3>2, CallStep
  <2> QED
    BY <1>4, <2>1, <2>2, <2>3 DEF Login_Next
<1>5. CASE Auth_Next
  <2>1. CASE CallAuthStart
    <3>1. PICK p \in MaybePhone : Call("AuthStart", AuthStart(Now, p))
      BY <2>1 DEF CallAuthStart
    <3>2. \A v \in AuthStart(Now, p) : Called(Now, v) /\ (v.res = "ready" => Verified(v))
      BY <1>3, AuthStartOK
    <3> QED
      BY <3>1, <3>2, CallStep
  <2>2. CASE CallAuthComplete
    <3>1. \A v \in AuthComplete(Now) : Called(Now, v)
      BY <1>3, AuthCompleteOK
    <3> QED
      BY <2>2, <3>1, CallStep DEF CallAuthComplete
  <2>3. CASE CallCheckTokenValid
    <3>1. \A v \in CheckTokenValid(Now) : Called(Now, v)
      BY <1>3, CheckTokenOK
    <3> QED
      BY <2>3, <3>1, CallStep DEF CallCheckTokenValid
  <2> QED
    BY <1>5, <2>1, <2>2, <2>3 DEF Auth_Next
<1>6. CASE Signup_Next
  <2>1. CASE CallSignupStart
    <3>1. PICK p \in MaybePhone, skip \in BOOLEAN : Call("SignupStart", SignupStart(Now, p, skip))
      BY <2>1 DEF CallSignupStart
    <3>2. \A v \in SignupStart(Now, p, skip) : Called(Now, v)
      BY <1>3, SignupStartOK
    <3> QED
      BY <3>1, <3>2, CallStep
  <2>2. CASE CallSignupRetry
    <3>1. \A v \in SignupRetry(Now) : Called(Now, v)
      BY <1>3, SignupRetryOK
    <3> QED
      BY <2>2, <3>1, CallStep DEF CallSignupRetry
  <2>3. CASE CallSignupComplete
    <3>1. \A v \in SignupComplete(Now) : Called(Now, v)
      BY <1>3, SignupCompleteOK
    <3> QED
      BY <2>3, <3>1, CallStep DEF CallSignupComplete
  <2> QED
    BY <1>6, <2>1, <2>2, <2>3 DEF Signup_Next
<1>7. CASE Pin_Next
  <2>1. CASE CallCreatePinStart
    <3>1. \A v \in CreatePinStart(Now) : Called(Now, v)
      BY <1>3, CreatePinStartOK
    <3> QED
      BY <2>1, <3>1, CallStep DEF CallCreatePinStart
  <2>2. CASE CallCreatePinRetry
    <3>1. \A v \in CreatePinRetry(Now) : Called(Now, v)
      BY <1>3, CreatePinRetryOK
    <3> QED
      BY <2>2, <3>1, CallStep DEF CallCreatePinRetry
  <2>3. CASE CallCreatePinComplete
    <3>1. \A v \in CreatePinComplete(Now) : Called(Now, v)
      BY <1>3, CreatePinCompleteOK
    <3> QED
      BY <2>3, <3>1, CallStep DEF CallCreatePinComplete
  <2> QED
    BY <1>7, <2>1, <2>2, <2>3 DEF Pin_Next
<1>8. CASE Change_Next
  <2>1. CASE CallChangePhoneStart
    <3>1. PICK q \in MaybePhone : Call("ChangePhoneStart", changePhoneStart(Now, q))
      BY <2>1 DEF CallChangePhoneStart
    <3>2. \A v \in changePhoneStart(Now, q) : Called(Now, v)
      BY <1>3, ChangeStartOK
    <3> QED
      BY <3>1, <3>2, CallStep
  <2>2. CASE CallChangePhoneRetry
    <3>1. \A v \in changePhoneRetry(Now) : Called(Now, v)
      BY <1>3, ChangeRetryOK
    <3> QED
      BY <2>2, <3>1, CallStep DEF CallChangePhoneRetry
  <2>3. CASE CallChangePhoneComplete
    <3>1. \A v \in changePhoneComplete(Now) : Called(Now, v)
      BY <1>3, ChangeCompleteOK
    <3> QED
      BY <2>3, <3>1, CallStep DEF CallChangePhoneComplete
  <2> QED
    BY <1>8, <2>1, <2>2, <2>3 DEF Change_Next
<1>9. CASE Deactivate_Next
  <2>1. CASE CallDeactivateStart
    <3>1. \A v \in deactivateStart(Now) : Called(Now, v)
      BY <1>3, DeactivateStartOK
    <3> QED
      BY <2>1, <3>1, CallStep DEF CallDeactivateStart
  <2>2. CASE CallDeactivateComplete
    <3>1. \A v \in deactivateComplete(Now) : Called(Now, v)
      BY <1>3, DeactivateCompleteOK
    <3> QED
      BY <2>2, <3>1, CallStep DEF CallDeactivateComplete
  <2>3. CASE CallCheckDeactivation
    <3>1. \A v \in CheckDeactivation(Now) : Called(Now, v)
      BY <1>3, CheckDeactivationOK
    <3> QED
      BY <2>3, <3>1, CallStep DEF CallCheckDeactivation
  <2> QED
    BY <1>9, <2>1, <2>2, <2>3 DEF Deactivate_Next
<1>10. CASE Use_Next
  <2>1. CASE CallUnlink
    <3>1. \A v \in unlink(Now) : Called(Now, v)
      BY <1>3, UnlinkOK
    <3> QED
      BY <2>1, <3>1, CallStep DEF CallUnlink
  <2>2. CASE CallGetQrId
    <3>1. \A v \in getQrID(Now) : Called(Now, v)
      BY <1>3, UseTokenOK
    <3> QED
      BY <2>2, <3>1, CallStep DEF CallGetQrId
  <2>3. CASE CallClaimEnvelope
    <3>1. \A v \in claimEnvelope(Now) : Called(Now, v)
      BY <1>3, UseTokenOK
    <3> QED
      BY <2>3, <3>1, CallStep DEF CallClaimEnvelope
  <2>4. CASE CallStatus
    <3>1. \A v \in Status(Now) : Called(Now, v)
      BY <1>3, StatusOK
    <3> QED
      BY <2>4, <3>1, CallStep DEF CallStatus
  <2>5. CASE CallGetReadyAccountToken
    <3>1. \A v \in GetReadyAccountToken(Now) :
            Called(Now, v) /\ (v.res = "ready" => Verified(v) /\ v.s.min # NoAccount)
      BY <1>3, GetReadyOK
    <3> QED
      BY <2>5, <3>1, CallStep DEF CallGetReadyAccountToken
  <2> QED
    BY <1>10, <2>1, <2>2, <2>3, <2>4, <2>5 DEF Use_Next
<1> QED
  BY <1>1, <1>2, <1>4, <1>5, <1>6, <1>7, <1>8, <1>9, <1>10 DEF Next

\* The empty state is sound, with any accounts at GoPay.
LEMMA Initially ==
  ASSUME Init
  PROVE  IInv
<1>1. PICK owner \in [Phone -> MaybeAccount] :
        LET old == {owner[p] : p \in Phone} \ {NoAccount} IN
        \E pinned \in SUBSET old :
          gopay = [owner |-> owner, pinned |-> pinned, born |-> old, moved |-> {}]
  BY DEF Init
<1> DEFINE old == {owner[p] : p \in Phone} \ {NoAccount}
<1>2. old \subseteq Account /\ \A p \in Phone : owner[p] \in old \cup {NoAccount}
  BY DEF MaybeAccount
<1> HIDE DEF old
<1>3. PICK pinned \in SUBSET old :
        gopay = [owner |-> owner, pinned |-> pinned, born |-> old, moved |-> {}]
  BY <1>1 DEF old
<1>4. gopay \in GoPay /\ Accounts(gopay)
  BY <1>2, <1>3 DEF GoPay, Accounts
<1>5. st \in StateMap
  BY DEF Init, EmptyState, StateMap, Stages, LoginState, NoLogin, SignupState, NoSignup,
         ChangeState, NoChange, TokenState, NoToken, MaybePhone, MaybeAccount
<1>6. /\ st.stage = "idle" /\ st.token = NoToken /\ st.tmp = NoToken /\ st.change = NoChange
      /\ st.usage = [p \in Phone |-> 0]
  BY DEF Init, EmptyState
<1>7. Sound(st, gopay)
  BY <1>5, <1>6 DEF Sound, HasKeys, ChangeOK, MovedOK, MaxUsage, NoToken
<1> QED
  BY <1>4, <1>7 DEF Init, IInv, Silent, ReadyIsVerified

\* The invariant holds, of every sequence of calls by any caller.
THEOREM Invariant == Spec => []IInv
<1>1. IInv /\ [Next]_vars => IInv'
  BY Steps DEF Stepped
<1> QED
  BY Initially, <1>1, PTL DEF Spec

\* A state that waits for a code, a PIN or a deactivation has the keys its
\* completion reads, however the calls before were mixed (stateMap, appsvc).
THEOREM StateIsOK == Spec => []StateOK
<1>1. IInv => StateOK
  BY DEF IInv, GoPay, Sound, StateOK, TypeOK
<1> QED
  BY Invariant, <1>1, PTL

\* No code is posted after its window (the starts' and completions' calls of
\* expireLoginIfNeeded and expireSignupIfNeeded), and no signup code is asked
\* for while a rate limit's cooldown runs.
THEOREM CodesAreInTime == Spec => []CodesInTime
<1>1. IInv => CodesInTime
  BY DEF IInv, CodesInTime, NoLateCode, CooldownRespected
<1> QED
  BY Invariant, <1>1, PTL

\* Whoever LoginStart, AuthStart or GetReadyAccountToken answers "ready" has
\* a token that GoPay accepted in that very call.
THEOREM ReadyWasVerified == Spec => []ReadyIsVerified
<1>1. IInv => ReadyIsVerified
  BY DEF IInv
<1> QED
  BY Invariant, <1>1, PTL

\* A change of number keeps aside the token of the account it moved, of no
\* other, and a number is used at most MaxUsage times (changePhoneStart and
\* changePhoneComplete).
THEOREM ChangesAreAccounted == Spec => []ChangesAccounted
<1>1. IInv => ChangesAccounted
  BY DEF IInv, Sound, MovedOK, ChangesAccounted, MovedAside, AsideWasMoved, UsageWithinLimit
<1> QED
  BY Invariant, <1>1, PTL

\* A token leaves the state for that of an account just logged in or signed
\* up, for the place aside, or for a signup that starts: no call that fails
\* for another reason loses it.
THEOREM TokenIsKept == Spec => TokenKept
<1> DEFINE Keeps ==
      st.token.acct \notin {NoAccount, st'.token.acct} =>
        \/ st'.token.acct # NoAccount /\ st'.stage \in {"ready", "signup_pin_required"}
        \/ st'.tmp.acct = st.token.acct /\ st'.stage = "phone_changed"
        \/ st'.tmp = NoToken /\ st'.signup.phone # NoPhone
<1>1. IInv /\ [Next]_vars => Keeps
  BY Steps DEF Stepped, TokenStep
<1>2. IInv /\ [Next]_vars => [Keeps]_vars
  BY <1>1
<1> HIDE DEF Keeps
<1>3. Spec => [][Keeps]_vars
  BY Invariant, <1>2, PTL DEF Spec
<1> QED
  BY <1>3 DEF TokenKept, Keeps

-----------------------------------------------------------------------------
(* The refinement of AccountLife. *)

\* Each thing a call may do to GoPay's accounts is a step of one life, or none.
LEMMA LifeStep ==
  ASSUME IInv, AccountsStep(gopay, gopay')
  PROVE  [Life!Next]_([a \in Account |-> LifeOf(a)])
<1> DEFINE life == [a \in Account |-> LifeOf(a)]
<1>1. /\ gopay.owner \in [Phone -> MaybeAccount] /\ gopay.moved \subseteq gopay.born
      /\ \A p \in Phone : gopay.owner[p] \in gopay.born \cup {NoAccount}
  BY DEF IInv, GoPay, Accounts
<1>2. CASE /\ gopay'.owner = gopay.owner /\ gopay'.born = gopay.born
           /\ gopay'.moved = gopay.moved
  BY <1>2 DEF LifeOf, NumberOf
<1>3. ASSUME NEW a \in Account \ gopay.born, NEW p \in Phone,
             gopay.owner[p] = NoAccount, gopay'.owner = [gopay.owner EXCEPT ![p] = a],
             gopay'.born = gopay.born \cup {a}, gopay'.moved = gopay.moved
      PROVE  Life!Next
  <2>1. LifeOf(a) = "unborn" /\ LifeOf(a)' = "settled"
    BY <1>1, <1>3 DEF LifeOf, NumberOf
  <2>2. ASSUME NEW b \in Account, b # a
        PROVE  LifeOf(b)' = LifeOf(b)
    BY <1>1, <1>3, <2>2, AccountNames DEF LifeOf, NumberOf
  <2>3. life' = [life EXCEPT ![a] = "settled"]
    BY <2>1, <2>2
  <2> QED
    BY <2>1, <2>3 DEF Life!Next, Life!Open, Life!Becomes
<1>4. ASSUME NEW a \in Account, NEW p \in Phone,
             NumberOf(gopay, a) # {}, gopay.owner[p] = NoAccount,
             gopay'.owner = [q \in Phone |-> IF q = p THEN a
                               ELSE IF gopay.owner[q] = a THEN NoAccount ELSE gopay.owner[q]],
             gopay'.born = gopay.born, gopay'.moved = gopay.moved \cup {a}
      PROVE  Life!Next
  <2>1. LifeOf(a) \in {"settled", "moved"} /\ LifeOf(a)' = "moved"
    BY <1>1, <1>4, AccountNames DEF LifeOf, NumberOf
  <2>2. ASSUME NEW b \in Account, b # a
        PROVE  LifeOf(b)' = LifeOf(b)
    BY <1>1, <1>4, <2>2, AccountNames DEF LifeOf, NumberOf
  <2>3. life' = [life EXCEPT ![a] = "moved"]
    BY <2>1, <2>2
  <2> QED
    BY <2>1, <2>3 DEF Life!Next, Life!Change, Life!Becomes
<1>5. ASSUME NEW a \in gopay.moved, NumberOf(gopay, a) # {},
             gopay'.owner = [q \in Phone |-> IF gopay.owner[q] = a THEN NoAccount
                                             ELSE gopay.owner[q]],
             gopay'.born = gopay.born, gopay'.moved = gopay.moved
      PROVE  Life!Next
  <2>1. a \in Account
    BY DEF IInv, GoPay
  <2>2. LifeOf(a) = "moved" /\ LifeOf(a)' = "gone"
    BY <1>1, <1>5, <2>1, AccountNames DEF LifeOf, NumberOf
  <2>3. ASSUME NEW b \in Account, b # a
        PROVE  LifeOf(b)' = LifeOf(b)
    BY <1>1, <1>5, <2>3, AccountNames DEF LifeOf, NumberOf
  <2>4. life' = [life EXCEPT ![a] = "gone"]
    BY <2>1, <2>2, <2>3
  <2> QED
    BY <2>1, <2>2, <2>4 DEF Life!Next, Life!Deactivate, Life!Becomes
<1> QED
  BY <1>2, <1>3, <1>4, <1>5 DEF AccountsStep

\* The service implements AccountLife: it opens an account once, deactivates
\* none that was not moved, and uses none that is gone.
THEOREM LivesAsPromised == Spec => LifeSpec
<1>1. Init => Life!Init
  <2> SUFFICES ASSUME Init
               PROVE  \A a \in Account : LifeOf(a) \in {"unborn", "settled"}
    BY DEF Life!Init
  <2>1. gopay.moved = {} /\ gopay.born = {gopay.owner[p] : p \in Phone} \ {NoAccount}
    BY DEF Init
  <2> QED
    BY <2>1 DEF LifeOf, NumberOf
<1>2. IInv /\ [Next]_vars => [Life!Next]_([a \in Account |-> LifeOf(a)])
  BY Steps, LifeStep DEF Stepped
<1> QED
  BY <1>1, <1>2, Invariant, PTL DEF Spec, LifeSpec, Life!Spec
=============================================================================
