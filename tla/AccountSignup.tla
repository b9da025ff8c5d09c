--------------------------- MODULE AccountSignup ----------------------------
(***************************************************************************)
(* Signing an account up and setting its PIN (appsvc/signup_*.go, pin*.go, *)
(* rpc_signup.go, rpc_pin.go) on the worlds of AccountState.               *)
(***************************************************************************)
EXTENDS AccountLogin

\* A cooldown that is over is removed with what it was about.
signupCooldownResult(s) == "cooldown" \in s.open

signupRateLimitResult(w) ==
  FailsAt(w, [w.s EXCEPT !.open = @ \cup {"cooldown"}, !.stage = "idle"])

persistSignupOTP(s) ==
  [s EXCEPT !.signup.code = TRUE, !.open = @ \cup {"signup"},
            !.stage = "signup_otp_pending"]

\* Tokens are dropped before GoPay is asked anything.
prepareSignupStartState(w, p) ==
  LET cleared == clearLoginState(clearSignupState(w.s))
      ready == [clearTmpTokens(cleared) EXCEPT !.token = NoToken,
                  !.signup.phone = p, !.stage = "signup"]
  IN  FailsAt(w, cleared) \cup FailsAt(w, ready) \cup {With(w, ready)}

probeSignupPhone(w, p, skip) ==
  IF skip THEN {w}
  ELSE Refused(w) \cup signupRateLimitResult(w) \cup When(~Registered(w.g, p), {w})

requestSignupOTP(w) ==
  LET Asked == IF signupCooldownResult(w.s) THEN Saw(w, "rushed") ELSE w
  IN  Refused(w) \cup signupRateLimitResult(w)
      \cup {Returns(With(Asked, persistSignupOTP(w.s)), "sent")}

\* Mutant: a cooldown is not waited for.
StartSignupRushed(w, p, skip) ==
  LET Probe(v) == Refused(v) \cup probeSignupPhone(v, p, skip)
  IN  Then(Then(prepareSignupStartState(Returns(w, "ok"), p), "ok", Probe),
           "ok", requestSignupOTP)

startSignup(w, p, skip) ==
  LET Probe(v) == Refused(v) \cup probeSignupPhone(v, p, skip)
  IN  IF signupCooldownResult(w.s) THEN Refused(w)
      ELSE Then(Then(prepareSignupStartState(Returns(w, "ok"), p), "ok", Probe),
                "ok", requestSignupOTP)

\* A retry does not look at the window and opens it again.
retrySignupOTP(w) ==
  IF w.s.stage # "signup_otp_pending" \/ ~w.s.signup.code THEN Refused(w)
  ELSE Refused(w)
       \cup {Returns(With(w, [w.s EXCEPT !.open = @ \cup {"signup"}]), "sent")}

\* GoPay opens an account for a number that has none; the code's keys go,
\* the number's stay until the PIN is set.
completeSignup(w) ==
  LET s == w.s
      Posted == IF pendingExpired(s, "signup") THEN Saw(w, "late") ELSE w
      Opened(a) == [Posted EXCEPT !.g.owner[s.signup.phone] = a, !.g.born = @ \cup {a}]
      Kept(a, t) ==
        IF t.token.acct = NoAccount THEN Refused(Opened(a))
        ELSE {Returns(With(Opened(a),
                [DropSignupOTP(t) EXCEPT !.phone = s.signup.phone,
                                         !.stage = "signup_pin_required"]),
                "pin_required")}
  IN  IF s.stage # "signup_otp_pending" \/ s.signup.phone = NoPhone \/ ~s.signup.code
        THEN Refused(w)
        ELSE Refused(Posted) \cup
             When(~Registered(w.g, s.signup.phone),
                  UNION {UNION {Kept(a, t) : t \in storeTokenResponse(s, a, FALSE)} :
                           a \in Account \ w.g.born})

SignupStart(w0, p, skip) ==
  LET w == Expired(w0) IN IF p = NoPhone THEN Refused(w) ELSE startSignup(w, p, skip)

SignupRetry(w) == retrySignupOTP(w)

SignupComplete(w) == completeSignup(With(w, expireSignupIfNeeded(w.s)))

-----------------------------------------------------------------------------
(* The PIN.                                                                *)

resolveGoPayAccountPin(w) == Refused(w) \cup {w}

\* The number of the signup, or the account's.
PINPhone(s) == IF s.signup.phone # NoPhone THEN s.signup.phone ELSE s.phone

PINDone(w, p) ==
  {Returns(With(w, [DropSignup(w.s) EXCEPT !.phone = p, !.stage = "ready"]), "ready")}

\* Any stage may start it: what it needs is a usable token and a number.
startSignupPINOnce(w) ==
  LET Setup(v) ==
        IF PINPhone(v.s) = NoPhone THEN Refused(v)
        ELSE Refused(v)
          \cup When(LiveToken(v.g, v.s.token) /\ v.s.token.acct \in v.g.pinned,
                 UNION {PINDone(v, p) :
                          p \in {PINPhone(v.s)} \cup NumberOf(v.g, v.s.token.acct)})
          \cup When(LiveToken(v.g, v.s.token),
                 {Returns(With(v, [v.s EXCEPT !.pin = v.s.token.acct,
                      !.open = @ \cup {"pin"}, !.stage = "signup_pin_otp_pending"]),
                    "sent")})
  IN  Then(Then(resolveGoPayAccountPin(w), "ok", ensureAccessToken), "ok", Setup)

\* A second attempt, after a transport error, through another proxy.
startSignupPIN(w) == startSignupPINOnce(w)

retrySignupPIN(w) ==
  LET Retry(v) ==
        Refused(v) \cup {Returns(With(v, [v.s EXCEPT !.open = @ \cup {"pin"}]), "sent")}
  IN  IF w.s.stage # "signup_pin_otp_pending" \/ w.s.pin = NoAccount THEN Refused(w)
      ELSE Then(newClientWithState(w, TRUE), "ok", Retry)

completeSignupPIN(w) ==
  LET Post(v) ==
        LET u == IF pendingExpired(v.s, "pin") THEN Saw(v, "late") ELSE v
            a == v.s.token.acct
        IN  Refused(u)
            \cup When(LiveToken(v.g, v.s.token) /\ v.s.pin = a,
                      PINDone([u EXCEPT !.g.pinned = @ \cup {a}], PINPhone(v.s)))
  IN  IF w.s.stage # "signup_pin_otp_pending" \/ w.s.pin = NoAccount THEN Refused(w)
      ELSE Then(newClientWithState(w, TRUE), "ok", Post)

CreatePinStart(w) == startSignupPIN(With(w, expireSignupIfNeeded(w.s)))
CreatePinRetry(w) == retrySignupPIN(With(w, expireSignupIfNeeded(w.s)))
CreatePinComplete(w) == completeSignupPIN(With(w, expireSignupIfNeeded(w.s)))
=============================================================================
