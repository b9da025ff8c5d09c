---------------------------- MODULE AccountLogin ----------------------------
(***************************************************************************)
(* Logging an account in (appsvc/login_*.go, rpc_login.go, phone_probe.go) *)
(* on the worlds of AccountState: the probe of the number, the code or PIN *)
(* it is met with, the second factor and the token at the end.             *)
(***************************************************************************)
EXTENDS AccountState

persistLoginProbe(s, p, id) ==
  [s EXCEPT !.login.phone = p, !.login.id = id, !.open = @ \cup {"probe"},
            !.stage = "login"]

persistLoginOTP(s, id, code) ==
  [s EXCEPT !.login.id = id, !.login.code = code, !.open = @ \cup {"login"},
            !.stage = "login_otp_pending"]

\* Nothing looks whether the answer held a token.
persistLoginReady(s, a, p) ==
  {[DropLogin(t) EXCEPT !.phone = p, !.stage = "ready"] :
     t \in storeTokenResponse(s, a, FALSE)}

loginProbeTTL == "probe"

reusableLoginProbe(s, p) ==
  s.login.phone = p /\ s.login.id # NoPhone /\ loginProbeTTL \in s.open

\* GoPay takes a verification id only with the number it was issued for.
Initiated(w) ==
  Refused(w) \cup
  When(w.s.login.id = w.s.login.phone /\ Registered(w.g, w.s.login.phone), {w})

Owner(w) == w.g.owner[w.s.login.phone]

\* The code of a flow is requested with the verification id kept for it.
RequestLoginOTP(w, code) ==
  Refused(w) \cup
  {Returns(With(w, persistLoginOTP(w.s, w.s.login.phone, code)), "sent")}

Login(w) ==
  {Returns(With(w, s), "ready") :
     s \in persistLoginReady(w.s, Owner(w), w.s.login.phone)}

\* PIN instead of a code: a token at once, or a second factor.
startLoginWithPIN(w) == Refused(w) \cup Login(w) \cup RequestLoginOTP(w, "2fa")

\* /goto-auth/login/methods, up to three times with a new identity; an
\* answer without a verification id is stored as well.
LoginMethods(w, p) ==
  IF reusableLoginProbe(w.s, p) THEN {w}
  ELSE IF ~Registered(w.g, p) THEN Refused(w) \cup {Returns(w, "unregistered")}
  ELSE Refused(w)
       \cup FailsAt(w, persistLoginProbe(w.s, p, NoPhone))
       \cup {With(w, persistLoginProbe(w.s, p, p))}

\* The number is stored before the stored probe is looked at.
startLogin(w, p) ==
  LET At == With(w, [w.s EXCEPT !.login.phone = p, !.stage = "login"])
      Meets(v) == RequestLoginOTP(v, "1fa") \cup startLoginWithPIN(v)
      Probed(v) == Then(Initiated(v), "ok", Meets)
  IN  Refused(w) \cup Then(LoginMethods(Returns(At, "ok"), p), "ok", Probed)

-----------------------------------------------------------------------------
(* The code.                                                               *)

continueLogin2FA(w) == RequestLoginOTP(w, "2fa")

\* Whatever the window, the code is posted.
completeLogin(w) ==
  LET Posted == IF pendingExpired(w.s, "login") THEN Saw(w, "late") ELSE w
      Accepted == Registered(w.g, w.s.login.phone) /\ w.s.login.id = w.s.login.phone
  IN  IF w.s.login.id = NoPhone \/ w.s.login.code = "none" THEN Refused(w)
      ELSE Refused(Posted)
           \cup When(Accepted, Login(Posted))
           \cup When(Accepted /\ w.s.login.code = "1fa", continueLogin2FA(Posted))

-----------------------------------------------------------------------------
(* RPCs.                                                                   *)

LoginPending(s) ==
  s.stage = "login_otp_pending" /\ s.login.code # "none" /\ s.login.id # NoPhone

\* An answer "ready" of startLogin is believed only after a token check.
LoginStart(w0, given) ==
  LET w == With(w0, expireLoginIfNeeded(w0.s))
      p == IF given = NoPhone /\ w.s.stage \in {"login", "login_otp_pending"}
             THEN w.s.login.phone ELSE given
      Judged(v) == {Returns(v, IF tokenCheckReady(v) THEN "ready" ELSE "fail")}
      Ready(v) == Then(checkTokenValid(v), "valid", Judged)
      Start(v) ==
        IF p = NoPhone THEN Refused(v)
        ELSE IF LoginPending(w.s) THEN {Returns(v, "sent")}
        ELSE Then(startLogin(v, p), "ready", Ready)
      Checked == checkTokenValid(w)
  IN  IF w.s.stage \in {"ready", "consumed"}
        THEN (UNION {Judged(v) : v \in Ended(Checked, "valid")})
             \cup UNION {Start(v) : v \in Ended(Checked, "fail")}
        ELSE Start(w)

LoginComplete(w0) ==
  LET w == With(w0, expireLoginIfNeeded(w0.s))
  IN  IF w.s.stage # "login_otp_pending" THEN Refused(w) ELSE completeLogin(w)

-----------------------------------------------------------------------------
(* Probing a number with a device and a proxy only.                        *)

checkPhoneByLoginMethods(w, p) ==
  Refused(w) \cup
  IF Registered(w.g, p)
    THEN {Returns(With(w, persistLoginProbe(w.s, p, id)), "registered") :
            id \in {p, NoPhone}}
    ELSE {Returns(w, "available")}

\* Neither a number nor a state with proxy and device: an error.
CheckPhone(w, p) == Refused(w) \cup checkPhoneByLoginMethods(w, p)
=============================================================================
