---------------------------- MODULE GoPayRequests ----------------------------
(***************************************************************************)
(* The requests of the GoPay app protocol (protocol/app): which host and   *)
(* headers a call gets, whose authorization it carries and what its        *)
(* signature covers.                                                       *)
(*                                                                         *)
(* GoPay recomputes the signature X-E1 from what it receives, so a part of *)
(* the signed message that differs from the request makes it void.  The    *)
(* message is put together in one place and the headers in another: by the *)
(* client's policy, then the session's token, then what the caller adds.   *)
(*                                                                         *)
(* A header's value is the device it describes, a token (sent after        *)
(* "Bearer"), or a word; constants of the app are the word "app".          *)
(***************************************************************************)
CONSTANTS
  Token,     \* access tokens an account may get
  Device,    \* device fingerprints
  NoToken, NoSession, NoRequest

\* What the constants are: a token is neither absent nor an empty word.
AbsentAssumption == Token \cap {NoToken, ""} = {}

VARIABLES
  signVersion,  \* GOPAY_SIGN_VERSION
  template,     \* GOPAY_SIGNED_MSG_TEMPLATE names a captured message
  token,        \* the account's access token in its state
  device,       \* the device in its state
  session,      \* the session of the client set in use
  sent          \* the last request

vars == <<signVersion, template, token, device, session, sent>>

-----------------------------------------------------------------------------
(* The calls the account service makes.                                    *)

\* Whose client set a call uses: one for a login or a sign-up, the account's, or
\* that of a refresh.  Most calls that change something have a body; none names
\* a host, but for the address of a service to unlink.
Call(as, client, method, path, extra) ==
  [as |-> as, client |-> client, method |-> method, at |-> "", path |-> path,
   extra |-> extra, body |-> IF method = "GET" THEN "" ELSE "json"]

\* Headers, by name: one, and those of f before those of g.
Plain      == [n \in {} |-> ""]
One(n, v)  == [m \in {n} |-> v]
Over(f, g) == [n \in DOMAIN f \cup DOMAIN g |-> IF n \in DOMAIN f THEN f[n] ELSE g[n]]

Blank == One("Authorization", "")
Verified == One("Verification-Token", "verification")

LoginCalls ==
  {Call("nobody", "auth", "POST", p, Plain) :
     p \in {"/goto-auth/login/methods", "/cvs/v1/initiate", "/cvs/v1/verify", "/goto-auth/token"}}
  \cup {Call("nobody", "auth", "POST", "/cvs/v1/initiate", Blank),
        Call("nobody", "auth", "POST", "/goto-auth/accountlist", Verified),
        Call("nobody", "auth", "POST", "/goto-auth/token", Verified),
        Call("nobody", "customer", "GET", "/api/v2/challenges/id/pin-page/nb", Plain),
        Call("nobody", "customer", "POST", "/api/v1/users/pin/tokens/nb", Plain)}

SignupCalls ==
  {Call("nobody", "customer", "POST", "/v1/support/customer/initiate", Plain),
   Call("nobody", "auth", "POST", "/cvs/v1/methods", Plain),
   [Call("nobody", "auth", "POST", "/cvs/v1/initiate", Plain) EXCEPT !.body = "signup"],
   Call("nobody", "auth", "POST", "/cvs/v1/retry", Plain),
   Call("nobody", "gojek", "POST", "/v7/customers/signup",
        Over(One("Authorization", "basic"), Verified))}

PINCalls ==
  {Call("account", "auth", "POST", p, Plain) :
     p \in {"/cvs/v1/methods", "/cvs/v1/initiate", "/cvs/v1/verify", "/cvs/v1/retry"}}
  \cup {Call("account", "customer", "POST", "/api/v1/users/pins/allowed", Plain),
        Call("account", "customer", "POST", "/api/v2/users/pins/setup/tokens",
             Over(One("Is-Token-Required", "false"), Verified))}

ChangePhoneCalls ==
  {Call("account", "gojek", "GET", "/gojek/v2/customer", Plain),
   Call("account", "gojek", "PATCH", "/v5/customers", Plain),
   Call("account", "gojek", "PATCH", "/v5/customers", One("pin", "pin")),
   Call("account", "gojek", "POST", "/v2/otp/retry", Plain),
   Call("account", "gojek", "POST", "/v5/customers/verificationUpdateProfile", Plain)}

AccountCalls ==
  {Call("account", "customer", "GET", p, Plain) :
     p \in {"/v1/users/profile", "/v1/payment-options/balances", "/v1/linkedapps",
            "/v1/festivals/envelope-requests/id", "/api/v1/users/deactivate/check"}}
  \cup {Call("account", "customer", "POST", p, Plain) :
          p \in {"/api/v1/users/pin/challenges", "/api/v1/users/pin/tokens",
                 "/v1/festivals/envelope-requests"}}
  \cup {Call("account", "customer", "DELETE", "/api/v1/users/deactivate", Plain),
        Call("refresh", "auth", "POST", "/goto-auth/token", Plain)}

\* unlink takes what GoPay lists: a path or a whole address.
UnlinkCalls ==
  {[Call("account", "customer", "PATCH", p, Plain) EXCEPT !.at = h, !.body = ""] :
     p \in {"/v1/links/service", "/another"},
     h \in {"", "customer.gopayapi.com", "another"}}

Calls == LoginCalls \cup SignupCalls \cup PINCalls \cup ChangePhoneCalls \cup AccountCalls
           \cup UnlinkCalls

-----------------------------------------------------------------------------
(* Headers.                                                                *)

Host(client) ==
  CASE client = "auth"     -> "accounts.goto-products.com"
    [] client = "customer" -> "customer.gopayapi.com"
    [] client = "gojek"    -> "api.gojekapi.com"

\* What each set of headers shows of the device.
Identity == {"X-AppVersion", "X-AppId", "X-AppType", "User-Agent", "X-Platform",
             "X-UniqueId", "X-User-Type", "X-DeviceOS", "X-PhoneMake", "X-PhoneModel",
             "X-DeviceToken", "X-M1", "X-E2"}

Constant == {"Accept-Language", "X-User-Locale"}

Shown(names, constants, d, hasBody) ==
  Over([n \in names |-> d],
       [n \in constants \cup Constant \cup (IF hasBody THEN {"Content-Type"} ELSE {}) |-> "app"])

defaultSignedHeaders(d, hasBody) ==
  Shown(Identity \cup {"User-uuid", "X-IMEI", "X-IpAddress", "X-Location", "AdjTs",
                       "X-Location-Accuracy", "Gojek-Country-Code", "D1", "X-Session-ID",
                       "X-PushTokenType"},
        {"Accept", "X-Dark-Mode"}, d, hasBody)

appHeaders(d, hasBody) ==
  Shown(Identity \cup {"Country-Code", "Gojek-Country-Code", "X-IMEI", "X-IpAddress",
                       "X-Help-Version", "X-Location", "X-Location-Accuracy",
                       "Transaction-ID"},
        {"Accept-Encoding", "Gojek-Service-Area", "X-Request-ID", "Gojek-Timezone",
         "X-AuthSDK-Version", "X-CVSDK-Version"}, d, hasBody)

gotoAuthHeaders(d, hasBody) ==
  Shown(Identity \cup {"Country-Code", "Gojek-Country-Code", "X-Help-Version",
                       "Transaction-ID"},
        {"Accept-Encoding", "Gojek-Service-Area", "X-Request-ID", "Gojek-Timezone",
         "X-AuthSDK-Version", "X-CVSDK-Version"}, d, hasBody)

\* Mutant: the support request's headers leave the phone's make out.
SupportWithoutMake(d, hasBody) ==
  Shown(Identity \ {"X-PhoneMake"},
        {"Accept-Encoding", "Gojek-Service-Area", "Support-Request-Id", "Gojek-Timezone",
         "Support-SDK-Version"}, d, hasBody)

supportCustomerHeaders(d, hasBody) ==
  Shown(Identity \cup {"Country-Code", "Gojek-Country-Code", "X-Help-Version"},
        {"Accept-Encoding", "Gojek-Service-Area", "Support-Request-Id", "Gojek-Timezone",
         "Support-SDK-Version"}, d, hasBody)

\* The paths of the customer host that have the headers of the app's pages:
\* isGopayCustomerLinkPath and isGopayCustomerAppHeaderPath.
CustomerAppPaths ==
  {"/v1/users/profile", "/v1/payment-options/balances", "/v1/linkedapps",
   "/v1/links/service", "/v1/festivals/envelope-requests",
   "/v1/festivals/envelope-requests/id", "/api/v1/users/deactivate",
   "/api/v1/users/deactivate/check", "/api/v1/users/pin/challenges",
   "/api/v1/users/pin/tokens", "/api/v1/users/pin/tokens/nb", "/api/v1/users/pins/allowed",
   "/api/v2/users/pins/setup/tokens", "/api/v2/challenges/id/pin-page/nb"}

customerHeaderPolicy(c, d) ==
  LET hasBody == c.body # ""
      headers == CASE c.path = "/v1/support/customer/initiate" ->
                        supportCustomerHeaders(d, hasBody)
                   [] c.path \in CustomerAppPaths -> appHeaders(d, hasBody)
                   [] OTHER -> defaultSignedHeaders(d, hasBody)
  IN IF c.path = "/api/v1/users/pin/tokens"
     THEN Over([n \in {"Sdk-Version", "X-Biometric", "X-Verification"} |->
                  CASE n = "Sdk-Version" -> d [] n = "X-Biometric" -> "" [] OTHER -> "PIN"],
               headers)
     ELSE headers

CVS == {"/cvs/v1/methods", "/cvs/v1/initiate", "/cvs/v1/verify", "/cvs/v1/retry"}

\* A verification carries a blank authorization unless the session has a token.
authHeaderPolicy(c, d) ==
  LET blank == IF c.path \in CVS THEN Blank ELSE Plain
      key   == IF c.path = "/cvs/v1/initiate" /\ c.body = "signup"
               THEN One("Key", "value") ELSE Plain
  IN Over(blank, Over(key, gotoAuthHeaders(d, c.body # "")))

\* Every path the service calls on this host has the headers of the app's pages.
gojekHeaderPolicy(c, d) == appHeaders(d, c.body # "")

Policy(c, d) == CASE c.client = "auth"     -> authHeaderPolicy(c, d)
                  [] c.client = "customer" -> customerHeaderPolicy(c, d)
                  [] c.client = "gojek"    -> gojekHeaderPolicy(c, d)

\* endpoint: a client refuses an address on another host.
Endpoint(c) == c.at \in {"", Host(c.client)}

RequestHost(c) == IF c.at = "" THEN Host(c.client) ELSE c.at

-----------------------------------------------------------------------------
(* Signatures.                                                             *)

\* signVersionForRequest: by the address unless the setting says otherwise.
SignVersion(c) ==
  CASE signVersion = "v1" -> "v1"
    [] signVersion = "v2" -> "v2"
    [] OTHER -> IF c.client = "customer" /\ c.path = "/api/v1/users/pin/tokens/nb"
                THEN "v2" ELSE "v1"

Message(c, t, d, fields) ==
  [token |-> t, url |-> <<RequestHost(c), c.path>>, method |-> c.method,
   body |-> c.body, device |-> [n \in fields |-> d], captured |-> FALSE]

signLegacy(c, t, d) ==
  Message(c, t, d, {"X-AppType", "X-PhoneModel", "X-UniqueId", "X-DeviceOS", "X-AppVersion",
                    "X-M1", "X-AppId", "X-PhoneMake", "X-Platform"})

\* With a captured message only its token is made to fit, if there is one.
signV2(c, t, d) ==
  [Message(c, t, d, {"X-PhoneModel", "X-M1", "X-AppVersion", "X-UniqueId", "X-DeviceOS",
                     "X-AppId"})
   EXCEPT !.captured = template]

Sign(c, t, d) == IF SignVersion(c) = "v2" THEN signV2(c, t, d) ELSE signLegacy(c, t, d)

Get(headers, n) == IF n \in DOMAIN headers THEN headers[n] ELSE ""

\* The policy's headers, the session's token, what the caller adds, in order.
Headers(c, s) ==
  LET bearer == IF s.token # NoToken THEN One("Authorization", s.token) ELSE Plain
  IN Over(c.extra, Over(bearer, Over(One("Host", RequestHost(c)), Policy(c, s.device))))

\* The token that is signed: the one the headers carry, else the session's.
SignToken(h, s) == IF Get(h, "Authorization") = "" THEN s.token ELSE h["Authorization"]

\* The digest of the body is sent with the old signature, not to the auth host
\* or with a support request.
ShowsDigest(c) ==
  /\ c.client # "auth" /\ c.path # "/v1/support/customer/initiate"
  /\ SignVersion(c) # "v2"

\* signedHeaders and do.
Request(c, s) ==
  LET h == Headers(c, s) IN
  [call |-> c, session |-> s, version |-> SignVersion(c),
   headers |-> Over(IF ShowsDigest(c) THEN One("X-E3", c.body) ELSE Plain, h),
   signature |-> Sign(c, SignToken(h, s), s.device)]

-----------------------------------------------------------------------------

Init ==
  /\ signVersion \in {"auto", "v1", "v2"}
  /\ template \in BOOLEAN
  /\ token \in Token \cup {NoToken}
  /\ device \in Device
  /\ session = NoSession
  /\ sent = NoRequest

\* newClient: for logins and sign-ups without a token, for a refresh with the one
\* the state has left, else with a usable one.
NewClient(as) ==
  /\ as = "account" => token # NoToken
  /\ session' = [as |-> as, device |-> device,
                 token |-> IF as = "nobody" THEN NoToken ELSE token]
  /\ UNCHANGED <<signVersion, template, token, device, sent>>

\* Another action on the account stores a token or a device, or drops the token.
Restate ==
  /\ token' \in Token \cup {NoToken} /\ device' \in Device
  /\ <<token', device'>> # <<token, device>>
  /\ UNCHANGED <<signVersion, template, session, sent>>

Send(c) ==
  /\ session # NoSession /\ session.as = c.as /\ Endpoint(c)
  /\ sent' = Request(c, session)
  /\ UNCHANGED <<signVersion, template, token, device, session>>

Next == \/ \E as \in {"nobody", "account", "refresh"} : NewClient(as)
        \/ Restate
        \/ \E c \in Calls : Send(c)

Spec == Init /\ [][Next]_vars

-----------------------------------------------------------------------------

\* Types of the settings, the state and the session.
TypeOK ==
  /\ signVersion \in {"auto", "v1", "v2"} /\ template \in BOOLEAN
  /\ token \in Token \cup {NoToken} /\ device \in Device
  /\ session # NoSession =>
       /\ session.as \in {"nobody", "account", "refresh"} /\ session.device \in Device
       /\ session.token \in Token \cup {NoToken}

Bare(value) == IF value = "" THEN NoToken ELSE value

\* A signature covers the request it is sent with: the authorization the
\* request carries, its address and method, the digest of its body and every
\* part of the device, each as the headers show it; a captured message, which
\* is for experiments, covers none but the token.
SignedIsSent ==
  sent # NoRequest =>
    LET s == sent.signature  h == sent.headers IN
    /\ s.token = Bare(Get(h, "Authorization"))
    /\ s.captured => sent.version = "v2" /\ "X-E3" \notin DOMAIN h
    /\ ~s.captured =>
         /\ s.url = <<h["Host"], sent.call.path>> /\ s.method = sent.call.method
         /\ "X-E3" \in DOMAIN h => h["X-E3"] = s.body
         /\ \A n \in DOMAIN s.device : n \in DOMAIN h /\ h[n] = s.device[n]

\* A call for an account carries the account's token, those to the verification
\* service too, although they are blank there for everyone else; a login or a
\* sign-up never carries the token the state may still have; and no token goes to
\* a host that is not the client's own.
RightAuthorization ==
  sent # NoRequest =>
    LET a == Get(sent.headers, "Authorization") IN
    /\ sent.call.as = "account" => a = sent.session.token /\ a \in Token
    /\ sent.call.as = "refresh" => a \in {sent.session.token, ""}
    /\ sent.call.as = "nobody" => a \in {"", "basic"}
    /\ a # "" => sent.headers["Host"] = Host(sent.call.client)
=============================================================================
