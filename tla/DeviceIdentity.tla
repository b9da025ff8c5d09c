--------------------------- MODULE DeviceIdentity ---------------------------
(***************************************************************************)
(* The device an account shows to GoPay: made from the environment and from *)
(* random numbers (protocol/app), kept in the account's state and in its    *)
(* device profile, completed by later versions of the service when a field  *)
(* is missing, replaced at a signup if its app version is not the service's *)
(* own, and sent by the sessions of every action.  The environment changes  *)
(* when the service is restarted.                                           *)
(***************************************************************************)
EXTENDS Naturals

CONSTANTS
  Environments, \* environments the service is started with
  Missing,      \* sets of fields older versions did not store
  MaxMade       \* bound: devices made

Platforms == {"iOS", "Android"}

Field == {"AppID", "AppVersion", "UserAgent", "Platform", "DeviceOS", "PhoneModel",
          "M1Hardware", "Installer", "GMSVersion", "DeviceToken", "UniqueID", "IMEI",
          "IPAddress", "Identity", "TransactionID", "TLSProfileName"}

\* os: the platform a value belongs to; n: the number it was drawn with (0: a
\* constant of the program), the app version, or the kind of a TLS profile.
Version  == {27, 28}
Number   == 0..MaxMade
Safari   == 1    \* TLS profiles: safari_ios_* and okhttp4_android_*,
OtherTLS == 2    \* or those of other apps
Blank    == [os |-> "none", n |-> 0]
Value    == {Blank} \cup
            [os : Platforms \cup {"any"}, n : Number \cup Version \cup {Safari, OtherTLS}]
NoDevice == [f \in Field |-> Blank]

\* A stored device is completed if it lacks one of these.
Completed == {"AppID", "UniqueID", "TLSProfileName", "M1Hardware", "IMEI", "IPAddress",
              "Identity"}

Environment == [platform : Platforms, static : BOOLEAN, version : {0} \cup Version,
                hardware : BOOLEAN, tls : Platforms \cup {"any"}]

\* What the constants are.  An older version may have left out anything if it left
\* out a field for which devices are completed; else what not every platform has.
DeviceIdentityConstants ==
  /\ Environments \subseteq Environment /\ Missing \subseteq SUBSET Field
  /\ MaxMade \in Nat \ {0}
  /\ \A lacking \in Missing :
       lacking \cap Completed = {} => lacking \subseteq {"GMSVersion", "DeviceToken"}

VARIABLES
  env,     \* the environment of the running service
  state,   \* the device in the account's state
  profile, \* the device in profile:<hash of the account>
  signup,  \* _signup_probe_transaction_id
  made,    \* devices made
  sent,    \* the device the last session sent, for what, in which environment
  whole    \* history: the state's device is as one environment made it, complete

vars == <<env, state, profile, signup, made, sent, whole>>

-----------------------------------------------------------------------------
\* Making a device (NewDeviceFingerprint); n numbers its random values.

DefaultVersion == 27

\* Mutant of TLSChoice: the profile is drawn before the platform is known.
TLSApple(e) ==
  IF e.tls # "any" THEN {[os |-> e.tls, n |-> 0]}
                   ELSE {[os |-> "iOS", n |-> kind] : kind \in {Safari, OtherTLS}}

TLSChoice(e) ==
  IF e.tls # "any" THEN {[os |-> e.tls, n |-> 0]}
                   ELSE {[os |-> e.platform, n |-> kind] : kind \in {Safari, OtherTLS}}

\* GMS versions are Android's; a static device has no address, and without a
\* token on Android.
NewDeviceFingerprint(e, n, tls) ==
  LET version  == IF e.version = 0 THEN DefaultVersion ELSE e.version
      drawn    == IF e.static THEN 0 ELSE n
      hardware == IF e.hardware /\ ~e.static THEN n ELSE 0
      Of(k)    == [os |-> e.platform, n |-> k]
      Any(k)   == [os |-> "any", n |-> k]
      android  == e.platform = "Android"
  IN [f \in Field |->
       CASE f = "AppID"                          -> Any(0)
         [] f = "AppVersion"                     -> Any(version)
         [] f = "UserAgent"                      -> Of(version)
         [] f \in {"Platform", "DeviceOS", "Installer"} -> Of(0)
         [] f \in {"PhoneModel", "M1Hardware"}   -> Of(hardware)
         [] f = "GMSVersion"  -> IF android THEN Of(0) ELSE Blank
         [] f = "DeviceToken" -> IF android /\ e.static THEN Blank ELSE Of(drawn)
         [] f \in {"UniqueID", "IMEI", "Identity"} -> Any(drawn)
         [] f = "IPAddress"   -> IF e.static THEN Blank ELSE Any(n)
         [] f = "TransactionID"  -> Any(n)
         [] f = "TLSProfileName" -> tls]

mergeDevice(current, fallback) ==
  [f \in Field |-> IF current[f] # Blank THEN current[f] ELSE fallback[f]]

deviceNeedsBackfill(d) == \E f \in Completed : d[f] = Blank

\* The device of a state: completed if it lacks something, made if there is none.
ensureDevice(d, fresh) ==
  IF d = NoDevice THEN fresh
  ELSE IF deviceNeedsBackfill(d) THEN mergeDevice(d, fresh) ELSE d

Makes(d) == d = NoDevice \/ deviceNeedsBackfill(d)

\* A session falls back to an Apple TLS profile (newSession).
NoPlatform(e) == [e EXCEPT !.platform = "iOS"]

\* Mutant of newSession: the TLS profile is drawn for each session.
SessionDrawn(d, tls) == [d EXCEPT !["TLSProfileName"] = tls]

newSession(d, tls) ==
  IF d["TLSProfileName"] # Blank THEN d ELSE [d EXCEPT !["TLSProfileName"] = tls]

Sends(what, d) == sent' = [what |-> what, device |-> d, env |-> env]

Whole(old, d) == IF old = NoDevice THEN ~deviceNeedsBackfill(d) ELSE whole

-----------------------------------------------------------------------------
\* Older versions left devices without some of the fields.
Init ==
  /\ env \in Environments
  /\ \E lacking \in Missing \cup {Field}, tls \in TLSChoice(env) :
       state = [f \in Field |-> IF f \in lacking THEN Blank
                                ELSE NewDeviceFingerprint(env, 1, tls)[f]]
  /\ profile \in {state, NoDevice}
  /\ signup = Blank /\ made = 1
  /\ sent = [what |-> "none", device |-> state, env |-> env]
  /\ whole = (state = NoDevice \/ ~deviceNeedsBackfill(state))

Restart ==
  /\ env' \in Environments \ {env}
  /\ UNCHANGED <<state, profile, signup, made, sent, whole>>

\* What a new device drawn now may be.
Fresh(e) == {NewDeviceFingerprint(e, made + 1, tls) : tls \in TLSChoice(e)}

Count(makes) == (makes => made < MaxMade) /\ made' = IF makes THEN made + 1 ELSE made

\* A client of an action on the account sends the state's device; the state is
\* saved after it, or not.
clientForState ==
  /\ Count(Makes(state))
  /\ \E fresh \in Fresh(env) :
       LET d == ensureDevice(state, fresh) IN
       /\ Sends("action", d)
       /\ \/ state' = d /\ whole' = Whole(state, d)
          \/ UNCHANGED <<state, whole>>
  /\ UNCHANGED <<env, profile, signup>>

\* The account's generated state: its profile's device, completed and kept.
generateDeviceProxyState ==
  /\ Count(Makes(profile))
  /\ \E fresh \in Fresh(env) : state' = ensureDevice(profile, fresh)
  /\ profile' = state'
  /\ whole' = IF profile = state THEN Whole(state, state')
              ELSE profile = NoDevice /\ ~deviceNeedsBackfill(state')
  /\ signup' = Blank
  /\ UNCHANGED <<env, sent>>

\* A device for one check: the environment counts only for the TLS profile and
\* for drawing the hardware.
ensureRandomDevice ==
  /\ Count(TRUE)
  /\ LET bare == [platform |-> "iOS", static |-> FALSE, version |-> 0,
                  hardware |-> env.hardware, tls |-> env.tls]
     IN state' \in Fresh(bare)
  /\ whole' = TRUE /\ signup' = Blank
  /\ UNCHANGED <<env, profile, sent>>

\* The probe of a number sends the state's device as it is, and refuses one that
\* lacks its names.
checkPhoneByLoginMethods ==
  /\ \A f \in {"AppID", "UniqueID", "PhoneModel"} : state[f] # Blank
  /\ \E tls \in TLSChoice(NoPlatform(env)) :
       Sends("probe", newSession(state, tls))
  /\ UNCHANGED <<env, state, profile, signup, made, whole>>

\* A signup replaces a device whose version is not 2.7, unless the environment
\* asks for a version, and keeps the transaction id of its first attempt.
prepareSignupStartState ==
  \E first \in Fresh(env), second \in Fresh(env) :
    LET held == ensureDevice(state, first)
        replaced == env.version = 0 /\ held["AppVersion"] # [os |-> "any", n |-> 27]
        own == IF replaced THEN second ELSE held
        d  == IF signup # Blank THEN [own EXCEPT !["TransactionID"] = signup] ELSE own
    IN /\ Count(Makes(state) \/ replaced)
       /\ state' = d
       /\ signup' = d["TransactionID"]
       /\ Sends("signup", d)
       /\ whole' = IF replaced THEN ~deviceNeedsBackfill(d) ELSE Whole(state, d)
       /\ UNCHANGED <<env, profile>>

Next ==
  \/ Restart \/ clientForState \/ generateDeviceProxyState \/ ensureRandomDevice
  \/ checkPhoneByLoginMethods \/ prepareSignupStartState

Spec == Init /\ [][Next]_vars

-----------------------------------------------------------------------------
Device == [Field -> Value]

\* Type invariant.
TypeOK ==
  /\ env \in Environments /\ state \in Device /\ profile \in Device
  /\ signup \in Value /\ made \in 0..MaxMade /\ whole \in BOOLEAN
  /\ sent \in [what : {"none", "action", "probe", "signup"}, device : Device, env : Environments]
  /\ signup # Blank => state["TransactionID"] # Blank

\* The fields that tell a platform name the same one, the hardware is that of
\* the phone model, and the user agent names the app version.
Consistent(d) ==
  /\ \A f \in Field : d[f].os \in Platforms /\ (f = "TLSProfileName" => d[f].n # 0)
                       => d[f].os = d["Platform"].os
  /\ d["PhoneModel"].n = d["M1Hardware"].n
  /\ d["UserAgent"].n = d["AppVersion"].n

(* A complete device stays the device of one platform, phone and app version,  *)
(* however often the service is restarted with another platform or version.    *)
WholeIsConsistent == whole /\ state # NoDevice => Consistent(state)

(* A session shows the complete device the state holds: between the actions of *)
(* an account only the transaction id differs, unless a signup replaced a      *)
(* device of another app version.                                              *)
OneFace ==
  /\ sent' # sent /\ whole /\ state # NoDevice
  /\ ~(sent'.what = "signup" /\ env.version = 0 /\ state["AppVersion"].n # 27)
  => \A f \in Field \ {"TransactionID"} : sent'.device[f] = state[f]

(* No action sends a device that lacks an identifier, also for devices stored  *)
(* by versions that did not have it; only a static identity has no address.    *)
NothingLacking ==
  sent.what \in {"action", "signup"} =>
    \A f \in Field \ {"GMSVersion", "DeviceToken"} :
      sent.device[f] # Blank \/ (f = "IPAddress" /\ sent.env.static)

(* All attempts of signing up with one state carry the transaction id of the   *)
(* first, also when the device is replaced in between.                         *)
OneTransaction ==
  signup # Blank /\ signup' # Blank =>
    signup' = signup /\ (sent' # sent /\ sent'.what = "signup"
                         => sent'.device["TransactionID"] = signup)

(* A signup without a version in the environment is made with the version the  *)
(* service is written for, whatever the stored device had.                     *)
SignupVersion ==
  sent.what = "signup" /\ sent.env.version = 0 => sent.device["AppVersion"].n = DefaultVersion
=============================================================================
