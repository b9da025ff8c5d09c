---------------------------- MODULE ServiceParts ----------------------------
(***************************************************************************)
(* The parts that share no state in the models: the leases of proxies      *)
(* (ProxyLease), the records of an account (AccountRecords), its device    *)
(* (DeviceIdentity) and the requests to GoPay (GoPayRequests).  They stand *)
(* side by side: a behaviour is one of one part, and the variables of the  *)
(* others stay what they are at first.  The constants and variables of     *)
(* AccountRecords are this module's own; a part that is looked at in       *)
(* several ways has an instance for each.                                  *)
(***************************************************************************)
EXTENDS AccountRecords

CONSTANTS
  Checks, Loops, Users, PreflightAttempts, NumberAttempts,       \* of ProxyLease
  NumberLeases, TurnLeases, OnceLeases,                          \* its MaxLeases
  Environments, Missing, MaxMade,                                \* of DeviceIdentity
  AccessToken, Fingerprint, NoToken, NoSession, NoRequest,       \* of GoPayRequests
  NoPart                                                         \* a part that does not run

VARIABLES
  part,                                                    \* the part that runs
  runtime, made, near, checked, stored, record, lease, refused, failed,
  env, face, kept, signup, drawn, shown, whole,
  signVersion, template, bearer, fingerprint, session, sent

leaseVars   == <<runtime, made, near, checked, stored, record, lease, refused, failed>>
deviceVars  == <<env, face, kept, signup, drawn, shown, whole>>
requestVars == <<signVersion, template, bearer, fingerprint, session, sent>>

-----------------------------------------------------------------------------
\* Leases, each time with what is proved of them.  Here: phone checks and
\* executions that try numbers.
Ephemeral == INSTANCE ProxyLeaseProofs WITH
  Users <- {}, Account <- {}, MaxLeases <- NumberLeases, Refusals <- TRUE,
  NeverError <- TRUE, Stops <- TRUE, Overlap <- FALSE, call <- lease, spoiled <- failed

\* Actions on accounts, those of one account one after the other, and at once.
InTurn == INSTANCE ProxyLeaseProofs WITH
  Checks <- {}, Loops <- {}, MaxLeases <- TurnLeases, Refusals <- TRUE,
  NeverError <- FALSE, Stops <- FALSE, Overlap <- FALSE, call <- lease, spoiled <- failed

AtOnce == INSTANCE ProxyLeaseProofs WITH
  Checks <- {}, Loops <- {}, MaxLeases <- OnceLeases, Refusals <- TRUE,
  NeverError <- FALSE, Stops <- FALSE, Overlap <- TRUE, call <- lease, spoiled <- failed

\* Calls on an account: this module's own constants are those of calls in turn,
\* these of savers of profiles and devices that may overlap.
Edit == INSTANCE AccountRecords WITH
  MaxTokens <- 0, Amounts <- {0}, SavesFail <- FALSE, BalanceFails <- FALSE, Overlap <- TRUE

\* The device of an account: in its state, in its profile, and as it was sent.
Devices == INSTANCE DeviceIdentity WITH
  state <- face, profile <- kept, made <- drawn, sent <- shown

\* The requests of its calls.
Requests == INSTANCE GoPayRequests WITH
  Token <- AccessToken, Device <- Fingerprint, token <- bearer, device <- fingerprint

ASSUME PartConstants ==
  /\ Ephemeral!ProxyLeaseConstants /\ InTurn!ProxyLeaseConstants
  /\ AtOnce!ProxyLeaseConstants
  /\ Edit!AccountRecordsConstants
  /\ Devices!DeviceIdentityConstants /\ Requests!AbsentAssumption

-----------------------------------------------------------------------------
NoLeases ==
  /\ runtime = NoPart /\ made = NoPart /\ near = NoPart /\ checked = NoPart
  /\ stored = NoPart /\ record = NoPart /\ lease = NoPart
  /\ refused = NoPart /\ failed = NoPart
NoDevices ==
  /\ env = NoPart /\ face = NoPart /\ kept = NoPart /\ signup = NoPart
  /\ drawn = NoPart /\ shown = NoPart /\ whole = NoPart
NoRequests ==
  /\ signVersion = NoPart /\ template = NoPart /\ bearer = NoPart
  /\ fingerprint = NoPart /\ session = NoPart /\ sent = NoPart

PartInit ==
  /\ Init
  /\ \/ /\ \/ part = "ephemeral" /\ Ephemeral!Init
           \/ part = "in turn" /\ InTurn!Init
           \/ part = "at once" /\ AtOnce!Init
        /\ NoDevices /\ NoRequests
     \/ part \in {"records", "edit"} /\ NoLeases /\ NoDevices /\ NoRequests
     \/ part = "devices" /\ Devices!Init /\ NoLeases /\ NoRequests
     \/ part = "requests" /\ Requests!Init /\ NoLeases /\ NoDevices

PartNext ==
  /\ \/ /\ \/ part = "ephemeral" /\ Ephemeral!Next
           \/ part = "in turn" /\ InTurn!Next
           \/ part = "at once" /\ AtOnce!Next
        /\ UNCHANGED <<vars, deviceVars, requestVars>>
     \/ /\ \/ part = "records" /\ Next
           \/ part = "edit" /\ Edit!Next
        /\ UNCHANGED <<leaseVars, deviceVars, requestVars>>
     \/ /\ part = "devices" /\ Devices!Next
        /\ UNCHANGED <<leaseVars, vars, requestVars>>
     \/ /\ part = "requests" /\ Requests!Next
        /\ UNCHANGED <<leaseVars, vars, deviceVars>>
  /\ UNCHANGED part

PartSpec == PartInit /\ [][PartNext]_<<part, leaseVars, vars, deviceVars, requestVars>>

-----------------------------------------------------------------------------
(* A proxy made for a phone check or a number is given back when it is done    *)
(* with, is not disturbed while it is used, and is found by its job.           *)
EphemeralLeases ==
  part = "ephemeral" =>
    /\ Ephemeral!TypeOK /\ Ephemeral!NothingLeft
    /\ Ephemeral!EphemeralUndisturbed /\ Ephemeral!RecordCovers

(* The lease an account carries is the runtime's, and its exit was checked: the *)
(* first while its actions run in turn, the second also when they overlap.     *)
AccountLeases ==
  /\ part = "in turn" => InTurn!CarriedIsLive
  /\ part = "at once" => AtOnce!TypeOK /\ AtOnce!OnlyChecked

(* A complete device stays that of one platform, phone and app version; no     *)
(* action lacks an identifier; a signup has the service's own version.         *)
DeviceIsWhole ==
  part = "devices" =>
    /\ Devices!TypeOK /\ Devices!WholeIsConsistent
    /\ Devices!NothingLacking /\ Devices!SignupVersion

(* Between the actions of an account only the transaction id differs, and all  *)
(* attempts at one signup carry the first one's.                               *)
FaceKept ==
  [][part = "devices" => Devices!OneFace /\ Devices!OneTransaction]_deviceVars

(* A signature covers the request it is sent with, and a request carries the   *)
(* authorization of those it is sent for and goes to its client's host.        *)
RequestsHold ==
  part = "requests" =>
    Requests!TypeOK /\ Requests!SignedIsSent /\ Requests!RightAuthorization
=============================================================================
