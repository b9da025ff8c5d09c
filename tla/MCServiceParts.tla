--------------------------- MODULE MCServiceParts ---------------------------
(***************************************************************************)
(* Values for TLC of ServiceParts: a phone check and an execution, two     *)
(* actions on an account, four environments and three kinds of devices     *)
(* that older versions stored, two access tokens and two fingerprints.     *)
(***************************************************************************)
EXTENDS ServiceParts, TLC

\* The defaults; Android with random hardware; a later version and a pinned TLS
\* profile; a static identity.
Default == [platform |-> "iOS", static |-> FALSE, version |-> 0, hardware |-> FALSE,
            tls |-> "any"]
FourEnvironments ==
  {Default, [Default EXCEPT !.platform = "Android", !.hardware = TRUE],
   [Default EXCEPT !.version = 28, !.tls = "Android"], [Default EXCEPT !.static = TRUE]}

\* Older versions stored whole devices or devices without the fields of a set.
MissingFields == {{}, {"TLSProfileName", "IPAddress", "IMEI"}, {"M1Hardware", "GMSVersion"}}

Symmetry == Permutations(Caller)
=============================================================================
