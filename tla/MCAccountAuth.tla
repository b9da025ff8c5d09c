---------------------------- MODULE MCAccountAuth ----------------------------
(* Instances of AccountAuth for TLC. *)
EXTENDS AccountAuth, TLC

Symmetry == Permutations(Phone) \cup Permutations(Account)

LoginOps   == {"LoginStart", "LoginComplete"}
SignupOps  == {"SignupStart", "SignupRetry", "SignupComplete"}
PinOps     == {"CreatePinStart", "CreatePinRetry", "CreatePinComplete"}
MovesOps   == {"ChangePhoneStart", "ChangePhoneRetry", "ChangePhoneComplete",
            "DeactivateStart", "DeactivateComplete"}
AuthOps    == {"AuthStart", "AuthComplete", "CheckTokenValid", "CheckPhone"}
UseOps     == {"CheckDeactivation", "Unlink", "Status", "GetQrId", "ClaimEnvelope",
            "GetReadyAccountToken"}
Tokens  == {"token", "tmp"}
Between(ops, wanes) == [ops |-> ops, wanes |-> wanes]

\* Each family of calls with the logins, signups or token checks it meets.
FourCallers ==
  {Between(LoginOps \cup AuthOps \cup SignupOps, Windows \cup Tokens),
   Between(LoginOps \cup SignupOps \cup PinOps \cup {"AuthComplete"}, Windows \cup Tokens),
   Between(LoginOps \cup MovesOps, {"tmp"}),
   Between(LoginOps \cup AuthOps \cup UseOps, Windows \cup Tokens)}

\* The last answer decides no step; what the properties ask of it is kept.
StateView == <<caller, st, gopay, CodesInTime, ReadyIsVerified>>
==============================================================================
