---------------------------- MODULE MCChannelOTP ----------------------------
(* Instances of ChannelOTP for TLC. *)
EXTENDS ChannelOTP, TLC

CONSTANTS m1, m2, j1, j2, plus, bare, sms, kPlus, kBare, kSms, acct

\* A number written "+62..." is listed under both of its spellings.
PlusKeys  == (plus :> <<kPlus, kBare>>) @@ (sms :> <<kSms>>)
PlainKeys == (bare :> <<kBare>>)
TwoKeys   == (bare :> <<kBare>>) @@ (sms :> <<kSms>>)

OneAccount == [j \in Job |-> acct]
AnyGoal    == [j \in Job |-> Target]

=============================================================================
