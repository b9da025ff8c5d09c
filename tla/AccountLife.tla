---------------------------- MODULE AccountLife -----------------------------
(***************************************************************************)
(* What the account service promises of every GoPay account it handles:    *)
(* an account is opened once, its number is changed to a temporary one     *)
(* before the account is deactivated, and a deactivated account is never   *)
(* used again.  No account with its first number is ever deactivated.      *)
(***************************************************************************)
CONSTANT Account

VARIABLE life

Stages == {"unborn", "settled", "moved", "gone"}

Init == life \in [Account -> {"unborn", "settled"}]

Becomes(a, from, to) == life[a] \in from /\ life' = [life EXCEPT ![a] = to]

Open(a)       == Becomes(a, {"unborn"}, "settled")
Change(a)     == Becomes(a, {"settled", "moved"}, "moved")
Deactivate(a) == Becomes(a, {"moved"}, "gone")

Next == \E a \in Account : Open(a) \/ Change(a) \/ Deactivate(a)

Spec == Init /\ [][Next]_life
=============================================================================
