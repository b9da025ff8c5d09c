------------------------------ MODULE MCRelay ------------------------------
(***************************************************************************)
(* Small instances of Relay: three messages, two of them with the same     *)
(* text; the first shows both as itself and as a line of an aggregated     *)
(* notification, so that one code has two texts.                           *)
(***************************************************************************)
EXTENDS Relay

CONSTANTS m1, m2, m3, line, text, other, chat

AllTexts == (m1 :> <<text, line>>) @@ (m2 :> <<chat, other>>) @@ (m3 :> <<text>>)
Texts == [m \in Message |-> AllTexts[m]]

=============================================================================
