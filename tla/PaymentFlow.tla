---------------------------- MODULE PaymentFlow ----------------------------
(***************************************************************************)
(* Payment flows (paymentsvc).                                             *)
(*                                                                         *)
(* A start call opens a session, links the account or creates a charge,    *)
(* and puts the flow into the server's map.  Later calls look the flow up  *)
(* by its id and work on the object they found: the map has a lock, the    *)
(* flow and its state have none, and a flow may be taken out of the map    *)
(* and closed under a call that still uses it.  Every lookup, removal,     *)
(* unlocked access to the flow's state and request to Midtrans or GoPay is *)
(* one step.                                                               *)
(*                                                                         *)
(* The providers: Midtrans creates a charge reference for a flow's         *)
(* transaction, GoPay takes the money for a reference, at most once per    *)
(* reference, and Midtrans learns of it later.  Any request may be refused *)
(* or fail; for the payment itself the answer may also be lost.            *)
(***************************************************************************)
EXTENDS Naturals

CONSTANTS
  Flow,       \* payment flows: ids of the server's map
  Call,       \* RPCs, each made once
  Ref,        \* charge references
  Token,      \* Midtrans snap tokens, one per transaction
  Modes,      \* "link": tokenization "true"; "manual": "false" or "qris"
  Exclusive,  \* callers have one call under way per flow
  Protocol,   \* callers resend and confirm only when told to
  Crashes,    \* the process may be restarted
  NoFlow, NoRef

ASSUME ModesAssumption == Modes \subseteq {"link", "manual"}
ASSUME FlagsAssumption ==
  Exclusive \in BOOLEAN /\ Protocol \in BOOLEAN /\ Crashes \in BOOLEAN
ASSUME NamesAssumption == NoFlow \notin Flow /\ NoRef \notin Ref

VARIABLES
  \* the server
  stored,     \* flows in flowStore.items
  st,         \* pendingFlow.state: otp_required, reference_id present, charge_ref
  mode, token, \* of the flow's charger; mode "none" until the flow is started
  opened,     \* flows whose HTTP session was opened in this process
  closings,   \* how often a flow's session was closed
  restarted,
  \* one RPC each
  pc, op, on, gave, kept, answer,
  \* Midtrans and GoPay
  chargedFor, paid, settled, dead

flowVars == <<stored, st, mode, token, opened, closings, restarted>>
callVars == <<pc, op, on, gave, kept, answer>>
payVars  == <<chargedFor, paid, settled, dead>>
vars     == <<flowVars, callVars, payVars>>

NoState == [otp |-> FALSE, linked |-> FALSE, charge |-> NoRef]
State   == [otp : BOOLEAN, linked : BOOLEAN, charge : Ref \cup {NoRef}]
Final   == {"idle", "done"}

Init ==
  /\ stored = {}
  /\ st = [f \in Flow |-> NoState]
  /\ mode = [f \in Flow |-> "none"]
  /\ token \in [Flow -> Token]
  /\ opened = {}
  /\ closings = [f \in Flow |-> 0]
  /\ restarted = FALSE
  /\ pc = [c \in Call |-> "idle"]
  /\ op = [c \in Call |-> "none"]
  /\ on = [c \in Call |-> NoFlow]
  /\ gave = [c \in Call |-> FALSE]
  /\ kept = [c \in Call |-> NoState]
  /\ answer = [c \in Call |-> "none"]
  /\ chargedFor = [r \in Ref |-> NoFlow]
  /\ paid = {}
  /\ settled = {}
  /\ dead = {}

-----------------------------------------------------------------------------
(* Calls and their answers.                                                *)

Goto(c, label) == pc' = [pc EXCEPT ![c] = label]

\* What c will answer once it is done; further steps may come before.
Answer(c, a, label) == Goto(c, label) /\ answer' = [answer EXCEPT ![c] = a]

\* Some call on f has been answered a.
Told(f, a) == \E c \in Call : pc[c] = "done" /\ on[c] = f /\ answer[c] = a

Known(f) == Told(f, "otp") \/ Told(f, "started")

\* A caller makes call c on a flow whose id it was given.
Calls(c, f, name) ==
  /\ pc[c] = "idle" /\ Known(f)
  /\ Exclusive => \A d \in Call : on[d] = f => pc[d] \in Final
  /\ op' = [op EXCEPT ![c] = name]
  /\ on' = [on EXCEPT ![c] = f]

\* A request was refused, failed or timed out, or a call finds a state it has
\* no use for: no code although one is required, no linking, no charge.
MayFail(c) ==
  LET s == st[on[c]] IN
  \/ pc[c] \in {"prepare", "charge", "resend", "verify", "validate", "process", "poll"}
  \/ /\ pc[c] = "branch"
     /\ IF s.otp THEN ~(s.linked /\ gave[c]) ELSE mode[on[c]] = "link" /\ s.charge = NoRef

\* Mutant: a failed completion leaves the flow in the map.
FailsKeeping(c) ==
  /\ MayFail(c)
  /\ Answer(c, "failed", IF op[c] = "start" THEN "close" ELSE "done")
  /\ UNCHANGED <<flowVars, op, on, gave, kept, payVars>>

\* Mutant: a failed confirmation removes the flow as a failed completion does.
FailsForgetting(c) ==
  /\ MayFail(c)
  /\ Answer(c, "failed", CASE op[c] = "start" -> "close"
                           [] op[c] = "resend" -> "done"
                           [] OTHER -> "pop")
  /\ UNCHANGED <<flowVars, op, on, gave, kept, payVars>>

\* Mutant: a failed start is begun anew, again and again.
FailsOver(c) ==
  /\ MayFail(c)
  /\ IF op[c] = "start" THEN Goto(c, "prepare") /\ UNCHANGED answer
                        ELSE Answer(c, "failed", "done")
  /\ UNCHANGED <<flowVars, op, on, gave, kept, payVars>>

\* The error returns: a failed start closes its session, a failed completion
\* of a linked payment removes the flow, one of a payment by hand overwrites
\* the flow's state with nil; the other calls change nothing.
Fails(c) ==
  LET f == on[c] IN
  /\ MayFail(c)
  /\ Answer(c, "failed",
       CASE op[c] = "start" -> "close"
         [] op[c] = "complete" /\ mode[f] = "link" -> "pop"
         [] OTHER -> "done")
  /\ st' = IF op[c] = "complete" /\ mode[f] = "manual"
           THEN [st EXCEPT ![f] = NoState] ELSE st
  /\ UNCHANGED <<stored, mode, token, opened, closings, restarted>>
  /\ UNCHANGED <<op, on, gave, kept, payVars>>

-----------------------------------------------------------------------------
(* StartPayment.                                                           *)

\* Opens the flow's session (newCharger).
StartPayment(c, f, m) ==
  /\ pc[c] = "idle" /\ mode[f] = "none"
  /\ mode' = [mode EXCEPT ![f] = m]
  /\ opened' = opened \cup {f}
  /\ op' = [op EXCEPT ![c] = "start"]
  /\ on' = [on EXCEPT ![c] = f]
  /\ Goto(c, "prepare")
  /\ UNCHANGED <<stored, st, token, closings, restarted, gave, kept, answer, payVars>>

\* Loads the transaction; a linked payment also links the account up to the
\* user's consent, which says whether a code is needed.
Prepare(c) ==
  /\ pc[c] = "prepare"
  /\ \E otp \in BOOLEAN :
       /\ mode[on[c]] = "manual" => ~otp
       /\ kept' = [kept EXCEPT ![c] =
            [otp |-> otp, linked |-> mode[on[c]] = "link", charge |-> NoRef]]
       /\ Goto(c, IF otp THEN "put" ELSE "charge")
  /\ UNCHANGED <<flowVars, op, on, gave, answer, payVars>>

\* midtransCreateChargeData: a new charge reference for the flow's transaction.
Charge(c) ==
  /\ pc[c] = "charge"
  /\ token[on[c]] \notin settled \cup dead
  /\ \E r \in Ref :
       /\ chargedFor[r] = NoFlow
       /\ chargedFor' = [chargedFor EXCEPT ![r] = on[c]]
       /\ kept' = [kept EXCEPT ![c].charge = r]
  /\ Goto(c, IF op[c] = "start" THEN "put" ELSE "validate")
  /\ UNCHANGED <<flowVars, op, on, gave, answer, paid, settled, dead>>

\* flowStore.put; the response says whether a code is required.
Put(c) ==
  /\ pc[c] = "put"
  /\ stored' = stored \cup {on[c]}
  /\ st' = [st EXCEPT ![on[c]] = kept[c]]
  /\ Answer(c, IF kept[c].otp THEN "otp" ELSE "started", "done")
  /\ UNCHANGED <<mode, token, opened, closings, restarted, op, on, gave, kept, payVars>>

-----------------------------------------------------------------------------
(* ResendGopayPaymentOTP.                                                  *)

\* Mutant: a flow without a linking reference is not turned away.
ResendUnlinked(c, f) ==
  /\ Calls(c, f, "resend")
  /\ Protocol => Told(f, "otp")
  /\ kept' = [kept EXCEPT ![c] = st[f]]
  /\ IF f \in stored
     THEN Goto(c, "resend") /\ UNCHANGED answer
     ELSE Answer(c, "failed", "done")
  /\ UNCHANGED <<flowVars, gave, payVars>>

Resend(c, f) ==
  /\ Calls(c, f, "resend")
  /\ Protocol => Told(f, "otp")
  /\ kept' = [kept EXCEPT ![c] = st[f]]
  /\ IF f \in stored /\ st[f].linked
     THEN Goto(c, "resend") /\ UNCHANGED answer
     ELSE Answer(c, "failed", "done")
  /\ UNCHANGED <<flowVars, gave, payVars>>

\* GoPay sent a code: the state read before the request is written back.
Resent(c) ==
  /\ pc[c] = "resend"
  /\ st' = [st EXCEPT ![on[c]] = [kept[c] EXCEPT !.otp = TRUE]]
  /\ Answer(c, "resent", "done")
  /\ UNCHANGED <<stored, mode, token, opened, closings, restarted>>
  /\ UNCHANGED <<op, on, gave, kept, payVars>>

-----------------------------------------------------------------------------
(* CompleteGopayPayment and ConfirmGopayPayment.                           *)

\* Looks the flow up and asks for the code if one is required.
Complete(c, f, otp) ==
  /\ Calls(c, f, "complete")
  /\ gave' = [gave EXCEPT ![c] = otp]
  /\ IF f \in stored /\ (st[f].otp => otp)
     THEN Goto(c, "branch") /\ UNCHANGED answer
     ELSE Answer(c, "failed", "done")
  /\ UNCHANGED <<flowVars, kept, payVars>>

\* Reads the state again and takes the way it says: the flow's payment page is
\* handed out, the code is verified, or the charge of a linked payment is paid.
Branch(c) ==
  LET s == st[on[c]] IN
  /\ pc[c] = "branch"
  /\ \/ /\ mode[on[c]] = "manual" /\ ~s.otp
        /\ Answer(c, "awaiting", "done")
        /\ UNCHANGED kept
     \/ /\ s.otp /\ s.linked /\ gave[c]
        /\ kept' = [kept EXCEPT ![c] = s]
        /\ Goto(c, "verify") /\ UNCHANGED answer
     \/ /\ mode[on[c]] = "link" /\ ~s.otp /\ s.charge # NoRef
        /\ kept' = [kept EXCEPT ![c] = s]
        /\ Goto(c, "validate") /\ UNCHANGED answer
  /\ UNCHANGED <<flowVars, op, on, gave, payVars>>

\* GoPay accepts the code, the PIN and the PIN's token, or not.  A flow to be
\* paid by hand is not linked and never comes here (StateKept), so the code's
\* way from here to its confirmation is left out.
Verify(c) ==
  /\ pc[c] = "verify"
  /\ Goto(c, "charge")
  /\ UNCHANGED <<flowVars, op, on, gave, kept, answer, payVars>>

\* Mutant: a flow that has no charge yet is confirmed.
ConfirmUncharged(c, f) ==
  /\ Calls(c, f, "confirm")
  /\ Protocol => Told(f, "awaiting")
  /\ kept' = [kept EXCEPT ![c] = st[f]]
  /\ IF f \in stored
     THEN Goto(c, IF mode[f] = "manual" THEN "poll" ELSE "validate") /\ UNCHANGED answer
     ELSE Answer(c, "failed", "done")
  /\ UNCHANGED <<flowVars, gave, payVars>>

\* A flow that has no charge yet cannot be confirmed.
Confirm(c, f) ==
  /\ Calls(c, f, "confirm")
  /\ Protocol => Told(f, "awaiting")
  /\ kept' = [kept EXCEPT ![c] = st[f]]
  /\ IF f \in stored /\ st[f].charge # NoRef
     THEN Goto(c, IF mode[f] = "manual" THEN "poll" ELSE "validate") /\ UNCHANGED answer
     ELSE Answer(c, "failed", "done")
  /\ UNCHANGED <<flowVars, gave, payVars>>

\* gopayPaymentValidate, gopayPaymentConfirm and the PIN's token: GoPay refuses
\* a reference that is paid.
Validate(c) ==
  /\ pc[c] = "validate"
  /\ kept[c].charge \notin paid
  /\ Goto(c, "process")
  /\ UNCHANGED <<flowVars, op, on, gave, kept, answer, payVars>>

\* gopayPaymentProcess: GoPay takes the money, and its answer may be lost.
Process(c) ==
  /\ pc[c] = "process"
  /\ kept[c].charge \notin paid
  /\ paid' = paid \cup {kept[c].charge}
  /\ \/ Goto(c, "poll") /\ UNCHANGED answer
     \/ Answer(c, "failed", IF op[c] = "complete" THEN "pop" ELSE "done")
  /\ UNCHANGED <<flowVars, op, on, gave, kept, chargedFor, settled, dead>>

\* Mutant: running out of polls is taken for success.
PollTimeoutSucceeds(c) ==
  /\ pc[c] = "poll"
  /\ Answer(c, "settled", "pop")
  /\ UNCHANGED <<flowVars, op, on, gave, kept, payVars>>

\* midtransPollStatus: settled, denied or expired, or out of time.
Poll(c) ==
  /\ pc[c] = "poll"
  /\ token[on[c]] \in settled
  /\ Answer(c, "settled", "pop")
  /\ UNCHANGED <<flowVars, op, on, gave, kept, payVars>>

-----------------------------------------------------------------------------
(* Removal.                                                                *)

\* Known or not, a cancelled flow is answered with success.
Cancel(c, f) ==
  /\ Calls(c, f, "cancel")
  /\ Answer(c, "cancelled", "pop")
  /\ UNCHANGED <<flowVars, gave, kept, payVars>>

\* Mutant: the flow looked up is closed, whoever removed it.
PopAnyway(c) ==
  /\ pc[c] = "pop"
  /\ stored' = stored \ {on[c]}
  /\ Goto(c, "close")
  /\ UNCHANGED <<st, mode, token, opened, closings, restarted>>
  /\ UNCHANGED <<op, on, gave, kept, answer, payVars>>

\* flowStore.pop: only the call that removes the flow closes it.
Pop(c) ==
  /\ pc[c] = "pop"
  /\ stored' = stored \ {on[c]}
  /\ Goto(c, IF on[c] \in stored THEN "close" ELSE "done")
  /\ UNCHANGED <<st, mode, token, opened, closings, restarted>>
  /\ UNCHANGED <<op, on, gave, kept, answer, payVars>>

\* pendingFlow.close, or the charger's own when a start fails.
Close(c) ==
  /\ pc[c] = "close"
  /\ closings' = [closings EXCEPT ![on[c]] = @ + 1]
  /\ Goto(c, "done")
  /\ UNCHANGED <<stored, st, mode, token, opened, restarted>>
  /\ UNCHANGED <<op, on, gave, kept, answer, payVars>>

-----------------------------------------------------------------------------
(* The environment.                                                        *)

\* The user pays what a completed call handed out to be paid by hand.
PayByHand(r) ==
  LET f == chargedFor[r] IN
  /\ f # NoFlow /\ r \notin paid
  /\ mode[f] = "manual" /\ Told(f, "awaiting")
  /\ token[f] \notin dead
  /\ paid' = paid \cup {r}
  /\ UNCHANGED <<flowVars, callVars, chargedFor, settled, dead>>

\* Midtrans learns that a charge of its transaction was paid.
Settle(t) ==
  /\ t \notin settled \cup dead
  /\ \E r \in paid : token[chargedFor[r]] = t
  /\ settled' = settled \cup {t}
  /\ UNCHANGED <<flowVars, callVars, chargedFor, paid, dead>>

\* Midtrans gives a transaction nobody paid up: denied, cancelled, expired.
Expire(t) ==
  /\ t \notin settled \cup dead
  /\ \A r \in paid : token[chargedFor[r]] # t
  /\ dead' = dead \cup {t}
  /\ UNCHANGED <<flowVars, callVars, chargedFor, paid, settled>>

\* The process ends and starts again: the map and all calls are lost.
Restart ==
  /\ Crashes /\ ~restarted
  /\ restarted' = TRUE
  /\ stored' = {} /\ opened' = {}
  /\ pc' = [c \in Call |-> IF pc[c] \in Final THEN pc[c] ELSE "done"]
  /\ answer' = [c \in Call |-> IF pc[c] \in Final THEN answer[c] ELSE "lost"]
  /\ UNCHANGED <<st, mode, token, closings, op, on, gave, kept, payVars>>

-----------------------------------------------------------------------------

Handler(c) ==
  \/ Prepare(c) \/ Charge(c) \/ Put(c) \/ Resent(c) \/ Branch(c) \/ Verify(c)
  \/ Validate(c) \/ Process(c) \/ Poll(c) \/ Fails(c) \/ Pop(c) \/ Close(c)

Caller(c, f) ==
  \/ \E m \in Modes : StartPayment(c, f, m)
  \/ \E otp \in BOOLEAN : Complete(c, f, otp)
  \/ Resend(c, f) \/ Confirm(c, f) \/ Cancel(c, f)

Environment ==
  \/ \E r \in Ref : PayByHand(r)
  \/ \E t \in Token : Settle(t) \/ Expire(t)
  \/ Restart

Next ==
  \/ \E c \in Call : Handler(c) \/ \E f \in Flow : Caller(c, f)
  \/ Environment

Spec == Init /\ [][Next]_vars

\* A call under way goes on: every request has a timeout, every poll a limit.
FairSpec == Spec /\ \A c \in Call : WF_vars(Handler(c))

-----------------------------------------------------------------------------

Ops     == {"none", "start", "complete", "confirm", "resend", "cancel"}
Labels  == Final \cup {"prepare", "charge", "put", "resend", "branch", "verify",
                       "validate", "process", "poll", "pop", "close"}
Answers == {"none", "otp", "started", "resent", "awaiting", "settled", "failed",
            "cancelled", "lost"}

\* Types of the server's, the calls' and the providers' state.
TypeOK ==
  /\ stored \subseteq Flow /\ opened \subseteq Flow /\ restarted \in BOOLEAN
  /\ st \in [Flow -> State]
  /\ mode \in [Flow -> Modes \cup {"none"}]
  /\ token \in [Flow -> Token]
  /\ closings \in [Flow -> Nat]
  /\ pc \in [Call -> Labels] /\ op \in [Call -> Ops] /\ answer \in [Call -> Answers]
  /\ on \in [Call -> Flow \cup {NoFlow}]
  /\ gave \in [Call -> BOOLEAN] /\ kept \in [Call -> State]
  /\ chargedFor \in [Ref -> Flow \cup {NoFlow}]
  /\ paid \subseteq Ref /\ settled \subseteq Token /\ dead \subseteq Token

\* A flow has at most one charge reference in its life, whatever fails and is
\* tried again: the money is asked for at most once.  Needs callers that make
\* one call at a time on a flow and that resend and confirm only when told to.
OneChargePerFlow ==
  \A r, s \in Ref : chargedFor[r] # NoFlow /\ chargedFor[r] = chargedFor[s] => r = s

\* A caller told that the payment is settled has a settled transaction, and
\* for a linked payment the very charge this call paid, whatever other calls
\* on the flow or other flows on the transaction were doing meanwhile.
SettledAnswerIsTrue ==
  \A c \in Call : answer[c] = "settled" =>
    /\ token[on[c]] \in settled
    /\ kept[c].charge \in Ref /\ chargedFor[kept[c].charge] = on[c]
    /\ mode[on[c]] = "link" => kept[c].charge \in paid

\* Call c has f's session to itself: it is starting the flow or closing it.
Owns(c, f) ==
  /\ on[c] = f
  /\ \/ pc[c] = "close"
     \/ op[c] = "start" /\ pc[c] \in {"prepare", "charge", "put"}

\* Every session is closed once and not leaked: it belongs to a flow in the
\* map, to the one call that starts or closes it, or it has been closed.
SessionOwned ==
  \A f \in opened :
    \/ f \in stored /\ closings[f] = 0 /\ \A c \in Call : ~Owns(c, f)
    \/ f \notin stored /\ closings[f] = 1 /\ \A c \in Call : ~Owns(c, f)
    \/ /\ f \notin stored /\ closings[f] = 0
       /\ \E c \in Call : Owns(c, f) /\ \A d \in Call : Owns(d, f) => d = c

\* A flow in the map keeps its state: no failed completion or late resend
\* leaves behind a flow without its linking and its charge.
StateKept ==
  \A f \in stored :
    IF mode[f] = "manual" THEN ~st[f].otp /\ st[f].charge # NoRef
                          ELSE st[f].linked /\ (st[f].otp \/ st[f].charge # NoRef)

\* Money paid by hand is not forgotten: the flow can be confirmed until a
\* caller is told that it is settled, has cancelled it, or the server restarts.
PaidByHandIsConfirmable ==
  \A r \in paid :
    LET f == chargedFor[r] IN
    mode[f] = "manual" =>
      \/ f \in stored /\ st[f].charge = r
      \/ restarted
      \/ \E c \in Call : on[c] = f /\ answer[c] \in {"settled", "cancelled"}

\* A flow that was started is in the map or gets its session closed: nothing
\* a call or a race of calls does leaves it open for ever.
SessionSettles ==
  \A f \in Flow :
    (f \in opened /\ f \notin stored) ~> (f \in stored \/ closings[f] = 1 \/ restarted)
=============================================================================
