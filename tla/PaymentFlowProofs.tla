------------------------- MODULE PaymentFlowProofs --------------------------
(***************************************************************************)
(* TypeOK, SettledAnswerIsTrue, SessionOwned, StateKept and                *)
(* PaidByHandIsConfirmable are invariants of Spec for any number of calls, *)
(* flows, references and tokens, with restarts and without any discipline  *)
(* of the callers.  OneChargePerFlow is one if callers have one call under *)
(* way per flow and resend only when a code was asked for.                 *)
(*                                                                         *)
(* One inductive invariant serves the first five: a call's label says what *)
(* kind of call it is (CallsOK), a start is alone on its flow              *)
(* (StartsAlone), sessions, references and linking belong to the flow they *)
(* are recorded for (FlowsOK, ChargesOK, LinksOK), and a reference made to *)
(* be paid by hand stays in reach (ByHand).                                *)
(*                                                                         *)
(* For the charges: a flow is charged by its start, or by a completion     *)
(* that verifies a code.  A flow in the map asks for a code only while it  *)
(* has no charge, or while the completion that charged it is on its way to *)
(* remove it (CodesOK); that call is alone on the flow (Alone), so no other *)
(* can start a second charge before the flow is gone.                      *)
(***************************************************************************)
EXTENDS PaymentFlow, TLAPS

Uncharged(f) == \A r \in Ref : chargedFor[r] # f

\* What a call's label says of its kind, its flow and its answer.
CallsOK ==
  \A c \in Call :
    /\ IF pc[c] = "idle"
       THEN op[c] = "none" /\ on[c] = NoFlow /\ answer[c] = "none"
       ELSE op[c] # "none" /\ on[c] \in Flow /\ mode[on[c]] # "none"
    /\ pc[c] \in {"prepare", "put"} => op[c] = "start"
    /\ pc[c] = "charge" => op[c] \in {"start", "complete"}
    /\ pc[c] = "resend" => op[c] = "resend"
    /\ pc[c] \in {"branch", "verify"} => op[c] = "complete"
    /\ pc[c] \in {"validate", "process", "poll"}
         => op[c] \in {"complete", "confirm"}
    /\ pc[c] = "pop" => op[c] \in {"complete", "confirm", "cancel"}
    /\ (op[c] = "complete" /\ pc[c] \notin {"idle", "done", "branch"})
         => mode[on[c]] = "link"
    /\ answer[c] \in {"otp", "started"} => op[c] = "start" /\ pc[c] = "done"
    /\ answer[c] \in {"settled", "cancelled"} => pc[c] \in {"pop", "close", "done"}
    /\ (pc[c] = "pop" /\ answer[c] \notin {"settled", "cancelled"})
         => mode[on[c]] = "link"

\* No other call is made on a flow before its start has answered.
StartsAlone ==
  \A c, d \in Call :
    (op[c] = "start" /\ pc[c] \notin Final /\ on[d] = on[c]) => d = c

\* A flow in the map was opened, and so was one owned by a call, which is not
\* in the map; a flow never started has left no trace.
FlowsOK ==
  /\ stored \subseteq opened
  /\ \A f \in Flow : mode[f] = "none" =>
       f \notin opened /\ closings[f] = 0 /\ Uncharged(f)
  /\ \A c \in Call, f \in Flow : Owns(c, f) => f \in opened /\ f \notin stored

\* A recorded reference is the flow's own, and is paid before it is polled.
ChargesOK ==
  /\ \A r \in paid : chargedFor[r] \in Flow
  /\ \A f \in Flow : st[f].charge # NoRef => chargedFor[st[f].charge] = f
  /\ \A c \in Call :
       /\ kept[c].charge # NoRef => pc[c] # "idle"
            /\ chargedFor[kept[c].charge] = on[c]
       /\ pc[c] \in {"validate", "process", "poll"} => kept[c].charge # NoRef
       /\ (pc[c] = "poll" /\ mode[on[c]] = "link") => kept[c].charge \in paid

\* Codes are asked for linked flows only, and only link flows are linked.
LinksOK ==
  /\ \A f \in Flow : (st[f].otp => st[f].linked) /\ (st[f].linked
       => mode[f] = "link")
  /\ \A c \in Call :
       /\ kept[c].otp => kept[c].linked
       /\ kept[c].linked => pc[c] # "idle" /\ mode[on[c]] = "link"
       /\ pc[c] \in {"resend", "verify"} => kept[c].linked
       /\ (pc[c] \in {"charge", "put"} /\ mode[on[c]] = "link") => kept[c].linked
       /\ pc[c] = "put" => kept[c].otp \/ kept[c].charge # NoRef

\* A start has no charge before it makes one, and files it unpaid.
StartUncharged ==
  \A c \in Call :
    /\ (op[c] = "start" /\ pc[c] \in {"prepare", "charge"}) => Uncharged(on[c])
    /\ pc[c] = "put" => kept[c].charge \notin paid

\* A reference made to be paid by hand is on its way into the map, in it, or
\* given up for one of the reasons PaidByHandIsConfirmable allows.
Pending(r, f) == \E c \in Call : on[c] = f /\ pc[c] = "put" /\ kept[c].charge = r
Filed(r, f)   == f \in stored /\ st[f].charge = r
GivenUp(f)    == restarted \/ \E c \in Call : on[c] = f
     /\ answer[c] \in {"settled", "cancelled"}
Reached(r, f) ==
  (chargedFor[r] = f /\ mode[f] = "manual") => Pending(r, f) \/ Filed(r, f)
       \/ GivenUp(f)
ByHand == \A r \in Ref, f \in Flow : Reached(r, f)

FlowInv ==
  /\ TypeOK /\ CallsOK /\ StartsAlone /\ FlowsOK /\ ChargesOK /\ LinksOK
  /\ StartUncharged /\ ByHand /\ SettledAnswerIsTrue /\ SessionOwned /\ StateKept

\* The flow of a call under way has one of the two modes.
LEMMA ModeOf ==
  ASSUME TypeOK, CallsOK, NEW c \in Call, pc[c] # "idle"
  PROVE  on[c] \in Flow /\ mode[on[c]] \in {"link", "manual"}
<1>1. on[c] \in Flow /\ mode[on[c]] # "none"
  BY DEF CallsOK
<1>2. mode[on[c]] \in Modes \cup {"none"}
  BY <1>1 DEF TypeOK
<1>. QED BY <1>1, <1>2, ModesAssumption

\* Every step keeps the types.
LEMMA TypeNext ==
  ASSUME TypeOK, CallsOK, ChargesOK, [Next]_vars
  PROVE  TypeOK'
<1> USE DEF TypeOK, State, NoState, Labels, Ops, Answers, Final
<1>1. ASSUME NEW c \in Call, Fails(c)
     PROVE  TypeOK'
  BY <1>1 DEF Fails, MayFail, Goto, Answer, flowVars, callVars, payVars
<1>2. ASSUME NEW c \in Call, Prepare(c)
     PROVE  TypeOK'
  BY <1>2 DEF Prepare, Goto, Answer, flowVars, callVars, payVars
<1>3. ASSUME NEW c \in Call, Charge(c)
     PROVE  TypeOK'
  BY <1>3 DEF Charge, Goto, Answer, flowVars, callVars, payVars
<1>4. ASSUME NEW c \in Call, Put(c)
     PROVE  TypeOK'
  BY <1>4 DEF Put, Goto, Answer, flowVars, callVars, payVars, CallsOK
<1>5. ASSUME NEW c \in Call, Resent(c)
     PROVE  TypeOK'
  <2>1. on[c] \in Flow /\ pc[c] # "idle"
    BY <1>5 DEF CallsOK, Resent
  <2>2. kept[c] \in State
    OBVIOUS
  <2>3. [kept[c] EXCEPT !.otp = TRUE] \in State
    BY <2>2
  <2>. QED BY <1>5, <2>1, <2>3 DEF Resent, Goto, Answer, flowVars, callVars, payVars
<1>6. ASSUME NEW c \in Call, Branch(c)
     PROVE  TypeOK'
  <2>1. on[c] \in Flow /\ pc[c] # "idle"
    BY <1>6 DEF CallsOK, Branch
  <2>2. st[on[c]] \in State
    BY <2>1
  <2>3. \/ Answer(c, "awaiting", "done") /\ UNCHANGED kept
        \/ \E l \in {"verify", "validate"} :
             /\ kept' = [kept EXCEPT ![c] = st[on[c]]] /\ Goto(c, l) /\ UNCHANGED answer
    BY <1>6 DEF Branch
  <2>4. pc' \in [Call -> Labels] /\ answer' \in [Call -> Answers]
    <3>1. pc' \in [Call -> Labels]
      BY <2>3 DEF Goto, Answer
    <3>2. answer' \in [Call -> Answers]
      BY <2>3 DEF Answer
    <3>. QED BY <3>1, <3>2
  <2>5. kept' \in [Call -> State]
    BY <2>2, <2>3
  <2>6. UNCHANGED <<flowVars, op, on, gave, payVars>>
    BY <1>6 DEF Branch
  <2>. QED BY <2>4, <2>5, <2>6 DEF flowVars, payVars
<1>7. ASSUME NEW c \in Call, Verify(c)
     PROVE  TypeOK'
  BY <1>7 DEF Verify, Goto, Answer, flowVars, callVars, payVars
<1>8. ASSUME NEW c \in Call, Validate(c)
     PROVE  TypeOK'
  BY <1>8 DEF Validate, Goto, Answer, flowVars, callVars, payVars
<1>9. ASSUME NEW c \in Call, Process(c)
     PROVE  TypeOK'
  <2>1. kept[c].charge \in Ref
    BY <1>9 DEF ChargesOK, Process
  <2>. QED BY <1>9, <2>1 DEF Process, Goto, Answer, flowVars, callVars, payVars
<1>10. ASSUME NEW c \in Call, Poll(c)
     PROVE  TypeOK'
  BY <1>10 DEF Poll, Goto, Answer, flowVars, callVars, payVars
<1>11. ASSUME NEW c \in Call, Pop(c)
     PROVE  TypeOK'
  BY <1>11 DEF Pop, Goto, Answer, flowVars, callVars, payVars
<1>12. ASSUME NEW c \in Call, Close(c)
     PROVE  TypeOK'
  BY <1>12 DEF Close, Goto, Answer, flowVars, callVars, payVars, CallsOK
<1>13. ASSUME NEW c \in Call, NEW f \in Flow, NEW m \in Modes, StartPayment(c, f, m)
     PROVE  TypeOK'
  BY <1>13, ModesAssumption
       DEF StartPayment, Goto, Answer, flowVars, callVars, payVars
<1>14. ASSUME NEW c \in Call, NEW f \in Flow, NEW otp \in BOOLEAN, Complete(c, f,
     otp)
     PROVE  TypeOK'
  <2>1. op' = [op EXCEPT ![c] = "complete"] /\ on' = [on EXCEPT ![c] = f]
    BY <1>14 DEF Complete, Calls
  <2>2. pc' \in [Call -> Labels] /\ answer' \in [Call -> Answers]
    <3>1. (Goto(c, "branch") /\ UNCHANGED answer) \/ Answer(c, "failed", "done")
      BY <1>14 DEF Complete
    <3>2. pc' \in [Call -> Labels]
      BY <3>1 DEF Goto, Answer
    <3>3. answer' \in [Call -> Answers]
      BY <3>1 DEF Answer
    <3>. QED BY <3>2, <3>3
  <2>3. gave' \in [Call -> BOOLEAN] /\ kept' \in [Call -> State]
    BY <1>14 DEF Complete
  <2>4. UNCHANGED <<flowVars, payVars>>
    BY <1>14 DEF Complete
  <2>. QED BY <2>1, <2>2, <2>3, <2>4 DEF flowVars, payVars
<1>15. ASSUME NEW c \in Call, NEW f \in Flow, Resend(c, f)
     PROVE  TypeOK'
  <2>1. op' = [op EXCEPT ![c] = "resend"] /\ on' = [on EXCEPT ![c] = f]
    BY <1>15 DEF Resend, Calls
  <2>2. pc' \in [Call -> Labels] /\ answer' \in [Call -> Answers]
    <3>1. \/ Goto(c, "resend") /\ UNCHANGED answer
          \/ Answer(c, "failed", "done")
      BY <1>15 DEF Resend
    <3>2. pc' \in [Call -> Labels]
      BY <3>1 DEF Goto, Answer
    <3>3. answer' \in [Call -> Answers]
      BY <3>1 DEF Answer
    <3>. QED BY <3>2, <3>3
  <2>3. gave' \in [Call -> BOOLEAN] /\ kept' \in [Call -> State]
    BY <1>15 DEF Resend
  <2>4. UNCHANGED <<flowVars, payVars>>
    BY <1>15 DEF Resend
  <2>. QED BY <2>1, <2>2, <2>3, <2>4 DEF flowVars, payVars
<1>16. ASSUME NEW c \in Call, NEW f \in Flow, Confirm(c, f)
     PROVE  TypeOK'
  <2>1. op' = [op EXCEPT ![c] = "confirm"] /\ on' = [on EXCEPT ![c] = f]
    BY <1>16 DEF Confirm, Calls
  <2>2. pc' \in [Call -> Labels] /\ answer' \in [Call -> Answers]
    <3>1. \/ (\E l \in {"poll", "validate"} : Goto(c, l)) /\ UNCHANGED answer
          \/ Answer(c, "failed", "done")
      BY <1>16 DEF Confirm
    <3>2. pc' \in [Call -> Labels]
      BY <3>1 DEF Goto, Answer
    <3>3. answer' \in [Call -> Answers]
      BY <3>1 DEF Answer
    <3>. QED BY <3>2, <3>3
  <2>3. gave' \in [Call -> BOOLEAN] /\ kept' \in [Call -> State]
    BY <1>16 DEF Confirm
  <2>4. UNCHANGED <<flowVars, payVars>>
    BY <1>16 DEF Confirm
  <2>. QED BY <2>1, <2>2, <2>3, <2>4 DEF flowVars, payVars
<1>17. ASSUME NEW c \in Call, NEW f \in Flow, Cancel(c, f)
     PROVE  TypeOK'
  <2>1. op' = [op EXCEPT ![c] = "cancel"] /\ on' = [on EXCEPT ![c] = f]
    BY <1>17 DEF Cancel, Calls
  <2>2. pc' \in [Call -> Labels] /\ answer' \in [Call -> Answers]
    BY <1>17 DEF Cancel, Goto, Answer
  <2>3. gave' \in [Call -> BOOLEAN] /\ kept' \in [Call -> State]
    BY <1>17 DEF Cancel
  <2>4. UNCHANGED <<flowVars, payVars>>
    BY <1>17 DEF Cancel
  <2>. QED BY <2>1, <2>2, <2>3, <2>4 DEF flowVars, payVars
<1>18. ASSUME NEW r \in Ref, PayByHand(r)
     PROVE  TypeOK'
  BY <1>18 DEF PayByHand, Told, flowVars, callVars, payVars
<1>19. ASSUME NEW t \in Token, Settle(t)
     PROVE  TypeOK'
  BY <1>19 DEF Settle, flowVars, callVars, payVars
<1>20. ASSUME NEW t \in Token, Expire(t)
     PROVE  TypeOK'
  BY <1>20 DEF Expire, flowVars, callVars, payVars
<1>21. ASSUME Restart
     PROVE  TypeOK'
  BY <1>21 DEF Restart, Final, flowVars, callVars, payVars
<1>u. CASE UNCHANGED vars
  BY <1>u DEF vars, flowVars, callVars, payVars
<1> HIDE DEF TypeOK, State, NoState, Labels, Ops, Answers, Final
<1>. QED BY <1>1, <1>2, <1>3, <1>4, <1>5, <1>6, <1>7, <1>8, <1>9, <1>10,
            <1>11, <1>12, <1>13, <1>14, <1>15, <1>16, <1>17, <1>18, <1>19,
            <1>20, <1>21, <1>u
       DEF Next, Handler, Caller, Environment

\* Every step keeps labels, kinds and answers in accord.
LEMMA CallsNext ==
  ASSUME TypeOK, CallsOK, LinksOK, [Next]_vars
  PROVE  CallsOK'
<1> USE DEF TypeOK, State, NoState, Final, CallsOK
<1>1. ASSUME NEW c \in Call, Fails(c)
     PROVE  CallsOK'
  BY <1>1 DEF Fails, MayFail, Goto, Answer, flowVars, callVars, payVars, LinksOK
<1>2. ASSUME NEW c \in Call, Prepare(c)
     PROVE  CallsOK'
  BY <1>2 DEF Prepare, Goto, Answer, flowVars, callVars, payVars
<1>3. ASSUME NEW c \in Call, Charge(c)
     PROVE  CallsOK'
  BY <1>3 DEF Charge, Goto, Answer, flowVars, callVars, payVars
<1>4. ASSUME NEW c \in Call, Put(c)
     PROVE  CallsOK'
  BY <1>4 DEF Put, Goto, Answer, flowVars, callVars, payVars
<1>5. ASSUME NEW c \in Call, Resent(c)
     PROVE  CallsOK'
  BY <1>5 DEF Resent, Goto, Answer, flowVars, callVars, payVars
<1>6. ASSUME NEW c \in Call, Branch(c)
     PROVE  CallsOK'
  <2>1. mode[on[c]] = "link" \/ Answer(c, "awaiting", "done")
    BY <1>6 DEF Branch, LinksOK
  <2>2. op' = op /\ on' = on /\ mode' = mode /\ pc[c] = "branch"
    BY <1>6 DEF Branch, flowVars, callVars, payVars
  <2>3. PICK x \in {"done", "verify", "validate"} : pc' = [pc EXCEPT ![c] = x]
    BY <1>6 DEF Branch, Goto, Answer
  <2>4. answer' \in {answer, [answer EXCEPT ![c] = "awaiting"]}
    BY <1>6 DEF Branch, Goto, Answer
  <2>. QED BY <2>1, <2>2, <2>3, <2>4 DEF Goto, Answer
<1>7. ASSUME NEW c \in Call, Verify(c)
     PROVE  CallsOK'
  BY <1>7 DEF Verify, Goto, Answer, flowVars, callVars, payVars
<1>8. ASSUME NEW c \in Call, Validate(c)
     PROVE  CallsOK'
  BY <1>8 DEF Validate, Goto, Answer, flowVars, callVars, payVars
<1>9. ASSUME NEW c \in Call, Process(c)
     PROVE  CallsOK'
  BY <1>9 DEF Process, Goto, Answer, flowVars, callVars, payVars
<1>10. ASSUME NEW c \in Call, Poll(c)
     PROVE  CallsOK'
  BY <1>10 DEF Poll, Goto, Answer, flowVars, callVars, payVars
<1>11. ASSUME NEW c \in Call, Pop(c)
     PROVE  CallsOK'
  BY <1>11 DEF Pop, Goto, Answer, flowVars, callVars, payVars
<1>12. ASSUME NEW c \in Call, Close(c)
     PROVE  CallsOK'
  BY <1>12 DEF Close, Goto, Answer, flowVars, callVars, payVars
<1>13. ASSUME NEW c \in Call, NEW f \in Flow, NEW m \in Modes, StartPayment(c, f, m)
     PROVE  CallsOK'
  BY <1>13, ModesAssumption
       DEF StartPayment, Goto, Answer, flowVars, callVars, payVars
<1>14. ASSUME NEW c \in Call, NEW f \in Flow, NEW otp \in BOOLEAN, Complete(c, f,
     otp)
     PROVE  CallsOK'
  BY <1>14 DEF Complete, Calls, Known, Told, Goto, Answer, flowVars, callVars,
       payVars
<1>15. ASSUME NEW c \in Call, NEW f \in Flow, Resend(c, f)
     PROVE  CallsOK'
  BY <1>15 DEF Resend, Calls, Known, Told, Goto, Answer, flowVars, callVars, payVars
<1>16. ASSUME NEW c \in Call, NEW f \in Flow, Confirm(c, f)
     PROVE  CallsOK'
  BY <1>16 DEF Confirm, Calls, Known, Told, Goto, Answer, flowVars, callVars,
       payVars
<1>17. ASSUME NEW c \in Call, NEW f \in Flow, Cancel(c, f)
     PROVE  CallsOK'
  BY <1>17 DEF Cancel, Calls, Known, Told, Goto, Answer, flowVars, callVars, payVars
<1>18. ASSUME NEW r \in Ref, PayByHand(r)
     PROVE  CallsOK'
  BY <1>18 DEF PayByHand, Told, flowVars, callVars, payVars
<1>19. ASSUME NEW t \in Token, Settle(t)
     PROVE  CallsOK'
  BY <1>19 DEF Settle, flowVars, callVars, payVars
<1>20. ASSUME NEW t \in Token, Expire(t)
     PROVE  CallsOK'
  BY <1>20 DEF Expire, flowVars, callVars, payVars
<1>21. ASSUME Restart
     PROVE  CallsOK'
  BY <1>21 DEF Restart, Final, flowVars, callVars, payVars
<1>u. CASE UNCHANGED vars
  BY <1>u DEF vars, flowVars, callVars, payVars
<1> HIDE DEF TypeOK, State, NoState, Final, CallsOK
<1>. QED BY <1>1, <1>2, <1>3, <1>4, <1>5, <1>6, <1>7, <1>8, <1>9, <1>10,
            <1>11, <1>12, <1>13, <1>14, <1>15, <1>16, <1>17, <1>18, <1>19,
            <1>20, <1>21, <1>u
       DEF Next, Handler, Caller, Environment

\* Every step leaves starts alone on their flows.
LEMMA StartsNext ==
  ASSUME TypeOK, CallsOK, StartsAlone, [Next]_vars
  PROVE  StartsAlone'
<1> USE DEF TypeOK, State, NoState, Final, StartsAlone, CallsOK
<1>1. ASSUME NEW c \in Call, Fails(c)
     PROVE  StartsAlone'
  BY <1>1 DEF Fails, MayFail, Goto, Answer, flowVars, callVars, payVars
<1>2. ASSUME NEW c \in Call, Prepare(c)
     PROVE  StartsAlone'
  BY <1>2 DEF Prepare, Goto, Answer, flowVars, callVars, payVars
<1>3. ASSUME NEW c \in Call, Charge(c)
     PROVE  StartsAlone'
  BY <1>3 DEF Charge, Goto, Answer, flowVars, callVars, payVars
<1>4. ASSUME NEW c \in Call, Put(c)
     PROVE  StartsAlone'
  BY <1>4 DEF Put, Goto, Answer, flowVars, callVars, payVars
<1>5. ASSUME NEW c \in Call, Resent(c)
     PROVE  StartsAlone'
  BY <1>5 DEF Resent, Goto, Answer, flowVars, callVars, payVars
<1>6. ASSUME NEW c \in Call, Branch(c)
     PROVE  StartsAlone'
  BY <1>6 DEF Branch, Goto, Answer, flowVars, callVars, payVars
<1>7. ASSUME NEW c \in Call, Verify(c)
     PROVE  StartsAlone'
  BY <1>7 DEF Verify, Goto, Answer, flowVars, callVars, payVars
<1>8. ASSUME NEW c \in Call, Validate(c)
     PROVE  StartsAlone'
  BY <1>8 DEF Validate, Goto, Answer, flowVars, callVars, payVars
<1>9. ASSUME NEW c \in Call, Process(c)
     PROVE  StartsAlone'
  BY <1>9 DEF Process, Goto, Answer, flowVars, callVars, payVars
<1>10. ASSUME NEW c \in Call, Poll(c)
     PROVE  StartsAlone'
  BY <1>10 DEF Poll, Goto, Answer, flowVars, callVars, payVars
<1>11. ASSUME NEW c \in Call, Pop(c)
     PROVE  StartsAlone'
  BY <1>11 DEF Pop, Goto, Answer, flowVars, callVars, payVars
<1>12. ASSUME NEW c \in Call, Close(c)
     PROVE  StartsAlone'
  BY <1>12 DEF Close, Goto, Answer, flowVars, callVars, payVars
<1>13. ASSUME NEW c \in Call, NEW f \in Flow, NEW m \in Modes, StartPayment(c, f, m)
     PROVE  StartsAlone'
  <2>1. \A d \in Call : on[d] # f
    BY <1>13, NamesAssumption DEF StartPayment
  <2>. QED BY <1>13, <2>1 DEF StartPayment, Goto, flowVars, callVars, payVars
<1>14. ASSUME NEW c \in Call, NEW f \in Flow, NEW otp \in BOOLEAN, Complete(c, f,
     otp)
     PROVE  StartsAlone'
  BY <1>14 DEF Complete, Calls, Known, Told, Goto, Answer, flowVars, callVars,
       payVars
<1>15. ASSUME NEW c \in Call, NEW f \in Flow, Resend(c, f)
     PROVE  StartsAlone'
  BY <1>15 DEF Resend, Calls, Known, Told, Goto, Answer, flowVars, callVars, payVars
<1>16. ASSUME NEW c \in Call, NEW f \in Flow, Confirm(c, f)
     PROVE  StartsAlone'
  BY <1>16 DEF Confirm, Calls, Known, Told, Goto, Answer, flowVars, callVars,
       payVars
<1>17. ASSUME NEW c \in Call, NEW f \in Flow, Cancel(c, f)
     PROVE  StartsAlone'
  BY <1>17 DEF Cancel, Calls, Known, Told, Goto, Answer, flowVars, callVars, payVars
<1>18. ASSUME NEW r \in Ref, PayByHand(r)
     PROVE  StartsAlone'
  BY <1>18 DEF PayByHand, Told, flowVars, callVars, payVars
<1>19. ASSUME NEW t \in Token, Settle(t)
     PROVE  StartsAlone'
  BY <1>19 DEF Settle, flowVars, callVars, payVars
<1>20. ASSUME NEW t \in Token, Expire(t)
     PROVE  StartsAlone'
  BY <1>20 DEF Expire, flowVars, callVars, payVars
<1>21. ASSUME Restart
     PROVE  StartsAlone'
  BY <1>21 DEF Restart, Final, flowVars, callVars, payVars
<1>u. CASE UNCHANGED vars
  BY <1>u DEF vars, flowVars, callVars, payVars
<1> HIDE DEF TypeOK, State, NoState, Final, StartsAlone, CallsOK
<1>. QED BY <1>1, <1>2, <1>3, <1>4, <1>5, <1>6, <1>7, <1>8, <1>9, <1>10,
            <1>11, <1>12, <1>13, <1>14, <1>15, <1>16, <1>17, <1>18, <1>19,
            <1>20, <1>21, <1>u
       DEF Next, Handler, Caller, Environment

\* Every step keeps sessions with flows that were started.
LEMMA FlowsNext ==
  ASSUME TypeOK, CallsOK, StartsAlone, FlowsOK, LinksOK, [Next]_vars
  PROVE  FlowsOK'
<1> USE DEF TypeOK, State, NoState, Final, CallsOK, StartsAlone, FlowsOK, Owns,
     Uncharged
<1>1. ASSUME NEW c \in Call, Fails(c)
     PROVE  FlowsOK'
  BY <1>1 DEF Fails, MayFail, Goto, Answer, flowVars, callVars, payVars
<1>2. ASSUME NEW c \in Call, Prepare(c)
     PROVE  FlowsOK'
  BY <1>2 DEF Prepare, Goto, Answer, flowVars, callVars, payVars
<1>3. ASSUME NEW c \in Call, Charge(c)
     PROVE  FlowsOK'
  BY <1>3 DEF Charge, Goto, Answer, flowVars, callVars, payVars
<1>4. ASSUME NEW c \in Call, Put(c)
     PROVE  FlowsOK'
  BY <1>4 DEF Put, Goto, Answer, flowVars, callVars, payVars
<1>5. ASSUME NEW c \in Call, Resent(c)
     PROVE  FlowsOK'
  BY <1>5 DEF Resent, Goto, Answer, flowVars, callVars, payVars
<1>6. ASSUME NEW c \in Call, Branch(c)
     PROVE  FlowsOK'
  BY <1>6 DEF Branch, Goto, Answer, flowVars, callVars, payVars
<1>7. ASSUME NEW c \in Call, Verify(c)
     PROVE  FlowsOK'
  BY <1>7 DEF Verify, Goto, Answer, flowVars, callVars, payVars
<1>8. ASSUME NEW c \in Call, Validate(c)
     PROVE  FlowsOK'
  BY <1>8 DEF Validate, Goto, Answer, flowVars, callVars, payVars
<1>9. ASSUME NEW c \in Call, Process(c)
     PROVE  FlowsOK'
  BY <1>9 DEF Process, Goto, Answer, flowVars, callVars, payVars
<1>10. ASSUME NEW c \in Call, Poll(c)
     PROVE  FlowsOK'
  BY <1>10 DEF Poll, Goto, Answer, flowVars, callVars, payVars
<1>11. ASSUME NEW c \in Call, Pop(c)
     PROVE  FlowsOK'
  BY <1>11 DEF Pop, Goto, Answer, flowVars, callVars, payVars
<1>12. ASSUME NEW c \in Call, Close(c)
     PROVE  FlowsOK'
  BY <1>12 DEF Close, Goto, Answer, flowVars, callVars, payVars
<1>13. ASSUME NEW c \in Call, NEW f \in Flow, NEW m \in Modes, StartPayment(c, f, m)
     PROVE  FlowsOK'
  <2>1. \A d \in Call : on[d] # f
    BY <1>13, NamesAssumption DEF StartPayment
  <2>2. m # "none"
    BY ModesAssumption
  <2>. QED BY <1>13, <2>1, <2>2 DEF StartPayment, Goto, flowVars, callVars, payVars
<1>14. ASSUME NEW c \in Call, NEW f \in Flow, NEW otp \in BOOLEAN, Complete(c, f,
     otp)
     PROVE  FlowsOK'
  BY <1>14 DEF Complete, Calls, Known, Told, Goto, Answer, flowVars, callVars,
       payVars
<1>15. ASSUME NEW c \in Call, NEW f \in Flow, Resend(c, f)
     PROVE  FlowsOK'
  BY <1>15 DEF Resend, Calls, Known, Told, Goto, Answer, flowVars, callVars, payVars
<1>16. ASSUME NEW c \in Call, NEW f \in Flow, Confirm(c, f)
     PROVE  FlowsOK'
  BY <1>16 DEF Confirm, Calls, Known, Told, Goto, Answer, flowVars, callVars,
       payVars
<1>17. ASSUME NEW c \in Call, NEW f \in Flow, Cancel(c, f)
     PROVE  FlowsOK'
  BY <1>17 DEF Cancel, Calls, Known, Told, Goto, Answer, flowVars, callVars, payVars
<1>18. ASSUME NEW r \in Ref, PayByHand(r)
     PROVE  FlowsOK'
  BY <1>18 DEF PayByHand, Told, flowVars, callVars, payVars
<1>19. ASSUME NEW t \in Token, Settle(t)
     PROVE  FlowsOK'
  BY <1>19 DEF Settle, flowVars, callVars, payVars
<1>20. ASSUME NEW t \in Token, Expire(t)
     PROVE  FlowsOK'
  BY <1>20 DEF Expire, flowVars, callVars, payVars
<1>21. ASSUME Restart
     PROVE  FlowsOK'
  BY <1>21 DEF Restart, Final, flowVars, callVars, payVars
<1>u. CASE UNCHANGED vars
  BY <1>u DEF vars, flowVars, callVars, payVars
<1> HIDE DEF TypeOK, State, NoState, Final, CallsOK, StartsAlone, FlowsOK, Owns,
     Uncharged
<1>. QED BY <1>1, <1>2, <1>3, <1>4, <1>5, <1>6, <1>7, <1>8, <1>9, <1>10,
            <1>11, <1>12, <1>13, <1>14, <1>15, <1>16, <1>17, <1>18, <1>19,
            <1>20, <1>21, <1>u
       DEF Next, Handler, Caller, Environment

\* Every step keeps references with the flow they were made for.
LEMMA ChargesNext ==
  ASSUME TypeOK, CallsOK, FlowsOK, ChargesOK, [Next]_vars
  PROVE  ChargesOK'
<1> USE DEF TypeOK, State, NoState, Final, CallsOK, ChargesOK
<1>1. ASSUME NEW c \in Call, Fails(c)
     PROVE  ChargesOK'
  BY <1>1 DEF Fails, MayFail, Goto, Answer, flowVars, callVars, payVars
<1>2. ASSUME NEW c \in Call, Prepare(c)
     PROVE  ChargesOK'
  BY <1>2 DEF Prepare, Goto, Answer, flowVars, callVars, payVars
<1>3. ASSUME NEW c \in Call, Charge(c)
     PROVE  ChargesOK'
  <2>1. PICK r \in Ref : chargedFor[r] = NoFlow
       /\ chargedFor' = [chargedFor EXCEPT ![r] = on[c]]
       /\ kept' = [kept EXCEPT ![c].charge = r]
    BY <1>3 DEF Charge
  <2>2. kept'[c].charge = r /\ kept'[c].otp = kept[c].otp
       /\ kept'[c].linked = kept[c].linked
    BY <2>1
  <2>3. \A d \in Call : d # c => pc'[d] = pc[d] /\ kept'[d] = kept[d]
    BY <1>3, <2>1 DEF Charge, Goto
  <2>. QED BY <1>3, <2>1, <2>2, <2>3, NamesAssumption
       DEF Charge, Goto, flowVars, callVars, payVars
<1>4. ASSUME NEW c \in Call, Put(c)
     PROVE  ChargesOK'
  BY <1>4 DEF Put, Goto, Answer, flowVars, callVars, payVars
<1>5. ASSUME NEW c \in Call, Resent(c)
     PROVE  ChargesOK'
  BY <1>5 DEF Resent, Goto, Answer, flowVars, callVars, payVars
<1>6. ASSUME NEW c \in Call, Branch(c)
     PROVE  ChargesOK'
  BY <1>6 DEF Branch, Goto, Answer, flowVars, callVars, payVars
<1>7. ASSUME NEW c \in Call, Verify(c)
     PROVE  ChargesOK'
  BY <1>7 DEF Verify, Goto, Answer, flowVars, callVars, payVars
<1>8. ASSUME NEW c \in Call, Validate(c)
     PROVE  ChargesOK'
  BY <1>8 DEF Validate, Goto, Answer, flowVars, callVars, payVars
<1>9. ASSUME NEW c \in Call, Process(c)
     PROVE  ChargesOK'
  BY <1>9 DEF Process, Goto, Answer, flowVars, callVars, payVars
<1>10. ASSUME NEW c \in Call, Poll(c)
     PROVE  ChargesOK'
  BY <1>10 DEF Poll, Goto, Answer, flowVars, callVars, payVars
<1>11. ASSUME NEW c \in Call, Pop(c)
     PROVE  ChargesOK'
  BY <1>11 DEF Pop, Goto, Answer, flowVars, callVars, payVars
<1>12. ASSUME NEW c \in Call, Close(c)
     PROVE  ChargesOK'
  BY <1>12 DEF Close, Goto, Answer, flowVars, callVars, payVars
<1>13. ASSUME NEW c \in Call, NEW f \in Flow, NEW m \in Modes, StartPayment(c, f, m)
     PROVE  ChargesOK'
  BY <1>13 DEF StartPayment, Goto, Answer, flowVars, callVars, payVars
<1>14. ASSUME NEW c \in Call, NEW f \in Flow, NEW otp \in BOOLEAN, Complete(c, f,
     otp)
     PROVE  ChargesOK'
  BY <1>14 DEF Complete, Calls, Known, Told, Goto, Answer, flowVars, callVars,
       payVars
<1>15. ASSUME NEW c \in Call, NEW f \in Flow, Resend(c, f)
     PROVE  ChargesOK'
  BY <1>15 DEF Resend, Calls, Known, Told, Goto, Answer, flowVars, callVars, payVars
<1>16. ASSUME NEW c \in Call, NEW f \in Flow, Confirm(c, f)
     PROVE  ChargesOK'
  BY <1>16 DEF Confirm, Calls, Known, Told, Goto, Answer, flowVars, callVars,
       payVars
<1>17. ASSUME NEW c \in Call, NEW f \in Flow, Cancel(c, f)
     PROVE  ChargesOK'
  BY <1>17 DEF Cancel, Calls, Known, Told, Goto, Answer, flowVars, callVars, payVars
<1>18. ASSUME NEW r \in Ref, PayByHand(r)
     PROVE  ChargesOK'
  BY <1>18 DEF PayByHand, Told, flowVars, callVars, payVars
<1>19. ASSUME NEW t \in Token, Settle(t)
     PROVE  ChargesOK'
  BY <1>19 DEF Settle, flowVars, callVars, payVars
<1>20. ASSUME NEW t \in Token, Expire(t)
     PROVE  ChargesOK'
  BY <1>20 DEF Expire, flowVars, callVars, payVars
<1>21. ASSUME Restart
     PROVE  ChargesOK'
  BY <1>21 DEF Restart, Final, flowVars, callVars, payVars
<1>u. CASE UNCHANGED vars
  BY <1>u DEF vars, flowVars, callVars, payVars
<1> HIDE DEF TypeOK, State, NoState, Final, CallsOK, ChargesOK
<1>. QED BY <1>1, <1>2, <1>3, <1>4, <1>5, <1>6, <1>7, <1>8, <1>9, <1>10,
            <1>11, <1>12, <1>13, <1>14, <1>15, <1>16, <1>17, <1>18, <1>19,
            <1>20, <1>21, <1>u
       DEF Next, Handler, Caller, Environment

\* Every step keeps codes and linking with the flows that have them.
LEMMA LinksNext ==
  ASSUME TypeOK, CallsOK, LinksOK, [Next]_vars
  PROVE  LinksOK'
<1> USE DEF TypeOK, State, NoState, Final, CallsOK, LinksOK
<1>1. ASSUME NEW c \in Call, Fails(c)
     PROVE  LinksOK'
  BY <1>1 DEF Fails, MayFail, Goto, Answer, flowVars, callVars, payVars
<1>2. ASSUME NEW c \in Call, Prepare(c)
     PROVE  LinksOK'
  <2>1. PICK otp \in BOOLEAN : (mode[on[c]] = "manual" => ~otp)
       /\ kept' = [kept EXCEPT ![c] = [otp |-> otp,
       linked |-> mode[on[c]] = "link", charge |-> NoRef]]
       /\ Goto(c, IF otp THEN "put" ELSE "charge")
    BY <1>2 DEF Prepare
  <2>2. kept'[c].otp = otp /\ kept'[c].linked = (mode[on[c]] = "link")
    BY <2>1
  <2>3. on[c] \in Flow /\ mode[on[c]] \in {"link", "manual"}
    BY <1>2, ModeOf DEF Prepare
  <2>4. kept'[c].otp => kept'[c].linked
    BY <2>1, <2>2, <2>3
  <2>5. \A d \in Call : d # c => pc'[d] = pc[d] /\ kept'[d] = kept[d]
    BY <1>2, <2>1 DEF Prepare, Goto
  <2>6. pc'[c] = IF otp THEN "put" ELSE "charge"
    BY <2>1 DEF Goto
  <2>7. st' = st /\ mode' = mode /\ on' = on
    BY <1>2 DEF Prepare, flowVars, callVars, payVars
  <2>8. (kept'[c].linked => pc'[c] # "idle" /\ mode[on[c]] = "link")
       /\ (mode[on[c]] = "link" => kept'[c].linked) /\ (pc'[c] = "put"
       => kept'[c].otp)
    BY <2>2, <2>6
  <2>. QED BY <2>4, <2>5, <2>6, <2>7, <2>8
<1>3. ASSUME NEW c \in Call, Charge(c)
     PROVE  LinksOK'
  <2>1. PICK r \in Ref : chargedFor[r] = NoFlow
       /\ chargedFor' = [chargedFor EXCEPT ![r] = on[c]]
       /\ kept' = [kept EXCEPT ![c].charge = r]
    BY <1>3 DEF Charge
  <2>2. kept'[c].charge = r /\ kept'[c].otp = kept[c].otp
       /\ kept'[c].linked = kept[c].linked
    BY <2>1
  <2>3. \A d \in Call : d # c => pc'[d] = pc[d] /\ kept'[d] = kept[d]
    BY <1>3, <2>1 DEF Charge, Goto
  <2>. QED BY <1>3, <2>1, <2>2, <2>3, NamesAssumption
       DEF Charge, Goto, flowVars, callVars, payVars
<1>4. ASSUME NEW c \in Call, Put(c)
     PROVE  LinksOK'
  BY <1>4 DEF Put, Goto, Answer, flowVars, callVars, payVars
<1>5. ASSUME NEW c \in Call, Resent(c)
     PROVE  LinksOK'
  BY <1>5 DEF Resent, Goto, Answer, flowVars, callVars, payVars
<1>6. ASSUME NEW c \in Call, Branch(c)
     PROVE  LinksOK'
  BY <1>6 DEF Branch, Goto, Answer, flowVars, callVars, payVars
<1>7. ASSUME NEW c \in Call, Verify(c)
     PROVE  LinksOK'
  BY <1>7 DEF Verify, Goto, Answer, flowVars, callVars, payVars
<1>8. ASSUME NEW c \in Call, Validate(c)
     PROVE  LinksOK'
  BY <1>8 DEF Validate, Goto, Answer, flowVars, callVars, payVars
<1>9. ASSUME NEW c \in Call, Process(c)
     PROVE  LinksOK'
  BY <1>9 DEF Process, Goto, Answer, flowVars, callVars, payVars
<1>10. ASSUME NEW c \in Call, Poll(c)
     PROVE  LinksOK'
  BY <1>10 DEF Poll, Goto, Answer, flowVars, callVars, payVars
<1>11. ASSUME NEW c \in Call, Pop(c)
     PROVE  LinksOK'
  BY <1>11 DEF Pop, Goto, Answer, flowVars, callVars, payVars
<1>12. ASSUME NEW c \in Call, Close(c)
     PROVE  LinksOK'
  BY <1>12 DEF Close, Goto, Answer, flowVars, callVars, payVars
<1>13. ASSUME NEW c \in Call, NEW f \in Flow, NEW m \in Modes, StartPayment(c, f, m)
     PROVE  LinksOK'
  BY <1>13 DEF StartPayment, Goto, Answer, flowVars, callVars, payVars
<1>14. ASSUME NEW c \in Call, NEW f \in Flow, NEW otp \in BOOLEAN, Complete(c, f,
     otp)
     PROVE  LinksOK'
  BY <1>14 DEF Complete, Calls, Known, Told, Goto, Answer, flowVars, callVars,
       payVars
<1>15. ASSUME NEW c \in Call, NEW f \in Flow, Resend(c, f)
     PROVE  LinksOK'
  BY <1>15 DEF Resend, Calls, Known, Told, Goto, Answer, flowVars, callVars, payVars
<1>16. ASSUME NEW c \in Call, NEW f \in Flow, Confirm(c, f)
     PROVE  LinksOK'
  BY <1>16 DEF Confirm, Calls, Known, Told, Goto, Answer, flowVars, callVars,
       payVars
<1>17. ASSUME NEW c \in Call, NEW f \in Flow, Cancel(c, f)
     PROVE  LinksOK'
  BY <1>17 DEF Cancel, Calls, Known, Told, Goto, Answer, flowVars, callVars, payVars
<1>18. ASSUME NEW r \in Ref, PayByHand(r)
     PROVE  LinksOK'
  BY <1>18 DEF PayByHand, Told, flowVars, callVars, payVars
<1>19. ASSUME NEW t \in Token, Settle(t)
     PROVE  LinksOK'
  BY <1>19 DEF Settle, flowVars, callVars, payVars
<1>20. ASSUME NEW t \in Token, Expire(t)
     PROVE  LinksOK'
  BY <1>20 DEF Expire, flowVars, callVars, payVars
<1>21. ASSUME Restart
     PROVE  LinksOK'
  BY <1>21 DEF Restart, Final, flowVars, callVars, payVars
<1>u. CASE UNCHANGED vars
  BY <1>u DEF vars, flowVars, callVars, payVars
<1> HIDE DEF TypeOK, State, NoState, Final, CallsOK, LinksOK
<1>. QED BY <1>1, <1>2, <1>3, <1>4, <1>5, <1>6, <1>7, <1>8, <1>9, <1>10,
            <1>11, <1>12, <1>13, <1>14, <1>15, <1>16, <1>17, <1>18, <1>19,
            <1>20, <1>21, <1>u
       DEF Next, Handler, Caller, Environment

\* Every step leaves a start without a charge before its own.
LEMMA UnchargedNext ==
  ASSUME TypeOK, CallsOK, StartsAlone, FlowsOK, ChargesOK, LinksOK,
       StartUncharged, [Next]_vars
  PROVE  StartUncharged'
<1> USE DEF TypeOK, State, NoState, Final, CallsOK, StartUncharged, Uncharged
<1>1. ASSUME NEW c \in Call, Fails(c)
     PROVE  StartUncharged'
  BY <1>1 DEF Fails, MayFail, Goto, Answer, flowVars, callVars, payVars
<1>2. ASSUME NEW c \in Call, Prepare(c)
     PROVE  StartUncharged'
  <2>1. \A d \in Call : d # c => pc'[d] = pc[d] /\ on'[d] = on[d]
       /\ op'[d] = op[d] /\ kept'[d] = kept[d]
    BY <1>2 DEF Prepare, Goto, Answer, flowVars, callVars, payVars
  <2>2. chargedFor' = chargedFor /\ paid' = paid /\ on' = on /\ op' = op
       /\ pc[c] = "prepare"
    BY <1>2 DEF Prepare, flowVars, callVars, payVars
  <2>3. PICK otp \in BOOLEAN : kept' = [kept EXCEPT ![c] = [otp |-> otp,
       linked |-> mode[on[c]] = "link", charge |-> NoRef]]
    BY <1>2 DEF Prepare
  <2>4. kept'[c].charge \notin paid
    BY <2>3, NamesAssumption
  <2>. QED BY <2>1, <2>2, <2>4
<1>3. ASSUME NEW c \in Call, Charge(c)
     PROVE  StartUncharged'
  <2>1. PICK r \in Ref : chargedFor[r] = NoFlow
       /\ chargedFor' = [chargedFor EXCEPT ![r] = on[c]]
       /\ kept' = [kept EXCEPT ![c].charge = r]
    BY <1>3 DEF Charge
  <2>2. kept'[c].charge = r /\ kept'[c].otp = kept[c].otp
       /\ kept'[c].linked = kept[c].linked
    BY <2>1
  <2>3. \A d \in Call : d # c => pc'[d] = pc[d] /\ kept'[d] = kept[d]
    BY <1>3, <2>1 DEF Charge, Goto
  <2>4. paid' = paid /\ on' = on /\ op' = op /\ pc[c] = "charge"
       /\ pc'[c] \in {"put", "validate"} /\ on[c] \in Flow
    BY <1>3 DEF Charge, Goto, flowVars, callVars, payVars
  <2>5. r \notin paid
    BY <1>3, <2>1, NamesAssumption DEF ChargesOK
  <2>6. \A d \in Call : (op[d] = "start" /\ pc[d] \in {"prepare", "charge"}
       /\ on[d] = on[c]) => d = c
    BY DEF StartsAlone
  <2>. QED BY <2>1, <2>2, <2>3, <2>4, <2>5, <2>6
<1>4. ASSUME NEW c \in Call, Put(c)
     PROVE  StartUncharged'
  BY <1>4 DEF Put, Goto, Answer, flowVars, callVars, payVars
<1>5. ASSUME NEW c \in Call, Resent(c)
     PROVE  StartUncharged'
  BY <1>5 DEF Resent, Goto, Answer, flowVars, callVars, payVars
<1>6. ASSUME NEW c \in Call, Branch(c)
     PROVE  StartUncharged'
  BY <1>6 DEF Branch, Goto, Answer, flowVars, callVars, payVars
<1>7. ASSUME NEW c \in Call, Verify(c)
     PROVE  StartUncharged'
  BY <1>7 DEF Verify, Goto, Answer, flowVars, callVars, payVars
<1>8. ASSUME NEW c \in Call, Validate(c)
     PROVE  StartUncharged'
  BY <1>8 DEF Validate, Goto, Answer, flowVars, callVars, payVars
<1>9. ASSUME NEW c \in Call, Process(c)
     PROVE  StartUncharged'
  BY <1>9 DEF Process, Goto, Answer, flowVars, callVars, payVars, ChargesOK,
       StartsAlone
<1>10. ASSUME NEW c \in Call, Poll(c)
     PROVE  StartUncharged'
  BY <1>10 DEF Poll, Goto, Answer, flowVars, callVars, payVars
<1>11. ASSUME NEW c \in Call, Pop(c)
     PROVE  StartUncharged'
  BY <1>11 DEF Pop, Goto, Answer, flowVars, callVars, payVars
<1>12. ASSUME NEW c \in Call, Close(c)
     PROVE  StartUncharged'
  BY <1>12 DEF Close, Goto, Answer, flowVars, callVars, payVars
<1>13. ASSUME NEW c \in Call, NEW f \in Flow, NEW m \in Modes, StartPayment(c, f, m)
     PROVE  StartUncharged'
  BY <1>13 DEF StartPayment, Goto, Answer, flowVars, callVars, payVars, FlowsOK,
       Uncharged
<1>14. ASSUME NEW c \in Call, NEW f \in Flow, NEW otp \in BOOLEAN, Complete(c, f,
     otp)
     PROVE  StartUncharged'
  BY <1>14 DEF Complete, Calls, Known, Told, Goto, Answer, flowVars, callVars,
       payVars
<1>15. ASSUME NEW c \in Call, NEW f \in Flow, Resend(c, f)
     PROVE  StartUncharged'
  BY <1>15 DEF Resend, Calls, Known, Told, Goto, Answer, flowVars, callVars, payVars
<1>16. ASSUME NEW c \in Call, NEW f \in Flow, Confirm(c, f)
     PROVE  StartUncharged'
  BY <1>16 DEF Confirm, Calls, Known, Told, Goto, Answer, flowVars, callVars,
       payVars
<1>17. ASSUME NEW c \in Call, NEW f \in Flow, Cancel(c, f)
     PROVE  StartUncharged'
  BY <1>17 DEF Cancel, Calls, Known, Told, Goto, Answer, flowVars, callVars, payVars
<1>18. ASSUME NEW r \in Ref, PayByHand(r)
     PROVE  StartUncharged'
  <2>1. UNCHANGED <<callVars, chargedFor>> /\ paid' = paid \cup {r}
    BY <1>18 DEF PayByHand
  <2>2. PICK d \in Call : pc[d] = "done" /\ on[d] = chargedFor[r]
    BY <1>18 DEF PayByHand, Told
  <2>3. \A c \in Call : pc[c] = "put" => kept[c].charge # r
    BY <2>2, NamesAssumption DEF StartsAlone, ChargesOK
  <2>. QED BY <2>1, <2>3 DEF callVars
<1>19. ASSUME NEW t \in Token, Settle(t)
     PROVE  StartUncharged'
  BY <1>19 DEF Settle, flowVars, callVars, payVars
<1>20. ASSUME NEW t \in Token, Expire(t)
     PROVE  StartUncharged'
  BY <1>20 DEF Expire, flowVars, callVars, payVars
<1>21. ASSUME Restart
     PROVE  StartUncharged'
  BY <1>21 DEF Restart, Final, flowVars, callVars, payVars
<1>u. CASE UNCHANGED vars
  BY <1>u DEF vars, flowVars, callVars, payVars
<1> HIDE DEF TypeOK, State, NoState, Final, CallsOK, StartUncharged, Uncharged
<1>. QED BY <1>1, <1>2, <1>3, <1>4, <1>5, <1>6, <1>7, <1>8, <1>9, <1>10,
            <1>11, <1>12, <1>13, <1>14, <1>15, <1>16, <1>17, <1>18, <1>19,
            <1>20, <1>21, <1>u
       DEF Next, Handler, Caller, Environment

\* Every step leaves the answers of settled payments true.
LEMMA SettledNext ==
  ASSUME TypeOK, CallsOK, StartsAlone, FlowsOK, ChargesOK, LinksOK,
       SettledAnswerIsTrue, [Next]_vars
  PROVE  SettledAnswerIsTrue'
<1> USE DEF TypeOK, State, NoState, Final, CallsOK, SettledAnswerIsTrue
<1>1. ASSUME NEW c \in Call, Fails(c)
     PROVE  SettledAnswerIsTrue'
  BY <1>1 DEF Fails, MayFail, Goto, Answer, flowVars, callVars, payVars
<1>2. ASSUME NEW c \in Call, Prepare(c)
     PROVE  SettledAnswerIsTrue'
  <2>1. \A d \in Call : d # c => pc'[d] = pc[d] /\ on'[d] = on[d]
       /\ op'[d] = op[d] /\ kept'[d] = kept[d]
    BY <1>2 DEF Prepare, Goto, Answer, flowVars, callVars, payVars
  <2>. QED BY <1>2, <2>1 DEF Prepare, Goto, flowVars, callVars, payVars
<1>3. ASSUME NEW c \in Call, Charge(c)
     PROVE  SettledAnswerIsTrue'
  <2>1. PICK r \in Ref : chargedFor[r] = NoFlow
       /\ chargedFor' = [chargedFor EXCEPT ![r] = on[c]]
       /\ kept' = [kept EXCEPT ![c].charge = r]
    BY <1>3 DEF Charge
  <2>2. kept'[c].charge = r /\ kept'[c].otp = kept[c].otp
       /\ kept'[c].linked = kept[c].linked
    BY <2>1
  <2>3. \A d \in Call : d # c => pc'[d] = pc[d] /\ kept'[d] = kept[d]
    BY <1>3, <2>1 DEF Charge, Goto
  <2>. QED BY <1>3, <2>1, <2>2, <2>3, NamesAssumption
       DEF Charge, Goto, flowVars, callVars, payVars
<1>4. ASSUME NEW c \in Call, Put(c)
     PROVE  SettledAnswerIsTrue'
  BY <1>4 DEF Put, Goto, Answer, flowVars, callVars, payVars
<1>5. ASSUME NEW c \in Call, Resent(c)
     PROVE  SettledAnswerIsTrue'
  BY <1>5 DEF Resent, Goto, Answer, flowVars, callVars, payVars
<1>6. ASSUME NEW c \in Call, Branch(c)
     PROVE  SettledAnswerIsTrue'
  BY <1>6 DEF Branch, Goto, Answer, flowVars, callVars, payVars
<1>7. ASSUME NEW c \in Call, Verify(c)
     PROVE  SettledAnswerIsTrue'
  BY <1>7 DEF Verify, Goto, Answer, flowVars, callVars, payVars
<1>8. ASSUME NEW c \in Call, Validate(c)
     PROVE  SettledAnswerIsTrue'
  BY <1>8 DEF Validate, Goto, Answer, flowVars, callVars, payVars
<1>9. ASSUME NEW c \in Call, Process(c)
     PROVE  SettledAnswerIsTrue'
  BY <1>9 DEF Process, Goto, Answer, flowVars, callVars, payVars
<1>10. ASSUME NEW c \in Call, Poll(c)
     PROVE  SettledAnswerIsTrue'
  BY <1>10 DEF Poll, Goto, Answer, flowVars, callVars, payVars, ChargesOK
<1>11. ASSUME NEW c \in Call, Pop(c)
     PROVE  SettledAnswerIsTrue'
  BY <1>11 DEF Pop, Goto, Answer, flowVars, callVars, payVars
<1>12. ASSUME NEW c \in Call, Close(c)
     PROVE  SettledAnswerIsTrue'
  BY <1>12 DEF Close, Goto, Answer, flowVars, callVars, payVars
<1>13. ASSUME NEW c \in Call, NEW f \in Flow, NEW m \in Modes, StartPayment(c, f, m)
     PROVE  SettledAnswerIsTrue'
  BY <1>13 DEF StartPayment, Goto, Answer, flowVars, callVars, payVars
<1>14. ASSUME NEW c \in Call, NEW f \in Flow, NEW otp \in BOOLEAN, Complete(c, f,
     otp)
     PROVE  SettledAnswerIsTrue'
  BY <1>14 DEF Complete, Calls, Known, Told, Goto, Answer, flowVars, callVars,
       payVars
<1>15. ASSUME NEW c \in Call, NEW f \in Flow, Resend(c, f)
     PROVE  SettledAnswerIsTrue'
  BY <1>15 DEF Resend, Calls, Known, Told, Goto, Answer, flowVars, callVars, payVars
<1>16. ASSUME NEW c \in Call, NEW f \in Flow, Confirm(c, f)
     PROVE  SettledAnswerIsTrue'
  BY <1>16 DEF Confirm, Calls, Known, Told, Goto, Answer, flowVars, callVars,
       payVars
<1>17. ASSUME NEW c \in Call, NEW f \in Flow, Cancel(c, f)
     PROVE  SettledAnswerIsTrue'
  BY <1>17 DEF Cancel, Calls, Known, Told, Goto, Answer, flowVars, callVars, payVars
<1>18. ASSUME NEW r \in Ref, PayByHand(r)
     PROVE  SettledAnswerIsTrue'
  BY <1>18 DEF PayByHand, Told, flowVars, callVars, payVars
<1>19. ASSUME NEW t \in Token, Settle(t)
     PROVE  SettledAnswerIsTrue'
  BY <1>19 DEF Settle, flowVars, callVars, payVars
<1>20. ASSUME NEW t \in Token, Expire(t)
     PROVE  SettledAnswerIsTrue'
  BY <1>20 DEF Expire, flowVars, callVars, payVars
<1>21. ASSUME Restart
     PROVE  SettledAnswerIsTrue'
  BY <1>21 DEF Restart, Final, flowVars, callVars, payVars
<1>u. CASE UNCHANGED vars
  BY <1>u DEF vars, flowVars, callVars, payVars
<1> HIDE DEF TypeOK, State, NoState, Final, CallsOK, SettledAnswerIsTrue
<1>. QED BY <1>1, <1>2, <1>3, <1>4, <1>5, <1>6, <1>7, <1>8, <1>9, <1>10,
            <1>11, <1>12, <1>13, <1>14, <1>15, <1>16, <1>17, <1>18, <1>19,
            <1>20, <1>21, <1>u
       DEF Next, Handler, Caller, Environment

\* Every step leaves each session with one owner.
LEMMA SessionNext ==
  ASSUME TypeOK, CallsOK, StartsAlone, FlowsOK, ChargesOK, LinksOK, SessionOwned,
       [Next]_vars
  PROVE  SessionOwned'
<1> USE DEF TypeOK, SessionOwned
<1>1. ASSUME NEW c \in Call, Fails(c)
     PROVE  SessionOwned'
  <2>1. \A d \in Call, f \in Flow : Owns(d, f)' <=> Owns(d, f)
    BY <1>1 DEF Owns, CallsOK, Fails, Goto, Answer, MayFail, flowVars, callVars,
         payVars
  <2>2. stored' = stored /\ opened' = opened /\ closings' = closings
    BY <1>1 DEF Fails, flowVars, callVars, payVars
  <2>. QED BY <2>1, <2>2
<1>2. ASSUME NEW c \in Call, Prepare(c)
     PROVE  SessionOwned'
  <2>1. \A d \in Call, f \in Flow : Owns(d, f)' <=> Owns(d, f)
    BY <1>2 DEF Owns, CallsOK, Prepare, Goto, Answer, flowVars, callVars, payVars
  <2>2. stored' = stored /\ opened' = opened /\ closings' = closings
    BY <1>2 DEF Prepare, flowVars, callVars, payVars
  <2>. QED BY <2>1, <2>2
<1>3. ASSUME NEW c \in Call, Charge(c)
     PROVE  SessionOwned'
  <2>1. \A d \in Call, f \in Flow : Owns(d, f)' <=> Owns(d, f)
    BY <1>3 DEF Owns, CallsOK, Charge, Goto, Answer, flowVars, callVars, payVars
  <2>2. stored' = stored /\ opened' = opened /\ closings' = closings
    BY <1>3 DEF Charge, flowVars, callVars, payVars
  <2>. QED BY <2>1, <2>2
<1>4. ASSUME NEW c \in Call, Put(c)
     PROVE  SessionOwned'
  BY <1>4 DEF Put, Goto, Answer, flowVars, callVars, payVars, CallsOK, Owns
<1>5. ASSUME NEW c \in Call, Resent(c)
     PROVE  SessionOwned'
  <2>1. \A d \in Call, f \in Flow : Owns(d, f)' <=> Owns(d, f)
    BY <1>5 DEF Owns, CallsOK, Resent, Goto, Answer, flowVars, callVars, payVars
  <2>2. stored' = stored /\ opened' = opened /\ closings' = closings
    BY <1>5 DEF Resent, flowVars, callVars, payVars
  <2>. QED BY <2>1, <2>2
<1>6. ASSUME NEW c \in Call, Branch(c)
     PROVE  SessionOwned'
  <2>1. \A d \in Call, f \in Flow : Owns(d, f)' <=> Owns(d, f)
    BY <1>6 DEF Owns, CallsOK, Branch, Goto, Answer, flowVars, callVars, payVars
  <2>2. stored' = stored /\ opened' = opened /\ closings' = closings
    BY <1>6 DEF Branch, flowVars, callVars, payVars
  <2>. QED BY <2>1, <2>2
<1>7. ASSUME NEW c \in Call, Verify(c)
     PROVE  SessionOwned'
  <2>1. \A d \in Call, f \in Flow : Owns(d, f)' <=> Owns(d, f)
    BY <1>7 DEF Owns, CallsOK, Verify, Goto, Answer, flowVars, callVars, payVars
  <2>2. stored' = stored /\ opened' = opened /\ closings' = closings
    BY <1>7 DEF Verify, flowVars, callVars, payVars
  <2>. QED BY <2>1, <2>2
<1>8. ASSUME NEW c \in Call, Validate(c)
     PROVE  SessionOwned'
  <2>1. \A d \in Call, f \in Flow : Owns(d, f)' <=> Owns(d, f)
    BY <1>8 DEF Owns, CallsOK, Validate, Goto, Answer, flowVars, callVars, payVars
  <2>2. stored' = stored /\ opened' = opened /\ closings' = closings
    BY <1>8 DEF Validate, flowVars, callVars, payVars
  <2>. QED BY <2>1, <2>2
<1>9. ASSUME NEW c \in Call, Process(c)
     PROVE  SessionOwned'
  <2>1. \A d \in Call, f \in Flow : Owns(d, f)' <=> Owns(d, f)
    BY <1>9 DEF Owns, CallsOK, Process, Goto, Answer, flowVars, callVars, payVars
  <2>2. stored' = stored /\ opened' = opened /\ closings' = closings
    BY <1>9 DEF Process, flowVars, callVars, payVars
  <2>. QED BY <2>1, <2>2
<1>10. ASSUME NEW c \in Call, Poll(c)
     PROVE  SessionOwned'
  <2>1. \A d \in Call, f \in Flow : Owns(d, f)' <=> Owns(d, f)
    BY <1>10 DEF Owns, CallsOK, Poll, Goto, Answer, flowVars, callVars, payVars
  <2>2. stored' = stored /\ opened' = opened /\ closings' = closings
    BY <1>10 DEF Poll, flowVars, callVars, payVars
  <2>. QED BY <2>1, <2>2
<1>11. ASSUME NEW c \in Call, Pop(c)
     PROVE  SessionOwned'
  <2>1. on[c] \in Flow /\ ~Owns(c, on[c]) /\ pc[c] = "pop"
    BY <1>11 DEF Pop, CallsOK, Owns
  <2>2. \A d \in Call, f \in Flow : (d # c \/ on[c] \notin stored
       \/ f # on[c]) => (Owns(d, f)' <=> Owns(d, f))
    BY <1>11 DEF Owns, CallsOK, Pop, Goto, flowVars, callVars, payVars
  <2>3. on[c] \in stored => Owns(c, on[c])'
    BY <1>11 DEF Owns, Pop, Goto, flowVars, callVars, payVars
  <2>4. stored' = stored \ {on[c]} /\ opened' = opened /\ closings' = closings
       /\ on' = on
    BY <1>11 DEF Pop
  <2>5. \A f \in opened : (f # on[c] \/ on[c] \notin stored)
       => ((f \in stored' <=> f \in stored)
       /\ \A d \in Call : Owns(d, f)' <=> Owns(d, f))
    BY <2>1, <2>2, <2>4
  <2>6. CASE on[c] \notin stored
    BY <2>4, <2>5, <2>6
  <2>7. ASSUME on[c] \in stored, on[c] \in opened
       PROVE on[c] \notin stored' /\ closings'[on[c]] = 0 /\ Owns(c, on[c])'
       /\ \A d \in Call : Owns(d, on[c])' => d = c
    BY <2>1, <2>2, <2>3, <2>4, <2>7
  <2>8. CASE on[c] \in stored
    BY <2>1, <2>4, <2>5, <2>7, <2>8
  <2>. QED BY <2>6, <2>8
<1>12. ASSUME NEW c \in Call, Close(c)
     PROVE  SessionOwned'
  BY <1>12 DEF Close, Goto, Answer, flowVars, callVars, payVars, CallsOK, Owns
<1>13. ASSUME NEW c \in Call, NEW f \in Flow, NEW m \in Modes, StartPayment(c, f, m)
     PROVE  SessionOwned'
  BY <1>13, ModesAssumption
       DEF StartPayment, Goto, Answer, flowVars, callVars, payVars, FlowsOK,
       CallsOK, Owns
<1>14. ASSUME NEW c \in Call, NEW f \in Flow, NEW otp \in BOOLEAN, Complete(c, f,
     otp)
     PROVE  SessionOwned'
  <2>1. \A d \in Call, g \in Flow : Owns(d, g)' <=> Owns(d, g)
    BY <1>14 DEF Owns, CallsOK, Complete, Goto, Answer, Calls, Known, Told,
         flowVars, callVars, payVars
  <2>2. stored' = stored /\ opened' = opened /\ closings' = closings
    BY <1>14 DEF Complete, flowVars, callVars, payVars
  <2>. QED BY <2>1, <2>2
<1>15. ASSUME NEW c \in Call, NEW f \in Flow, Resend(c, f)
     PROVE  SessionOwned'
  <2>1. \A d \in Call, g \in Flow : Owns(d, g)' <=> Owns(d, g)
    BY <1>15 DEF Owns, CallsOK, Resend, Goto, Answer, Calls, Known, Told,
         flowVars, callVars, payVars
  <2>2. stored' = stored /\ opened' = opened /\ closings' = closings
    BY <1>15 DEF Resend, flowVars, callVars, payVars
  <2>. QED BY <2>1, <2>2
<1>16. ASSUME NEW c \in Call, NEW f \in Flow, Confirm(c, f)
     PROVE  SessionOwned'
  <2>1. \A d \in Call, g \in Flow : Owns(d, g)' <=> Owns(d, g)
    BY <1>16 DEF Owns, CallsOK, Confirm, Goto, Answer, Calls, Known, Told,
         flowVars, callVars, payVars
  <2>2. stored' = stored /\ opened' = opened /\ closings' = closings
    BY <1>16 DEF Confirm, flowVars, callVars, payVars
  <2>. QED BY <2>1, <2>2
<1>17. ASSUME NEW c \in Call, NEW f \in Flow, Cancel(c, f)
     PROVE  SessionOwned'
  <2>1. \A d \in Call, g \in Flow : Owns(d, g)' <=> Owns(d, g)
    BY <1>17 DEF Owns, CallsOK, Cancel, Goto, Answer, Calls, Known, Told,
         flowVars, callVars, payVars
  <2>2. stored' = stored /\ opened' = opened /\ closings' = closings
    BY <1>17 DEF Cancel, flowVars, callVars, payVars
  <2>. QED BY <2>1, <2>2
<1>18. ASSUME NEW r \in Ref, PayByHand(r)
     PROVE  SessionOwned'
  BY <1>18 DEF PayByHand, Told, flowVars, callVars, payVars, CallsOK, Owns
<1>19. ASSUME NEW t \in Token, Settle(t)
     PROVE  SessionOwned'
  BY <1>19 DEF Settle, flowVars, callVars, payVars, CallsOK, Owns
<1>20. ASSUME NEW t \in Token, Expire(t)
     PROVE  SessionOwned'
  BY <1>20 DEF Expire, flowVars, callVars, payVars, CallsOK, Owns
<1>21. ASSUME Restart
     PROVE  SessionOwned'
  BY <1>21 DEF Restart, Final, flowVars, callVars, payVars, CallsOK, Owns
<1>u. CASE UNCHANGED vars
  <2>1. \A d \in Call, f \in Flow : Owns(d, f)' <=> Owns(d, f)
    BY <1>u DEF Owns, vars, callVars
  <2>. QED BY <1>u, <2>1 DEF vars, flowVars
<1> HIDE DEF TypeOK, SessionOwned
<1>. QED BY <1>1, <1>2, <1>3, <1>4, <1>5, <1>6, <1>7, <1>8, <1>9, <1>10,
            <1>11, <1>12, <1>13, <1>14, <1>15, <1>16, <1>17, <1>18, <1>19,
            <1>20, <1>21, <1>u
       DEF Next, Handler, Caller, Environment

\* Every step leaves the flows in the map their state.
LEMMA StateNext ==
  ASSUME TypeOK, CallsOK, StartsAlone, FlowsOK, ChargesOK, LinksOK, StateKept,
       [Next]_vars
  PROVE  StateKept'
<1> USE DEF TypeOK, State, NoState, Final, CallsOK, StateKept
<1>1. ASSUME NEW c \in Call, Fails(c)
     PROVE  StateKept'
  BY <1>1 DEF Fails, MayFail, Goto, Answer, flowVars, callVars, payVars, LinksOK
<1>2. ASSUME NEW c \in Call, Prepare(c)
     PROVE  StateKept'
  BY <1>2 DEF Prepare, Goto, Answer, flowVars, callVars, payVars, LinksOK
<1>3. ASSUME NEW c \in Call, Charge(c)
     PROVE  StateKept'
  BY <1>3 DEF Charge, Goto, Answer, flowVars, callVars, payVars, LinksOK
<1>4. ASSUME NEW c \in Call, Put(c)
     PROVE  StateKept'
  <2>1. on[c] \in Flow /\ mode[on[c]] \in {"link", "manual"}
    BY <1>4, ModeOf DEF Put
  <2>2. st' = [st EXCEPT ![on[c]] = kept[c]] /\ stored' = stored \cup {on[c]}
       /\ mode' = mode
    BY <1>4 DEF Put
  <2>3. IF mode[on[c]] = "manual" THEN ~kept[c].otp
       /\ kept[c].charge # NoRef ELSE kept[c].linked /\ (kept[c].otp
       \/ kept[c].charge # NoRef)
    BY <1>4, <2>1 DEF Put, LinksOK
  <2>. QED BY <2>1, <2>2, <2>3
<1>5. ASSUME NEW c \in Call, Resent(c)
     PROVE  StateKept'
  BY <1>5 DEF Resent, Goto, Answer, flowVars, callVars, payVars, LinksOK
<1>6. ASSUME NEW c \in Call, Branch(c)
     PROVE  StateKept'
  BY <1>6 DEF Branch, Goto, Answer, flowVars, callVars, payVars, LinksOK
<1>7. ASSUME NEW c \in Call, Verify(c)
     PROVE  StateKept'
  BY <1>7 DEF Verify, Goto, Answer, flowVars, callVars, payVars, LinksOK
<1>8. ASSUME NEW c \in Call, Validate(c)
     PROVE  StateKept'
  BY <1>8 DEF Validate, Goto, Answer, flowVars, callVars, payVars, LinksOK
<1>9. ASSUME NEW c \in Call, Process(c)
     PROVE  StateKept'
  BY <1>9 DEF Process, Goto, Answer, flowVars, callVars, payVars, LinksOK
<1>10. ASSUME NEW c \in Call, Poll(c)
     PROVE  StateKept'
  BY <1>10 DEF Poll, Goto, Answer, flowVars, callVars, payVars, LinksOK
<1>11. ASSUME NEW c \in Call, Pop(c)
     PROVE  StateKept'
  BY <1>11 DEF Pop, Goto, Answer, flowVars, callVars, payVars, LinksOK
<1>12. ASSUME NEW c \in Call, Close(c)
     PROVE  StateKept'
  BY <1>12 DEF Close, Goto, Answer, flowVars, callVars, payVars, LinksOK
<1>13. ASSUME NEW c \in Call, NEW f \in Flow, NEW m \in Modes, StartPayment(c, f, m)
     PROVE  StateKept'
  BY <1>13 DEF StartPayment, Goto, Answer, flowVars, callVars, payVars, FlowsOK
<1>14. ASSUME NEW c \in Call, NEW f \in Flow, NEW otp \in BOOLEAN, Complete(c, f,
     otp)
     PROVE  StateKept'
  BY <1>14 DEF Complete, Calls, Known, Told, Goto, Answer, flowVars, callVars,
       payVars, LinksOK
<1>15. ASSUME NEW c \in Call, NEW f \in Flow, Resend(c, f)
     PROVE  StateKept'
  BY <1>15 DEF Resend, Calls, Known, Told, Goto, Answer, flowVars, callVars,
       payVars, LinksOK
<1>16. ASSUME NEW c \in Call, NEW f \in Flow, Confirm(c, f)
     PROVE  StateKept'
  BY <1>16 DEF Confirm, Calls, Known, Told, Goto, Answer, flowVars, callVars,
       payVars, LinksOK
<1>17. ASSUME NEW c \in Call, NEW f \in Flow, Cancel(c, f)
     PROVE  StateKept'
  BY <1>17 DEF Cancel, Calls, Known, Told, Goto, Answer, flowVars, callVars,
       payVars, LinksOK
<1>18. ASSUME NEW r \in Ref, PayByHand(r)
     PROVE  StateKept'
  BY <1>18 DEF PayByHand, Told, flowVars, callVars, payVars, LinksOK
<1>19. ASSUME NEW t \in Token, Settle(t)
     PROVE  StateKept'
  BY <1>19 DEF Settle, flowVars, callVars, payVars, LinksOK
<1>20. ASSUME NEW t \in Token, Expire(t)
     PROVE  StateKept'
  BY <1>20 DEF Expire, flowVars, callVars, payVars, LinksOK
<1>21. ASSUME Restart
     PROVE  StateKept'
  BY <1>21 DEF Restart, Final, flowVars, callVars, payVars, LinksOK
<1>u. CASE UNCHANGED vars
  BY <1>u DEF vars, flowVars, callVars, payVars
<1> HIDE DEF TypeOK, State, NoState, Final, CallsOK, StateKept
<1>. QED BY <1>1, <1>2, <1>3, <1>4, <1>5, <1>6, <1>7, <1>8, <1>9, <1>10,
            <1>11, <1>12, <1>13, <1>14, <1>15, <1>16, <1>17, <1>18, <1>19,
            <1>20, <1>21, <1>u
       DEF Next, Handler, Caller, Environment

\* What was given up stays given up.
LEMMA GivenUpNext ==
  ASSUME TypeOK, CallsOK, NEW g \in Flow, GivenUp(g), [Next]_vars
  PROVE  GivenUp(g)'
<1> USE DEF TypeOK, State, NoState, Final, CallsOK, GivenUp
<1>1. ASSUME NEW c \in Call, Fails(c)
     PROVE  GivenUp(g)'
  BY <1>1 DEF Fails, MayFail, Goto, Answer, flowVars, callVars, payVars
<1>2. ASSUME NEW c \in Call, Prepare(c)
     PROVE  GivenUp(g)'
  BY <1>2 DEF Prepare, Goto, Answer, flowVars, callVars, payVars
<1>3. ASSUME NEW c \in Call, Charge(c)
     PROVE  GivenUp(g)'
  BY <1>3 DEF Charge, Goto, Answer, flowVars, callVars, payVars
<1>4. ASSUME NEW c \in Call, Put(c)
     PROVE  GivenUp(g)'
  BY <1>4 DEF Put, Goto, Answer, flowVars, callVars, payVars
<1>5. ASSUME NEW c \in Call, Resent(c)
     PROVE  GivenUp(g)'
  BY <1>5 DEF Resent, Goto, Answer, flowVars, callVars, payVars
<1>6. ASSUME NEW c \in Call, Branch(c)
     PROVE  GivenUp(g)'
  BY <1>6 DEF Branch, Goto, Answer, flowVars, callVars, payVars
<1>7. ASSUME NEW c \in Call, Verify(c)
     PROVE  GivenUp(g)'
  BY <1>7 DEF Verify, Goto, Answer, flowVars, callVars, payVars
<1>8. ASSUME NEW c \in Call, Validate(c)
     PROVE  GivenUp(g)'
  BY <1>8 DEF Validate, Goto, Answer, flowVars, callVars, payVars
<1>9. ASSUME NEW c \in Call, Process(c)
     PROVE  GivenUp(g)'
  BY <1>9 DEF Process, Goto, Answer, flowVars, callVars, payVars
<1>10. ASSUME NEW c \in Call, Poll(c)
     PROVE  GivenUp(g)'
  BY <1>10 DEF Poll, Goto, Answer, flowVars, callVars, payVars
<1>11. ASSUME NEW c \in Call, Pop(c)
     PROVE  GivenUp(g)'
  BY <1>11 DEF Pop, Goto, Answer, flowVars, callVars, payVars
<1>12. ASSUME NEW c \in Call, Close(c)
     PROVE  GivenUp(g)'
  BY <1>12 DEF Close, Goto, Answer, flowVars, callVars, payVars
<1>13. ASSUME NEW c \in Call, NEW f \in Flow, NEW m \in Modes, StartPayment(c, f, m)
     PROVE  GivenUp(g)'
  BY <1>13 DEF StartPayment, Goto, Answer, flowVars, callVars, payVars
<1>14. ASSUME NEW c \in Call, NEW f \in Flow, NEW otp \in BOOLEAN, Complete(c, f,
     otp)
     PROVE  GivenUp(g)'
  BY <1>14 DEF Complete, Calls, Known, Told, Goto, Answer, flowVars, callVars,
       payVars
<1>15. ASSUME NEW c \in Call, NEW f \in Flow, Resend(c, f)
     PROVE  GivenUp(g)'
  BY <1>15 DEF Resend, Calls, Known, Told, Goto, Answer, flowVars, callVars, payVars
<1>16. ASSUME NEW c \in Call, NEW f \in Flow, Confirm(c, f)
     PROVE  GivenUp(g)'
  BY <1>16 DEF Confirm, Calls, Known, Told, Goto, Answer, flowVars, callVars,
       payVars
<1>17. ASSUME NEW c \in Call, NEW f \in Flow, Cancel(c, f)
     PROVE  GivenUp(g)'
  BY <1>17 DEF Cancel, Calls, Known, Told, Goto, Answer, flowVars, callVars, payVars
<1>18. ASSUME NEW r \in Ref, PayByHand(r)
     PROVE  GivenUp(g)'
  BY <1>18 DEF PayByHand, Told, flowVars, callVars, payVars
<1>19. ASSUME NEW t \in Token, Settle(t)
     PROVE  GivenUp(g)'
  BY <1>19 DEF Settle, flowVars, callVars, payVars
<1>20. ASSUME NEW t \in Token, Expire(t)
     PROVE  GivenUp(g)'
  BY <1>20 DEF Expire, flowVars, callVars, payVars
<1>21. ASSUME Restart
     PROVE  GivenUp(g)'
  BY <1>21 DEF Restart, Final, flowVars, callVars, payVars
<1>u. CASE UNCHANGED vars
  BY <1>u DEF vars, flowVars, callVars, payVars
<1> HIDE DEF TypeOK, State, NoState, Final, CallsOK, GivenUp
<1>. QED BY <1>1, <1>2, <1>3, <1>4, <1>5, <1>6, <1>7, <1>8, <1>9, <1>10,
            <1>11, <1>12, <1>13, <1>14, <1>15, <1>16, <1>17, <1>18, <1>19,
            <1>20, <1>21, <1>u
       DEF Next, Handler, Caller, Environment

\* Every step leaves a reference to be paid by hand in reach.
LEMMA ReachedNext ==
  ASSUME TypeOK, CallsOK, FlowsOK, LinksOK, NEW q \in Ref, NEW g \in Flow,
       Reached(q, g), [Next]_vars
  PROVE  Reached(q, g)'
<1> USE DEF TypeOK, State, NoState, Final, CallsOK, Reached, Pending, Filed
<1>g. GivenUp(g) => GivenUp(g)'
  BY GivenUpNext
<1>1. ASSUME NEW c \in Call, Fails(c)
     PROVE  Reached(q, g)'
  <2>1. mode[on[c]] = "manual" => op[c] # "complete"
    BY <1>1 DEF Fails, MayFail, LinksOK
  <2>2. st' = st
    BY <1>1, <2>1 DEF Fails
  <2>. QED BY <1>1, <1>g, <2>2
       DEF Fails, MayFail, Answer, Goto, flowVars, callVars, payVars
<1>2. ASSUME NEW c \in Call, Prepare(c)
     PROVE  Reached(q, g)'
  <2>1. on' = on /\ mode' = mode /\ stored' = stored /\ st' = st
       /\ chargedFor' = chargedFor /\ pc[c] = "prepare"
    BY <1>2 DEF Prepare, flowVars, callVars, payVars
  <2>2. \A d \in Call : d # c => pc'[d] = pc[d] /\ kept'[d] = kept[d]
    BY <1>2 DEF Prepare, Goto
  <2>3. Pending(q, g) => Pending(q, g)'
    BY <2>1, <2>2
  <2>. QED BY <1>g, <2>1, <2>3
<1>3. ASSUME NEW c \in Call, Charge(c)
     PROVE  Reached(q, g)'
  <2>1. PICK s \in Ref : chargedFor[s] = NoFlow
       /\ chargedFor' = [chargedFor EXCEPT ![s] = on[c]]
       /\ kept' = [kept EXCEPT ![c].charge = s]
    BY <1>3 DEF Charge
  <2>2. mode' = mode /\ stored' = stored /\ st' = st /\ on' = on /\ pc[c] = "charge"
    BY <1>3 DEF Charge, flowVars, callVars, payVars
  <2>3. \A d \in Call : d # c => pc'[d] = pc[d] /\ kept'[d] = kept[d]
    BY <1>3, <2>1 DEF Charge, Goto
  <2>4. CASE q # s
    BY <1>g, <2>1, <2>2, <2>3, <2>4
  <2>5. ASSUME q = s PROVE kept'[c].charge = q
    BY <2>1, <2>5
  <2>6. mode[on[c]] = "manual" => pc'[c] = "put"
    BY <1>3 DEF Charge, Goto
  <2>7. CASE q = s
    BY <2>1, <2>2, <2>5, <2>6, <2>7
  <2>. QED BY <2>4, <2>7
<1>4. ASSUME NEW c \in Call, Put(c)
     PROVE  Reached(q, g)'
  <2>1. on' = on /\ mode' = mode /\ kept' = kept /\ chargedFor' = chargedFor
       /\ pc[c] = "put" /\ on[c] \in Flow
    BY <1>4 DEF Put, flowVars, callVars, payVars
  <2>2. stored' = stored \cup {on[c]} /\ st' = [st EXCEPT ![on[c]] = kept[c]]
    BY <1>4 DEF Put
  <2>3. \A d \in Call : d # c => pc'[d] = pc[d]
    BY <1>4 DEF Put, Answer, Goto
  <2>4. on[c] \notin stored
    BY <2>1 DEF FlowsOK, Owns
  <2>5. Filed(q, g) => Filed(q, g)'
    BY <2>2, <2>4
  <2>6. Pending(q, g) => Pending(q, g)' \/ Filed(q, g)'
    BY <2>1, <2>2, <2>3
  <2>. QED BY <1>g, <2>1, <2>5, <2>6
<1>5. ASSUME NEW c \in Call, Resent(c)
     PROVE  Reached(q, g)'
  <2>1. mode[on[c]] = "link"
    BY <1>5 DEF Resent, LinksOK
  <2>2. mode[g] = "manual" => st'[g] = st[g]
    BY <1>5, <2>1 DEF Resent
  <2>. QED BY <1>5, <1>g, <2>2 DEF Resent, Answer, Goto, flowVars, callVars, payVars
<1>6. ASSUME NEW c \in Call, Branch(c)
     PROVE  Reached(q, g)'
  BY <1>6, <1>g DEF Branch, Goto, Answer, flowVars, callVars, payVars
<1>7. ASSUME NEW c \in Call, Verify(c)
     PROVE  Reached(q, g)'
  BY <1>7, <1>g DEF Verify, Goto, Answer, flowVars, callVars, payVars
<1>8. ASSUME NEW c \in Call, Validate(c)
     PROVE  Reached(q, g)'
  BY <1>8, <1>g DEF Validate, Goto, Answer, flowVars, callVars, payVars
<1>9. ASSUME NEW c \in Call, Process(c)
     PROVE  Reached(q, g)'
  BY <1>9, <1>g DEF Process, Goto, Answer, flowVars, callVars, payVars
<1>10. ASSUME NEW c \in Call, Poll(c)
     PROVE  Reached(q, g)'
  BY <1>10, <1>g DEF Poll, Goto, Answer, flowVars, callVars, payVars
<1>11. ASSUME NEW c \in Call, Pop(c)
     PROVE  Reached(q, g)'
  <2>1. on[c] = g /\ mode[g] = "manual" => GivenUp(g)
    BY <1>11 DEF Pop, GivenUp
  <2>. QED BY <1>11, <1>g, <2>1 DEF Pop, Goto, flowVars, callVars, payVars
<1>12. ASSUME NEW c \in Call, Close(c)
     PROVE  Reached(q, g)'
  BY <1>12, <1>g DEF Close, Goto, Answer, flowVars, callVars, payVars
<1>13. ASSUME NEW c \in Call, NEW f \in Flow, NEW m \in Modes, StartPayment(c, f, m)
     PROVE  Reached(q, g)'
  BY <1>13, <1>g, ModesAssumption
       DEF StartPayment, Goto, Answer, flowVars, callVars, payVars, FlowsOK,
       Uncharged
<1>14. ASSUME NEW c \in Call, NEW f \in Flow, NEW otp \in BOOLEAN, Complete(c, f,
     otp)
     PROVE  Reached(q, g)'
  BY <1>14, <1>g DEF Complete, Calls, Known, Told, Goto, Answer, flowVars,
       callVars, payVars
<1>15. ASSUME NEW c \in Call, NEW f \in Flow, Resend(c, f)
     PROVE  Reached(q, g)'
  BY <1>15, <1>g DEF Resend, Calls, Known, Told, Goto, Answer, flowVars,
       callVars, payVars
<1>16. ASSUME NEW c \in Call, NEW f \in Flow, Confirm(c, f)
     PROVE  Reached(q, g)'
  BY <1>16, <1>g DEF Confirm, Calls, Known, Told, Goto, Answer, flowVars,
       callVars, payVars
<1>17. ASSUME NEW c \in Call, NEW f \in Flow, Cancel(c, f)
     PROVE  Reached(q, g)'
  BY <1>17, <1>g DEF Cancel, Calls, Known, Told, Goto, Answer, flowVars,
       callVars, payVars
<1>18. ASSUME NEW r \in Ref, PayByHand(r)
     PROVE  Reached(q, g)'
  BY <1>18, <1>g DEF PayByHand, Told, flowVars, callVars, payVars
<1>19. ASSUME NEW t \in Token, Settle(t)
     PROVE  Reached(q, g)'
  BY <1>19, <1>g DEF Settle, flowVars, callVars, payVars
<1>20. ASSUME NEW t \in Token, Expire(t)
     PROVE  Reached(q, g)'
  BY <1>20, <1>g DEF Expire, flowVars, callVars, payVars
<1>21. ASSUME Restart
     PROVE  Reached(q, g)'
  BY <1>21 DEF Restart, Final, flowVars, callVars, payVars, GivenUp
<1>u. CASE UNCHANGED vars
  BY <1>u, <1>g DEF vars, flowVars, callVars, payVars
<1> HIDE DEF TypeOK, State, NoState, Final, CallsOK, Reached, Pending, Filed
<1>. QED BY <1>1, <1>2, <1>3, <1>4, <1>5, <1>6, <1>7, <1>8, <1>9, <1>10,
            <1>11, <1>12, <1>13, <1>14, <1>15, <1>16, <1>17, <1>18, <1>19,
            <1>20, <1>21, <1>u
       DEF Next, Handler, Caller, Environment


\* The initial state.
LEMMA FlowInit == Init => FlowInv
<1> SUFFICES ASSUME Init PROVE FlowInv
  OBVIOUS
<1>1. TypeOK
  BY DEF Init, TypeOK, State, NoState, Labels, Ops, Answers, Final
<1>2. CallsOK /\ StartsAlone
  BY DEF Init, CallsOK, StartsAlone, Final
<1>3. FlowsOK
  BY NamesAssumption DEF Init, FlowsOK, Uncharged, Owns
<1>4. ChargesOK /\ LinksOK
  BY DEF Init, ChargesOK, LinksOK, NoState
<1>5. StartUncharged
  BY DEF Init, StartUncharged
<1>6. ByHand
  BY NamesAssumption DEF Init, ByHand, Reached
<1>7. SettledAnswerIsTrue /\ SessionOwned /\ StateKept
  BY DEF Init, SettledAnswerIsTrue, SessionOwned, StateKept
<1>. QED BY <1>1, <1>2, <1>3, <1>4, <1>5, <1>6, <1>7 DEF FlowInv

\* Every step keeps the inductive invariant.
LEMMA FlowNext == FlowInv /\ [Next]_vars => FlowInv'
<1> SUFFICES ASSUME FlowInv, [Next]_vars PROVE FlowInv'
  OBVIOUS
<1> USE DEF FlowInv
<1>1. TypeOK' /\ CallsOK' /\ StartsAlone'
  BY TypeNext, CallsNext, StartsNext
<1>2. FlowsOK' /\ ChargesOK' /\ LinksOK'
  BY FlowsNext, ChargesNext, LinksNext
<1>3. StartUncharged' /\ SettledAnswerIsTrue' /\ SessionOwned' /\ StateKept'
  BY UnchargedNext, SettledNext, SessionNext, StateNext
<1>4. ByHand'
  BY ReachedNext DEF ByHand
<1>. QED BY <1>1, <1>2, <1>3, <1>4

\* A call that is about to file a flow holds an unpaid reference, so a paid
\* one is in the map or given up.
LEMMA PaidReached == FlowInv => PaidByHandIsConfirmable
<1> SUFFICES ASSUME FlowInv, NEW r \in paid, mode[chargedFor[r]] = "manual"
             PROVE  LET f == chargedFor[r] IN
                      \/ f \in stored /\ st[f].charge = r
                      \/ restarted
                      \/ \E c \in Call : on[c] = f
                           /\ answer[c] \in {"settled", "cancelled"}
  BY DEF PaidByHandIsConfirmable
<1>1. r \in Ref /\ chargedFor[r] \in Flow
  BY DEF FlowInv, TypeOK, ChargesOK
<1>2. ~Pending(r, chargedFor[r])
  BY DEF FlowInv, StartUncharged, Pending
<1>3. Reached(r, chargedFor[r])
  BY <1>1 DEF FlowInv, ByHand
<1>. QED BY <1>1, <1>2, <1>3 DEF Reached, Filed, GivenUp

LEMMA FlowInvariant == Spec => []FlowInv
BY FlowInit, FlowNext, PTL DEF Spec

\* The server's, the calls' and the providers' state keep their types.
THEOREM TypeCorrect == Spec => []TypeOK
<1>1. FlowInv => TypeOK
  BY DEF FlowInv
<1>. QED BY <1>1, FlowInvariant, PTL

\* A caller told "settled" has a settled transaction, and a linked payment's
\* own charge is paid.
THEOREM SettledCorrect == Spec => []SettledAnswerIsTrue
<1>1. FlowInv => SettledAnswerIsTrue
  BY DEF FlowInv
<1>. QED BY <1>1, FlowInvariant, PTL

\* Whatever calls race and wherever they fail, a session has one owner and is
\* closed at most once.
THEOREM SessionsCorrect == Spec => []SessionOwned
<1>1. FlowInv => SessionOwned
  BY DEF FlowInv
<1>. QED BY <1>1, FlowInvariant, PTL

\* No failed completion and no late resend damages a flow in the map.
THEOREM StateKeptCorrect == Spec => []StateKept
<1>1. FlowInv => StateKept
  BY DEF FlowInv
<1>. QED BY <1>1, FlowInvariant, PTL

\* What was paid by hand can be confirmed until it is given up.
THEOREM PaidByHandCorrect == Spec => []PaidByHandIsConfirmable
BY PaidReached, FlowInvariant, PTL

-----------------------------------------------------------------------------
(* One charge per flow.                                                      *)

\* Calls under way have flows of their own.
Alone ==
  \A c, d \in Call :
    (pc[c] \notin Final /\ pc[d] \notin Final /\ on[c] = on[d]) => c = d

\* What is about to be charged has no charge yet; a completion or a resend
\* under way keeps its flow in the map.
ToCharge(c, f) ==
  on[c] = f =>
    /\ pc[c] \in {"prepare", "charge", "verify"} => Uncharged(f)
    /\ (pc[c] = "put" /\ kept[c].otp) => Uncharged(f)
    /\ (pc[c] = "charge" /\ op[c] = "start") => ~kept[c].otp
    /\ pc[c] \in {"branch", "resend"} => f \in stored
    /\ pc[c] = "resend" => Told(f, "otp")

\* A completion that has its charge and will remove the flow.
Removing(f) ==
  \E c \in Call : /\ on[c] = f /\ op[c] = "complete"
                  /\ pc[c] \in {"validate", "process", "poll", "pop"}

\* A flow in the map for which a code was asked goes on asking for it, and one
\* that asks for a code is uncharged or being removed.
CodesOK(f) ==
  f \in stored => /\ Told(f, "otp") => st[f].otp
                  /\ st[f].otp => Uncharged(f) \/ Removing(f)

ChargeInv ==
  /\ FlowInv /\ Alone /\ OneChargePerFlow
  /\ \A f \in Flow : CodesOK(f) /\ \A c \in Call : ToCharge(c, f)

\* Every step leaves calls under way on flows of their own.
LEMMA AloneNext ==
  ASSUME Exclusive, TypeOK, CallsOK, Alone, [Next]_vars
  PROVE  Alone'
<1> USE DEF TypeOK, State, NoState, Final, CallsOK, Alone
<1>1. ASSUME NEW c \in Call, Fails(c)
     PROVE  Alone'
  BY <1>1 DEF Fails, MayFail, Goto, Answer, flowVars, callVars, payVars
<1>2. ASSUME NEW c \in Call, Prepare(c)
     PROVE  Alone'
  BY <1>2 DEF Prepare, Goto, Answer, flowVars, callVars, payVars
<1>3. ASSUME NEW c \in Call, Charge(c)
     PROVE  Alone'
  BY <1>3 DEF Charge, Goto, Answer, flowVars, callVars, payVars
<1>4. ASSUME NEW c \in Call, Put(c)
     PROVE  Alone'
  BY <1>4 DEF Put, Goto, Answer, flowVars, callVars, payVars
<1>5. ASSUME NEW c \in Call, Resent(c)
     PROVE  Alone'
  BY <1>5 DEF Resent, Goto, Answer, flowVars, callVars, payVars
<1>6. ASSUME NEW c \in Call, Branch(c)
     PROVE  Alone'
  <2>1. on' = on /\ pc[c] = "branch" /\ \A d \in Call : d # c => pc'[d] = pc[d]
    BY <1>6 DEF Branch, Goto, Answer, flowVars, callVars, payVars
  <2>. QED BY <2>1
<1>7. ASSUME NEW c \in Call, Verify(c)
     PROVE  Alone'
  BY <1>7 DEF Verify, Goto, Answer, flowVars, callVars, payVars
<1>8. ASSUME NEW c \in Call, Validate(c)
     PROVE  Alone'
  BY <1>8 DEF Validate, Goto, Answer, flowVars, callVars, payVars
<1>9. ASSUME NEW c \in Call, Process(c)
     PROVE  Alone'
  BY <1>9 DEF Process, Goto, Answer, flowVars, callVars, payVars
<1>10. ASSUME NEW c \in Call, Poll(c)
     PROVE  Alone'
  BY <1>10 DEF Poll, Goto, Answer, flowVars, callVars, payVars
<1>11. ASSUME NEW c \in Call, Pop(c)
     PROVE  Alone'
  BY <1>11 DEF Pop, Goto, Answer, flowVars, callVars, payVars
<1>12. ASSUME NEW c \in Call, Close(c)
     PROVE  Alone'
  BY <1>12 DEF Close, Goto, Answer, flowVars, callVars, payVars
<1>13. ASSUME NEW c \in Call, NEW f \in Flow, NEW m \in Modes, StartPayment(c, f, m)
     PROVE  Alone'
  <2>1. \A d \in Call : on[d] # f
    BY <1>13, NamesAssumption DEF StartPayment
  <2>. QED BY <1>13, <2>1 DEF StartPayment, Goto, flowVars, callVars, payVars
<1>14. ASSUME NEW c \in Call, NEW f \in Flow, NEW otp \in BOOLEAN, Complete(c, f,
     otp)
     PROVE  Alone'
  BY <1>14 DEF Complete, Calls, Known, Told, Goto, Answer, flowVars, callVars,
       payVars
<1>15. ASSUME NEW c \in Call, NEW f \in Flow, Resend(c, f)
     PROVE  Alone'
  BY <1>15 DEF Resend, Calls, Known, Told, Goto, Answer, flowVars, callVars, payVars
<1>16. ASSUME NEW c \in Call, NEW f \in Flow, Confirm(c, f)
     PROVE  Alone'
  BY <1>16 DEF Confirm, Calls, Known, Told, Goto, Answer, flowVars, callVars,
       payVars
<1>17. ASSUME NEW c \in Call, NEW f \in Flow, Cancel(c, f)
     PROVE  Alone'
  BY <1>17 DEF Cancel, Calls, Known, Told, Goto, Answer, flowVars, callVars, payVars
<1>18. ASSUME NEW r \in Ref, PayByHand(r)
     PROVE  Alone'
  BY <1>18 DEF PayByHand, Told, flowVars, callVars, payVars
<1>19. ASSUME NEW t \in Token, Settle(t)
     PROVE  Alone'
  BY <1>19 DEF Settle, flowVars, callVars, payVars
<1>20. ASSUME NEW t \in Token, Expire(t)
     PROVE  Alone'
  BY <1>20 DEF Expire, flowVars, callVars, payVars
<1>21. ASSUME Restart
     PROVE  Alone'
  BY <1>21 DEF Restart, Final, flowVars, callVars, payVars
<1>u. CASE UNCHANGED vars
  BY <1>u DEF vars, flowVars, callVars, payVars
<1> HIDE DEF TypeOK, State, NoState, Final, CallsOK, Alone
<1>. QED BY <1>1, <1>2, <1>3, <1>4, <1>5, <1>6, <1>7, <1>8, <1>9, <1>10,
            <1>11, <1>12, <1>13, <1>14, <1>15, <1>16, <1>17, <1>18, <1>19,
            <1>20, <1>21, <1>u
       DEF Next, Handler, Caller, Environment

\* Every step leaves a flow with one charge at most.
LEMMA OneNext ==
  ASSUME TypeOK, CallsOK, \A c \in Call, f \in Flow : ToCharge(c, f),
       OneChargePerFlow, [Next]_vars
  PROVE  OneChargePerFlow'
<1> USE DEF TypeOK, State, NoState, Final, CallsOK, ToCharge, Uncharged,
     OneChargePerFlow
<1>1. ASSUME NEW c \in Call, Fails(c)
     PROVE  OneChargePerFlow'
  BY <1>1 DEF Fails, MayFail, Goto, Answer, flowVars, callVars, payVars
<1>2. ASSUME NEW c \in Call, Prepare(c)
     PROVE  OneChargePerFlow'
  BY <1>2 DEF Prepare, Goto, Answer, flowVars, callVars, payVars
<1>3. ASSUME NEW c \in Call, Charge(c)
     PROVE  OneChargePerFlow'
  <2>1. PICK r \in Ref : chargedFor[r] = NoFlow
       /\ chargedFor' = [chargedFor EXCEPT ![r] = on[c]]
    BY <1>3 DEF Charge
  <2>2. on[c] \in Flow /\ \A s \in Ref : chargedFor[s] # on[c]
    BY <1>3 DEF Charge
  <2>. QED BY <2>1, <2>2
<1>4. ASSUME NEW c \in Call, Put(c)
     PROVE  OneChargePerFlow'
  BY <1>4 DEF Put, Goto, Answer, flowVars, callVars, payVars
<1>5. ASSUME NEW c \in Call, Resent(c)
     PROVE  OneChargePerFlow'
  BY <1>5 DEF Resent, Goto, Answer, flowVars, callVars, payVars
<1>6. ASSUME NEW c \in Call, Branch(c)
     PROVE  OneChargePerFlow'
  BY <1>6 DEF Branch, Goto, Answer, flowVars, callVars, payVars
<1>7. ASSUME NEW c \in Call, Verify(c)
     PROVE  OneChargePerFlow'
  BY <1>7 DEF Verify, Goto, Answer, flowVars, callVars, payVars
<1>8. ASSUME NEW c \in Call, Validate(c)
     PROVE  OneChargePerFlow'
  BY <1>8 DEF Validate, Goto, Answer, flowVars, callVars, payVars
<1>9. ASSUME NEW c \in Call, Process(c)
     PROVE  OneChargePerFlow'
  BY <1>9 DEF Process, Goto, Answer, flowVars, callVars, payVars
<1>10. ASSUME NEW c \in Call, Poll(c)
     PROVE  OneChargePerFlow'
  BY <1>10 DEF Poll, Goto, Answer, flowVars, callVars, payVars
<1>11. ASSUME NEW c \in Call, Pop(c)
     PROVE  OneChargePerFlow'
  BY <1>11 DEF Pop, Goto, Answer, flowVars, callVars, payVars
<1>12. ASSUME NEW c \in Call, Close(c)
     PROVE  OneChargePerFlow'
  BY <1>12 DEF Close, Goto, Answer, flowVars, callVars, payVars
<1>13. ASSUME NEW c \in Call, NEW f \in Flow, NEW m \in Modes, StartPayment(c, f, m)
     PROVE  OneChargePerFlow'
  BY <1>13 DEF StartPayment, Goto, Answer, flowVars, callVars, payVars
<1>14. ASSUME NEW c \in Call, NEW f \in Flow, NEW otp \in BOOLEAN, Complete(c, f,
     otp)
     PROVE  OneChargePerFlow'
  BY <1>14 DEF Complete, Calls, Known, Told, Goto, Answer, flowVars, callVars,
       payVars
<1>15. ASSUME NEW c \in Call, NEW f \in Flow, Resend(c, f)
     PROVE  OneChargePerFlow'
  BY <1>15 DEF Resend, Calls, Known, Told, Goto, Answer, flowVars, callVars, payVars
<1>16. ASSUME NEW c \in Call, NEW f \in Flow, Confirm(c, f)
     PROVE  OneChargePerFlow'
  BY <1>16 DEF Confirm, Calls, Known, Told, Goto, Answer, flowVars, callVars,
       payVars
<1>17. ASSUME NEW c \in Call, NEW f \in Flow, Cancel(c, f)
     PROVE  OneChargePerFlow'
  BY <1>17 DEF Cancel, Calls, Known, Told, Goto, Answer, flowVars, callVars, payVars
<1>18. ASSUME NEW r \in Ref, PayByHand(r)
     PROVE  OneChargePerFlow'
  BY <1>18 DEF PayByHand, Told, flowVars, callVars, payVars
<1>19. ASSUME NEW t \in Token, Settle(t)
     PROVE  OneChargePerFlow'
  BY <1>19 DEF Settle, flowVars, callVars, payVars
<1>20. ASSUME NEW t \in Token, Expire(t)
     PROVE  OneChargePerFlow'
  BY <1>20 DEF Expire, flowVars, callVars, payVars
<1>21. ASSUME Restart
     PROVE  OneChargePerFlow'
  BY <1>21 DEF Restart, Final, flowVars, callVars, payVars
<1>u. CASE UNCHANGED vars
  BY <1>u DEF vars, flowVars, callVars, payVars
<1> HIDE DEF TypeOK, State, NoState, Final, CallsOK, ToCharge, Uncharged,
     OneChargePerFlow
<1>. QED BY <1>1, <1>2, <1>3, <1>4, <1>5, <1>6, <1>7, <1>8, <1>9, <1>10,
            <1>11, <1>12, <1>13, <1>14, <1>15, <1>16, <1>17, <1>18, <1>19,
            <1>20, <1>21, <1>u
       DEF Next, Handler, Caller, Environment

\* A caller that was told that a code is needed remains told.
LEMMA ToldNext ==
  ASSUME TypeOK, NEW g \in Flow, Told(g, "otp"), [Next]_vars
  PROVE  Told(g, "otp")'
<1> USE DEF TypeOK, State, NoState, Final, Told
<1>1. ASSUME NEW c \in Call, Fails(c)
     PROVE  Told(g, "otp")'
  BY <1>1 DEF Fails, MayFail, Goto, Answer, flowVars, callVars, payVars
<1>2. ASSUME NEW c \in Call, Prepare(c)
     PROVE  Told(g, "otp")'
  BY <1>2 DEF Prepare, Goto, Answer, flowVars, callVars, payVars
<1>3. ASSUME NEW c \in Call, Charge(c)
     PROVE  Told(g, "otp")'
  BY <1>3 DEF Charge, Goto, Answer, flowVars, callVars, payVars
<1>4. ASSUME NEW c \in Call, Put(c)
     PROVE  Told(g, "otp")'
  BY <1>4 DEF Put, Goto, Answer, flowVars, callVars, payVars
<1>5. ASSUME NEW c \in Call, Resent(c)
     PROVE  Told(g, "otp")'
  BY <1>5 DEF Resent, Goto, Answer, flowVars, callVars, payVars
<1>6. ASSUME NEW c \in Call, Branch(c)
     PROVE  Told(g, "otp")'
  BY <1>6 DEF Branch, Goto, Answer, flowVars, callVars, payVars
<1>7. ASSUME NEW c \in Call, Verify(c)
     PROVE  Told(g, "otp")'
  BY <1>7 DEF Verify, Goto, Answer, flowVars, callVars, payVars
<1>8. ASSUME NEW c \in Call, Validate(c)
     PROVE  Told(g, "otp")'
  BY <1>8 DEF Validate, Goto, Answer, flowVars, callVars, payVars
<1>9. ASSUME NEW c \in Call, Process(c)
     PROVE  Told(g, "otp")'
  BY <1>9 DEF Process, Goto, Answer, flowVars, callVars, payVars
<1>10. ASSUME NEW c \in Call, Poll(c)
     PROVE  Told(g, "otp")'
  BY <1>10 DEF Poll, Goto, Answer, flowVars, callVars, payVars
<1>11. ASSUME NEW c \in Call, Pop(c)
     PROVE  Told(g, "otp")'
  BY <1>11 DEF Pop, Goto, Answer, flowVars, callVars, payVars
<1>12. ASSUME NEW c \in Call, Close(c)
     PROVE  Told(g, "otp")'
  BY <1>12 DEF Close, Goto, Answer, flowVars, callVars, payVars
<1>13. ASSUME NEW c \in Call, NEW f \in Flow, NEW m \in Modes, StartPayment(c, f, m)
     PROVE  Told(g, "otp")'
  BY <1>13 DEF StartPayment, Goto, Answer, flowVars, callVars, payVars
<1>14. ASSUME NEW c \in Call, NEW f \in Flow, NEW otp \in BOOLEAN, Complete(c, f,
     otp)
     PROVE  Told(g, "otp")'
  BY <1>14 DEF Complete, Calls, Known, Told, Goto, Answer, flowVars, callVars,
       payVars
<1>15. ASSUME NEW c \in Call, NEW f \in Flow, Resend(c, f)
     PROVE  Told(g, "otp")'
  BY <1>15 DEF Resend, Calls, Known, Told, Goto, Answer, flowVars, callVars, payVars
<1>16. ASSUME NEW c \in Call, NEW f \in Flow, Confirm(c, f)
     PROVE  Told(g, "otp")'
  BY <1>16 DEF Confirm, Calls, Known, Told, Goto, Answer, flowVars, callVars,
       payVars
<1>17. ASSUME NEW c \in Call, NEW f \in Flow, Cancel(c, f)
     PROVE  Told(g, "otp")'
  BY <1>17 DEF Cancel, Calls, Known, Told, Goto, Answer, flowVars, callVars, payVars
<1>18. ASSUME NEW r \in Ref, PayByHand(r)
     PROVE  Told(g, "otp")'
  BY <1>18 DEF PayByHand, Told, flowVars, callVars, payVars
<1>19. ASSUME NEW t \in Token, Settle(t)
     PROVE  Told(g, "otp")'
  BY <1>19 DEF Settle, flowVars, callVars, payVars
<1>20. ASSUME NEW t \in Token, Expire(t)
     PROVE  Told(g, "otp")'
  BY <1>20 DEF Expire, flowVars, callVars, payVars
<1>21. ASSUME Restart
     PROVE  Told(g, "otp")'
  BY <1>21 DEF Restart, Final, flowVars, callVars, payVars
<1>u. CASE UNCHANGED vars
  BY <1>u DEF vars, flowVars, callVars, payVars
<1> HIDE DEF TypeOK, State, NoState, Final, Told
<1>. QED BY <1>1, <1>2, <1>3, <1>4, <1>5, <1>6, <1>7, <1>8, <1>9, <1>10,
            <1>11, <1>12, <1>13, <1>14, <1>15, <1>16, <1>17, <1>18, <1>19,
            <1>20, <1>21, <1>u
       DEF Next, Handler, Caller, Environment

\* Only a start tells that a code is needed.
LEMMA ToldOnly ==
  ASSUME TypeOK, CallsOK, NEW g \in Flow, [Next]_vars
  PROVE  (Told(g, "otp")' => Told(g, "otp") \/ \E d \in Call : pc[d] = "put"
       /\ pc'[d] = "done" /\ on[d] = g /\ kept[d].otp)
<1> USE DEF TypeOK, State, NoState, Final, CallsOK, Told
<1>1. ASSUME NEW c \in Call, Fails(c)
     PROVE  (Told(g, "otp")' => Told(g, "otp")
          \/ \E d \in Call : pc[d] = "put" /\ pc'[d] = "done" /\ on[d] = g
          /\ kept[d].otp)
  BY <1>1 DEF Fails, MayFail, Goto, Answer, flowVars, callVars, payVars
<1>2. ASSUME NEW c \in Call, Prepare(c)
     PROVE  (Told(g, "otp")' => Told(g, "otp")
          \/ \E d \in Call : pc[d] = "put" /\ pc'[d] = "done" /\ on[d] = g
          /\ kept[d].otp)
  BY <1>2 DEF Prepare, Goto, Answer, flowVars, callVars, payVars
<1>3. ASSUME NEW c \in Call, Charge(c)
     PROVE  (Told(g, "otp")' => Told(g, "otp")
          \/ \E d \in Call : pc[d] = "put" /\ pc'[d] = "done" /\ on[d] = g
          /\ kept[d].otp)
  BY <1>3 DEF Charge, Goto, Answer, flowVars, callVars, payVars
<1>4. ASSUME NEW c \in Call, Put(c)
     PROVE  (Told(g, "otp")' => Told(g, "otp")
          \/ \E d \in Call : pc[d] = "put" /\ pc'[d] = "done" /\ on[d] = g
          /\ kept[d].otp)
  BY <1>4 DEF Put, Goto, Answer, flowVars, callVars, payVars
<1>5. ASSUME NEW c \in Call, Resent(c)
     PROVE  (Told(g, "otp")' => Told(g, "otp")
          \/ \E d \in Call : pc[d] = "put" /\ pc'[d] = "done" /\ on[d] = g
          /\ kept[d].otp)
  BY <1>5 DEF Resent, Goto, Answer, flowVars, callVars, payVars
<1>6. ASSUME NEW c \in Call, Branch(c)
     PROVE  (Told(g, "otp")' => Told(g, "otp")
          \/ \E d \in Call : pc[d] = "put" /\ pc'[d] = "done" /\ on[d] = g
          /\ kept[d].otp)
  BY <1>6 DEF Branch, Goto, Answer, flowVars, callVars, payVars
<1>7. ASSUME NEW c \in Call, Verify(c)
     PROVE  (Told(g, "otp")' => Told(g, "otp")
          \/ \E d \in Call : pc[d] = "put" /\ pc'[d] = "done" /\ on[d] = g
          /\ kept[d].otp)
  BY <1>7 DEF Verify, Goto, Answer, flowVars, callVars, payVars
<1>8. ASSUME NEW c \in Call, Validate(c)
     PROVE  (Told(g, "otp")' => Told(g, "otp")
          \/ \E d \in Call : pc[d] = "put" /\ pc'[d] = "done" /\ on[d] = g
          /\ kept[d].otp)
  BY <1>8 DEF Validate, Goto, Answer, flowVars, callVars, payVars
<1>9. ASSUME NEW c \in Call, Process(c)
     PROVE  (Told(g, "otp")' => Told(g, "otp")
          \/ \E d \in Call : pc[d] = "put" /\ pc'[d] = "done" /\ on[d] = g
          /\ kept[d].otp)
  BY <1>9 DEF Process, Goto, Answer, flowVars, callVars, payVars
<1>10. ASSUME NEW c \in Call, Poll(c)
     PROVE  (Told(g, "otp")' => Told(g, "otp")
          \/ \E d \in Call : pc[d] = "put" /\ pc'[d] = "done" /\ on[d] = g
          /\ kept[d].otp)
  BY <1>10 DEF Poll, Goto, Answer, flowVars, callVars, payVars
<1>11. ASSUME NEW c \in Call, Pop(c)
     PROVE  (Told(g, "otp")' => Told(g, "otp")
          \/ \E d \in Call : pc[d] = "put" /\ pc'[d] = "done" /\ on[d] = g
          /\ kept[d].otp)
  BY <1>11 DEF Pop, Goto, Answer, flowVars, callVars, payVars
<1>12. ASSUME NEW c \in Call, Close(c)
     PROVE  (Told(g, "otp")' => Told(g, "otp")
          \/ \E d \in Call : pc[d] = "put" /\ pc'[d] = "done" /\ on[d] = g
          /\ kept[d].otp)
  BY <1>12 DEF Close, Goto, Answer, flowVars, callVars, payVars
<1>13. ASSUME NEW c \in Call, NEW f \in Flow, NEW m \in Modes, StartPayment(c, f, m)
     PROVE  (Told(g, "otp")' => Told(g, "otp")
          \/ \E d \in Call : pc[d] = "put" /\ pc'[d] = "done" /\ on[d] = g
          /\ kept[d].otp)
  BY <1>13 DEF StartPayment, Goto, Answer, flowVars, callVars, payVars
<1>14. ASSUME NEW c \in Call, NEW f \in Flow, NEW otp \in BOOLEAN, Complete(c, f,
     otp)
     PROVE  (Told(g, "otp")' => Told(g, "otp")
          \/ \E d \in Call : pc[d] = "put" /\ pc'[d] = "done" /\ on[d] = g
          /\ kept[d].otp)
  BY <1>14 DEF Complete, Calls, Known, Told, Goto, Answer, flowVars, callVars,
       payVars
<1>15. ASSUME NEW c \in Call, NEW f \in Flow, Resend(c, f)
     PROVE  (Told(g, "otp")' => Told(g, "otp")
          \/ \E d \in Call : pc[d] = "put" /\ pc'[d] = "done" /\ on[d] = g
          /\ kept[d].otp)
  BY <1>15 DEF Resend, Calls, Known, Told, Goto, Answer, flowVars, callVars, payVars
<1>16. ASSUME NEW c \in Call, NEW f \in Flow, Confirm(c, f)
     PROVE  (Told(g, "otp")' => Told(g, "otp")
          \/ \E d \in Call : pc[d] = "put" /\ pc'[d] = "done" /\ on[d] = g
          /\ kept[d].otp)
  BY <1>16 DEF Confirm, Calls, Known, Told, Goto, Answer, flowVars, callVars,
       payVars
<1>17. ASSUME NEW c \in Call, NEW f \in Flow, Cancel(c, f)
     PROVE  (Told(g, "otp")' => Told(g, "otp")
          \/ \E d \in Call : pc[d] = "put" /\ pc'[d] = "done" /\ on[d] = g
          /\ kept[d].otp)
  BY <1>17 DEF Cancel, Calls, Known, Told, Goto, Answer, flowVars, callVars, payVars
<1>18. ASSUME NEW r \in Ref, PayByHand(r)
     PROVE  (Told(g, "otp")' => Told(g, "otp")
          \/ \E d \in Call : pc[d] = "put" /\ pc'[d] = "done" /\ on[d] = g
          /\ kept[d].otp)
  BY <1>18 DEF PayByHand, Told, flowVars, callVars, payVars
<1>19. ASSUME NEW t \in Token, Settle(t)
     PROVE  (Told(g, "otp")' => Told(g, "otp")
          \/ \E d \in Call : pc[d] = "put" /\ pc'[d] = "done" /\ on[d] = g
          /\ kept[d].otp)
  BY <1>19 DEF Settle, flowVars, callVars, payVars
<1>20. ASSUME NEW t \in Token, Expire(t)
     PROVE  (Told(g, "otp")' => Told(g, "otp")
          \/ \E d \in Call : pc[d] = "put" /\ pc'[d] = "done" /\ on[d] = g
          /\ kept[d].otp)
  BY <1>20 DEF Expire, flowVars, callVars, payVars
<1>21. ASSUME Restart
     PROVE  (Told(g, "otp")' => Told(g, "otp")
          \/ \E d \in Call : pc[d] = "put" /\ pc'[d] = "done" /\ on[d] = g
          /\ kept[d].otp)
  BY <1>21 DEF Restart, Final, flowVars, callVars, payVars
<1>u. CASE UNCHANGED vars
  BY <1>u DEF vars, flowVars, callVars, payVars
<1> HIDE DEF TypeOK, State, NoState, Final, CallsOK, Told
<1>. QED BY <1>1, <1>2, <1>3, <1>4, <1>5, <1>6, <1>7, <1>8, <1>9, <1>10,
            <1>11, <1>12, <1>13, <1>14, <1>15, <1>16, <1>17, <1>18, <1>19,
            <1>20, <1>21, <1>u
       DEF Next, Handler, Caller, Environment

\* Only Charge charges a flow.
LEMMA UnchargedOnly ==
  ASSUME TypeOK, NEW g \in Flow, Uncharged(g), [Next]_vars
  PROVE  (Uncharged(g)' \/ \E d \in Call : pc[d] = "charge"
       /\ pc'[d] \in {"put", "validate"} /\ on[d] = g)
<1> USE DEF TypeOK, State, NoState, Final, Uncharged
<1>1. ASSUME NEW c \in Call, Fails(c)
     PROVE  (Uncharged(g)' \/ \E d \in Call : pc[d] = "charge"
          /\ pc'[d] \in {"put", "validate"} /\ on[d] = g)
  BY <1>1 DEF Fails, MayFail, Goto, Answer, flowVars, callVars, payVars
<1>2. ASSUME NEW c \in Call, Prepare(c)
     PROVE  (Uncharged(g)' \/ \E d \in Call : pc[d] = "charge"
          /\ pc'[d] \in {"put", "validate"} /\ on[d] = g)
  BY <1>2 DEF Prepare, Goto, Answer, flowVars, callVars, payVars
<1>3. ASSUME NEW c \in Call, Charge(c)
     PROVE  (Uncharged(g)' \/ \E d \in Call : pc[d] = "charge"
          /\ pc'[d] \in {"put", "validate"} /\ on[d] = g)
  BY <1>3 DEF Charge, Goto, Answer, flowVars, callVars, payVars
<1>4. ASSUME NEW c \in Call, Put(c)
     PROVE  (Uncharged(g)' \/ \E d \in Call : pc[d] = "charge"
          /\ pc'[d] \in {"put", "validate"} /\ on[d] = g)
  BY <1>4 DEF Put, Goto, Answer, flowVars, callVars, payVars
<1>5. ASSUME NEW c \in Call, Resent(c)
     PROVE  (Uncharged(g)' \/ \E d \in Call : pc[d] = "charge"
          /\ pc'[d] \in {"put", "validate"} /\ on[d] = g)
  BY <1>5 DEF Resent, Goto, Answer, flowVars, callVars, payVars
<1>6. ASSUME NEW c \in Call, Branch(c)
     PROVE  (Uncharged(g)' \/ \E d \in Call : pc[d] = "charge"
          /\ pc'[d] \in {"put", "validate"} /\ on[d] = g)
  BY <1>6 DEF Branch, Goto, Answer, flowVars, callVars, payVars
<1>7. ASSUME NEW c \in Call, Verify(c)
     PROVE  (Uncharged(g)' \/ \E d \in Call : pc[d] = "charge"
          /\ pc'[d] \in {"put", "validate"} /\ on[d] = g)
  BY <1>7 DEF Verify, Goto, Answer, flowVars, callVars, payVars
<1>8. ASSUME NEW c \in Call, Validate(c)
     PROVE  (Uncharged(g)' \/ \E d \in Call : pc[d] = "charge"
          /\ pc'[d] \in {"put", "validate"} /\ on[d] = g)
  BY <1>8 DEF Validate, Goto, Answer, flowVars, callVars, payVars
<1>9. ASSUME NEW c \in Call, Process(c)
     PROVE  (Uncharged(g)' \/ \E d \in Call : pc[d] = "charge"
          /\ pc'[d] \in {"put", "validate"} /\ on[d] = g)
  BY <1>9 DEF Process, Goto, Answer, flowVars, callVars, payVars
<1>10. ASSUME NEW c \in Call, Poll(c)
     PROVE  (Uncharged(g)' \/ \E d \in Call : pc[d] = "charge"
          /\ pc'[d] \in {"put", "validate"} /\ on[d] = g)
  BY <1>10 DEF Poll, Goto, Answer, flowVars, callVars, payVars
<1>11. ASSUME NEW c \in Call, Pop(c)
     PROVE  (Uncharged(g)' \/ \E d \in Call : pc[d] = "charge"
          /\ pc'[d] \in {"put", "validate"} /\ on[d] = g)
  BY <1>11 DEF Pop, Goto, Answer, flowVars, callVars, payVars
<1>12. ASSUME NEW c \in Call, Close(c)
     PROVE  (Uncharged(g)' \/ \E d \in Call : pc[d] = "charge"
          /\ pc'[d] \in {"put", "validate"} /\ on[d] = g)
  BY <1>12 DEF Close, Goto, Answer, flowVars, callVars, payVars
<1>13. ASSUME NEW c \in Call, NEW f \in Flow, NEW m \in Modes, StartPayment(c, f, m)
     PROVE  (Uncharged(g)' \/ \E d \in Call : pc[d] = "charge"
          /\ pc'[d] \in {"put", "validate"} /\ on[d] = g)
  BY <1>13 DEF StartPayment, Goto, Answer, flowVars, callVars, payVars
<1>14. ASSUME NEW c \in Call, NEW f \in Flow, NEW otp \in BOOLEAN, Complete(c, f,
     otp)
     PROVE  (Uncharged(g)' \/ \E d \in Call : pc[d] = "charge"
          /\ pc'[d] \in {"put", "validate"} /\ on[d] = g)
  BY <1>14 DEF Complete, Calls, Known, Told, Goto, Answer, flowVars, callVars,
       payVars
<1>15. ASSUME NEW c \in Call, NEW f \in Flow, Resend(c, f)
     PROVE  (Uncharged(g)' \/ \E d \in Call : pc[d] = "charge"
          /\ pc'[d] \in {"put", "validate"} /\ on[d] = g)
  BY <1>15 DEF Resend, Calls, Known, Told, Goto, Answer, flowVars, callVars, payVars
<1>16. ASSUME NEW c \in Call, NEW f \in Flow, Confirm(c, f)
     PROVE  (Uncharged(g)' \/ \E d \in Call : pc[d] = "charge"
          /\ pc'[d] \in {"put", "validate"} /\ on[d] = g)
  BY <1>16 DEF Confirm, Calls, Known, Told, Goto, Answer, flowVars, callVars,
       payVars
<1>17. ASSUME NEW c \in Call, NEW f \in Flow, Cancel(c, f)
     PROVE  (Uncharged(g)' \/ \E d \in Call : pc[d] = "charge"
          /\ pc'[d] \in {"put", "validate"} /\ on[d] = g)
  BY <1>17 DEF Cancel, Calls, Known, Told, Goto, Answer, flowVars, callVars, payVars
<1>18. ASSUME NEW r \in Ref, PayByHand(r)
     PROVE  (Uncharged(g)' \/ \E d \in Call : pc[d] = "charge"
          /\ pc'[d] \in {"put", "validate"} /\ on[d] = g)
  BY <1>18 DEF PayByHand, Told, flowVars, callVars, payVars
<1>19. ASSUME NEW t \in Token, Settle(t)
     PROVE  (Uncharged(g)' \/ \E d \in Call : pc[d] = "charge"
          /\ pc'[d] \in {"put", "validate"} /\ on[d] = g)
  BY <1>19 DEF Settle, flowVars, callVars, payVars
<1>20. ASSUME NEW t \in Token, Expire(t)
     PROVE  (Uncharged(g)' \/ \E d \in Call : pc[d] = "charge"
          /\ pc'[d] \in {"put", "validate"} /\ on[d] = g)
  BY <1>20 DEF Expire, flowVars, callVars, payVars
<1>21. ASSUME Restart
     PROVE  (Uncharged(g)' \/ \E d \in Call : pc[d] = "charge"
          /\ pc'[d] \in {"put", "validate"} /\ on[d] = g)
  BY <1>21 DEF Restart, Final, flowVars, callVars, payVars
<1>u. CASE UNCHANGED vars
  BY <1>u DEF vars, flowVars, callVars, payVars
<1> HIDE DEF TypeOK, State, NoState, Final, Uncharged
<1>. QED BY <1>1, <1>2, <1>3, <1>4, <1>5, <1>6, <1>7, <1>8, <1>9, <1>10,
            <1>11, <1>12, <1>13, <1>14, <1>15, <1>16, <1>17, <1>18, <1>19,
            <1>20, <1>21, <1>u
       DEF Next, Handler, Caller, Environment

\* A call that begins is not the completion that removes the flow.
LEMMA CallerKeepsRemoving ==
  ASSUME TypeOK, NEW g \in Flow, Removing(g), NEW c \in Call, NEW f, NEW name,
         pc[c] = "idle", on' = [on EXCEPT ![c] = f], op' = [op EXCEPT ![c] = name],
         \A d \in Call : d # c => pc'[d] = pc[d]
  PROVE  Removing(g)'
<1>1. PICK d \in Call : /\ on[d] = g /\ op[d] = "complete"
                        /\ pc[d] \in {"validate", "process", "poll", "pop"}
  BY DEF Removing
<1>2. d # c
  BY <1>1
<1>3. on'[d] = on[d] /\ op'[d] = op[d] /\ pc'[d] = pc[d]
  BY <1>2 DEF TypeOK
<1>. QED BY <1>1, <1>3 DEF Removing

\* A completion that has its charge is not stopped before it removes the flow.
LEMMA RemovingNext ==
  ASSUME TypeOK, CallsOK, NEW g \in Flow, Removing(g), [Next]_vars
  PROVE  (g \in stored' => Removing(g)')
<1> USE DEF TypeOK, State, NoState, Final, CallsOK, Removing
<1>1. ASSUME NEW c \in Call, Fails(c)
     PROVE  (g \in stored' => Removing(g)')
  BY <1>1 DEF Fails, MayFail, Goto, Answer, flowVars, callVars, payVars
<1>2. ASSUME NEW c \in Call, Prepare(c)
     PROVE  (g \in stored' => Removing(g)')
  BY <1>2 DEF Prepare, Goto, Answer, flowVars, callVars, payVars
<1>3. ASSUME NEW c \in Call, Charge(c)
     PROVE  (g \in stored' => Removing(g)')
  BY <1>3 DEF Charge, Goto, Answer, flowVars, callVars, payVars
<1>4. ASSUME NEW c \in Call, Put(c)
     PROVE  (g \in stored' => Removing(g)')
  BY <1>4 DEF Put, Goto, Answer, flowVars, callVars, payVars
<1>5. ASSUME NEW c \in Call, Resent(c)
     PROVE  (g \in stored' => Removing(g)')
  BY <1>5 DEF Resent, Goto, Answer, flowVars, callVars, payVars
<1>6. ASSUME NEW c \in Call, Branch(c)
     PROVE  (g \in stored' => Removing(g)')
  BY <1>6 DEF Branch, Goto, Answer, flowVars, callVars, payVars
<1>7. ASSUME NEW c \in Call, Verify(c)
     PROVE  (g \in stored' => Removing(g)')
  BY <1>7 DEF Verify, Goto, Answer, flowVars, callVars, payVars
<1>8. ASSUME NEW c \in Call, Validate(c)
     PROVE  (g \in stored' => Removing(g)')
  BY <1>8 DEF Validate, Goto, Answer, flowVars, callVars, payVars
<1>9. ASSUME NEW c \in Call, Process(c)
     PROVE  (g \in stored' => Removing(g)')
  BY <1>9 DEF Process, Goto, Answer, flowVars, callVars, payVars
<1>10. ASSUME NEW c \in Call, Poll(c)
     PROVE  (g \in stored' => Removing(g)')
  BY <1>10 DEF Poll, Goto, Answer, flowVars, callVars, payVars
<1>11. ASSUME NEW c \in Call, Pop(c)
     PROVE  (g \in stored' => Removing(g)')
  BY <1>11 DEF Pop, Goto, Answer, flowVars, callVars, payVars
<1>12. ASSUME NEW c \in Call, Close(c)
     PROVE  (g \in stored' => Removing(g)')
  BY <1>12 DEF Close, Goto, Answer, flowVars, callVars, payVars
<1>13. ASSUME NEW c \in Call, NEW f \in Flow, NEW m \in Modes, StartPayment(c, f, m)
     PROVE  (g \in stored' => Removing(g)')
  BY <1>13 DEF StartPayment, Goto, Answer, flowVars, callVars, payVars
<1>14. ASSUME NEW c \in Call, NEW f \in Flow, NEW otp \in BOOLEAN, Complete(c, f,
     otp)
     PROVE  (g \in stored' => Removing(g)')
  <2>1. on' = [on EXCEPT ![c] = f] /\ op' = [op EXCEPT ![c] = "complete"]
       /\ pc[c] = "idle"
    BY <1>14 DEF Complete, Calls
  <2>2. \A d \in Call : d # c => pc'[d] = pc[d]
    <3>1. \/ Goto(c, "branch") /\ UNCHANGED answer
          \/ Answer(c, "failed", "done")
      BY <1>14 DEF Complete
    <3>. QED BY <3>1 DEF Goto, Answer
  <2>. HIDE DEF Removing, TypeOK
  <2>. QED BY <2>1, <2>2, CallerKeepsRemoving
<1>15. ASSUME NEW c \in Call, NEW f \in Flow, Resend(c, f)
     PROVE  (g \in stored' => Removing(g)')
  <2>1. on' = [on EXCEPT ![c] = f] /\ op' = [op EXCEPT ![c] = "resend"]
       /\ pc[c] = "idle"
    BY <1>15 DEF Resend, Calls
  <2>2. \A d \in Call : d # c => pc'[d] = pc[d]
    <3>1. \/ Goto(c, "resend") /\ UNCHANGED answer
          \/ Answer(c, "failed", "done")
      BY <1>15 DEF Resend
    <3>. QED BY <3>1 DEF Goto, Answer
  <2>. HIDE DEF Removing, TypeOK
  <2>. QED BY <2>1, <2>2, CallerKeepsRemoving
<1>16. ASSUME NEW c \in Call, NEW f \in Flow, Confirm(c, f)
     PROVE  (g \in stored' => Removing(g)')
  <2>1. on' = [on EXCEPT ![c] = f] /\ op' = [op EXCEPT ![c] = "confirm"]
       /\ pc[c] = "idle"
    BY <1>16 DEF Confirm, Calls
  <2>2. \A d \in Call : d # c => pc'[d] = pc[d]
    <3>1. \/ (\E l \in {"poll", "validate"} : Goto(c, l)) /\ UNCHANGED answer
          \/ Answer(c, "failed", "done")
      BY <1>16 DEF Confirm
    <3>. QED BY <3>1 DEF Goto, Answer
  <2>. HIDE DEF Removing, TypeOK
  <2>. QED BY <2>1, <2>2, CallerKeepsRemoving
<1>17. ASSUME NEW c \in Call, NEW f \in Flow, Cancel(c, f)
     PROVE  (g \in stored' => Removing(g)')
  <2>1. on' = [on EXCEPT ![c] = f] /\ op' = [op EXCEPT ![c] = "cancel"]
       /\ pc[c] = "idle"
    BY <1>17 DEF Cancel, Calls
  <2>2. \A d \in Call : d # c => pc'[d] = pc[d]
    <3>1. Answer(c, "cancelled", "pop")
      BY <1>17 DEF Cancel
    <3>. QED BY <3>1 DEF Goto, Answer
  <2>. HIDE DEF Removing, TypeOK
  <2>. QED BY <2>1, <2>2, CallerKeepsRemoving
<1>18. ASSUME NEW r \in Ref, PayByHand(r)
     PROVE  (g \in stored' => Removing(g)')
  BY <1>18 DEF PayByHand, Told, flowVars, callVars, payVars
<1>19. ASSUME NEW t \in Token, Settle(t)
     PROVE  (g \in stored' => Removing(g)')
  BY <1>19 DEF Settle, flowVars, callVars, payVars
<1>20. ASSUME NEW t \in Token, Expire(t)
     PROVE  (g \in stored' => Removing(g)')
  BY <1>20 DEF Expire, flowVars, callVars, payVars
<1>21. ASSUME Restart
     PROVE  (g \in stored' => Removing(g)')
  BY <1>21 DEF Restart, Final, flowVars, callVars, payVars
<1>u. CASE UNCHANGED vars
  BY <1>u DEF vars, flowVars, callVars, payVars
<1> HIDE DEF TypeOK, State, NoState, Final, CallsOK, Removing
<1>. QED BY <1>1, <1>2, <1>3, <1>4, <1>5, <1>6, <1>7, <1>8, <1>9, <1>10,
            <1>11, <1>12, <1>13, <1>14, <1>15, <1>16, <1>17, <1>18, <1>19,
            <1>20, <1>21, <1>u
       DEF Next, Handler, Caller, Environment

\* A call that is not removing its flow is alone with it.
LEMMA NotRemoving ==
  ASSUME Alone, NEW c \in Call, pc[c] \in {"branch", "resend"}
  PROVE  ~Removing(on[c])
BY DEF Alone, Removing, Final

\* Every step leaves what is about to be charged without a charge.
LEMMA ToChargeNext ==
  ASSUME Exclusive, Protocol, TypeOK, CallsOK, StartsAlone, FlowsOK, LinksOK,
       Alone, NEW d \in Call, NEW g \in Flow, ToCharge(d, g), CodesOK(g),
       [Next]_vars
  PROVE  ToCharge(d, g)'
<1> USE DEF TypeOK, State, NoState, Final, CallsOK, ToCharge
<1>t. Told(g, "otp") => Told(g, "otp")'
  BY ToldNext
<1>u1. Uncharged(g) => Uncharged(g)' \/ \E b \in Call : pc[b] = "charge"
     /\ pc'[b] \in {"put", "validate"} /\ on[b] = g
  BY UnchargedOnly
<1>1. ASSUME NEW c \in Call, Fails(c)
     PROVE  ToCharge(d, g)'
  BY <1>1, <1>t, <1>u1 DEF Fails, MayFail, Goto, Answer, flowVars, callVars, payVars
<1>2. ASSUME NEW c \in Call, Prepare(c)
     PROVE  ToCharge(d, g)'
  BY <1>2, <1>t, <1>u1 DEF Prepare, Goto, Answer, flowVars, callVars, payVars
<1>3. ASSUME NEW c \in Call, Charge(c)
     PROVE  ToCharge(d, g)'
  <2>1. on' = on /\ op' = op /\ stored' = stored /\ pc[c] = "charge"
       /\ pc'[c] \in {"put", "validate"}
    BY <1>3 DEF Charge, Goto, flowVars, callVars, payVars
  <2>2. \A b \in Call : b # c => pc'[b] = pc[b] /\ kept'[b] = kept[b]
    BY <1>3 DEF Charge, Goto
  <2>3. pc'[c] = "put" => op[c] = "start"
    BY <1>3 DEF Charge, Goto
  <2>4. kept'[c].otp = kept[c].otp
    BY <1>3 DEF Charge
  <2>5. CASE d = c
    BY <2>1, <2>3, <2>4, <2>5
  <2>6. ASSUME d # c, on[d] = g, pc[d] \notin Final PROVE on[c] # g
    BY <2>1, <2>6 DEF Alone
  <2>7. CASE d # c
    BY <1>t, <1>u1, <2>1, <2>2, <2>6, <2>7
  <2>. QED BY <2>5, <2>7
<1>4. ASSUME NEW c \in Call, Put(c)
     PROVE  ToCharge(d, g)'
  BY <1>4, <1>t, <1>u1 DEF Put, Goto, Answer, flowVars, callVars, payVars
<1>5. ASSUME NEW c \in Call, Resent(c)
     PROVE  ToCharge(d, g)'
  BY <1>5, <1>t, <1>u1 DEF Resent, Goto, Answer, flowVars, callVars, payVars
<1>6. ASSUME NEW c \in Call, Branch(c)
     PROVE  ToCharge(d, g)'
  <2>1. on' = on /\ op' = op /\ stored' = stored /\ pc[c] = "branch"
       /\ pc'[c] \in {"done", "verify", "validate"}
    BY <1>6 DEF Branch, Goto, Answer, flowVars, callVars, payVars
  <2>2. \A b \in Call : b # c => pc'[b] = pc[b] /\ kept'[b] = kept[b]
    BY <1>6 DEF Branch, Goto, Answer
  <2>3. chargedFor' = chargedFor
    BY <1>6 DEF Branch, flowVars, callVars, payVars
  <2>4. pc'[c] = "verify" => st[on[c]].otp
    BY <1>6 DEF Branch, Goto, Answer
  <2>5. on[c] = g => ~Removing(g)
    BY <2>1, NotRemoving
  <2>6. Uncharged(g) => Uncharged(g)'
    BY <2>3 DEF Uncharged
  <2>7. CASE d = c
    BY <2>1, <2>4, <2>5, <2>6, <2>7 DEF CodesOK
  <2>8. CASE d # c
    BY <1>t, <2>1, <2>2, <2>6, <2>8
  <2>. QED BY <2>7, <2>8
<1>7. ASSUME NEW c \in Call, Verify(c)
     PROVE  ToCharge(d, g)'
  BY <1>7, <1>t, <1>u1 DEF Verify, Goto, Answer, flowVars, callVars, payVars
<1>8. ASSUME NEW c \in Call, Validate(c)
     PROVE  ToCharge(d, g)'
  BY <1>8, <1>t, <1>u1 DEF Validate, Goto, Answer, flowVars, callVars, payVars
<1>9. ASSUME NEW c \in Call, Process(c)
     PROVE  ToCharge(d, g)'
  BY <1>9, <1>t, <1>u1 DEF Process, Goto, Answer, flowVars, callVars, payVars
<1>10. ASSUME NEW c \in Call, Poll(c)
     PROVE  ToCharge(d, g)'
  BY <1>10, <1>t, <1>u1 DEF Poll, Goto, Answer, flowVars, callVars, payVars
<1>11. ASSUME NEW c \in Call, Pop(c)
     PROVE  ToCharge(d, g)'
  <2>1. pc[c] = "pop" /\ stored' = stored \ {on[c]}
       /\ pc'[c] \in {"close", "done"} /\ on' = on /\ op' = op /\ kept' = kept
    BY <1>11 DEF Pop, Goto
  <2>2. \A b \in Call : b # c => pc'[b] = pc[b]
    BY <1>11 DEF Pop, Goto
  <2>3. ASSUME d # c, on[d] = g, pc[d] \notin Final PROVE on[c] # g
    BY <2>1, <2>3 DEF Alone
  <2>4. Uncharged(g) => Uncharged(g)'
    BY <1>11 DEF Pop, Uncharged, payVars
  <2>. QED BY <1>t, <2>1, <2>2, <2>3, <2>4
<1>12. ASSUME NEW c \in Call, Close(c)
     PROVE  ToCharge(d, g)'
  BY <1>12, <1>t, <1>u1 DEF Close, Goto, Answer, flowVars, callVars, payVars
<1>13. ASSUME NEW c \in Call, NEW f \in Flow, NEW m \in Modes, StartPayment(c, f, m)
     PROVE  ToCharge(d, g)'
  BY <1>13, <1>t, <1>u1
       DEF StartPayment, Goto, Answer, flowVars, callVars, payVars, FlowsOK
<1>14. ASSUME NEW c \in Call, NEW f \in Flow, NEW otp \in BOOLEAN, Complete(c, f,
     otp)
     PROVE  ToCharge(d, g)'
  BY <1>14, <1>t, <1>u1
       DEF Complete, Calls, Known, Goto, Answer, flowVars, callVars, payVars
<1>15. ASSUME NEW c \in Call, NEW f \in Flow, Resend(c, f)
     PROVE  ToCharge(d, g)'
  BY <1>15, <1>t, <1>u1
       DEF Resend, Calls, Known, Goto, Answer, flowVars, callVars, payVars
<1>16. ASSUME NEW c \in Call, NEW f \in Flow, Confirm(c, f)
     PROVE  ToCharge(d, g)'
  BY <1>16, <1>t, <1>u1
       DEF Confirm, Calls, Known, Goto, Answer, flowVars, callVars, payVars
<1>17. ASSUME NEW c \in Call, NEW f \in Flow, Cancel(c, f)
     PROVE  ToCharge(d, g)'
  BY <1>17, <1>t, <1>u1
       DEF Cancel, Calls, Known, Goto, Answer, flowVars, callVars, payVars
<1>18. ASSUME NEW r \in Ref, PayByHand(r)
     PROVE  ToCharge(d, g)'
  BY <1>18, <1>t, <1>u1 DEF PayByHand, flowVars, callVars, payVars
<1>19. ASSUME NEW t \in Token, Settle(t)
     PROVE  ToCharge(d, g)'
  BY <1>19, <1>t, <1>u1 DEF Settle, flowVars, callVars, payVars
<1>20. ASSUME NEW t \in Token, Expire(t)
     PROVE  ToCharge(d, g)'
  BY <1>20, <1>t, <1>u1 DEF Expire, flowVars, callVars, payVars
<1>21. ASSUME Restart
     PROVE  ToCharge(d, g)'
  BY <1>21, <1>t, <1>u1 DEF Restart, Final, flowVars, callVars, payVars
<1>u. CASE UNCHANGED vars
  BY <1>u, <1>t DEF vars, flowVars, callVars, payVars, Uncharged
<1> HIDE DEF TypeOK, State, NoState, Final, CallsOK, ToCharge
<1>. QED BY <1>1, <1>2, <1>3, <1>4, <1>5, <1>6, <1>7, <1>8, <1>9, <1>10,
            <1>11, <1>12, <1>13, <1>14, <1>15, <1>16, <1>17, <1>18, <1>19,
            <1>20, <1>21, <1>u
       DEF Next, Handler, Caller, Environment

\* Every step leaves codes asked for where a flow is uncharged or removed.
LEMMA CodesNext ==
  ASSUME TypeOK, CallsOK, StartsAlone, FlowsOK, LinksOK, Alone, NEW g \in Flow,
       \A c \in Call : ToCharge(c, g), CodesOK(g), [Next]_vars
  PROVE  CodesOK(g)'
<1> USE DEF TypeOK, State, NoState, Final, CallsOK, CodesOK
<1>t. Told(g, "otp")' => Told(g, "otp") \/ \E b \in Call : pc[b] = "put"
     /\ pc'[b] = "done" /\ on[b] = g /\ kept[b].otp
  BY ToldOnly
<1>u1. Uncharged(g) => Uncharged(g)' \/ \E b \in Call : pc[b] = "charge"
     /\ pc'[b] \in {"put", "validate"} /\ on[b] = g
  BY UnchargedOnly
<1>r. Removing(g) => (g \in stored' => Removing(g)')
  BY RemovingNext
<1>1. ASSUME NEW c \in Call, Fails(c)
     PROVE  CodesOK(g)'
  <2>1. mode[on[c]] = "manual" => op[c] # "complete"
    BY <1>1 DEF Fails, MayFail, LinksOK
  <2>2. st' = st
    BY <1>1, <2>1 DEF Fails
  <2>. QED BY <1>1, <1>t, <1>u1, <1>r, <2>2
       DEF Fails, MayFail, Answer, Goto, flowVars, callVars, payVars
<1>2. ASSUME NEW c \in Call, Prepare(c)
     PROVE  CodesOK(g)'
  <2>1. st' = st /\ stored' = stored
       /\ \A b \in Call : pc[b] \in {"put", "charge"} => pc'[b] = pc[b]
    BY <1>2 DEF Prepare, Goto, Answer, flowVars, callVars, payVars
  <2>. QED BY <1>t, <1>u1, <1>r, <2>1
<1>3. ASSUME NEW c \in Call, Charge(c)
     PROVE  CodesOK(g)'
  <2>1. pc[c] = "charge" /\ on' = on /\ op' = op /\ st' = st
       /\ stored' = stored /\ on[c] \in Flow
    BY <1>3 DEF Charge, flowVars, callVars, payVars
  <2>2. \A b \in Call : b # c => pc'[b] = pc[b]
    BY <1>3 DEF Charge, Goto
  <2>3. pc'[c] = IF op[c] = "start" THEN "put" ELSE "validate"
    BY <1>3 DEF Charge, Goto
  <2>4. CASE on[c] # g
    BY <1>t, <1>u1, <1>r, <2>1, <2>2, <2>3, <2>4
  <2>5. ASSUME on[c] = g, op[c] = "start" PROVE g \notin stored
    BY <2>1, <2>5 DEF FlowsOK, Owns
  <2>6. ASSUME on[c] = g, op[c] # "start" PROVE Removing(g)'
    BY <2>1, <2>3, <2>6 DEF Removing
  <2>7. CASE on[c] = g
    BY <1>t, <2>1, <2>2, <2>3, <2>5, <2>6, <2>7
  <2>. QED BY <2>4, <2>7
<1>4. ASSUME NEW c \in Call, Put(c)
     PROVE  CodesOK(g)'
  <2>1. pc[c] = "put" /\ st' = [st EXCEPT ![on[c]] = kept[c]]
       /\ stored' = stored \cup {on[c]} /\ pc' = [pc EXCEPT ![c] = "done"]
       /\ on[c] \in Flow
    BY <1>4 DEF Put, Goto, Answer
  <2>2. CASE on[c] # g
    BY <1>t, <1>u1, <1>r, <2>1, <2>2
  <2>3. ASSUME on[c] = g PROVE ~Told(g, "otp")
    BY <2>1, <2>3 DEF Told, StartsAlone
  <2>4. CASE on[c] = g
    BY <1>t, <1>u1, <2>1, <2>3, <2>4 DEF ToCharge
  <2>. QED BY <2>2, <2>4
<1>5. ASSUME NEW c \in Call, Resent(c)
     PROVE  CodesOK(g)'
  <2>1. pc[c] = "resend" /\ on[c] \in Flow /\ stored' = stored
       /\ pc' = [pc EXCEPT ![c] = "done"]
    BY <1>5 DEF Resent, Goto, Answer
  <2>2. st' = [st EXCEPT ![on[c]] = [kept[c] EXCEPT !.otp = TRUE]]
    BY <1>5 DEF Resent
  <2>3. CASE on[c] # g
    BY <1>t, <1>u1, <1>r, <2>1, <2>2, <2>3
  <2>4. ASSUME on[c] = g PROVE g \in stored /\ st[g].otp /\ ~Removing(g)
    BY <2>1, <2>4, NotRemoving DEF ToCharge
  <2>5. st'[on[c]].otp
    BY <2>1, <2>2
  <2>6. CASE on[c] = g
    BY <1>u1, <2>1, <2>4, <2>5, <2>6
  <2>. QED BY <2>3, <2>6
<1>6. ASSUME NEW c \in Call, Branch(c)
     PROVE  CodesOK(g)'
  <2>1. st' = st /\ stored' = stored
       /\ \A b \in Call : pc[b] \in {"put", "charge"} => pc'[b] = pc[b]
    BY <1>6 DEF Branch, Goto, Answer, flowVars, callVars, payVars
  <2>. QED BY <1>t, <1>u1, <1>r, <2>1
<1>7. ASSUME NEW c \in Call, Verify(c)
     PROVE  CodesOK(g)'
  <2>1. st' = st /\ stored' = stored
       /\ \A b \in Call : pc[b] \in {"put", "charge"} => pc'[b] = pc[b]
    BY <1>7 DEF Verify, Goto, Answer, flowVars, callVars, payVars
  <2>. QED BY <1>t, <1>u1, <1>r, <2>1
<1>8. ASSUME NEW c \in Call, Validate(c)
     PROVE  CodesOK(g)'
  <2>1. st' = st /\ stored' = stored
       /\ \A b \in Call : pc[b] \in {"put", "charge"} => pc'[b] = pc[b]
    BY <1>8 DEF Validate, Goto, Answer, flowVars, callVars, payVars
  <2>. QED BY <1>t, <1>u1, <1>r, <2>1
<1>9. ASSUME NEW c \in Call, Process(c)
     PROVE  CodesOK(g)'
  <2>1. st' = st /\ stored' = stored
       /\ \A b \in Call : pc[b] \in {"put", "charge"} => pc'[b] = pc[b]
    BY <1>9 DEF Process, Goto, Answer, flowVars, callVars, payVars
  <2>. QED BY <1>t, <1>u1, <1>r, <2>1
<1>10. ASSUME NEW c \in Call, Poll(c)
     PROVE  CodesOK(g)'
  <2>1. st' = st /\ stored' = stored
       /\ \A b \in Call : pc[b] \in {"put", "charge"} => pc'[b] = pc[b]
    BY <1>10 DEF Poll, Goto, Answer, flowVars, callVars, payVars
  <2>. QED BY <1>t, <1>u1, <1>r, <2>1
<1>11. ASSUME NEW c \in Call, Pop(c)
     PROVE  CodesOK(g)'
  BY <1>11, <1>t, <1>u1, <1>r DEF Pop, Goto, Answer, flowVars, callVars, payVars
<1>12. ASSUME NEW c \in Call, Close(c)
     PROVE  CodesOK(g)'
  <2>1. st' = st /\ stored' = stored
       /\ \A b \in Call : pc[b] \in {"put", "charge"} => pc'[b] = pc[b]
    BY <1>12 DEF Close, Goto, Answer, flowVars, callVars, payVars
  <2>. QED BY <1>t, <1>u1, <1>r, <2>1
<1>13. ASSUME NEW c \in Call, NEW f \in Flow, NEW m \in Modes, StartPayment(c, f, m)
     PROVE  CodesOK(g)'
  <2>1. st' = st /\ stored' = stored
       /\ \A b \in Call : pc[b] \in {"put", "charge"} => pc'[b] = pc[b]
    BY <1>13 DEF StartPayment, Goto, Answer, flowVars, callVars, payVars
  <2>. QED BY <1>t, <1>u1, <1>r, <2>1
<1>14. ASSUME NEW c \in Call, NEW f \in Flow, NEW otp \in BOOLEAN, Complete(c, f,
     otp)
     PROVE  CodesOK(g)'
  <2>1. st' = st /\ stored' = stored
       /\ \A b \in Call : pc[b] \in {"put", "charge"} => pc'[b] = pc[b]
    BY <1>14 DEF Complete, Calls, Goto, Answer, flowVars, callVars, payVars
  <2>. QED BY <1>t, <1>u1, <1>r, <2>1
<1>15. ASSUME NEW c \in Call, NEW f \in Flow, Resend(c, f)
     PROVE  CodesOK(g)'
  <2>1. st' = st /\ stored' = stored
       /\ \A b \in Call : pc[b] \in {"put", "charge"} => pc'[b] = pc[b]
    BY <1>15 DEF Resend, Calls, Goto, Answer, flowVars, callVars, payVars
  <2>. QED BY <1>t, <1>u1, <1>r, <2>1
<1>16. ASSUME NEW c \in Call, NEW f \in Flow, Confirm(c, f)
     PROVE  CodesOK(g)'
  <2>1. st' = st /\ stored' = stored
       /\ \A b \in Call : pc[b] \in {"put", "charge"} => pc'[b] = pc[b]
    BY <1>16 DEF Confirm, Calls, Goto, Answer, flowVars, callVars, payVars
  <2>. QED BY <1>t, <1>u1, <1>r, <2>1
<1>17. ASSUME NEW c \in Call, NEW f \in Flow, Cancel(c, f)
     PROVE  CodesOK(g)'
  <2>1. st' = st /\ stored' = stored
       /\ \A b \in Call : pc[b] \in {"put", "charge"} => pc'[b] = pc[b]
    BY <1>17 DEF Cancel, Calls, Goto, Answer, flowVars, callVars, payVars
  <2>. QED BY <1>t, <1>u1, <1>r, <2>1
<1>18. ASSUME NEW r \in Ref, PayByHand(r)
     PROVE  CodesOK(g)'
  <2>1. st' = st /\ stored' = stored
       /\ \A b \in Call : pc[b] \in {"put", "charge"} => pc'[b] = pc[b]
    BY <1>18 DEF PayByHand, Goto, Answer, flowVars, callVars, payVars
  <2>. QED BY <1>t, <1>u1, <1>r, <2>1
<1>19. ASSUME NEW t \in Token, Settle(t)
     PROVE  CodesOK(g)'
  <2>1. st' = st /\ stored' = stored
       /\ \A b \in Call : pc[b] \in {"put", "charge"} => pc'[b] = pc[b]
    BY <1>19 DEF Settle, Goto, Answer, flowVars, callVars, payVars
  <2>. QED BY <1>t, <1>u1, <1>r, <2>1
<1>20. ASSUME NEW t \in Token, Expire(t)
     PROVE  CodesOK(g)'
  <2>1. st' = st /\ stored' = stored
       /\ \A b \in Call : pc[b] \in {"put", "charge"} => pc'[b] = pc[b]
    BY <1>20 DEF Expire, Goto, Answer, flowVars, callVars, payVars
  <2>. QED BY <1>t, <1>u1, <1>r, <2>1
<1>21. ASSUME Restart
     PROVE  CodesOK(g)'
  BY <1>21 DEF Restart
<1>u. CASE UNCHANGED vars
  <2>1. st' = st /\ stored' = stored
       /\ \A b \in Call : pc[b] \in {"put", "charge"} => pc'[b] = pc[b]
    BY <1>u DEF vars, Goto, Answer, flowVars, callVars, payVars
  <2>. QED BY <1>t, <1>u1, <1>r, <2>1
<1> HIDE DEF TypeOK, State, NoState, Final, CallsOK, CodesOK
<1>. QED BY <1>1, <1>2, <1>3, <1>4, <1>5, <1>6, <1>7, <1>8, <1>9, <1>10,
            <1>11, <1>12, <1>13, <1>14, <1>15, <1>16, <1>17, <1>18, <1>19,
            <1>20, <1>21, <1>u
       DEF Next, Handler, Caller, Environment

LEMMA ChargeInit == Init => ChargeInv
<1> SUFFICES ASSUME Init PROVE ChargeInv
  OBVIOUS
<1>1. Alone
  BY DEF Init, Alone, Final
<1>2. OneChargePerFlow
  BY DEF Init, OneChargePerFlow
<1>3. ASSUME NEW f \in Flow PROVE CodesOK(f) /\ \A c \in Call : ToCharge(c, f)
  BY <1>3 DEF Init, CodesOK, ToCharge
<1>. QED BY FlowInit, <1>1, <1>2, <1>3 DEF ChargeInv

LEMMA ChargeNext ==
  ASSUME Exclusive, Protocol
  PROVE  ChargeInv /\ [Next]_vars => ChargeInv'
<1> SUFFICES ASSUME ChargeInv, [Next]_vars PROVE ChargeInv'
  OBVIOUS
<1>1. FlowInv' /\ Alone' /\ OneChargePerFlow'
  BY FlowNext, AloneNext, OneNext DEF ChargeInv, FlowInv
<1>2. ASSUME NEW f \in Flow PROVE CodesOK(f)'
  BY CodesNext, <1>2 DEF ChargeInv, FlowInv
<1>3. ASSUME NEW f \in Flow, NEW c \in Call PROVE ToCharge(c, f)'
  BY ToChargeNext, <1>3 DEF ChargeInv, FlowInv
<1>. QED BY <1>1, <1>2, <1>3 DEF ChargeInv

\* A flow is charged at most once, if callers make one call at a time on a flow
\* and resend only when a code was asked for.
THEOREM OneChargeCorrect ==
  ASSUME Exclusive, Protocol
  PROVE  Spec => []OneChargePerFlow
<1>1. ChargeInv => OneChargePerFlow
  BY DEF ChargeInv
<1>2. Init => ChargeInv
  BY ChargeInit
<1>3. ChargeInv /\ [Next]_vars => ChargeInv'
  BY ChargeNext
<1>. QED BY <1>1, <1>2, <1>3, PTL DEF Spec
=============================================================================
