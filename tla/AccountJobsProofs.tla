------------------------- MODULE AccountJobsProofs -------------------------
(***************************************************************************)
(* Proofs about AccountJobs, for any number of jobs and accounts, whatever *)
(* saves and answers are lost and however executions overlap: what a       *)
(* stored state claims is true at GoPay, and a job shown as succeeded has  *)
(* done what it says.  Then, under the hypotheses of each, that an outcome *)
(* stays and that what a succeeded job did stays stored.                   *)
(*                                                                         *)
(* The first two are not inductive: a state is stored from the copy an     *)
(* execution carries, and a job is marked two steps after the handler      *)
(* that did the work.  So the invariant says the same of every copy        *)
(* (CopiesAreTrue), of the answer that is under way (AnswersAreTrue) and   *)
(* of the executions that are about to mark their job (MarksAreDue).  All  *)
(* rest on what is true at GoPay staying true: an account is opened,       *)
(* moved and gone once.  The other two have invariants of their own,       *)
(* Phases and StoredInv.                                                   *)
(***************************************************************************)
EXTENDS AccountJobs, TLAPS

Acts == {"auth", "start-signup", "complete-signup", "check-balance", "start-pin",
         "complete-pin", "start-change-phone", "complete-change-phone",
         "start-deactivate", "complete-deactivate"}

\* Nothing that became true at GoPay becomes false.
Grows(g, h) ==
  (g.opened => h.opened) /\ (g.moved => h.moved) /\ (g.gone => h.gone)

-----------------------------------------------------------------------------
(* The plans of the entry workflows.                                       *)

LEMMA Plans ==
  /\ Plan["login"] = <<"auth">>
  /\ Plan["signup"] = <<"start-signup", "complete-signup">>
  /\ Plan["check_balance"] = <<"auth", "check-balance">>
  /\ Plan["ensure_pin_setup"] = <<"start-pin", "complete-pin">>
  /\ Plan["change_phone"] = <<"auth", "start-change-phone", "complete-change-phone">>
  /\ Plan["deactivate"] = <<"start-deactivate", "complete-deactivate">>
  BY DEF Plan, Op

LEMMA PlanTypes ==
  ASSUME NEW op \in Op
  PROVE  /\ Len(Plan[op]) \in 1..3
         /\ \A i \in 1..Len(Plan[op]) : Plan[op][i] \in Acts
<1>1. CASE op = "login"
  BY <1>1, Plans DEF Acts
<1>2. CASE op = "signup"
  BY <1>2, Plans DEF Acts
<1>3. CASE op = "check_balance"
  BY <1>3, Plans DEF Acts
<1>4. CASE op = "ensure_pin_setup"
  BY <1>4, Plans DEF Acts
<1>5. CASE op = "change_phone"
  BY <1>5, Plans DEF Acts
<1>6. CASE op = "deactivate"
  BY <1>6, Plans DEF Acts
<1> QED
  BY <1>1, <1>2, <1>3, <1>4, <1>5, <1>6 DEF Op

LEMMA PlanBegins ==
  ASSUME NEW op \in Op
  PROVE  1 \in 1..Len(Plan[op])
<1>1. Len(Plan[op]) \in 1..3
  BY PlanTypes
<1>2. ASSUME NEW n, n \in 1..3 PROVE 1 \in 1..n
  BY <1>2
<1> QED
  BY <1>1, <1>2

LEMMA LastActionDoes ==
  ASSUME NEW op \in Op, NEW g \in Truth, NEW i \in 1..Len(Plan[op]),
         Achieved(Plan[op][i], g), i = Len(Plan[op]) \/ Plan[op][i] = "start-pin"
  PROVE  Done(op, g)
<1>1. CASE op = "login"
  BY <1>1, Plans DEF Achieved, Done, Truth
<1>2. CASE op = "signup"
  BY <1>2, Plans DEF Achieved, Done, Truth
<1>3. CASE op = "check_balance"
  BY <1>3, Plans DEF Achieved, Done, Truth
<1>4. CASE op = "ensure_pin_setup"
  BY <1>4, Plans DEF Achieved, Done, Truth
<1>5. CASE op = "change_phone"
  BY <1>5, Plans DEF Achieved, Done, Truth
<1>6. CASE op = "deactivate"
  BY <1>6, Plans DEF Achieved, Done, Truth
<1> QED
  BY <1>1, <1>2, <1>3, <1>4, <1>5, <1>6 DEF Op

-----------------------------------------------------------------------------
(* What a handler answers.                                                 *)

\* An answer to what is true claims only what is true, and success means that
\* the action has done its work.
Honest(act, g, r) ==
  /\ r.b \in Blob /\ r.g \in Truth /\ r.ok \in BOOLEAN
  /\ Grows(g, r.g) /\ Claims(r.b, r.g)
  /\ r.ok => Achieved(act, r.g)

LEMMA HonestAnswer ==
  ASSUME NEW act \in Acts, NEW g \in Truth, NEW c \in Blob, NEW h \in Truth,
         NEW ok \in BOOLEAN,
         Grows(g, h), Claims(c, h), ok => Achieved(act, h)
  PROVE  Honest(act, g, Answer(c, h, ok))
  BY DEF Honest, Answer

\* Answering with the state as it was, without success, is honest.
LEMMA RefusalIsHonest ==
  ASSUME NEW act \in Acts, NEW b \in Blob, NEW g \in Truth, Claims(b, g)
  PROVE  Honest(act, g, Answer(b, g, FALSE))
<1>1. Grows(g, g)
  BY DEF Grows
<1> QED
  BY <1>1, HonestAnswer

LEMMA HandlersAreHonest ==
  ASSUME NEW act \in Acts, NEW b \in Blob, NEW g \in Truth, Claims(b, g),
         NEW r \in Outcomes(act, b, g)
  PROVE  Honest(act, g, r)
<1>1. CASE act = "auth"
  <2>1. \/ r = Answer(b, g, FALSE)
        \/ Live(g) /\ r = Answer([b EXCEPT !.token = TRUE], g, TRUE)
    BY <1>1 DEF Outcomes, When, startAuth
  <2>2. CASE r = Answer(b, g, FALSE)
    BY <2>2, RefusalIsHonest
  <2>3. CASE Live(g) /\ r = Answer([b EXCEPT !.token = TRUE], g, TRUE)
    <3>1. [b EXCEPT !.token = TRUE] \in Blob /\ g \in Truth
      BY DEF Blob, Truth
    <3>2. Grows(g, g)
      BY DEF Grows, Truth
    <3>3. Claims([b EXCEPT !.token = TRUE], g)
      BY <2>3 DEF Claims, Live, Blob, Truth
    <3>4. Achieved(act, g)
      BY <1>1, <2>3 DEF Achieved, Live, Truth
    <3> QED
      BY <2>3, <3>1, <3>2, <3>3, <3>4, HonestAnswer
  <2> QED
    BY <2>1, <2>2, <2>3
<1>2. CASE act = "start-signup"
  <2>1. \/ r = Answer(b, g, FALSE)
        \/ r = Answer([b EXCEPT !.token = FALSE, !.aside = FALSE], g, TRUE)
        \/ r = Answer([b EXCEPT !.token = FALSE, !.aside = FALSE], g, FALSE)
    BY <1>2 DEF Outcomes, When, startSignup
  <2>2. CASE r = Answer(b, g, FALSE)
    BY <2>2, RefusalIsHonest
  <2>3. CASE r = Answer([b EXCEPT !.token = FALSE, !.aside = FALSE], g, TRUE)
    <3>1. [b EXCEPT !.token = FALSE, !.aside = FALSE] \in Blob /\ g \in Truth
      BY DEF Blob, Truth
    <3>2. Grows(g, g)
      BY DEF Grows, Truth
    <3>3. Claims([b EXCEPT !.token = FALSE, !.aside = FALSE], g)
      BY <2>3 DEF Claims, Live, Blob, Truth
    <3>4. Achieved(act, g)
      BY <1>2, <2>3 DEF Achieved, Live, Truth
    <3> QED
      BY <2>3, <3>1, <3>2, <3>3, <3>4, HonestAnswer
  <2>4. CASE r = Answer([b EXCEPT !.token = FALSE, !.aside = FALSE], g, FALSE)
    <3>1. [b EXCEPT !.token = FALSE, !.aside = FALSE] \in Blob /\ g \in Truth
      BY DEF Blob, Truth
    <3>2. Grows(g, g)
      BY DEF Grows, Truth
    <3>3. Claims([b EXCEPT !.token = FALSE, !.aside = FALSE], g)
      BY <2>4 DEF Claims, Live, Blob, Truth
    <3> QED
      BY <2>4, <3>1, <3>2, <3>3, HonestAnswer
  <2> QED
    BY <2>1, <2>2, <2>3, <2>4
<1>3. CASE act = "complete-signup"
  <2>1. \/ r = Answer(b, g, FALSE)
        \/ r = Answer([b EXCEPT !.token = TRUE], [g EXCEPT !.opened = TRUE], TRUE)
    BY <1>3 DEF Outcomes, When, completeSignup
  <2>2. CASE r = Answer(b, g, FALSE)
    BY <2>2, RefusalIsHonest
  <2>3. CASE r = Answer([b EXCEPT !.token = TRUE], [g EXCEPT !.opened = TRUE], TRUE)
    <3>1. [b EXCEPT !.token = TRUE] \in Blob /\ [g EXCEPT !.opened = TRUE] \in Truth
      BY DEF Blob, Truth
    <3>2. Grows(g, [g EXCEPT !.opened = TRUE])
      BY DEF Grows, Truth
    <3>3. Claims([b EXCEPT !.token = TRUE], [g EXCEPT !.opened = TRUE])
      BY <2>3 DEF Claims, Live, Blob, Truth
    <3>4. Achieved(act, [g EXCEPT !.opened = TRUE])
      BY <1>3, <2>3 DEF Achieved, Live, Truth
    <3> QED
      BY <2>3, <3>1, <3>2, <3>3, <3>4, HonestAnswer
  <2> QED
    BY <2>1, <2>2, <2>3
<1>4. CASE act = "check-balance"
  <2>1. \/ r = Answer(b, g, FALSE)
        \/ Live(g) /\ r = Answer(b, g, TRUE)
    BY <1>4 DEF Outcomes, When, checkBalance, useToken
  <2>2. CASE r = Answer(b, g, FALSE)
    BY <2>2, RefusalIsHonest
  <2>3. CASE Live(g) /\ r = Answer(b, g, TRUE)
    <3>1. b \in Blob /\ g \in Truth
      BY DEF Blob, Truth
    <3>2. Grows(g, g)
      BY DEF Grows, Truth
    <3>3. Claims(b, g)
      BY <2>3 DEF Claims, Live, Blob, Truth
    <3>4. Achieved(act, g)
      BY <1>4, <2>3 DEF Achieved, Live, Truth
    <3> QED
      BY <2>3, <3>1, <3>2, <3>3, <3>4, HonestAnswer
  <2> QED
    BY <2>1, <2>2, <2>3
<1>5. CASE act = "start-pin"
  <2>1. \/ r = Answer(b, g, FALSE)
        \/ Live(g) /\ r = Answer(b, g, TRUE)
    BY <1>5 DEF Outcomes, When, startPIN, useToken
  <2>2. CASE r = Answer(b, g, FALSE)
    BY <2>2, RefusalIsHonest
  <2>3. CASE Live(g) /\ r = Answer(b, g, TRUE)
    <3>1. b \in Blob /\ g \in Truth
      BY DEF Blob, Truth
    <3>2. Grows(g, g)
      BY DEF Grows, Truth
    <3>3. Claims(b, g)
      BY <2>3 DEF Claims, Live, Blob, Truth
    <3>4. Achieved(act, g)
      BY <1>5, <2>3 DEF Achieved, Live, Truth
    <3> QED
      BY <2>3, <3>1, <3>2, <3>3, <3>4, HonestAnswer
  <2> QED
    BY <2>1, <2>2, <2>3
<1>6. CASE act = "complete-pin"
  <2>1. \/ r = Answer(b, g, FALSE)
        \/ Live(g) /\ r = Answer(b, g, TRUE)
    BY <1>6 DEF Outcomes, When, completePIN, useToken
  <2>2. CASE r = Answer(b, g, FALSE)
    BY <2>2, RefusalIsHonest
  <2>3. CASE Live(g) /\ r = Answer(b, g, TRUE)
    <3>1. b \in Blob /\ g \in Truth
      BY DEF Blob, Truth
    <3>2. Grows(g, g)
      BY DEF Grows, Truth
    <3>3. Claims(b, g)
      BY <2>3 DEF Claims, Live, Blob, Truth
    <3>4. Achieved(act, g)
      BY <1>6, <2>3 DEF Achieved, Live, Truth
    <3> QED
      BY <2>3, <3>1, <3>2, <3>3, <3>4, HonestAnswer
  <2> QED
    BY <2>1, <2>2, <2>3
<1>7. CASE act = "start-change-phone"
  <2>1. \/ r = Answer(b, g, FALSE)
        \/ Live(g) /\ r = Answer(b, g, TRUE)
    BY <1>7 DEF Outcomes, When, startChangePhone, useToken
  <2>2. CASE r = Answer(b, g, FALSE)
    BY <2>2, RefusalIsHonest
  <2>3. CASE Live(g) /\ r = Answer(b, g, TRUE)
    <3>1. b \in Blob /\ g \in Truth
      BY DEF Blob, Truth
    <3>2. Grows(g, g)
      BY DEF Grows, Truth
    <3>3. Claims(b, g)
      BY <2>3 DEF Claims, Live, Blob, Truth
    <3>4. Achieved(act, g)
      BY <1>7, <2>3 DEF Achieved, Live, Truth
    <3> QED
      BY <2>3, <3>1, <3>2, <3>3, <3>4, HonestAnswer
  <2> QED
    BY <2>1, <2>2, <2>3
<1>8. CASE act = "complete-change-phone"
  <2>1. \/ r = Answer(b, g, FALSE)
        \/ r = Answer(b, [g EXCEPT !.moved = TRUE], FALSE)
        \/ r = Answer([b EXCEPT !.token = FALSE, !.aside = TRUE], [g EXCEPT !.moved = TRUE], TRUE)
    BY <1>8 DEF Outcomes, When, completeChangePhone
  <2>2. CASE r = Answer(b, g, FALSE)
    BY <2>2, RefusalIsHonest
  <2>3. CASE r = Answer(b, [g EXCEPT !.moved = TRUE], FALSE)
    <3>1. b \in Blob /\ [g EXCEPT !.moved = TRUE] \in Truth
      BY DEF Blob, Truth
    <3>2. Grows(g, [g EXCEPT !.moved = TRUE])
      BY DEF Grows, Truth
    <3>3. Claims(b, [g EXCEPT !.moved = TRUE])
      BY <2>3 DEF Claims, Live, Blob, Truth
    <3> QED
      BY <2>3, <3>1, <3>2, <3>3, HonestAnswer
  <2>4. CASE r = Answer([b EXCEPT !.token = FALSE, !.aside = TRUE], [g EXCEPT !.moved = TRUE], TRUE)
    <3>1. [b EXCEPT !.token = FALSE, !.aside = TRUE] \in Blob /\ [g EXCEPT !.moved = TRUE] \in Truth
      BY DEF Blob, Truth
    <3>2. Grows(g, [g EXCEPT !.moved = TRUE])
      BY DEF Grows, Truth
    <3>3. Claims([b EXCEPT !.token = FALSE, !.aside = TRUE], [g EXCEPT !.moved = TRUE])
      BY <2>4 DEF Claims, Live, Blob, Truth
    <3>4. Achieved(act, [g EXCEPT !.moved = TRUE])
      BY <1>8, <2>4 DEF Achieved, Live, Truth
    <3> QED
      BY <2>4, <3>1, <3>2, <3>3, <3>4, HonestAnswer
  <2> QED
    BY <2>1, <2>2, <2>3, <2>4
<1>9. CASE act = "start-deactivate"
  <2>1. \/ r = Answer(b, g, FALSE)
        \/ Live(g) /\ r = Answer(b, g, TRUE)
    BY <1>9 DEF Outcomes, When, startDeactivate
  <2>2. CASE r = Answer(b, g, FALSE)
    BY <2>2, RefusalIsHonest
  <2>3. CASE Live(g) /\ r = Answer(b, g, TRUE)
    <3>1. b \in Blob /\ g \in Truth
      BY DEF Blob, Truth
    <3>2. Grows(g, g)
      BY DEF Grows, Truth
    <3>3. Claims(b, g)
      BY <2>3 DEF Claims, Live, Blob, Truth
    <3>4. Achieved(act, g)
      BY <1>9, <2>3 DEF Achieved, Live, Truth
    <3> QED
      BY <2>3, <3>1, <3>2, <3>3, <3>4, HonestAnswer
  <2> QED
    BY <2>1, <2>2, <2>3
<1>10. CASE act = "complete-deactivate"
  <2>1. \/ r = Answer(b, g, FALSE)
        \/ r = Answer([b EXCEPT !.aside = FALSE, !.gone = TRUE], [g EXCEPT !.gone = TRUE], TRUE)
    BY <1>10 DEF Outcomes, When, completeDeactivate
  <2>2. CASE r = Answer(b, g, FALSE)
    BY <2>2, RefusalIsHonest
  <2>3. CASE r = Answer([b EXCEPT !.aside = FALSE, !.gone = TRUE], [g EXCEPT !.gone = TRUE], TRUE)
    <3>1. [b EXCEPT !.aside = FALSE, !.gone = TRUE] \in Blob /\ [g EXCEPT !.gone = TRUE] \in Truth
      BY DEF Blob, Truth
    <3>2. Grows(g, [g EXCEPT !.gone = TRUE])
      BY DEF Grows, Truth
    <3>3. Claims([b EXCEPT !.aside = FALSE, !.gone = TRUE], [g EXCEPT !.gone = TRUE])
      BY <2>3 DEF Claims, Live, Blob, Truth
    <3>4. Achieved(act, [g EXCEPT !.gone = TRUE])
      BY <1>10, <2>3 DEF Achieved, Live, Truth
    <3> QED
      BY <2>3, <3>1, <3>2, <3>3, <3>4, HonestAnswer
  <2> QED
    BY <2>1, <2>2, <2>3
<1> QED
  BY <1>1, <1>2, <1>3, <1>4, <1>5, <1>6, <1>7, <1>8, <1>9, <1>10 DEF Acts

\* What was claimed or done stays so.
LEMMA TruthGrows ==
  ASSUME NEW g \in Truth, NEW h \in Truth, Grows(g, h)
  PROVE  /\ \A b \in Blob : Claims(b, g) => Claims(b, h)
         /\ \A op \in Op : Done(op, g) => Done(op, h)
         /\ \A act \in Acts : Achieved(act, g) => Achieved(act, h)
<1>1. \A b \in Blob : Claims(b, g) => Claims(b, h)
  BY DEF Grows, Claims, Truth, Blob
<1>2. \A op \in Op : Done(op, g) => Done(op, h)
  BY DEF Grows, Done, Truth
<1>3. \A act \in Acts : Achieved(act, g) => Achieved(act, h)
  BY DEF Grows, Achieved, Truth
<1> QED
  BY <1>1, <1>2, <1>3

-----------------------------------------------------------------------------
(* The invariant.                                                          *)

Execution == [pc : PCs, i : 1..3, snap : Blob, out : Blob, ok : BOOLEAN,
              lost : Nat, tries : 1..MaxTries, round : 1..MaxRounds]

Record == [acct : Account \cup {NoAccount}, op : Op, error : BOOLEAN,
           status : {"absent", "started", "succeeded", "failed", "trigger_failed"}]

\* An execution is at an action of its plan.
PlanKept(j) == exec[j].i \in 1..Len(Plan[job[j].op])

\* A job that was not asked for has neither goroutine nor execution; the others
\* have an account.
Asked(j) ==
  \/ job[j].acct \in Account /\ job[j].status # "absent"
  \/ job[j].status = "absent" /\ trigger[j] = "none" /\ exec[j] = Idle

\* What became of the job's account at GoPay.
Fate(j) == gopay[job[j].acct]

CopiesAreTrue(j) ==
  job[j].acct \in Account =>
    Claims(exec[j].snap, Fate(j)) /\ Claims(exec[j].out, Fate(j))

AnswersAreTrue(j) ==
  (exec[j].pc \in {"save", "answer"} /\ exec[j].ok) => Achieved(Action(j), Fate(j))

MarksAreDue(j) == exec[j].pc \in {"finish", "mark"} => Done(job[j].op, Fate(j))

EndIsTrue(j) == job[j].status = "succeeded" => Done(job[j].op, Fate(j))

JobOK(j) ==
  /\ PlanKept(j) /\ Asked(j) /\ CopiesAreTrue(j) /\ AnswersAreTrue(j)
  /\ MarksAreDue(j) /\ EndIsTrue(j)

IInv == TypeOK /\ StoreIsNeverAhead /\ \A j \in Job : JobOK(j)

-----------------------------------------------------------------------------

LEMMA Types ==
  ASSUME TypeOK
  PROVE  /\ job \in [Job -> Record] /\ exec \in [Job -> Execution]
         /\ Idle \in Execution /\ Empty \in Blob
  BY DEF TypeOK, Record, Execution, Idle, Empty, Blob, PCs, MaxTries, MaxRounds

LEMMA InitInv == JobConstants /\ Init => IInv
<1> SUFFICES ASSUME JobConstants, Init PROVE IInv
  OBVIOUS
<1>1. TypeOK
  <2>1. Idle \in Execution /\ Empty \in Blob
    BY DEF Idle, Execution, Empty, Blob, PCs, MaxTries, MaxRounds
  <2>2. \A known \in BOOLEAN : [opened |-> known, moved |-> FALSE, gone |-> FALSE] \in Truth
    BY DEF Truth
  <2>3. [acct |-> NoAccount, op |-> "login", status |-> "absent", error |-> FALSE] \in Record
    BY DEF Record, Op
  <2> QED
    BY <2>1, <2>2, <2>3 DEF TypeOK, Init, Execution, Record, Op
<1>2. StoreIsNeverAhead
  BY DEF StoreIsNeverAhead, Init, Claims, Empty
<1>3. ASSUME NEW j \in Job PROVE JobOK(j)
  <2>1. exec[j] = Idle /\ trigger[j] = "none"
    BY DEF Init
  <2>2. job[j].acct = NoAccount /\ job[j].status = "absent" /\ job[j].op = "login"
    BY DEF Init
  <2>3. PlanKept(j)
    BY <2>1, <2>2, Plans DEF PlanKept, Idle
  <2> QED
    BY <2>1, <2>2, <2>3, JobConstants
    DEF JobOK, Asked, CopiesAreTrue, AnswersAreTrue, MarksAreDue, EndIsTrue, Idle
<1> QED
  BY <1>1, <1>2, <1>3 DEF IInv

\* A step that leaves a job, its goroutine and its execution alone keeps what is
\* said of it, as what became of accounts only grows.
LEMMA OthersKept ==
  ASSUME IInv, gopay' \in [Account -> Truth],
         \A a \in Account : Grows(gopay[a], gopay'[a]),
         NEW j \in Job, job'[j] = job[j], trigger'[j] = trigger[j], exec'[j] = exec[j]
  PROVE  JobOK(j)'
<1>1. PlanKept(j)' /\ Asked(j)'
  BY DEF IInv, JobOK, PlanKept, Asked
<1>2. CASE job[j].acct \in Account
  <2>1. /\ Fate(j) \in Truth /\ Fate(j)' \in Truth /\ Grows(Fate(j), Fate(j)')
        /\ exec[j].snap \in Blob /\ exec[j].out \in Blob /\ job[j].op \in Op
    BY <1>2, Types DEF Fate, IInv, TypeOK, Execution, Record
  <2>2. Action(j) \in Acts /\ Action(j)' = Action(j)
    BY <2>1, PlanTypes DEF Action, IInv, JobOK, PlanKept
  <2> QED
    BY <1>1, <1>2, <2>1, <2>2, TruthGrows
    DEF IInv, JobOK, CopiesAreTrue, AnswersAreTrue, MarksAreDue, EndIsTrue
<1>3. CASE job[j].acct \notin Account
  BY <1>1, <1>3 DEF IInv, JobOK, Asked, CopiesAreTrue, AnswersAreTrue, MarksAreDue,
     EndIsTrue, Idle
<1> QED
  BY <1>2, <1>3

\* What the invariant says of an execution under way.
LEMMA UnderWay ==
  ASSUME IInv, NEW j \in Job, exec[j].pc # "none"
  PROVE  /\ job[j] \in Record /\ exec[j] \in Execution /\ job[j].acct \in Account
         /\ job[j].status # "absent" /\ Fate(j) \in Truth
         /\ exec[j].i \in 1..Len(Plan[job[j].op]) /\ Action(j) \in Acts
         /\ Claims(exec[j].snap, Fate(j)) /\ Claims(exec[j].out, Fate(j))
<1>1. job[j] \in Record /\ exec[j] \in Execution
  BY Types DEF IInv
<1>2. job[j].acct \in Account /\ job[j].status # "absent"
  BY DEF IInv, JobOK, Asked, Idle
<1>3. Fate(j) \in Truth
  BY <1>2 DEF IInv, TypeOK, Fate
<1>4. exec[j].i \in 1..Len(Plan[job[j].op]) /\ Action(j) \in Acts
  BY <1>1, PlanTypes DEF IInv, JobOK, PlanKept, Action, Record
<1> QED
  BY <1>1, <1>2, <1>3, <1>4 DEF IInv, JobOK, CopiesAreTrue

\* The steps of a job that leave GoPay alone.
LEMMA StillGrows ==
  ASSUME IInv, UNCHANGED gopay
  PROVE  gopay' \in [Account -> Truth] /\ \A a \in Account : Grows(gopay[a], gopay'[a])
  BY DEF IInv, TypeOK, Grows

\* What an execution's record is made of.
LEMMA Fields ==
  ASSUME NEW e \in Execution
  PROVE  /\ e.pc \in PCs /\ e.i \in 1..3 /\ e.snap \in Blob /\ e.out \in Blob
         /\ e.ok \in BOOLEAN /\ e.lost \in Nat /\ e.tries \in 1..MaxTries
         /\ e.round \in 1..MaxRounds
  BY DEF Execution

\* A step of execution j, and of no other.
LEMMA Moves ==
  ASSUME IInv, NEW j \in Job, NEW e \in Execution, Becomes(j, e)
  PROVE  /\ exec' \in [Job -> Execution] /\ exec'[j] = e
         /\ \A k \in Job : k # j => exec'[k] = exec[k]
<1>1. exec \in [Job -> Execution]
  BY Types DEF IInv
<1> QED
  BY <1>1 DEF Becomes

LEMMA StartStep ==
  ASSUME JobConstants, IInv, NEW j \in Job, NEW a \in Account, NEW op \in Ops,
         handleWorkflowStart(j, a, op)
  PROVE  IInv'
<1> USE DEF handleWorkflowStart, saveWorkflowJob, newGoPayWorkflowJob
<1>0. op \in Op /\ exec[j] = Idle
  BY DEF JobConstants, IInv, JobOK, Asked
<1>1. TypeOK'
  <2>1. job' \in [Job -> Record]
    <3>1. job \in [Job -> Record]
      BY Types DEF IInv
    <3>2. [acct |-> a, op |-> op, status |-> "started", error |-> FALSE] \in Record
      BY <1>0 DEF Record
    <3> QED
      BY <3>1, <3>2
  <2>2. trigger' \in [Job -> {"none", "posting", "answering", "failing", "over"}]
    BY DEF IInv, TypeOK
  <2> QED
    BY <2>1, <2>2 DEF IInv, TypeOK, Record
<1>2. StoreIsNeverAhead'
  BY DEF IInv, StoreIsNeverAhead
<1>3. JobOK(j)'
  <2>1. /\ job'[j] = [acct |-> a, op |-> op, status |-> "started", error |-> FALSE]
        /\ exec'[j] = Idle /\ Fate(j)' = gopay[a]
    <3>1. job \in [Job -> Record]
      BY Types DEF IInv
    <3>2. job'[j] = [acct |-> a, op |-> op, status |-> "started", error |-> FALSE]
      BY <3>1
    <3>3. Fate(j)' = gopay[a]
      BY <3>2 DEF Fate
    <3> QED
      BY <1>0, <3>2, <3>3
  <2>2. PlanKept(j)'
    <3>1. exec'[j].i = 1 /\ job'[j].op = op
      BY <2>1 DEF Idle
    <3>2. 1 \in 1..Len(Plan[op])
      BY <1>0, PlanBegins
    <3> QED
      BY <3>1, <3>2 DEF PlanKept
  <2>3. Asked(j)' /\ EndIsTrue(j)'
    BY <2>1 DEF Asked, EndIsTrue
  <2>4. CopiesAreTrue(j)'
    BY <2>1 DEF CopiesAreTrue, Idle, Empty, Claims
  <2>5. AnswersAreTrue(j)' /\ MarksAreDue(j)'
    BY <2>1 DEF AnswersAreTrue, MarksAreDue, Idle
  <2> QED
    BY <2>2, <2>3, <2>4, <2>5 DEF JobOK
<1>4. ASSUME NEW k \in Job, k # j PROVE JobOK(k)'
  BY <1>4, OthersKept, StillGrows DEF IInv, TypeOK
<1> QED
  BY <1>1, <1>2, <1>3, <1>4 DEF IInv

\* A step of the goroutine that posts job j.
LEMMA TriggerStep ==
  ASSUME IInv, NEW j \in Job, Trigger_Next(j)
  PROVE  IInv'
<1> USE DEF Trigger_Next, Deliver, TriggerAnswered, TriggerFails, SaveTriggerFailed,
        saveWorkflowJob, newGoPayWorkflowJob
<1>0. /\ job[j] \in Record /\ exec[j] \in Execution /\ job[j].acct \in Account
      /\ job[j].status # "absent"
  BY Types DEF IInv, JobOK, Asked
<1>e. PICK e \in Execution :
        /\ \/ exec' = exec /\ e = exec[j]
           \/ Becomes(j, e) /\ e.pc = "load"
        /\ e.i = exec[j].i /\ e.snap = exec[j].snap /\ e.out = exec[j].out
  <2>1. CASE Deliver(j)
    <3>1. "load" \in PCs
      BY DEF PCs
    <3>2. /\ [exec[j] EXCEPT !.pc = "load"] \in Execution
          /\ [exec[j] EXCEPT !.pc = "load"].pc = "load"
          /\ [exec[j] EXCEPT !.pc = "load"].i = exec[j].i
          /\ [exec[j] EXCEPT !.pc = "load"].snap = exec[j].snap
          /\ [exec[j] EXCEPT !.pc = "load"].out = exec[j].out
      BY <1>0, <3>1 DEF Execution
    <3>3. Becomes(j, [exec[j] EXCEPT !.pc = "load"])
      BY <2>1 DEF Deliver
    <3> QED
      BY <3>2, <3>3
  <2>2. CASE exec' = exec
    BY <1>0, <2>2
  <2> QED
    BY <2>1, <2>2
<1>f. /\ exec' \in [Job -> Execution] /\ exec'[j] = e
      /\ \A k \in Job : k # j => exec'[k] = exec[k]
  <2>1. CASE exec' = exec /\ e = exec[j]
    BY <2>1, Types DEF IInv
  <2>2. CASE Becomes(j, e)
    BY <2>2, Moves
  <2> QED
    BY <1>e, <2>1, <2>2
<1>1. TypeOK'
  <2>1. exec' \in [Job -> Execution]
    BY <1>f
  <2>2. job' \in [Job -> Record]
    <3>1. job \in [Job -> Record]
      BY Types DEF IInv
    <3>2. [[acct |-> job[j].acct, op |-> job[j].op, status |-> "started", error |-> FALSE]
             EXCEPT !.status = "trigger_failed", !.error = TRUE] \in Record
      BY <1>0 DEF Record
    <3>3. CASE job' = job
      BY <3>1, <3>3
    <3>4. CASE SaveTriggerFailed(j)
      BY <3>1, <3>2, <3>4
    <3> QED
      BY <3>3, <3>4
  <2>3. trigger' \in [Job -> {"none", "posting", "answering", "failing", "over"}]
    BY DEF IInv, TypeOK
  <2> QED
    BY <2>1, <2>2, <2>3 DEF IInv, TypeOK, Execution, Record
<1>2. StoreIsNeverAhead'
  BY DEF IInv, StoreIsNeverAhead
<1>3. JobOK(j)'
  <2>1. /\ Fate(j)' = Fate(j)
        /\ job'[j].acct = job[j].acct /\ job'[j].op = job[j].op
        /\ job'[j].status \in {job[j].status, "trigger_failed"}
    <3>1. job \in [Job -> Record]
      BY Types DEF IInv
    <3>2. job'[j].acct = job[j].acct /\ job'[j].op = job[j].op
      BY <3>1
    <3>3. job'[j].status \in {job[j].status, "trigger_failed"}
      BY <3>1
    <3> QED
      BY <3>2, <3>3 DEF Fate
  <2>2. /\ exec'[j].i = exec[j].i /\ exec'[j].snap = exec[j].snap
        /\ exec'[j].out = exec[j].out
        /\ exec'[j].pc = "load" \/ exec'[j] = exec[j]
    BY <1>e, <1>f
  <2>3. PlanKept(j)' /\ Asked(j)' /\ CopiesAreTrue(j)'
    BY <1>0, <2>1, <2>2 DEF IInv, JobOK, PlanKept, Asked, CopiesAreTrue
  <2>4. AnswersAreTrue(j)' /\ MarksAreDue(j)' /\ EndIsTrue(j)'
    BY <1>0, <2>1, <2>2 DEF IInv, JobOK, AnswersAreTrue, MarksAreDue, EndIsTrue, Action
  <2> QED
    BY <2>3, <2>4 DEF JobOK
<1>4. ASSUME NEW k \in Job, k # j PROVE JobOK(k)'
  BY <1>4, <1>f, OthersKept, StillGrows DEF IInv, TypeOK
<1> QED
  BY <1>1, <1>2, <1>3, <1>4 DEF IInv

LEMMA LoadStep ==
  ASSUME IInv, NEW j \in Job, loadState(j)
  PROVE  IInv'
<1> USE DEF loadState, At, Acct
<1>0. exec[j].pc # "none"
  OBVIOUS
<1> DEFINE e == [exec[j] EXCEPT !.pc = "call", !.snap = store[job[j].acct]]
<1>e. /\ e \in Execution /\ e.pc = "call" /\ e.i = exec[j].i
      /\ e.out = exec[j].out /\ e.snap = store[job[j].acct]
  BY <1>0, UnderWay DEF IInv, TypeOK, Execution, PCs
<1>f. Becomes(j, e)
  OBVIOUS
<1> HIDE DEF e
<1>1. TypeOK'
  BY <1>e, <1>f, Moves DEF IInv, TypeOK, Execution
<1>2. StoreIsNeverAhead'
  BY DEF IInv, StoreIsNeverAhead
<1>3. JobOK(j)'
  <2>1. /\ exec'[j].pc = "call" /\ exec'[j].i = exec[j].i
        /\ exec'[j].out = exec[j].out /\ exec'[j].snap = store[job[j].acct]
    BY <1>e, <1>f, Moves
  <2>2. job'[j] = job[j] /\ Fate(j)' = Fate(j) /\ Claims(store[job[j].acct], Fate(j))
    BY <1>0, UnderWay DEF Fate, IInv, StoreIsNeverAhead
  <2>3. PlanKept(j)' /\ Asked(j)' /\ CopiesAreTrue(j)'
    BY <1>0, <2>1, <2>2, UnderWay DEF PlanKept, Asked, CopiesAreTrue
  <2>4. AnswersAreTrue(j)' /\ MarksAreDue(j)' /\ EndIsTrue(j)'
    BY <2>1, <2>2 DEF IInv, JobOK, AnswersAreTrue, MarksAreDue, EndIsTrue
  <2> QED
    BY <2>3, <2>4 DEF JobOK
<1>4. ASSUME NEW k \in Job, k # j PROVE JobOK(k)'
  BY <1>4, <1>e, <1>f, Moves, OthersKept, StillGrows DEF IInv, TypeOK
<1> QED
  BY <1>1, <1>2, <1>3, <1>4 DEF IInv

\* A handler's answer is honest, and what it made true at GoPay stays true for
\* every other job of the account.
LEMMA HandleStep ==
  ASSUME IInv, NEW j \in Job, Handle(j)
  PROVE  IInv'
<1> DEFINE a == job[j].acct
<1>0. exec[j].pc # "none" /\ a \in Account /\ Fate(j) = gopay[a]
  BY UnderWay DEF Handle, At, Fate
<1>1. PICK r \in Outcomes(Action(j), exec[j].snap, Fate(j)) :
        /\ gopay' = [gopay EXCEPT ![a] = r.g]
        /\ \E saves \in Saves(Action(j), r.ok) :
             Becomes(j, [exec[j] EXCEPT !.pc = IF saves THEN "save" ELSE "answer",
                                        !.out = r.b, !.ok = r.ok])
  BY <1>0 DEF Handle, Acct
<1>2. Honest(Action(j), Fate(j), r)
  BY <1>0, UnderWay, HandlersAreHonest DEF Execution
<1>3. PICK pc \in {"save", "answer"} :
        Becomes(j, [exec[j] EXCEPT !.pc = pc, !.out = r.b, !.ok = r.ok])
  BY <1>1
<1> DEFINE e == [exec[j] EXCEPT !.pc = pc, !.out = r.b, !.ok = r.ok]
<1>e. /\ e \in Execution /\ e.pc = pc /\ e.i = exec[j].i /\ e.snap = exec[j].snap
      /\ e.out = r.b /\ e.ok = r.ok
  BY <1>0, <1>2, UnderWay DEF Execution, PCs, Honest
<1>f. Becomes(j, e)
  BY <1>3
<1> HIDE DEF e
<1>4. job' = job /\ trigger' = trigger /\ store' = store
  BY DEF Handle
<1>5. gopay' \in [Account -> Truth] /\ \A b \in Account : Grows(gopay[b], gopay'[b])
  BY <1>0, <1>1, <1>2 DEF IInv, TypeOK, Honest, Grows
<1>6. TypeOK'
  <2>1. exec' \in [Job -> Execution]
    BY <1>e, <1>f, Moves
  <2> QED
    BY <2>1, <1>4, <1>5 DEF IInv, TypeOK, Execution
<1>7. StoreIsNeverAhead'
  BY <1>4, <1>5, TruthGrows DEF IInv, StoreIsNeverAhead, TypeOK
<1>8. JobOK(j)'
  <2>1. /\ exec'[j].pc = pc /\ exec'[j].i = exec[j].i /\ exec'[j].snap = exec[j].snap
        /\ exec'[j].out = r.b /\ exec'[j].ok = r.ok
    BY <1>e, <1>f, Moves
  <2>2. /\ job'[j] = job[j] /\ Fate(j)' = r.g /\ Action(j)' = Action(j)
    BY <1>0, <1>1, <1>4, <2>1 DEF Fate, Action, IInv, TypeOK
  <2>3. PlanKept(j)' /\ Asked(j)'
    BY <1>0, <2>1, <2>2, UnderWay DEF PlanKept, Asked
  <2>4. CopiesAreTrue(j)'
    BY <1>0, <1>2, <2>1, <2>2, UnderWay, TruthGrows DEF CopiesAreTrue, Honest, Execution
  <2>5. AnswersAreTrue(j)'
    BY <1>2, <2>1, <2>2 DEF AnswersAreTrue, Honest
  <2>6. MarksAreDue(j)'
    BY <2>1 DEF MarksAreDue
  <2>7. EndIsTrue(j)'
    BY <1>0, <1>2, <2>2, UnderWay, TruthGrows DEF IInv, JobOK, EndIsTrue, Honest, Record
  <2> QED
    BY <2>3, <2>4, <2>5, <2>6, <2>7 DEF JobOK
<1>9. ASSUME NEW k \in Job, k # j PROVE JobOK(k)'
  BY <1>4, <1>5, <1>9, <1>e, <1>f, Moves, OthersKept DEF IInv, TypeOK
<1> QED
  BY <1>6, <1>7, <1>8, <1>9 DEF IInv

\* The steps that write the execution's copy of the state into the store.
LEMMA SaveStep ==
  ASSUME IInv, NEW j \in Job, saveStateIfAccount(j) \/ finish(j)
  PROVE  IInv'
<1> USE DEF saveStateIfAccount, finish, At, Acct, SaveGopayAccountState
<1>0. exec[j].pc # "none"
  OBVIOUS
<1>1. PICK b \in Blob : /\ Claims(b, Fate(j))
                        /\ store' = [store EXCEPT ![job[j].acct] = b]
  BY <1>0, UnderWay DEF Execution
<1>e. PICK e \in Execution :
        /\ Becomes(j, e)
        /\ e.i = exec[j].i /\ e.snap = exec[j].snap /\ e.out = exec[j].out
        /\ e.ok = exec[j].ok
        /\ \/ exec[j].pc = "save" /\ e.pc = "answer"
           \/ exec[j].pc = "finish" /\ e.pc = "mark"
  BY <1>0, UnderWay DEF Execution, PCs
<1>2. TypeOK'
  <2>1. exec' \in [Job -> Execution]
    BY <1>e, Moves
  <2> QED
    BY <1>1, <2>1 DEF IInv, TypeOK, Execution
<1>3. StoreIsNeverAhead'
  BY <1>0, <1>1, UnderWay DEF IInv, TypeOK, StoreIsNeverAhead, Fate
<1>4. JobOK(j)'
  <2>1. /\ exec'[j].i = exec[j].i /\ exec'[j].snap = exec[j].snap
        /\ exec'[j].out = exec[j].out /\ exec'[j].ok = exec[j].ok
        /\ \/ exec[j].pc = "save" /\ exec'[j].pc = "answer"
           \/ exec[j].pc = "finish" /\ exec'[j].pc = "mark"
    BY <1>e, Moves
  <2>2. job'[j] = job[j] /\ Fate(j)' = Fate(j) /\ Action(j)' = Action(j)
    BY <2>1 DEF Fate, Action
  <2>3. PlanKept(j)' /\ Asked(j)' /\ CopiesAreTrue(j)'
    BY <1>0, <2>1, <2>2, UnderWay DEF PlanKept, Asked, CopiesAreTrue
  <2>4. AnswersAreTrue(j)' /\ MarksAreDue(j)' /\ EndIsTrue(j)'
    BY <2>1, <2>2 DEF IInv, JobOK, AnswersAreTrue, MarksAreDue, EndIsTrue
  <2> QED
    BY <2>3, <2>4 DEF JobOK
<1>5. ASSUME NEW k \in Job, k # j PROVE JobOK(k)'
  BY <1>5, <1>e, Moves, OthersKept, StillGrows DEF IInv, TypeOK
<1> QED
  BY <1>2, <1>3, <1>4, <1>5 DEF IInv

\* A save that is lost, an answer that is lost, an end that is not sent.
LEMMA LossStep ==
  ASSUME IInv, NEW j \in Job, LoseSave(j) \/ LoseAnswer(j) \/ FinishNotSent(j)
  PROVE  IInv'
<1> USE DEF At
<1>0. exec[j].pc # "none"
  BY DEF LoseSave, LoseAnswer, FinishNotSent
<1>1. UNCHANGED <<job, trigger, store, gopay>>
  BY DEF LoseSave, LoseAnswer, FinishNotSent
<1>e. PICK e \in Execution :
        /\ Becomes(j, e)
        /\ e.i = exec[j].i /\ e.snap = exec[j].snap /\ e.out = exec[j].out
        /\ e.ok = exec[j].ok
        /\ \/ exec[j].pc = "save" /\ e.pc = "answer"
           \/ exec[j].pc = "finish" /\ e.pc = "mark"
           \/ e.pc \in {"call", "over"}
  <2>1. exec[j] \in Execution
    BY <1>0, UnderWay
  <2>2. CASE LoseSave(j)
    <3>1. PICK pc \in PCs, lost \in Nat :
            /\ Becomes(j, [exec[j] EXCEPT !.pc = pc, !.lost = lost])
            /\ \/ exec[j].pc = "save" /\ pc = "answer"
               \/ exec[j].pc = "finish" /\ pc = "mark"
      <4>1. exec[j].lost + 1 \in Nat /\ "answer" \in PCs /\ "mark" \in PCs
        BY <2>1, Fields DEF PCs
      <4> QED
        BY <2>2, <4>1 DEF LoseSave
    <3>2. LET d == [exec[j] EXCEPT !.pc = pc, !.lost = lost]
          IN  /\ d \in Execution /\ d.pc = pc /\ d.i = exec[j].i
              /\ d.snap = exec[j].snap /\ d.out = exec[j].out /\ d.ok = exec[j].ok
      BY <2>1 DEF Execution
    <3> QED
      BY <3>1, <3>2
  <2>3. CASE LoseAnswer(j)
    <3> DEFINE again == Action(j) \in Repeated /\ exec[j].tries < MaxTries
    <3>1. PICK pc \in {"call", "over"}, tries \in 1..MaxTries :
            Becomes(j, [exec[j] EXCEPT !.pc = pc, !.tries = tries])
      <4>1. exec[j].tries \in 1..MaxTries
        BY <2>1, Fields
      <4>2. CASE again
        <5>1. exec[j].tries + 1 \in 1..MaxTries
          BY <4>1, <4>2 DEF MaxTries
        <5>2. Becomes(j, [exec[j] EXCEPT !.pc = "call", !.tries = exec[j].tries + 1])
          BY <2>3, <4>2 DEF LoseAnswer
        <5> QED
          BY <5>1, <5>2
      <4>3. CASE ~again
        <5>1. Becomes(j, [exec[j] EXCEPT !.pc = "over", !.tries = exec[j].tries])
          BY <2>3, <4>3 DEF LoseAnswer
        <5> QED
          BY <4>1, <5>1
      <4> QED
        BY <4>2, <4>3
    <3>2. pc \in PCs
      BY DEF PCs
    <3>3. LET d == [exec[j] EXCEPT !.pc = pc, !.tries = tries]
          IN  /\ d \in Execution /\ d.pc = pc /\ d.i = exec[j].i
              /\ d.snap = exec[j].snap /\ d.out = exec[j].out /\ d.ok = exec[j].ok
      BY <2>1, <3>2 DEF Execution
    <3> QED
      BY <3>1, <3>3
  <2>4. CASE FinishNotSent(j)
    <3>1. "over" \in PCs
      BY DEF PCs
    <3>2. LET d == [exec[j] EXCEPT !.pc = "over"]
          IN  /\ d \in Execution /\ d.pc = "over" /\ d.i = exec[j].i
              /\ d.snap = exec[j].snap /\ d.out = exec[j].out /\ d.ok = exec[j].ok
      BY <2>1, <3>1 DEF Execution
    <3> QED
      BY <2>4, <3>2 DEF FinishNotSent
  <2> QED
    BY <2>2, <2>3, <2>4
<1>2. TypeOK'
  <2>1. exec' \in [Job -> Execution]
    BY <1>e, Moves
  <2> QED
    BY <1>1, <2>1 DEF IInv, TypeOK, Execution
<1>3. StoreIsNeverAhead'
  BY <1>1 DEF IInv, StoreIsNeverAhead
<1>4. JobOK(j)'
  <2>1. /\ exec'[j].i = exec[j].i /\ exec'[j].snap = exec[j].snap
        /\ exec'[j].out = exec[j].out /\ exec'[j].ok = exec[j].ok
        /\ \/ exec[j].pc = "save" /\ exec'[j].pc = "answer"
           \/ exec[j].pc = "finish" /\ exec'[j].pc = "mark"
           \/ exec'[j].pc \in {"call", "over"}
    BY <1>e, Moves
  <2>2. job'[j] = job[j] /\ Fate(j)' = Fate(j) /\ Action(j)' = Action(j)
    BY <1>1, <2>1 DEF Fate, Action
  <2>3. PlanKept(j)' /\ Asked(j)' /\ CopiesAreTrue(j)'
    BY <1>0, <2>1, <2>2, UnderWay DEF PlanKept, Asked, CopiesAreTrue
  <2>4. AnswersAreTrue(j)' /\ MarksAreDue(j)' /\ EndIsTrue(j)'
    BY <2>1, <2>2 DEF IInv, JobOK, AnswersAreTrue, MarksAreDue, EndIsTrue
  <2> QED
    BY <2>3, <2>4 DEF JobOK
<1>5. ASSUME NEW k \in Job, k # j PROVE JobOK(k)'
  BY <1>1, <1>5, <1>e, Moves, OthersKept, StillGrows DEF IInv, TypeOK
<1> QED
  BY <1>2, <1>3, <1>4, <1>5 DEF IInv

\* An execution that goes on to its end has had its last answer, or that of a
\* PIN that was set already.
LEMMA ProceedStep ==
  ASSUME IInv, NEW j \in Job, Proceed(j)
  PROVE  IInv'
<1>0. exec[j].pc = "answer" /\ UNCHANGED <<job, trigger, store, gopay>>
  BY DEF Proceed, At
<1>1. PICK pc \in PCs, i \in Nat, tries \in 1..MaxTries, round \in 1..MaxRounds :
        /\ Becomes(j, [exec[j] EXCEPT !.pc = pc, !.i = i, !.tries = tries,
                                      !.round = round, !.snap = exec[j].out])
        /\ i \in 1..Len(Plan[job[j].op]) /\ pc \in {"call", "finish", "fail"}
        /\ pc = "finish" => /\ exec[j].ok /\ i = exec[j].i
                            /\ i = Len(Plan[job[j].op]) \/ Action(j) = "start-pin"
  <2>1. /\ job[j].op \in Op /\ Len(Plan[job[j].op]) \in 1..3
        /\ exec[j].round \in 1..MaxRounds /\ exec[j].i \in 1..Len(Plan[job[j].op])
    BY <1>0, UnderWay, PlanTypes DEF Record, Execution
  <2>2. job[j].op = "change_phone" => Len(Plan[job[j].op]) = 3
    BY Plans
  <2> DEFINE Goes(pc, i, round) ==
        Becomes(j, [exec[j] EXCEPT !.pc = pc, !.i = i, !.tries = 1, !.round = round,
                                   !.snap = exec[j].out])
             R == exec[j].round
  <2>3. \/ exec[j].i # Len(Plan[job[j].op]) /\ Goes("call", exec[j].i + 1, R)
        \/ /\ exec[j].ok /\ Goes("finish", exec[j].i, R)
           /\ exec[j].i = Len(Plan[job[j].op]) \/ Action(j) = "start-pin"
        \/ Goes("fail", exec[j].i, R)
        \/ /\ job[j].op = "change_phone" /\ R < MaxRounds
           /\ Goes("call", 2, R + 1)
    BY DEF Proceed
  <2>t. 1 \in 1..MaxTries
    BY DEF MaxTries
  <2>4. "call" \in PCs /\ "finish" \in PCs /\ "fail" \in PCs
    BY DEF PCs
  <2>5. exec[j].i \in Nat
    BY <2>1
  <2> HIDE DEF Goes
  <2>6. CASE exec[j].i # Len(Plan[job[j].op]) /\ Goes("call", exec[j].i + 1, R)
    <3>1. exec[j].i + 1 \in Nat /\ exec[j].i + 1 \in 1..Len(Plan[job[j].op])
      BY <2>1, <2>6
    <3> QED
      BY <2>1, <2>t, <2>4, <2>6, <3>1 DEF Goes
  <2>7. CASE /\ exec[j].ok /\ Goes("finish", exec[j].i, R)
             /\ exec[j].i = Len(Plan[job[j].op]) \/ Action(j) = "start-pin"
    BY <2>1, <2>t, <2>4, <2>7, <2>5 DEF Goes
  <2>8. CASE Goes("fail", exec[j].i, R)
    BY <2>1, <2>t, <2>4, <2>8, <2>5 DEF Goes
  <2>9. CASE /\ job[j].op = "change_phone" /\ R < MaxRounds
             /\ Goes("call", 2, R + 1)
    <3>1. R + 1 \in 1..MaxRounds
      BY <2>1, <2>9 DEF MaxRounds
    <3>2. 2 \in 1..Len(Plan[job[j].op])
      <4>1. Len(Plan[job[j].op]) = 3
        BY <2>2, <2>9
      <4> QED
        BY <4>1
    <3> QED
      BY <2>t, <2>4, <2>9, <3>1, <3>2 DEF Goes
  <2> QED
    BY <2>3, <2>6, <2>7, <2>8, <2>9
<1> DEFINE e == [exec[j] EXCEPT !.pc = pc, !.i = i, !.tries = tries, !.round = round,
                                !.snap = exec[j].out]
<1>e. /\ e \in Execution /\ e.pc = pc /\ e.i = i /\ e.snap = exec[j].out
      /\ e.out = exec[j].out
  <2>1. i \in 1..3 /\ exec[j] \in Execution
    BY <1>0, <1>1, UnderWay, PlanTypes DEF Record
  <2>2. exec[j].out \in Blob
    BY <2>1, Fields
  <2> QED
    BY <1>1, <2>1, <2>2 DEF Execution
<1>f. Becomes(j, e)
  BY <1>1
<1> HIDE DEF e
<1>2. TypeOK'
  BY <1>0, <1>e, <1>f, Moves DEF IInv, TypeOK, Execution
<1>3. StoreIsNeverAhead'
  BY <1>0 DEF IInv, StoreIsNeverAhead
<1>4. JobOK(j)'
  <2>1. /\ exec'[j].pc = pc /\ exec'[j].i = i /\ exec'[j].snap = exec[j].out
        /\ exec'[j].out = exec[j].out
    BY <1>e, <1>f, Moves
  <2>2. job'[j] = job[j] /\ Fate(j)' = Fate(j)
    BY <1>0 DEF Fate
  <2>3. PlanKept(j)' /\ Asked(j)' /\ CopiesAreTrue(j)'
    BY <1>0, <1>1, <2>1, <2>2, UnderWay DEF PlanKept, Asked, CopiesAreTrue
  <2>4. AnswersAreTrue(j)' /\ EndIsTrue(j)'
    BY <1>1, <2>1, <2>2 DEF IInv, JobOK, AnswersAreTrue, EndIsTrue
  <2>5. MarksAreDue(j)'
    <3>1. CASE pc = "finish"
      <4>1. Achieved(Plan[job[j].op][i], Fate(j))
        BY <1>0, <1>1, <3>1 DEF IInv, JobOK, AnswersAreTrue, Action
      <4>2. Done(job[j].op, Fate(j))
        BY <1>0, <1>1, <3>1, <4>1, UnderWay, LastActionDoes DEF Record, Action
      <4> QED
        BY <2>2, <4>2 DEF MarksAreDue
    <3>2. CASE pc # "finish"
      BY <1>1, <2>1, <3>2 DEF MarksAreDue
    <3> QED
      BY <3>1, <3>2
  <2> QED
    BY <2>3, <2>4, <2>5 DEF JobOK
<1>5. ASSUME NEW k \in Job, k # j PROVE JobOK(k)'
  BY <1>0, <1>5, <1>e, <1>f, Moves, OthersKept, StillGrows DEF IInv, TypeOK
<1> QED
  BY <1>2, <1>3, <1>4, <1>5 DEF IInv

\* finish and fail write the job's end.
LEMMA MarkStep ==
  ASSUME IInv, NEW j \in Job, markSucceeded(j) \/ fail(j)
  PROVE  IInv'
<1> USE DEF markSucceeded, fail, Mark, At, saveWorkflowJob
<1>0. exec[j].pc \in {"mark", "fail"} /\ UNCHANGED <<trigger, store, gopay>>
  OBVIOUS
<1>1. PICK lost \in {exec[j].lost, exec[j].lost + 1} :
        Becomes(j, [exec[j] EXCEPT !.pc = "over", !.lost = lost])
  <2>1. [exec[j] EXCEPT !.pc = "over"] =
          [exec[j] EXCEPT !.pc = "over", !.lost = exec[j].lost]
    BY <1>0, UnderWay DEF Execution
  <2> QED
    BY <2>1
<1> DEFINE e == [exec[j] EXCEPT !.pc = "over", !.lost = lost]
<1>e. /\ e \in Execution /\ e.pc = "over" /\ e.i = exec[j].i /\ e.snap = exec[j].snap
      /\ e.out = exec[j].out
  <2>1. exec[j] \in Execution /\ "over" \in PCs
    BY <1>0, UnderWay DEF PCs
  <2>2. lost \in Nat
    BY <2>1, Fields
  <2> QED
    BY <2>1, <2>2 DEF Execution
<1>f. Becomes(j, e)
  BY <1>1
<1> HIDE DEF e
<1>2. /\ job[j] \in Record /\ job \in [Job -> Record]
      /\ \/ job' = job
         \/ /\ exec[j].pc = "mark"
            /\ job' = [job EXCEPT ![j] = [job[j] EXCEPT !.status = "succeeded",
                                                        !.error = job[j].error]]
         \/ job' = [job EXCEPT ![j] = [job[j] EXCEPT !.status = "failed", !.error = TRUE]]
  BY Types DEF IInv
<1>3. /\ job' \in [Job -> Record]
      /\ job'[j].acct = job[j].acct /\ job'[j].op = job[j].op
      /\ \/ job'[j].status = job[j].status
         \/ job'[j].status = "succeeded" /\ exec[j].pc = "mark"
         \/ job'[j].status = "failed"
      /\ \A k \in Job : k # j => job'[k] = job[k]
  <2>1. CASE job' = job
    BY <1>2, <2>1
  <2>2. CASE /\ exec[j].pc = "mark"
             /\ job' = [job EXCEPT ![j] = [job[j] EXCEPT !.status = "succeeded",
                                                         !.error = job[j].error]]
    BY <1>2, <2>2 DEF Record
  <2>3. CASE job' = [job EXCEPT ![j] = [job[j] EXCEPT !.status = "failed", !.error = TRUE]]
    BY <1>2, <2>3 DEF Record
  <2> QED
    BY <1>2, <2>1, <2>2, <2>3
<1>4. TypeOK'
  <2>1. exec' \in [Job -> Execution]
    BY <1>e, <1>f, Moves
  <2> QED
    BY <1>0, <1>3, <2>1 DEF IInv, TypeOK, Execution, Record
<1>5. StoreIsNeverAhead'
  BY <1>0 DEF IInv, StoreIsNeverAhead
<1>6. JobOK(j)'
  <2>1. /\ exec'[j].pc = "over" /\ exec'[j].i = exec[j].i
        /\ exec'[j].snap = exec[j].snap /\ exec'[j].out = exec[j].out
    BY <1>e, <1>f, Moves
  <2>2. Fate(j)' = Fate(j)
    BY <1>0, <1>3 DEF Fate
  <2>3. PlanKept(j)' /\ Asked(j)' /\ CopiesAreTrue(j)'
    BY <1>0, <1>3, <2>1, <2>2, UnderWay DEF PlanKept, Asked, CopiesAreTrue
  <2>4. AnswersAreTrue(j)' /\ MarksAreDue(j)'
    BY <2>1 DEF AnswersAreTrue, MarksAreDue
  <2>5. EndIsTrue(j)'
    BY <1>3, <2>2 DEF IInv, JobOK, MarksAreDue, EndIsTrue
  <2> QED
    BY <2>3, <2>4, <2>5 DEF JobOK
<1>7. ASSUME NEW k \in Job, k # j PROVE JobOK(k)'
  BY <1>0, <1>3, <1>7, <1>e, <1>f, Moves, OthersKept, StillGrows DEF IInv, TypeOK
<1> QED
  BY <1>4, <1>5, <1>6, <1>7 DEF IInv

LEMMA DeleteStep ==
  ASSUME IInv, NEW a \in Account, DeleteGopayAccount(a)
  PROVE  IInv'
<1> USE DEF DeleteGopayAccount, SaveGopayAccountState
<1>1. TypeOK'
  BY Types DEF IInv, TypeOK
<1>2. StoreIsNeverAhead'
  BY DEF IInv, TypeOK, StoreIsNeverAhead, Claims, Empty
<1>3. ASSUME NEW k \in Job PROVE JobOK(k)'
  BY OthersKept, StillGrows
<1> QED
  BY <1>1, <1>2, <1>3 DEF IInv

LEMMA NextInv == JobConstants /\ IInv /\ [Next]_vars => IInv'
<1> SUFFICES ASSUME JobConstants, IInv, [Next]_vars PROVE IInv'
  OBVIOUS
<1>1. ASSUME NEW j \in Job, NEW a \in Account, NEW op \in Ops, handleWorkflowStart(j, a, op)
     PROVE  IInv'
  BY <1>1, StartStep
<1>2. ASSUME NEW j \in Job, Trigger_Next(j) PROVE IInv'
  BY <1>2, TriggerStep
<1>3. ASSUME NEW j \in Job, Exec_Next(j) PROVE IInv'
  BY <1>3, LoadStep, HandleStep, SaveStep, LossStep, ProceedStep, MarkStep DEF Exec_Next
<1>4. ASSUME NEW a \in Account, DeleteGopayAccount(a) PROVE IInv'
  BY <1>4, DeleteStep
<1>5. CASE UNCHANGED vars
  <2>1. ASSUME NEW k \in Job PROVE JobOK(k)'
    BY <1>5, OthersKept, StillGrows DEF vars
  <2> QED
    BY <1>5, <2>1 DEF vars, IInv, TypeOK, StoreIsNeverAhead
<1> QED
  BY <1>1, <1>2, <1>3, <1>4, <1>5 DEF Next

-----------------------------------------------------------------------------

LEMMA AlwaysIInv == ASSUME JobConstants PROVE Spec => []IInv
<1>1. Init => IInv
  BY InitInv
<1>2. IInv /\ [Next]_vars => IInv'
  BY NextInv
<1> QED
  BY <1>1, <1>2, PTL DEF Spec

\* The records of jobs, the goroutines, the executions, the stored states and
\* what GoPay holds have their types.
THEOREM JobTypes == Spec => []TypeOK
<1>1. IInv => TypeOK
  BY DEF IInv
<1> QED
  BY <1>1, AlwaysIInv, JobConstants, PTL

\* Whatever is saved late, twice, over another's or not at all, a stored state
\* claims only what is true at GoPay (saveStateIfAccount, finish,
\* SaveGopayAccountState, DeleteGopayAccount).
THEOREM StoredIsTrue == Spec => []StoreIsNeverAhead
<1>1. IInv => StoreIsNeverAhead
  BY DEF IInv
<1> QED
  BY <1>1, AlwaysIInv, JobConstants, PTL

\* Whatever is lost, repeated or done at once, a job shown as succeeded
\* (markSucceeded) has done at GoPay what its operation says.
THEOREM SuccessIsTrue == Spec => []SucceededIsTrue
<1>1. IInv => SucceededIsTrue
  BY DEF IInv, JobOK, EndIsTrue, SucceededIsTrue, Fate
<1> QED
  BY <1>1, AlwaysIInv, JobConstants, PTL

-----------------------------------------------------------------------------
(* The end of a job.  If n8n's answer to the trigger is not lost, a trigger *)
(* that failed has no execution, so only the execution's last step, with    *)
(* the job still "started", and the goroutine of a job without an execution *)
(* write into the record.                                                   *)

Phase(j) ==
  /\ trigger[j] = "posting" => job[j].status = "started"
  /\ trigger[j] \in {"none", "posting", "failing"} => exec[j].pc = "none"
  /\ exec[j].pc = "none" => job[j].status \in {"absent", "started", "trigger_failed"}
  /\ exec[j].pc \notin {"none", "over"} => job[j].status = "started"

Phases == \A j \in Job : Phase(j)

\* A step of execution j alone, which leads to one of PS.
PcBecomes(j, PS) ==
  exec'[j].pc \in PS /\ \A k \in Job : k # j => exec'[k] = exec[k]

LEMMA InitPhases == Init => Phases
<1> SUFFICES ASSUME Init, NEW j \in Job PROVE Phase(j)
  BY DEF Phases
<1>1. exec[j].pc = "none" /\ trigger[j] = "none" /\ job[j].status = "absent"
  BY DEF Init, Idle
<1> QED
  BY <1>1 DEF Phase

LEMMA NextPhases ==
  ASSUME JobConstants, AnswersLost = FALSE, IInv, Phases, [Next]_vars
  PROVE  Phases'
<1>0. job \in [Job -> Record] /\ exec \in [Job -> Execution] /\ Idle \in Execution
  BY Types DEF IInv
<1>1. ASSUME NEW j \in Job, NEW a \in Account, NEW op \in Ops, handleWorkflowStart(j, a, op)
     PROVE  Phases'
  <2>1. exec[j].pc = "none"
    BY <1>1 DEF handleWorkflowStart, IInv, JobOK, Asked, Idle
  <2> QED
    BY <1>0, <1>1, <2>1 DEF handleWorkflowStart, saveWorkflowJob, newGoPayWorkflowJob,
       Phases, Phase, IInv, TypeOK
<1>2. ASSUME NEW j \in Job, Trigger_Next(j) PROVE Phases'
  <2>1. CASE Deliver(j)
    <3>1. PcBecomes(j, {"load"})
      BY <1>0, <2>1 DEF Deliver, Becomes, PcBecomes, Execution
    <3>2. job' = job /\ trigger' = [trigger EXCEPT ![j] = "answering"]
          /\ trigger[j] = "posting"
      BY <2>1 DEF Deliver
    <3> QED
      BY <3>1, <3>2 DEF PcBecomes, Phases, Phase, IInv, TypeOK
  <2>2. CASE TriggerAnswered(j)
    BY <2>2 DEF TriggerAnswered, Phases, Phase, IInv, TypeOK
  <2>3. CASE TriggerFails(j)
    BY <2>3 DEF TriggerFails, Phases, Phase, IInv, TypeOK
  <2>4. CASE SaveTriggerFailed(j)
    BY <1>0, <2>4 DEF SaveTriggerFailed, saveWorkflowJob, newGoPayWorkflowJob, Phases,
       Phase, Record, IInv, TypeOK
  <2> QED
    BY <1>2, <2>1, <2>2, <2>3, <2>4 DEF Trigger_Next
<1>3. ASSUME NEW j \in Job, Exec_Next(j) PROVE Phases'
  <2>1. CASE loadState(j) \/ Handle(j) \/ saveStateIfAccount(j) \/ LoseSave(j)
    <3>1. /\ job' = job /\ trigger' = trigger /\ exec[j].pc \notin {"none", "over"}
          /\ exec'[j].pc \notin {"none", "over"}
          /\ \A k \in Job : k # j => exec'[k] = exec[k]
      <4>1. CASE Handle(j)
        <5>1. PICK r \in Outcomes(Action(j), exec[j].snap, gopay[Acct(j)]) :
                \E saves \in Saves(Action(j), r.ok) :
                  Becomes(j, [exec[j] EXCEPT !.pc = IF saves THEN "save" ELSE "answer",
                                             !.out = r.b, !.ok = r.ok])
          BY <4>1 DEF Handle
        <5>2. PICK pc \in {"save", "answer"} :
                Becomes(j, [exec[j] EXCEPT !.pc = pc, !.out = r.b, !.ok = r.ok])
          BY <5>1
        <5>3. PcBecomes(j, {"save", "answer"})
          BY <1>0, <5>2 DEF Becomes, PcBecomes, Execution
        <5> QED
          BY <4>1, <5>3 DEF Handle, At, PcBecomes
      <4>2. CASE loadState(j) \/ saveStateIfAccount(j)
        <5>1. \/ Becomes(j, [exec[j] EXCEPT !.pc = "call", !.snap = store[Acct(j)]])
              \/ Becomes(j, [exec[j] EXCEPT !.pc = "answer"])
          BY <4>2 DEF loadState, saveStateIfAccount
        <5>2. PcBecomes(j, {"call", "answer"})
          <6>1. CASE Becomes(j, [exec[j] EXCEPT !.pc = "call", !.snap = store[Acct(j)]])
            BY <1>0, <6>1 DEF Becomes, PcBecomes, Execution
          <6>2. CASE Becomes(j, [exec[j] EXCEPT !.pc = "answer"])
            BY <1>0, <6>2 DEF Becomes, PcBecomes, Execution
          <6> QED
            BY <5>1, <6>1, <6>2
        <5> QED
          BY <4>2, <5>2 DEF loadState, saveStateIfAccount, At, PcBecomes
      <4>3. CASE LoseSave(j)
        <5>1. PICK pc \in {"answer", "mark"} :
                Becomes(j, [exec[j] EXCEPT !.pc = pc, !.lost = exec[j].lost + 1])
          BY <4>3 DEF LoseSave
        <5>2. PcBecomes(j, {"answer", "mark"})
          BY <1>0, <5>1 DEF Becomes, PcBecomes, Execution
        <5> QED
          BY <4>3, <5>2 DEF LoseSave, PcBecomes
      <4> QED
        BY <2>1, <4>1, <4>2, <4>3
    <3> QED
      BY <3>1 DEF Phases, Phase
  <2>2. CASE Proceed(j) \/ LoseAnswer(j) \/ finish(j) \/ FinishNotSent(j)
    <3>1. /\ job' = job /\ trigger' = trigger /\ exec[j].pc \notin {"none", "over"}
          /\ exec'[j].pc # "none" /\ \A k \in Job : k # j => exec'[k] = exec[k]
      <4>1. CASE Proceed(j)
        <5>1. PICK pc \in {"call", "finish", "fail"},
                   i \in {2, exec[j].i, exec[j].i + 1},
                   round \in {exec[j].round, exec[j].round + 1} :
                Becomes(j, [exec[j] EXCEPT !.pc = pc, !.i = i, !.tries = 1,
                                           !.round = round, !.snap = exec[j].out])
          BY <4>1 DEF Proceed
        <5>2. PcBecomes(j, {"call", "finish", "fail"})
          BY <1>0, <5>1 DEF Becomes, PcBecomes, Execution
        <5> QED
          BY <4>1, <5>2 DEF Proceed, At, PcBecomes
      <4>2. CASE LoseAnswer(j)
        <5>1. PICK pc \in {"call", "over"},
                   tries \in {exec[j].tries, exec[j].tries + 1} :
                Becomes(j, [exec[j] EXCEPT !.pc = pc, !.tries = tries])
          BY <4>2 DEF LoseAnswer
        <5>2. PcBecomes(j, {"call", "over"})
          BY <1>0, <5>1 DEF Becomes, PcBecomes, Execution
        <5> QED
          BY <4>2, <5>2 DEF LoseAnswer, At, PcBecomes
      <4>3. CASE finish(j) \/ FinishNotSent(j)
        <5>1. PcBecomes(j, {"mark", "over"})
          BY <1>0, <4>3 DEF finish, FinishNotSent, Becomes, PcBecomes, Execution
        <5> QED
          BY <4>3, <5>1 DEF finish, FinishNotSent, At, PcBecomes
      <4> QED
        BY <2>2, <4>1, <4>2, <4>3
    <3> QED
      BY <3>1 DEF Phases, Phase
  <2>3. CASE markSucceeded(j) \/ fail(j)
    <3>1. PICK lost \in {exec[j].lost, exec[j].lost + 1} :
            \/ Becomes(j, [exec[j] EXCEPT !.pc = "over"])
            \/ Becomes(j, [exec[j] EXCEPT !.pc = "over", !.lost = lost])
      BY <2>3 DEF markSucceeded, fail, Mark
    <3>2. PcBecomes(j, {"over"})
      <4>1. CASE Becomes(j, [exec[j] EXCEPT !.pc = "over"])
        BY <1>0, <4>1 DEF Becomes, PcBecomes, Execution
      <4>2. CASE Becomes(j, [exec[j] EXCEPT !.pc = "over", !.lost = lost])
        BY <1>0, <4>2 DEF Becomes, PcBecomes, Execution
      <4> QED
        BY <3>1, <4>1, <4>2
    <3>3. /\ trigger' = trigger /\ exec[j].pc \notin {"none", "over"}
          /\ \A k \in Job : k # j => job'[k] = job[k]
      BY <1>0, <2>3 DEF markSucceeded, fail, Mark, At, saveWorkflowJob
    <3> QED
      BY <3>2, <3>3 DEF PcBecomes, Phases, Phase
  <2> QED
    BY <1>3, <2>1, <2>2, <2>3 DEF Exec_Next
<1>4. ASSUME NEW a \in Account, DeleteGopayAccount(a) PROVE Phases'
  BY <1>4 DEF DeleteGopayAccount, Phases, Phase
<1>5. CASE UNCHANGED vars
  BY <1>5 DEF vars, Phases, Phase
<1> QED
  BY <1>1, <1>2, <1>3, <1>4, <1>5 DEF Next

Kept == \A j \in Job : job[j].status \in {"succeeded", "failed"} => job'[j] = job[j]

LEMMA StepKeepsOutcome ==
  ASSUME IInv, Phases, [Next]_vars
  PROVE  Kept
<1>0. job \in [Job -> Record]
  BY Types DEF IInv
<1>1. ASSUME NEW j \in Job, job'[j] # job[j]
     PROVE  job[j].status \notin {"succeeded", "failed"}
  <2>1. CASE \E a \in Account, op \in Ops : handleWorkflowStart(j, a, op)
    BY <2>1 DEF handleWorkflowStart
  <2>2. CASE SaveTriggerFailed(j)
    BY <2>2 DEF SaveTriggerFailed, Phases, Phase
  <2>3. CASE markSucceeded(j) \/ fail(j)
    BY <2>3 DEF markSucceeded, fail, Mark, At, Phases, Phase
  <2>4. \/ \E a \in Account, op \in Ops : handleWorkflowStart(j, a, op)
        \/ SaveTriggerFailed(j) \/ markSucceeded(j) \/ fail(j)
    <3>1. ASSUME NEW k \in Job, NEW a \in Account, NEW op \in Ops,
                 handleWorkflowStart(k, a, op)
         PROVE  k = j
      BY <1>1, <3>1 DEF handleWorkflowStart, saveWorkflowJob
    <3>2. ASSUME NEW k \in Job, Trigger_Next(k)
         PROVE  k = j /\ SaveTriggerFailed(k)
      BY <1>0, <1>1, <3>2 DEF Trigger_Next, Deliver, TriggerAnswered, TriggerFails,
         SaveTriggerFailed, saveWorkflowJob
    <3>3. ASSUME NEW k \in Job, Exec_Next(k)
         PROVE  k = j /\ (markSucceeded(k) \/ fail(k))
      <4>1. job' # job
        BY <1>1
      <4>2. markSucceeded(k) \/ fail(k)
        BY <3>3, <4>1 DEF Exec_Next, loadState, Handle, saveStateIfAccount, LoseSave,
           Proceed, LoseAnswer, finish, FinishNotSent
      <4>3. k = j
        BY <1>0, <1>1, <4>2 DEF markSucceeded, fail, Mark, saveWorkflowJob
      <4> QED
        BY <4>2, <4>3
    <3>4. ~(UNCHANGED vars) /\ \A a \in Account : ~DeleteGopayAccount(a)
      BY <1>1 DEF vars, DeleteGopayAccount
    <3> QED
      BY <3>1, <3>2, <3>3, <3>4 DEF Next
  <2> QED
    BY <2>1, <2>2, <2>3, <2>4
<1> QED
  BY <1>1 DEF Kept

\* If no answer is lost, what an execution has written into its job is written
\* over neither by the goroutine that triggered it (SaveTriggerFailed) nor by
\* another step.
THEOREM OutcomeStays ==
  ASSUME AnswersLost = FALSE
  PROVE  Spec => OutcomeKept
<1>1. Init => Phases
  BY InitPhases
<1>2. JobConstants /\ (AnswersLost = FALSE) /\ IInv /\ Phases /\ [Next]_vars => Phases'
  BY NextPhases
<1>3. IInv /\ Phases /\ [Next]_vars => [Kept]_vars
  BY StepKeepsOutcome
<1>4. Spec => []IInv
  BY AlwaysIInv, JobConstants
<1>5. Spec => [][Kept]_vars
  BY <1>1, <1>2, <1>3, <1>4, JobConstants, PTL DEF Spec
<1> QED
  BY <1>5 DEF OutcomeKept, Kept

-----------------------------------------------------------------------------
(* What a succeeded job did is in the store, where jobs of one account run  *)
(* one after the other and an execution loses one save at most.  An         *)
(* execution saves its whole copy over the store, so every copy of the      *)
(* account's state under way has to meet what the jobs that succeeded on    *)
(* it ask for, and a job that is about to succeed what it asks for itself:  *)
(* its last action's save or the one of its end was not lost.               *)

\* What an operation leaves in a state: x says that a signup may have dropped
\* the token that was kept aside.
Holds(op, b, x) ==
  /\ op = "deactivate" => b.gone
  /\ op = "change_phone" => b.aside \/ b.gone \/ x

Meets(b, D, x) == \A op \in D : Holds(op, b, x)

\* The operations that succeeded on an account, and whether it was signed up.
Debts(a)  == {job[j].op : j \in {k \in Job : job[k].acct = a /\ job[k].status = "succeeded"}}
Signed(a) == \E j \in Job : job[j].acct = a /\ job[j].op = "signup"

\* What execution e of operation op carries, with b stored.
Carries(e, op, b, D, x) ==
  LET last  == e.ok /\ e.i = Len(Plan[op])
      saved == Holds(op, b, x) \/ e.lost >= SaveLosses
  IN  /\ e.pc \in {"call", "save", "answer", "finish"} => Meets(e.snap, D, x)
      /\ e.pc \in {"save", "answer"} => Meets(e.out, D, x)
      /\ e.pc \in {"save", "answer"} /\ last => Holds(op, e.out, x)
      /\ e.pc = "answer" /\ last => saved
      /\ e.pc = "finish" => Holds(op, e.snap, x) /\ saved
      /\ e.pc = "mark" => Holds(op, b, x)

\* A goroutine that may still reach n8n, or an execution that runs.
Active(j) == trigger[j] = "posting" \/ Running(j)

\* One job of an account at a time.
Alone ==
  \A j \in Job, k \in Job :
    j # k /\ Active(j) /\ Active(k) => job[j].acct # job[k].acct

\* A job that was not asked for has no account.
Blank == \A j \in Job : job[j].status = "absent" => job[j].acct = NoAccount

AccountStored(a) ==
  /\ Meets(store[a], Debts(a), Signed(a))
  /\ \A j \in Job : job[j].acct = a =>
       Carries(exec[j], job[j].op, store[a], Debts(a), Signed(a))

StoredInv == Alone /\ Blank /\ \A a \in Account : AccountStored(a)

\* What is asked for stays met when less is asked for.
LEMMA LessIsMet ==
  ASSUME NEW b, NEW D, NEW F \in SUBSET D, NEW x \in BOOLEAN, NEW y \in BOOLEAN, x => y
  PROVE  /\ Meets(b, D, x) => Meets(b, F, y)
         /\ \A op : Holds(op, b, x) => Holds(op, b, y)
BY DEF Meets, Holds

LEMMA LessIsCarried ==
  ASSUME NEW e, NEW op, NEW b, NEW D, NEW F \in SUBSET D, NEW x \in BOOLEAN, NEW y \in BOOLEAN,
         x => y, Carries(e, op, b, D, x)
  PROVE  Carries(e, op, b, F, y)
<1>1. \A c : /\ Meets(c, D, x) => Meets(c, F, y)
             /\ Holds(op, c, x) => Holds(op, c, y)
  BY LessIsMet
<1> QED
  BY <1>1 DEF Carries

\* An execution that does not run, has not loaded or is about to fail carries
\* nothing that matters.
LEMMA NothingCarried ==
  ASSUME NEW e, NEW op, NEW b, NEW D, NEW x, e.pc \in {"none", "load", "fail", "over"}
  PROVE  Carries(e, op, b, D, x)
BY DEF Carries

LEMMA LastActions ==
  ASSUME NEW op \in Op, NEW i \in 1..Len(Plan[op])
  PROVE  /\ Plan[op][i] = "start-signup" => op = "signup"
         /\ Plan[op][i] = "start-pin" => op \notin {"deactivate", "change_phone"}
         /\ i = Len(Plan[op]) =>
              /\ op = "deactivate" => Plan[op][i] = "complete-deactivate"
              /\ op = "change_phone" => Plan[op][i] = "complete-change-phone"
<1>1. CASE op = "login"
  BY <1>1, Plans
<1>2. CASE op = "signup"
  BY <1>2, Plans
<1>3. CASE op = "check_balance"
  BY <1>3, Plans
<1>4. CASE op = "ensure_pin_setup"
  BY <1>4, Plans
<1>5. CASE op = "change_phone"
  BY <1>5, Plans
<1>6. CASE op = "deactivate"
  BY <1>6, Plans
<1> QED
  BY <1>1, <1>2, <1>3, <1>4, <1>5, <1>6 DEF Op

\* Only a signup drops the token kept aside, and nothing the mark of a
\* deactivation; the two actions that set them do so when they succeed.
LEMMA AnswersKeep ==
  ASSUME NEW act \in Acts, NEW b \in Blob, NEW g, NEW r \in Outcomes(act, b, g)
  PROVE  /\ b.gone => r.b.gone
         /\ act # "start-signup" /\ (b.aside \/ b.gone) => (r.b.aside \/ r.b.gone)
         /\ r.ok /\ act = "complete-deactivate" => r.b.gone
         /\ r.ok /\ act = "complete-change-phone" => r.b.aside
<1>1. CASE act \in {"auth", "complete-signup"}
  <2>1. r.b \in {b, [b EXCEPT !.token = TRUE]}
    BY <1>1 DEF Outcomes, When, Answer, startAuth, completeSignup
  <2> QED
    BY <1>1, <2>1 DEF Blob
<1>2. CASE act = "start-signup"
  <2>1. r.b \in {b, [b EXCEPT !.token = FALSE, !.aside = FALSE]}
    BY <1>2 DEF Outcomes, When, Answer, startSignup
  <2> QED
    BY <1>2, <2>1 DEF Blob
<1>3. CASE act \in {"check-balance", "start-pin", "complete-pin", "start-change-phone"}
  <2>1. r.b = b
    BY <1>3 DEF Outcomes, When, Answer, checkBalance, startPIN, completePIN, startChangePhone,
       useToken
  <2> QED
    BY <1>3, <2>1
<1>4. CASE act = "start-deactivate"
  <2>1. r.b = b
    BY <1>4 DEF Outcomes, When, Answer, startDeactivate
  <2> QED
    BY <1>4, <2>1
<1>5. CASE act = "complete-change-phone"
  <2>1. \/ r.b = b /\ r.ok = FALSE
        \/ r.b = [b EXCEPT !.token = FALSE, !.aside = TRUE]
    BY <1>5 DEF Outcomes, When, Answer, completeChangePhone
  <2> QED
    BY <1>5, <2>1 DEF Blob
<1>6. CASE act = "complete-deactivate"
  <2>1. \/ r.b = b /\ r.ok = FALSE
        \/ r.b = [b EXCEPT !.aside = FALSE, !.gone = TRUE]
    BY <1>6 DEF Outcomes, When, Answer, completeDeactivate
  <2> QED
    BY <1>6, <2>1 DEF Blob
<1> QED
  BY <1>1, <1>2, <1>3, <1>4, <1>5, <1>6 DEF Acts

LEMMA InitStored == JobConstants /\ Init => StoredInv
<1> SUFFICES ASSUME JobConstants, Init PROVE StoredInv
  OBVIOUS
<1>1. \A j \in Job : /\ job[j].acct = NoAccount /\ trigger[j] = "none" /\ exec[j].pc = "none"
  BY DEF Init, Idle
<1>2. Alone /\ Blank
  BY <1>1 DEF Alone, Active, Running, Blank
<1>3. ASSUME NEW a \in Account
      PROVE  AccountStored(a)
  BY <1>1 DEF AccountStored, Meets, Debts, JobConstants
<1> QED
  BY <1>2, <1>3 DEF StoredInv

\* A step of execution j alone, which may store b: what has to be shown of it.
LEMMA OneCarrier ==
  ASSUME IInv, StoredInv, NEW j \in Job, Running(j),
         NEW e \in Execution, NEW b, NEW a, a = job[j].acct,
         Becomes(j, e), UNCHANGED <<job, trigger>>,
         (store' = store /\ b = store[a]) \/ store' = [store EXCEPT ![a] = b],
         Meets(b, Debts(a), Signed(a)), Carries(e, job[j].op, b, Debts(a), Signed(a))
  PROVE  StoredInv'
<1>0. /\ exec'[j] = e /\ \A k \in Job : k # j => exec'[k] = exec[k]
      /\ store \in [Account -> Blob] /\ a \in Account
  BY Moves, UnderWay DEF IInv, TypeOK, Running
<1>1. \A k \in Job : Active(k)' => Active(k)
  BY <1>0 DEF Active, Running
<1>2. Alone' /\ Blank'
  BY <1>1 DEF StoredInv, Alone, Blank
<1>3. ASSUME NEW c \in Account
      PROVE  AccountStored(c)'
  <2>1. Debts(c)' = Debts(c) /\ Signed(c)' = Signed(c)
    BY DEF Debts, Signed
  <2>2. store'[c] = IF c = a THEN b ELSE store[c]
    BY <1>0
  <2>3. Meets(store'[c], Debts(c), Signed(c))
    BY <2>2 DEF StoredInv, AccountStored
  <2>4. ASSUME NEW k \in Job, job[k].acct = c
        PROVE  Carries(exec'[k], job[k].op, store'[c], Debts(c), Signed(c))
    <3>1. CASE k = j
      BY <1>0, <2>2, <2>4, <3>1
    <3>2. CASE k # j /\ c = a
      <4>1. exec'[k].pc \in {"none", "over"}
        BY <1>0, <2>4, <3>2 DEF StoredInv, Alone, Active, Running
      <4> QED
        BY <4>1, NothingCarried
    <3>3. CASE c # a
      <4>1. k # j /\ store'[c] = store[c] /\ exec'[k] = exec[k]
        BY <1>0, <2>2, <2>4, <3>3
      <4> QED
        BY <2>4, <4>1 DEF StoredInv, AccountStored
    <3> QED
      BY <3>1, <3>2, <3>3
  <2> QED
    BY <2>1, <2>3, <2>4 DEF AccountStored
<1> QED
  BY <1>2, <1>3 DEF StoredInv

\* What the invariant says of an execution that runs.
LEMMA Carrying ==
  ASSUME IInv, StoredInv, NEW j \in Job, Running(j)
  PROVE  LET a == job[j].acct
         IN  /\ a \in Account /\ exec[j] \in Execution /\ job[j].op \in Op
             /\ exec[j].i \in 1..Len(Plan[job[j].op]) /\ Action(j) \in Acts
             /\ Meets(store[a], Debts(a), Signed(a))
             /\ Carries(exec[j], job[j].op, store[a], Debts(a), Signed(a))
             /\ store[a] \in Blob /\ Signed(a) \in BOOLEAN
             /\ job[j].op = "signup" => Signed(a)
<1>1. /\ job[j].acct \in Account /\ exec[j] \in Execution /\ job[j].op \in Op
      /\ exec[j].i \in 1..Len(Plan[job[j].op]) /\ Action(j) \in Acts
  BY UnderWay DEF Running, Record
<1>2. /\ store[job[j].acct] \in Blob /\ Signed(job[j].acct) \in BOOLEAN
      /\ job[j].op = "signup" => Signed(job[j].acct)
  BY <1>1 DEF Signed, IInv, TypeOK
<1> QED
  BY <1>1, <1>2 DEF StoredInv, AccountStored

LEMMA LoadStored ==
  ASSUME IInv, StoredInv, NEW j \in Job, loadState(j)
  PROVE  StoredInv'
<1>0. exec[j].pc = "load" /\ Running(j) /\ UNCHANGED <<job, trigger, store>>
  BY DEF loadState, At, Running
<1> DEFINE a == job[j].acct
           e == [exec[j] EXCEPT !.pc = "call", !.snap = store[a]]
<1>1. /\ e \in Execution /\ e.pc = "call" /\ e.snap = store[a] /\ Becomes(j, e)
  BY <1>0, Carrying DEF loadState, Acct, Execution, PCs
<1> HIDE DEF e
<1>2. Carries(e, job[j].op, store[a], Debts(a), Signed(a))
  BY <1>0, <1>1, Carrying DEF Carries
<1> QED
  BY <1>0, <1>1, <1>2, Carrying, OneCarrier

\* A handler's answer still has what was there, and what its action is for.
LEMMA HandleStored ==
  ASSUME IInv, StoredInv, NEW j \in Job, Handle(j)
  PROVE  StoredInv'
<1> DEFINE a == job[j].acct
           act == Action(j)
           op == job[j].op
           x == Signed(a)
<1>0. exec[j].pc = "call" /\ Running(j) /\ UNCHANGED <<job, trigger, store>>
  BY DEF Handle, At, Running
<1>1. PICK r \in Outcomes(act, exec[j].snap, gopay[a]) :
        \E saves \in Saves(act, r.ok) :
          Becomes(j, [exec[j] EXCEPT !.pc = IF saves THEN "save" ELSE "answer",
                                     !.out = r.b, !.ok = r.ok])
  BY DEF Handle, Acct
<1>2. /\ a \in Account /\ exec[j] \in Execution /\ op \in Op /\ x \in BOOLEAN
      /\ exec[j].i \in 1..Len(Plan[op]) /\ act \in Acts /\ act = Plan[op][exec[j].i]
      /\ Meets(store[a], Debts(a), x) /\ Meets(exec[j].snap, Debts(a), x)
      /\ op = "signup" => x
  BY <1>0, Carrying DEF Carries, Action
<1>3. exec[j].snap \in Blob /\ gopay[a] \in Truth /\ Claims(exec[j].snap, gopay[a])
  BY <1>0, UnderWay DEF Execution, Fate
<1>4. r.b \in Blob /\ r.ok \in BOOLEAN
  BY <1>1, <1>2, <1>3, HandlersAreHonest DEF Honest
<1>5. Meets(r.b, Debts(a), x)
  <2>1. act = "start-signup" => x
    BY <1>2, LastActions
  <2> QED
    BY <1>1, <1>2, <1>3, <2>1, AnswersKeep DEF Meets, Holds
<1>6. r.ok /\ exec[j].i = Len(Plan[op]) => Holds(op, r.b, x)
  <2> SUFFICES ASSUME r.ok, exec[j].i = Len(Plan[op])
               PROVE  Holds(op, r.b, x)
    OBVIOUS
  <2>1. op = "deactivate" => act = "complete-deactivate"
    BY <1>2, LastActions
  <2>2. op = "change_phone" => act = "complete-change-phone"
    BY <1>2, LastActions
  <2> QED
    BY <1>1, <1>2, <1>3, <2>1, <2>2, AnswersKeep DEF Holds
<1>7. PICK pc \in {"save", "answer"} :
        /\ Becomes(j, [exec[j] EXCEPT !.pc = pc, !.out = r.b, !.ok = r.ok])
        /\ act \in {"complete-deactivate", "complete-change-phone"} => pc = "save"
  <2>1. PICK saves \in Saves(act, r.ok) :
          Becomes(j, [exec[j] EXCEPT !.pc = IF saves THEN "save" ELSE "answer",
                                     !.out = r.b, !.ok = r.ok])
    BY <1>1
  <2>2. act \in {"complete-deactivate", "complete-change-phone"} => saves = TRUE
    BY <2>1 DEF Saves
  <2>3. CASE saves
    BY <2>1, <2>3
  <2>4. CASE ~ saves
    BY <2>1, <2>2, <2>4
  <2> QED
    BY <2>3, <2>4
<1> DEFINE e == [exec[j] EXCEPT !.pc = pc, !.out = r.b, !.ok = r.ok]
<1>8. /\ e \in Execution /\ e.pc = pc /\ e.i = exec[j].i /\ e.snap = exec[j].snap
      /\ e.out = r.b /\ e.ok = r.ok /\ Becomes(j, e)
  BY <1>2, <1>4, <1>7 DEF Execution, PCs
<1> HIDE DEF e
<1>9. e.pc = "answer" /\ e.i = Len(Plan[op]) => Holds(op, store[a], x)
  BY <1>2, <1>7, <1>8, LastActions DEF Holds
<1>10. Carries(e, op, store[a], Debts(a), x)
  BY <1>2, <1>5, <1>6, <1>8, <1>9 DEF Carries
<1> QED
  BY <1>0, <1>2, <1>8, <1>10, OneCarrier

\* What is written into the store meets what was asked for.
LEMMA SaveStored ==
  ASSUME IInv, StoredInv, NEW j \in Job, saveStateIfAccount(j) \/ finish(j)
  PROVE  StoredInv'
<1> DEFINE a == job[j].acct
           op == job[j].op
           x == Signed(a)
<1>0. /\ exec[j].pc \in {"save", "finish"} /\ Running(j) /\ UNCHANGED <<job, trigger>>
  BY DEF saveStateIfAccount, finish, At, Running
<1>1. /\ a \in Account /\ exec[j] \in Execution
      /\ Carries(exec[j], op, store[a], Debts(a), x)
  BY <1>0, Carrying
<1>2. CASE saveStateIfAccount(j)
  <2> DEFINE e == [exec[j] EXCEPT !.pc = "answer"]
             b == exec[j].out
  <2>1. /\ e \in Execution /\ e.pc = "answer" /\ e.i = exec[j].i /\ e.snap = exec[j].snap
        /\ e.out = exec[j].out /\ e.ok = exec[j].ok
    BY <1>1 DEF Execution, PCs
  <2>2. Becomes(j, e) /\ store' = [store EXCEPT ![a] = b] /\ exec[j].pc = "save"
    BY <1>2 DEF saveStateIfAccount, At, Acct, SaveGopayAccountState
  <2> HIDE DEF e
  <2>3. Meets(b, Debts(a), x) /\ Carries(e, op, b, Debts(a), x)
    BY <1>1, <2>1, <2>2 DEF Carries
  <2> QED
    BY <1>0, <2>1, <2>2, <2>3, OneCarrier
<1>3. CASE finish(j)
  <2> DEFINE e == [exec[j] EXCEPT !.pc = "mark"]
             b == exec[j].snap
  <2>1. e \in Execution /\ e.pc = "mark"
    BY <1>1 DEF Execution, PCs
  <2>2. Becomes(j, e) /\ store' = [store EXCEPT ![a] = b] /\ exec[j].pc = "finish"
    BY <1>3 DEF finish, At, Acct, SaveGopayAccountState
  <2> HIDE DEF e
  <2>3. Meets(b, Debts(a), x) /\ Carries(e, op, b, Debts(a), x)
    BY <1>1, <2>1, <2>2 DEF Carries
  <2> QED
    BY <1>0, <2>1, <2>2, <2>3, OneCarrier
<1> QED
  BY <1>2, <1>3

\* A save is lost once at most: at the last action, or at the end.
LEMMA LoseSaveStored ==
  ASSUME JobConstants, SaveLosses <= 1, IInv, StoredInv, NEW j \in Job, LoseSave(j)
  PROVE  StoredInv'
<1> DEFINE a == job[j].acct
           op == job[j].op
           x == Signed(a)
<1>0. /\ exec[j].pc \in {"save", "finish"} /\ Running(j) /\ UNCHANGED <<job, trigger, store>>
      /\ exec[j].lost < SaveLosses
  BY DEF LoseSave, Running
<1>1. /\ a \in Account /\ exec[j] \in Execution /\ Meets(store[a], Debts(a), x)
      /\ Carries(exec[j], op, store[a], Debts(a), x)
  BY <1>0, Carrying
<1>2. exec[j].lost \in Nat /\ exec[j].lost + 1 \in Nat /\ exec[j].lost + 1 >= SaveLosses
      /\ ~(exec[j].lost >= SaveLosses)
  BY <1>0, <1>1, Fields DEF JobConstants
<1>3. PICK pc \in {"answer", "mark"} :
        /\ Becomes(j, [exec[j] EXCEPT !.pc = pc, !.lost = exec[j].lost + 1])
        /\ exec[j].pc = "save" => pc = "answer"
        /\ exec[j].pc = "finish" => pc = "mark"
  BY <1>0 DEF LoseSave
<1> DEFINE e == [exec[j] EXCEPT !.pc = pc, !.lost = exec[j].lost + 1]
<1>4. /\ e \in Execution /\ e.pc = pc /\ e.i = exec[j].i /\ e.snap = exec[j].snap
      /\ e.out = exec[j].out /\ e.ok = exec[j].ok /\ e.lost >= SaveLosses /\ Becomes(j, e)
  BY <1>1, <1>2, <1>3 DEF Execution, PCs
<1> HIDE DEF e
<1>5. Carries(e, op, store[a], Debts(a), x)
  BY <1>0, <1>1, <1>2, <1>3, <1>4 DEF Carries
<1> QED
  BY <1>0, <1>1, <1>4, <1>5, OneCarrier

LEMMA LoseAnswerStored ==
  ASSUME IInv, StoredInv, NEW j \in Job, LoseAnswer(j) \/ FinishNotSent(j)
  PROVE  StoredInv'
<1> DEFINE a == job[j].acct
           op == job[j].op
           x == Signed(a)
<1>0. /\ exec[j].pc \in {"answer", "finish", "fail"} /\ Running(j)
      /\ UNCHANGED <<job, trigger, store>>
  BY DEF LoseAnswer, FinishNotSent, At, Running
<1>1. /\ a \in Account /\ exec[j] \in Execution /\ Meets(store[a], Debts(a), x)
      /\ Carries(exec[j], op, store[a], Debts(a), x)
  BY <1>0, Carrying
<1>2. PICK e \in Execution :
        /\ Becomes(j, e)
        /\ \/ e.pc = "over"
           \/ e.pc = "call" /\ e.snap = exec[j].snap /\ exec[j].pc = "answer"
  <2>1. CASE FinishNotSent(j)
    <3>1. [exec[j] EXCEPT !.pc = "over"] \in Execution
          /\ [exec[j] EXCEPT !.pc = "over"].pc = "over"
      BY <1>1 DEF Execution, PCs
    <3> QED
      BY <2>1, <3>1 DEF FinishNotSent
  <2>2. CASE LoseAnswer(j) /\ ~(Action(j) \in Repeated /\ exec[j].tries < MaxTries)
    <3> DEFINE e == [exec[j] EXCEPT !.pc = "over", !.tries = exec[j].tries]
    <3>1. e \in Execution /\ e.pc = "over"
      BY <1>1 DEF Execution, PCs
    <3>2. Becomes(j, e)
      BY <2>2 DEF LoseAnswer
    <3> QED
      BY <3>1, <3>2
  <2>3. CASE LoseAnswer(j) /\ Action(j) \in Repeated /\ exec[j].tries < MaxTries
    <3>1. exec[j].tries + 1 \in 1..MaxTries
      BY <1>1, <2>3, Fields DEF MaxTries
    <3> DEFINE e == [exec[j] EXCEPT !.pc = "call", !.tries = exec[j].tries + 1]
    <3>2. e \in Execution /\ e.pc = "call" /\ e.snap = exec[j].snap
      BY <1>1, <3>1 DEF Execution, PCs
    <3>3. Becomes(j, e) /\ exec[j].pc = "answer"
      BY <2>3 DEF LoseAnswer, At
    <3> QED
      BY <3>2, <3>3
  <2> QED
    BY <2>1, <2>2, <2>3
<1>3. Carries(e, op, store[a], Debts(a), x)
  BY <1>1, <1>2 DEF Carries
<1> QED
  BY <1>0, <1>1, <1>2, <1>3, OneCarrier

\* An execution goes to its end after its last action, or if a PIN was set.
LEMMA ProceedStored ==
  ASSUME IInv, StoredInv, NEW j \in Job, Proceed(j)
  PROVE  StoredInv'
<1> DEFINE a == job[j].acct
           op == job[j].op
           x == Signed(a)
<1>0. exec[j].pc = "answer" /\ Running(j) /\ UNCHANGED <<job, trigger, store>>
  BY DEF Proceed, At, Running
<1>1. /\ a \in Account /\ exec[j] \in Execution /\ Meets(store[a], Debts(a), x)
      /\ Carries(exec[j], op, store[a], Debts(a), x) /\ op \in Op
      /\ exec[j].i \in 1..Len(Plan[op]) /\ Action(j) = Plan[op][exec[j].i]
  BY <1>0, Carrying DEF Action
<1>2. PICK pc \in {"call", "finish", "fail"}, i \in {2, exec[j].i, exec[j].i + 1},
           round \in {exec[j].round, exec[j].round + 1} :
        /\ Becomes(j, [exec[j] EXCEPT !.pc = pc, !.i = i, !.tries = 1, !.round = round,
                                      !.snap = exec[j].out])
        /\ pc = "finish" => /\ exec[j].ok
                            /\ exec[j].i = Len(Plan[op]) \/ Action(j) = "start-pin"
  BY DEF Proceed
<1> DEFINE e == [exec[j] EXCEPT !.pc = pc, !.i = i, !.tries = 1, !.round = round,
                                !.snap = exec[j].out]
<1>3. /\ e.pc = pc /\ e.snap = exec[j].out /\ e.lost = exec[j].lost
      /\ Becomes(j, e)
  BY <1>1, <1>2 DEF Execution
<1>4. e \in Execution
  <2>1. exec' \in [Job -> Execution]
    BY ProceedStep DEF IInv, TypeOK, Execution
  <2>2. exec'[j] = e
    BY <1>3, Types DEF Becomes, IInv
  <2> QED
    BY <2>1, <2>2
<1> HIDE DEF e
<1>5. pc = "finish" =>
        /\ Holds(op, exec[j].out, x)
        /\ (Holds(op, store[a], x) \/ exec[j].lost >= SaveLosses)
  <2>1. CASE exec[j].ok /\ exec[j].i = Len(Plan[op])
    BY <1>0, <1>1, <2>1 DEF Carries
  <2>2. CASE Action(j) = "start-pin"
    BY <1>1, <2>2, LastActions DEF Holds
  <2> QED
    BY <1>2, <2>1, <2>2
<1>6. Carries(e, op, store[a], Debts(a), x)
  BY <1>0, <1>1, <1>2, <1>3, <1>5 DEF Carries
<1> QED
  BY <1>0, <1>1, <1>3, <1>4, <1>6, OneCarrier

\* A step that ends or lessens what is asked for: the jobs keep their accounts
\* and operations, nothing is stored, and nothing new runs.
LEMMA FewerDebts ==
  ASSUME IInv, StoredInv, UNCHANGED store,
         \A k \in Job : /\ job'[k].acct = job[k].acct /\ job'[k].op = job[k].op
                        /\ Active(k)' => Active(k)
                        /\ job'[k].status = "absent" => job[k].status = "absent"
                        /\ job'[k].status = "succeeded" =>
                             job[k].status = "succeeded" \/ exec[k].pc = "mark"
                        /\ exec'[k] = exec[k] \/ exec'[k].pc \in {"load", "over"}
                        /\ job'[k].status # job[k].status /\ exec[k].pc = "mark" =>
                             exec'[k].pc = "over" \/ job'[k].status # "succeeded"
  PROVE  StoredInv'
<1>1. Alone' /\ Blank'
  BY DEF StoredInv, Alone, Blank
<1>2. ASSUME NEW a \in Account
      PROVE  AccountStored(a)'
  <2> DEFINE D == Debts(a)
             E == Debts(a)'
             x == Signed(a)
  <2>1. Signed(a)' = x /\ x \in BOOLEAN
    BY DEF Signed
  <2>2. ASSUME NEW op \in E
        PROVE  /\ Holds(op, store[a], x)
               /\ \/ op \in D
                  \/ \E k \in Job : job[k].acct = a /\ exec[k].pc = "mark" /\ exec'[k].pc = "over"
    <3>1. PICK k \in Job : op = job'[k].op /\ job'[k].acct = a /\ job'[k].status = "succeeded"
      BY DEF Debts
    <3>2. CASE job[k].status = "succeeded"
      <4>1. op \in D
        BY <3>1, <3>2 DEF Debts
      <4>2. Meets(store[a], D, x)
        BY DEF StoredInv, AccountStored
      <4> QED
        BY <4>1, <4>2 DEF Meets
    <3>3. CASE job[k].status # "succeeded"
      BY <3>1, <3>3 DEF StoredInv, AccountStored, Carries
    <3> QED
      BY <3>2, <3>3
  <2>3. Meets(store[a], E, x)
    BY <2>2 DEF Meets
  <2>4. ASSUME NEW k \in Job, job[k].acct = a
        PROVE  Carries(exec'[k], job[k].op, store[a], E, x)
    <3>1. CASE exec'[k].pc \in {"none", "load", "over", "fail"}
      BY <3>1, NothingCarried
    <3>2. CASE exec'[k] = exec[k] /\ exec[k].pc \notin {"none", "load", "over", "fail"}
      <4>1. ASSUME NEW n \in Job, job[n].acct = a, exec[n].pc = "mark", exec'[n].pc = "over"
            PROVE  FALSE
        <5>1. n # k
          BY <3>2, <4>1
        <5>2. Active(n) /\ Active(k)
          BY <3>2, <4>1 DEF Active, Running
        <5> QED
          BY <2>4, <4>1, <5>1, <5>2 DEF StoredInv, Alone
      <4>2. E \in SUBSET D
        BY <2>2, <4>1
      <4>3. Carries(exec[k], job[k].op, store[a], D, x)
        BY <2>4 DEF StoredInv, AccountStored
      <4> QED
        BY <2>1, <3>2, <4>2, <4>3, LessIsCarried
    <3> QED
      BY <3>1, <3>2
  <2> QED
    BY <2>1, <2>3, <2>4 DEF AccountStored
<1> QED
  BY <1>1, <1>2 DEF StoredInv

LEMMA TriggerStored ==
  ASSUME IInv, StoredInv, NEW j \in Job, Trigger_Next(j)
  PROVE  StoredInv'
<1>0. /\ job \in [Job -> Record] /\ exec \in [Job -> Execution]
      /\ trigger \in [Job -> {"none", "posting", "answering", "failing", "over"}]
  BY Types DEF IInv, TypeOK
<1>1. CASE Deliver(j)
  <2>1. /\ trigger[j] = "posting" /\ trigger' = [trigger EXCEPT ![j] = "answering"]
        /\ UNCHANGED <<job, store>>
        /\ exec'[j].pc = "load" /\ \A k \in Job : k # j => exec'[k] = exec[k]
    BY <1>0, <1>1 DEF Deliver, Becomes, Execution
  <2>2. \A k \in Job : Active(k)' => Active(k)
    BY <1>0, <2>1 DEF Active, Running
  <2> QED
    BY <2>1, <2>2, FewerDebts
<1>2. CASE TriggerAnswered(j) \/ TriggerFails(j)
  <2>1. /\ UNCHANGED <<job, store, exec>>
        /\ \A k \in Job : trigger'[k] = "posting" => trigger[k] = "posting"
    BY <1>0, <1>2 DEF TriggerAnswered, TriggerFails
  <2>2. \A k \in Job : Active(k)' => Active(k)
    BY <2>1 DEF Active, Running
  <2> QED
    BY <2>1, <2>2, FewerDebts
<1>3. CASE SaveTriggerFailed(j)
  <2>1. /\ UNCHANGED <<store, exec>>
        /\ \A k \in Job : trigger'[k] = "posting" => trigger[k] = "posting"
        /\ job'[j].acct = job[j].acct /\ job'[j].op = job[j].op
        /\ job'[j].status = "trigger_failed"
        /\ \A k \in Job : k # j => job'[k] = job[k]
    BY <1>0, <1>3 DEF SaveTriggerFailed, saveWorkflowJob, newGoPayWorkflowJob
  <2>2. \A k \in Job : Active(k)' => Active(k)
    BY <2>1 DEF Active, Running
  <2> QED
    BY <2>1, <2>2, FewerDebts
<1> QED
  BY <1>1, <1>2, <1>3 DEF Trigger_Next

LEMMA MarkStored ==
  ASSUME IInv, StoredInv, NEW j \in Job, markSucceeded(j) \/ fail(j)
  PROVE  StoredInv'
<1>0. job \in [Job -> Record] /\ exec \in [Job -> Execution]
  BY Types DEF IInv
<1>1. /\ exec[j].pc \in {"mark", "fail"} /\ UNCHANGED <<trigger, store>>
  BY DEF markSucceeded, fail, Mark, At
<1>2. exec'[j].pc = "over" /\ \A k \in Job : k # j => exec'[k] = exec[k]
  <2>1. CASE Becomes(j, [exec[j] EXCEPT !.pc = "over"])
    BY <1>0, <2>1 DEF Becomes, Execution
  <2>2. CASE Becomes(j, [exec[j] EXCEPT !.pc = "over", !.lost = exec[j].lost + 1])
    BY <1>0, <2>2 DEF Becomes, Execution
  <2> QED
    BY <2>1, <2>2 DEF markSucceeded, fail, Mark
<1>3. /\ job'[j].acct = job[j].acct /\ job'[j].op = job[j].op
      /\ \/ job'[j].status = job[j].status
         \/ job'[j].status = "succeeded" /\ exec[j].pc = "mark"
         \/ job'[j].status = "failed"
      /\ \A k \in Job : k # j => job'[k] = job[k]
  <2>1. CASE job' = job
    BY <2>1
  <2>2. CASE /\ exec[j].pc = "mark"
             /\ job' = [job EXCEPT ![j] = [job[j] EXCEPT !.status = "succeeded",
                                                         !.error = job[j].error]]
    BY <1>0, <2>2 DEF Record
  <2>3. CASE job' = [job EXCEPT ![j] = [job[j] EXCEPT !.status = "failed", !.error = TRUE]]
    BY <1>0, <2>3 DEF Record
  <2> QED
    BY <2>1, <2>2, <2>3 DEF markSucceeded, fail, Mark, At, saveWorkflowJob
<1>4. \A k \in Job : Active(k)' => Active(k)
  BY <1>1, <1>2 DEF Active, Running
<1> QED
  BY <1>1, <1>2, <1>3, <1>4, FewerDebts

\* A job is started when no other of its account is under way.
LEMMA StartStored ==
  ASSUME JobConstants, Overlap = FALSE, IInv, StoredInv,
         NEW j \in Job, NEW a \in Account, NEW op \in Ops, handleWorkflowStart(j, a, op)
  PROVE  StoredInv'
<1>1. /\ job[j].status = "absent" /\ job[j].acct = NoAccount /\ exec[j] = Idle
      /\ ~ Busy(a) /\ UNCHANGED <<exec, store>>
      /\ trigger' = [trigger EXCEPT ![j] = "posting"]
      /\ job' = [job EXCEPT ![j] = newGoPayWorkflowJob(a, op)]
  BY DEF handleWorkflowStart, saveWorkflowJob, StoredInv, Blank, IInv, JobOK, Asked
<1>2. /\ job'[j].acct = a /\ job'[j].op = op /\ job'[j].status = "started"
      /\ \A k \in Job : k # j => job'[k] = job[k] /\ (Active(k)' => Active(k))
  BY <1>1, Types DEF newGoPayWorkflowJob, Active, Running, IInv, TypeOK
<1>3. \A k \in Job : Active(k) => job[k].acct # a
  BY <1>1 DEF Busy, Active
<1>4. Alone' /\ Blank'
  BY <1>1, <1>2, <1>3 DEF StoredInv, Alone, Blank
<1>5. ASSUME NEW c \in Account
      PROVE  AccountStored(c)'
  <2> DEFINE x == Signed(c)
             y == Signed(c)'
  <2>0. job[j].acct # c
    BY <1>1 DEF JobConstants
  <2>1. Debts(c)' \in SUBSET Debts(c)
    BY <1>1, <1>2 DEF Debts
  <2>2. x \in BOOLEAN /\ y \in BOOLEAN /\ (x => y)
    BY <1>2, <2>0 DEF Signed
  <2>3. Meets(store[c], Debts(c)', y)
    BY <2>1, <2>2, LessIsMet DEF StoredInv, AccountStored
  <2>4. ASSUME NEW k \in Job, job'[k].acct = c
        PROVE  Carries(exec[k], job'[k].op, store[c], Debts(c)', y)
    <3>1. CASE k = j
      BY <1>1, <3>1, NothingCarried DEF Idle
    <3>2. CASE k # j
      <4>1. Carries(exec[k], job[k].op, store[c], Debts(c), x)
        BY <1>2, <2>4, <3>2 DEF StoredInv, AccountStored
      <4>2. Carries(exec[k], job[k].op, store[c], Debts(c)', y)
        BY <2>1, <2>2, <4>1, LessIsCarried
      <4> QED
        BY <1>2, <3>2, <4>2
    <3> QED
      BY <3>1, <3>2
  <2> QED
    BY <1>1, <2>3, <2>4 DEF AccountStored
<1> QED
  BY <1>4, <1>5 DEF StoredInv

LEMMA NextStored ==
  ASSUME JobConstants, Overlap = FALSE, SaveLosses <= 1, IInv, StoredInv, [Next]_vars
  PROVE  StoredInv'
<1>1. ASSUME NEW j \in Job, Exec_Next(j)
      PROVE  StoredInv'
  BY <1>1, LoadStored, HandleStored, SaveStored, LoseSaveStored, ProceedStored,
     LoseAnswerStored, MarkStored DEF Exec_Next
<1>2. CASE UNCHANGED vars
  <2>1. \A k \in Job : Active(k)' => Active(k)
    BY <1>2 DEF vars, Active, Running
  <2> QED
    BY <1>2, <2>1, FewerDebts DEF vars
<1> QED
  BY <1>1, <1>2, StartStored, TriggerStored DEF Next, DeleteGopayAccount

\* Where jobs of one account run one after the other and an execution loses one
\* save at most, what a succeeded job did is in the store for ever: the token
\* kept aside by a change of number (until the deactivation or a signup) and the
\* mark of a deactivation, whatever is tried again, lost or given up.
THEOREM FinishedStays ==
  ASSUME Overlap = FALSE, SaveLosses <= 1
  PROVE  Spec => []FinishedIsStored
<1>1. IInv /\ StoredInv => FinishedIsStored
  <2> SUFFICES ASSUME IInv, StoredInv, NEW j \in Job, job[j].status = "succeeded"
               PROVE  Holds(job[j].op, store[job[j].acct], Signed(job[j].acct))
    BY DEF FinishedIsStored, Holds, Signed
  <2>1. job[j].acct \in Account
    BY DEF IInv, JobOK, Asked
  <2>2. job[j].op \in Debts(job[j].acct)
    BY DEF Debts
  <2> QED
    BY <2>1, <2>2 DEF StoredInv, AccountStored, Meets
<1>2. Init => StoredInv
  BY InitStored, JobConstants
<1>3. IInv /\ StoredInv /\ [Next]_vars => StoredInv'
  BY NextStored, JobConstants
<1> QED
  BY <1>1, <1>2, <1>3, AlwaysIInv, JobConstants, PTL DEF Spec
=============================================================================
