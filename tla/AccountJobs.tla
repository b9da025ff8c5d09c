---------------------------- MODULE AccountJobs -----------------------------
(***************************************************************************)
(* Jobs: the record of a job, the goroutine that posts it to n8n, the      *)
(* n8n execution that works it off through the action gateway, and the     *)
(* store of account states that executions load and save whole.            *)
(*                                                                         *)
(* An execution carries its own copy of the account's state from action    *)
(* to action; the handlers save the copy they were sent, whatever the      *)
(* store holds by then.  A state is reduced to what GoPay can confirm or   *)
(* deny: a token in use, a token kept aside after a change of number, and  *)
(* the mark of a deactivation (AccountAuth has the rest).                  *)
(***************************************************************************)
EXTENDS Naturals, Sequences

CONSTANTS
  Job, Account, NoAccount,
  Ops,           \* operations that are asked for
  FinishSent,    \* operations whose last node n8n can build a body for
  SaveLosses,    \* saves that Redis may refuse in one execution, unnoticed
  AnswersLost,   \* an HTTP answer may be lost after the work was done
  Overlap        \* two jobs of one account may run at once

Op == {"login", "signup", "check_balance", "ensure_pin_setup", "change_phone",
       "deactivate"}

ASSUME JobConstants ==
  /\ NoAccount \notin Account
  /\ Ops \subseteq Op /\ FinishSent \subseteq Op
  /\ SaveLosses \in Nat
  /\ AnswersLost \in BOOLEAN /\ Overlap \in BOOLEAN

MaxTries  == 3   \* of a node
MaxRounds == 2   \* of a change of number (10 unless the input says otherwise)

VARIABLES
  job,      \* records of jobs in Redis, with the account and the operation
  trigger,  \* the goroutine that posts the job
  exec,     \* n8n executions, and the handler each is waiting for
  store,    \* states of accounts in Redis
  gopay     \* what became of the account at GoPay

vars == <<job, trigger, exec, store, gopay>>

Blob  == [token : BOOLEAN, aside : BOOLEAN, gone : BOOLEAN]
Empty == [token |-> FALSE, aside |-> FALSE, gone |-> FALSE]
Truth == [opened : BOOLEAN, moved : BOOLEAN, gone : BOOLEAN]

\* The actions an entry workflow and its subflow call, in order.
Plan == [op \in Op |->
  CASE op = "login"            -> <<"auth">>
    [] op = "signup"           -> <<"start-signup", "complete-signup">>
    [] op = "check_balance"    -> <<"auth", "check-balance">>
    [] op = "ensure_pin_setup" -> <<"start-pin", "complete-pin">>
    [] op = "change_phone"     -> <<"auth", "start-change-phone", "complete-change-phone">>
    [] op = "deactivate"       -> <<"start-deactivate", "complete-deactivate">>]

\* Nodes that n8n repeats when they fail (retryOnFail, maxTries 3).
Repeated == {"auth", "check-balance", "start-change-phone", "complete-change-phone"}

Idle == [pc |-> "none", i |-> 1, snap |-> Empty, out |-> Empty, ok |-> FALSE,
         lost |-> 0, tries |-> 1, round |-> 1]

Init ==
  /\ job = [j \in Job |-> [acct |-> NoAccount, op |-> "login", status |-> "absent",
                           error |-> FALSE]]
  /\ trigger = [j \in Job |-> "none"]
  /\ exec = [j \in Job |-> Idle]
  /\ store = [a \in Account |-> Empty]
  /\ \E known \in BOOLEAN :
       gopay = [a \in Account |-> [opened |-> known, moved |-> FALSE, gone |-> FALSE]]

Live(g) == g.opened /\ ~g.gone

-----------------------------------------------------------------------------
(* Actions of the gateway: the states an action may answer with, whether   *)
(* it succeeded, and what became of the account.  One action stands for    *)
(* the calls of a subflow that begin it, send its code again and complete  *)
(* it, where the states between them differ in nothing that is kept here.  *)

Answer(b, g, ok) == [b |-> b, g |-> g, ok |-> ok]
When(cond, W)    == IF cond THEN W ELSE {}

startAuth(b, g) ==
  {Answer(b, g, FALSE)} \cup When(Live(g), {Answer([b EXCEPT !.token = TRUE], g, TRUE)})

\* The tokens go before GoPay is asked.
startSignup(b, g) ==
  {Answer(b, g, FALSE)} \cup
  {Answer([b EXCEPT !.token = FALSE, !.aside = FALSE], g, ok) : ok \in BOOLEAN}

\* One account is opened for an account id; a second is not followed.
completeSignup(b, g) ==
  {Answer(b, g, FALSE)} \cup
  When(~g.opened, {Answer([b EXCEPT !.token = TRUE], [g EXCEPT !.opened = TRUE], TRUE)})

\* Balances, PINs, the code to a new number: the state changes in nothing
\* that matters here.
useToken(b, g) ==
  {Answer(b, g, FALSE)} \cup When(b.token /\ Live(g), {Answer(b, g, TRUE)})

checkBalance(b, g)     == useToken(b, g)
startPIN(b, g)         == useToken(b, g)
completePIN(b, g)      == useToken(b, g)
startChangePhone(b, g) == useToken(b, g)

startDeactivate(b, g) ==
  {Answer(b, g, FALSE)} \cup When(b.aside /\ Live(g), {Answer(b, g, TRUE)})

\* GoPay may have moved the account although nobody could confirm it.
completeChangePhone(b, g) ==
  LET moved == [g EXCEPT !.moved = TRUE]
  IN  {Answer(b, g, FALSE)} \cup
      When(b.token /\ Live(g) /\ ~g.moved,
           {Answer(b, moved, FALSE),
            Answer([b EXCEPT !.token = FALSE, !.aside = TRUE], moved, TRUE)})

\* Mutant: the state says "deactivated" whatever GoPay answered.
CompleteDeactivateAlways(b, g) ==
  {Answer([b EXCEPT !.aside = FALSE, !.gone = TRUE], g, FALSE)} \cup
  When(b.aside /\ Live(g),
       {Answer([b EXCEPT !.aside = FALSE, !.gone = TRUE], [g EXCEPT !.gone = TRUE], TRUE)})

completeDeactivate(b, g) ==
  {Answer(b, g, FALSE)} \cup
  When(b.aside /\ Live(g),
       {Answer([b EXCEPT !.aside = FALSE, !.gone = TRUE], [g EXCEPT !.gone = TRUE], TRUE)})

Outcomes(act, b, g) ==
  CASE act = "auth" -> startAuth(b, g)
    [] act = "start-signup" -> startSignup(b, g)
    [] act = "complete-signup" -> completeSignup(b, g)
    [] act = "check-balance" -> checkBalance(b, g)
    [] act = "start-pin" -> startPIN(b, g)
    [] act = "complete-pin" -> completePIN(b, g)
    [] act = "start-change-phone" -> startChangePhone(b, g)
    [] act = "complete-change-phone" -> completeChangePhone(b, g)
    [] act = "start-deactivate" -> startDeactivate(b, g)
    [] act = "complete-deactivate" -> completeDeactivate(b, g)

\* Some handlers save what they answer always, some when they succeeded,
\* two never; that of a login also when a code was sent, before it fails.
Saves(act, ok) ==
  CASE act \in {"start-change-phone", "start-deactivate"} -> {FALSE}
    [] act \in {"complete-signup", "complete-pin"} -> {ok}
    [] act = "auth" -> {TRUE, ok}
    [] OTHER -> {TRUE}

\* What an action that succeeded has made true at GoPay.
Achieved(act, g) ==
  CASE act \in {"auth", "complete-signup", "check-balance", "start-pin",
                "complete-pin"} -> g.opened
    [] act = "complete-change-phone" -> g.moved
    [] act = "complete-deactivate" -> g.gone
    [] OTHER -> TRUE

-----------------------------------------------------------------------------
(* The job and its goroutine.                                              *)

Action(j)  == Plan[job[j].op][exec[j].i]
Becomes(j, e) == exec' = [exec EXCEPT ![j] = e]
Running(j) == exec[j].pc \notin {"none", "over"}
Busy(a)    == \E j \in Job : job[j].acct = a /\ (trigger[j] = "posting" \/ Running(j))

newGoPayWorkflowJob(a, op) ==
  [acct |-> a, op |-> op, status |-> "started", error |-> FALSE]

saveWorkflowJob(j, record) == job' = [job EXCEPT ![j] = record]

\* POST /workflows/...: the record is saved before anything is triggered.
handleWorkflowStart(j, a, op) ==
  /\ job[j].status = "absent"
  /\ Overlap \/ ~Busy(a)
  /\ saveWorkflowJob(j, newGoPayWorkflowJob(a, op))
  /\ trigger' = [trigger EXCEPT ![j] = "posting"]
  /\ UNCHANGED <<exec, store, gopay>>

\* n8n answers on receipt and runs the execution on its own.
Deliver(j) ==
  /\ trigger[j] = "posting"
  /\ trigger' = [trigger EXCEPT ![j] = "answering"]
  /\ Becomes(j, [exec[j] EXCEPT !.pc = "load"])
  /\ UNCHANGED <<job, store, gopay>>

\* Mutant: every answer is taken for a failure.
TriggerUnheeded(j) ==
  /\ trigger[j] = "answering"
  /\ trigger' = [trigger EXCEPT ![j] = "failing"]
  /\ UNCHANGED <<job, exec, store, gopay>>

TriggerAnswered(j) ==
  /\ trigger[j] = "answering"
  /\ trigger' = [trigger EXCEPT ![j] = "over"]
  /\ UNCHANGED <<job, exec, store, gopay>>

\* n8n was not reached, or its answer was not in time.
TriggerFails(j) ==
  /\ trigger[j] = "posting" \/ (AnswersLost /\ trigger[j] = "answering")
  /\ trigger' = [trigger EXCEPT ![j] = "failing"]
  /\ UNCHANGED <<job, exec, store, gopay>>

\* The goroutine saves the job as it was when it was created.
SaveTriggerFailed(j) ==
  /\ trigger[j] = "failing"
  /\ trigger' = [trigger EXCEPT ![j] = "over"]
  /\ saveWorkflowJob(j, [newGoPayWorkflowJob(job[j].acct, job[j].op)
                           EXCEPT !.status = "trigger_failed", !.error = TRUE])
  /\ UNCHANGED <<exec, store, gopay>>

-----------------------------------------------------------------------------
(* The execution.                                                          *)

At(j, pc) == exec[j].pc = pc

\* A request names the job only: its account comes from the job.
Acct(j) == job[j].acct

\* The state is written whole, over whatever the store holds.
SaveGopayAccountState(a, b) == store' = [store EXCEPT ![a] = b]

\* load-params and load-state, which change nothing.
loadState(j) ==
  /\ At(j, "load")
  /\ Becomes(j, [exec[j] EXCEPT !.pc = "call", !.snap = store[Acct(j)]])
  /\ UNCHANGED <<job, trigger, store, gopay>>

\* A handler does its work on the state it was sent.
Handle(j) ==
  /\ At(j, "call")
  /\ \E r \in Outcomes(Action(j), exec[j].snap, gopay[Acct(j)]) :
       /\ gopay' = [gopay EXCEPT ![Acct(j)] = r.g]
       /\ \E saves \in Saves(Action(j), r.ok) :
            Becomes(j, [exec[j] EXCEPT !.pc = IF saves THEN "save" ELSE "answer",
                                       !.out = r.b, !.ok = r.ok])
  /\ UNCHANGED <<job, trigger, store>>

\* It saves what it answers with; a save that fails is not noticed.
saveStateIfAccount(j) ==
  /\ At(j, "save")
  /\ SaveGopayAccountState(Acct(j), exec[j].out)
  /\ Becomes(j, [exec[j] EXCEPT !.pc = "answer"])
  /\ UNCHANGED <<job, trigger, gopay>>

LoseSave(j) ==
  /\ exec[j].pc \in {"save", "finish"} /\ exec[j].lost < SaveLosses
  /\ Becomes(j, [exec[j] EXCEPT !.pc = IF @ = "save" THEN "answer" ELSE "mark",
                                 !.lost = @ + 1])
  /\ UNCHANGED <<job, trigger, store, gopay>>

\* Mutant: an answer counts as success whatever it says.
ProceedUnheeded(j) ==
  /\ At(j, "answer")
  /\ Becomes(j, [exec[j] EXCEPT !.pc = "finish", !.snap = exec[j].out])
  /\ UNCHANGED <<job, trigger, store, gopay>>

\* The answer's state replaces the execution's.  A change of number that
\* failed may be begun anew with the state it began with.
Proceed(j) ==
  /\ At(j, "answer")
  /\ LET e == exec[j]
         last == e.i = Len(Plan[job[j].op])
         Goes(pc, i, round) ==
           Becomes(j, [e EXCEPT !.pc = pc, !.i = i, !.tries = 1, !.round = round,
                                !.snap = e.out])
     IN  \/ e.ok /\ ~last /\ Goes("call", e.i + 1, e.round)
         \/ e.ok /\ (last \/ Action(j) = "start-pin") /\ Goes("finish", e.i, e.round)
         \/ ~e.ok /\ Goes("fail", e.i, e.round)
         \/ /\ ~e.ok /\ job[j].op = "change_phone" /\ e.i > 1 /\ e.round < MaxRounds
            /\ Goes("call", 2, e.round + 1)
  /\ UNCHANGED <<job, trigger, store, gopay>>

\* The answer is lost: the node is run again with what it had, or n8n gives
\* the execution up and tells nobody.
LoseAnswer(j) ==
  /\ AnswersLost /\ At(j, "answer")
  /\ LET again == Action(j) \in Repeated /\ exec[j].tries < MaxTries
     IN  Becomes(j, [exec[j] EXCEPT !.pc = IF again THEN "call" ELSE "over",
                                    !.tries = IF again THEN @ + 1 ELSE @])
  /\ UNCHANGED <<job, trigger, store, gopay>>

\* Mutant: the end of a job saves nothing.
FinishUnsaved(j) ==
  /\ At(j, "finish") /\ job[j].op \in FinishSent
  /\ Becomes(j, [exec[j] EXCEPT !.pc = "mark"])
  /\ UNCHANGED <<job, trigger, store, gopay>>

\* finish: the state is saved once more, then the job is marked.
finish(j) ==
  /\ At(j, "finish") /\ job[j].op \in FinishSent
  /\ SaveGopayAccountState(Acct(j), exec[j].snap)
  /\ Becomes(j, [exec[j] EXCEPT !.pc = "mark"])
  /\ UNCHANGED <<job, trigger, gopay>>

\* Neither looks at the status the job has; a mark may be lost as well.
Mark(j, pc, status, error) ==
  /\ At(j, pc)
  /\ \/ /\ saveWorkflowJob(j, [job[j] EXCEPT !.status = status, !.error = error])
        /\ Becomes(j, [exec[j] EXCEPT !.pc = "over"])
     \/ /\ exec[j].lost < SaveLosses /\ UNCHANGED job
        /\ Becomes(j, [exec[j] EXCEPT !.pc = "over", !.lost = @ + 1])
  /\ UNCHANGED <<trigger, store, gopay>>

\* Mutant: a job that failed is not marked.
FailUnmarked(j) ==
  /\ At(j, "fail")
  /\ Becomes(j, [exec[j] EXCEPT !.pc = "over"])
  /\ UNCHANGED <<job, trigger, store, gopay>>

markSucceeded(j) == Mark(j, "mark", "succeeded", job[j].error)
fail(j) == job[j].op \in FinishSent /\ Mark(j, "fail", "failed", TRUE)

\* n8n cannot build the body of the last node: the execution ends there.
FinishNotSent(j) ==
  /\ exec[j].pc \in {"finish", "fail"} /\ job[j].op \notin FinishSent
  /\ Becomes(j, [exec[j] EXCEPT !.pc = "over"])
  /\ UNCHANGED <<job, trigger, store, gopay>>

\* DELETE /accounts/...: the state goes, whoever may be working with it.
DeleteGopayAccount(a) ==
  /\ Overlap /\ store[a] # Empty
  /\ SaveGopayAccountState(a, Empty)
  /\ UNCHANGED <<job, trigger, exec, gopay>>

-----------------------------------------------------------------------------
Trigger_Next(j) ==
  Deliver(j) \/ TriggerAnswered(j) \/ TriggerFails(j) \/ SaveTriggerFailed(j)

Exec_Next(j) ==
  \/ loadState(j) \/ Handle(j) \/ saveStateIfAccount(j) \/ LoseSave(j)
  \/ Proceed(j) \/ LoseAnswer(j)
  \/ finish(j) \/ markSucceeded(j) \/ fail(j) \/ FinishNotSent(j)

Next ==
  \/ \E j \in Job, a \in Account, op \in Ops : handleWorkflowStart(j, a, op)
  \/ \E j \in Job : Trigger_Next(j) \/ Exec_Next(j)
  \/ \E a \in Account : DeleteGopayAccount(a)

Spec == Init /\ [][Next]_vars

\* Goroutines run, n8n works its executions off, every call of it has a
\* time-out.
FairSpec ==
  Spec /\ \A j \in Job : WF_vars(Trigger_Next(j)) /\ WF_vars(Exec_Next(j))

-----------------------------------------------------------------------------
(* Properties.                                                             *)

PCs == {"none", "load", "call", "save", "answer", "finish", "mark", "fail", "over"}

\* The variables have their types.
TypeOK ==
  /\ job \in [Job -> [acct : Account \cup {NoAccount}, op : Op, error : BOOLEAN,
                       status : {"absent", "started", "succeeded", "failed",
                                 "trigger_failed"}]]
  /\ trigger \in [Job -> {"none", "posting", "answering", "failing", "over"}]
  /\ exec \in [Job -> [pc : PCs, i : 1..3, snap : Blob, out : Blob, ok : BOOLEAN,
                        lost : Nat, tries : 1..MaxTries, round : 1..MaxRounds]]
  /\ store \in [Account -> Blob]
  /\ gopay \in [Account -> Truth]

\* What a state claims is true at GoPay: a token or a mark of deactivation
\* in a state that was saved late, twice, over another's or not at all is
\* never the trace of something that did not happen.
Claims(b, g) == (b.token => g.opened) /\ (b.aside => g.moved) /\ (b.gone => g.gone)
StoreIsNeverAhead == \A a \in Account : Claims(store[a], gopay[a])

\* A job shown as succeeded has done at GoPay what its operation says,
\* whatever was lost or retried on the way.
Done(op, g) ==
  CASE op = "change_phone" -> g.moved
    [] op = "deactivate" -> g.gone
    [] OTHER -> g.opened
SucceededIsTrue ==
  \A j \in Job : job[j].status = "succeeded" => Done(job[j].op, gopay[job[j].acct])

\* What a succeeded job has done is in the store: the token kept aside after
\* a change of number (until the deactivation, or a signup, which drops it)
\* and the mark of the deactivation.  Without it the moved account can never
\* be deactivated.
FinishedIsStored ==
  \A j \in Job : job[j].status = "succeeded" =>
    LET a == job[j].acct IN
    CASE job[j].op = "deactivate" -> store[a].gone
      [] job[j].op = "change_phone" ->
           \/ store[a].aside \/ store[a].gone
           \/ \E k \in Job : job[k].acct = a /\ job[k].op = "signup"
      [] OTHER -> TRUE

\* What an execution has written into its job is not written over.
OutcomeKept ==
  [][\A j \in Job : job[j].status \in {"succeeded", "failed"} => job'[j] = job[j]]_vars

\* A job that was started comes to an end, if n8n can send its last node and
\* Redis refuses no save of its execution.
JobEnds ==
  \A j \in Job : job[j].status = "started" /\ job[j].op \in FinishSent
                    ~> job[j].status # "started" \/ exec[j].lost > 0

=============================================================================
