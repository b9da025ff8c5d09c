-------------------------- MODULE ChannelOTPProofs --------------------------
(***************************************************************************)
(* Theorems about ChannelOTP, for any messages, jobs, targets and times:   *)
(* an open wait is listed where a code for it is looked up                 *)
(* (ReachableWait), a claim has a handler at work (ClaimHeldByPoster), two *)
(* handlers never post at once to a job that registered one wait           *)
(* (PostMutex), and the code such a job is resumed with is for its target  *)
(* and of its window.                                                      *)
(*                                                                         *)
(* The last two rest on FreshInv: until a job registers its first wait, it *)
(* has none stored and no handler has it in hand, so a handler can only    *)
(* hold what the job's one registration said.  A second request breaks     *)
(* this: see the runs that find NoForeignCode and NoStrandedCode violated. *)
(***************************************************************************)
EXTENDS ChannelOTP, TLAPS

-----------------------------------------------------------------------------
(* Facts about sequences and index keys.                                   *)

LEMMA HeadTail ==
  ASSUME NEW S, NEW s \in Seq(S), s # << >>
  PROVE  Head(s) \in S /\ Tail(s) \in Seq(S) /\ Len(s) \in Nat /\ Len(s) > 0
OBVIOUS

LEMMA LongTail ==
  ASSUME NEW S, NEW s \in Seq(S), Len(s) > 1
  PROVE  Tail(s) # << >>
<1>. DEFINE t == Tail(s)
<1>1. t \in Seq(S) /\ Len(t) = Len(s) - 1 /\ Len(s) \in Nat
  OBVIOUS
<1>. HIDE DEF t
<1>2. t # << >>
  BY <1>1
<1>. QED BY <1>2 DEF t

LEMMA KeysAreIndexKeys ==
  ASSUME NEW t \in Target
  PROVE  IndexKeys[t] \in Seq(Key) /\ IndexKeys[t] \in Seq(IndexKey) /\ IndexKeys[t] # << >>
<1>1. IndexKeys[t] \in Seq(Key) /\ IndexKeys[t] # << >>
  BY IndexKeysAssumption
<1>2. IndexKeys[t] \in Seq(IndexKey)
  BY <1>1 DEF IndexKey
<1>. QED BY <1>1, <1>2

-----------------------------------------------------------------------------
(* Type correctness.                                                       *)

\* What the handlers rely on when they take the head of a list, and the
\* executions when they name their target.
MsgShape ==
  \A m \in Msg :
    /\ pc[m] \in {"save", "members", "load"} => todo[m] # << >>
    /\ pc[m] \in Holding => waits[m] # << >>
    /\ pc[m] = "save" \/ (m \notin Manual /\ pc[m] # "idle") => to[m] \in Target

FlowShape ==
  \A j \in Job :
    /\ phase[j] # "idle" => goal[j] \in Target /\ timeout[j] \in Timeouts
    /\ phase[j] = "latest" => lookup[j] # << >>

TypeInv == TypeOK /\ MsgShape /\ FlowShape

LEMMA InitTypeInv == Init => TypeInv
BY NamesAssumption, TimingAssumption
   DEF Init, TypeInv, TypeOK, StoreTypeOK, MsgTypeOK, FlowTypeOK, MsgShape, FlowShape,
       NoWait, NoClaim, NoCode, NoOTP, Claim, Code, MsgLabels, Phases, Holding

\* Each part of the invariant depends on its own group of variables.
LEMMA FlowUnchanged ==
  FlowTypeOK /\ FlowShape /\ UNCHANGED flowVars => FlowTypeOK' /\ FlowShape'
BY DEF FlowTypeOK, FlowShape, flowVars

LEMMA MsgUnchanged ==
  MsgTypeOK /\ MsgShape /\ UNCHANGED msgVars => MsgTypeOK' /\ MsgShape'
BY DEF MsgTypeOK, MsgShape, msgVars

LEMMA StoreUnchanged == StoreTypeOK /\ UNCHANGED storeVars => StoreTypeOK'
BY DEF StoreTypeOK, storeVars

\* Deleting a wait, or failing to, keeps the store well formed.
LEMMA DeleteTypeOK ==
  ASSUME StoreTypeOK, NEW j, NEW t,
         DeleteChannelOTPWait(j, t) \/ UNCHANGED <<wait, claim, index>>,
         UNCHANGED <<indexExp, latest>>
  PROVE  StoreTypeOK'
<1>1. CASE DeleteChannelOTPWait(j, t)
  <2>1. NoClaim \in Claim
    BY DEF NoClaim, Claim
  <2>2. wait' \in [Job -> Wait \cup {NoWait}] /\ claim' \in [Job -> Claim]
    BY <1>1, <2>1 DEF StoreTypeOK, DeleteChannelOTPWait
  <2>3. index' \in [IndexKey -> SUBSET Job]
    BY <1>1 DEF StoreTypeOK, DeleteChannelOTPWait
  <2>. QED BY <2>2, <2>3 DEF StoreTypeOK
<1>2. CASE UNCHANGED <<wait, claim, index>>
  BY <1>2 DEF StoreTypeOK
<1>. QED BY <1>1, <1>2

LEMMA SubmitTypeInv ==
  ASSUME TypeInv, NEW m \in Msg, Submit(m)
  PROVE  TypeInv'
<1> USE DEF TypeInv, TypeOK
<1>1. PICK t \in Target : /\ to' = [to EXCEPT ![m] = t]
                          /\ todo' = [todo EXCEPT ![m] = IndexKeys[t]]
  BY DEF Submit
<1>s. StoreTypeOK'
  BY StoreUnchanged DEF Submit
<1>m. MsgTypeOK'
  BY <1>1, KeysAreIndexKeys DEF MsgTypeOK, MsgShape, Submit, Goto, MsgLabels, Holding
<1>h. MsgShape'
  BY <1>1, KeysAreIndexKeys DEF MsgTypeOK, MsgShape, Submit, Goto, MsgLabels, Holding
<1>f. FlowTypeOK' /\ FlowShape'
  BY FlowUnchanged DEF Submit
<1>n. now' \in Nat
  BY DEF Submit
<1>. QED BY <1>s, <1>m, <1>h, <1>f, <1>n

LEMMA SubmitManualTypeInv ==
  ASSUME TypeInv, NEW m \in Msg, SubmitManual(m)
  PROVE  TypeInv'
<1> USE DEF TypeInv, TypeOK
<1>1. PICK t \in Target \cup {NoTarget}, k \in Seq(IndexKey), f \in Seq(IndexKey) :
        /\ k # << >>
        /\ to' = [to EXCEPT ![m] = t]
        /\ todo' = [todo EXCEPT ![m] = k]
        /\ fallback' = [fallback EXCEPT ![m] = f]
  <2>1. PICK t \in Target \cup {NoTarget}, a \in Account \cup {NoOne} :
          /\ t # NoTarget \/ a # NoOne
          /\ to' = [to EXCEPT ![m] = t]
          /\ LET keys == IF t = NoTarget THEN << >> ELSE IndexKeys[t] IN
             /\ todo' = [todo EXCEPT ![m] = IF a = NoOne THEN keys ELSE <<a>>]
             /\ fallback' = [fallback EXCEPT ![m] = IF a = NoOne THEN << >> ELSE keys]
    BY DEF SubmitManual
  <2>2. t # NoTarget => IndexKeys[t] \in Seq(IndexKey) /\ IndexKeys[t] # << >>
    BY KeysAreIndexKeys
  <2>3. a # NoOne => <<a>> \in Seq(IndexKey) /\ <<a>> # << >>
    BY DEF IndexKey
  <2>. DEFINE keys == IF t = NoTarget THEN << >> ELSE IndexKeys[t]
              k == IF a = NoOne THEN keys ELSE <<a>>
              f == IF a = NoOne THEN << >> ELSE keys
  <2>4. keys \in Seq(IndexKey) /\ (t # NoTarget => keys # << >>)
    BY <2>2
  <2>5. k \in Seq(IndexKey) /\ k # << >> /\ f \in Seq(IndexKey)
    BY <2>1, <2>3, <2>4
  <2>6. todo' = [todo EXCEPT ![m] = k] /\ fallback' = [fallback EXCEPT ![m] = f]
    BY <2>1
  <2>. QED BY <2>1, <2>5, <2>6
<1>s. StoreTypeOK'
  BY StoreUnchanged DEF SubmitManual
<1>m. MsgTypeOK'
  BY <1>1 DEF MsgTypeOK, MsgShape, SubmitManual, Goto, MsgLabels, Holding
<1>h. MsgShape'
  BY <1>1 DEF MsgTypeOK, MsgShape, SubmitManual, Goto, MsgLabels, Holding
<1>f. FlowTypeOK' /\ FlowShape'
  BY FlowUnchanged DEF SubmitManual
<1>n. now' \in Nat
  BY DEF SubmitManual
<1>. QED BY <1>s, <1>m, <1>h, <1>f, <1>n

LEMMA SaveLatestTypeInv ==
  ASSUME TypeInv, NEW m \in Msg, SaveLatest(m)
  PROVE  TypeInv'
<1> USE DEF TypeInv, TypeOK
<1>0. to[m] \in Target /\ todo[m] \in Seq(IndexKey) /\ todo[m] # << >>
  BY DEF MsgTypeOK, MsgShape, SaveLatest
<1>1. PICK rest \in Seq(IndexKey), label \in {"save", "members"} :
        rest # << >> /\ todo' = [todo EXCEPT ![m] = rest] /\ pc' = [pc EXCEPT ![m] = label]
  <2>1. CASE Len(todo[m]) > 1
    <3>1. Tail(todo[m]) \in Seq(IndexKey) /\ Tail(todo[m]) # << >>
      BY <1>0, <2>1, HeadTail, LongTail
    <3>2. todo' = [todo EXCEPT ![m] = Tail(todo[m])] /\ pc' = [pc EXCEPT ![m] = "save"]
      BY <2>1 DEF SaveLatest, MsgTypeOK
    <3>. QED BY <3>1, <3>2
  <2>2. CASE ~ Len(todo[m]) > 1
    <3>1. todo' = [todo EXCEPT ![m] = IndexKeys[to[m]]] /\ pc' = [pc EXCEPT ![m] = "members"]
      BY <2>2 DEF SaveLatest, Goto
    <3>. QED BY <1>0, <3>1, KeysAreIndexKeys
  <2>. QED BY <2>1, <2>2
<1>2. [msg |-> m, recv |-> recv[m], exp |-> now + LatestTTL] \in Code
  BY TimingAssumption DEF MsgTypeOK, Code
<1>s. StoreTypeOK'
  BY <1>2 DEF StoreTypeOK, SaveLatest
<1>m. MsgTypeOK'
  BY <1>1 DEF MsgTypeOK, SaveLatest, MsgLabels
<1>h. MsgShape'
  BY <1>0, <1>1 DEF MsgTypeOK, MsgShape, SaveLatest, Holding
<1>f. FlowTypeOK' /\ FlowShape'
  BY FlowUnchanged DEF SaveLatest
<1>n. now' \in Nat
  BY DEF SaveLatest
<1>. QED BY <1>s, <1>m, <1>h, <1>f, <1>n

LEMMA MembersTypeInv ==
  ASSUME TypeInv, NEW m \in Msg, Members(m)
  PROVE  TypeInv'
<1> USE DEF TypeInv, TypeOK
<1>s. StoreTypeOK'
  BY StoreUnchanged DEF Members
<1>m. MsgTypeOK'
  BY DEF StoreTypeOK, MsgTypeOK, MsgShape, Members, Goto, MsgLabels, Holding
<1>h. MsgShape'
  BY DEF MsgTypeOK, MsgShape, Members, Goto, MsgLabels, Holding
<1>f. FlowTypeOK' /\ FlowShape'
  BY FlowUnchanged DEF Members
<1>n. now' \in Nat
  BY DEF Members
<1>. QED BY <1>s, <1>m, <1>h, <1>f, <1>n

LEMMA LoadTypeInv ==
  ASSUME TypeInv, NEW m \in Msg, Load(m)
  PROVE  TypeInv'
<1> USE DEF TypeInv, TypeOK
<1>1. PICK j \in ids[m] :
        /\ ids' = [ids EXCEPT ![m] = @ \ {j}]
        /\ waits' = IF Accepts(j, recv[m])
                      THEN [waits EXCEPT ![m] =
                              Append(@, [job |-> j, target |-> wait[j].target])]
                      ELSE waits
  BY DEF Load
<1>2. Accepts(j, recv[m]) => [job |-> j, target |-> wait[j].target] \in Entry
  BY <1>1 DEF Accepts, Entry, StoreTypeOK, MsgTypeOK, Wait
<1>3. waits' \in [Msg -> Seq(Entry)]
  BY <1>1, <1>2 DEF MsgTypeOK
<1>s. StoreTypeOK'
  BY StoreUnchanged DEF Load
<1>m. MsgTypeOK'
  BY <1>1, <1>3 DEF MsgTypeOK, MsgShape, Load, MsgLabels, Holding
<1>h. MsgShape'
  BY <1>1, <1>3 DEF MsgTypeOK, MsgShape, Load, MsgLabels, Holding
<1>f. FlowTypeOK' /\ FlowShape'
  BY FlowUnchanged DEF Load
<1>n. now' \in Nat
  BY DEF Load
<1>. QED BY <1>s, <1>m, <1>h, <1>f, <1>n

LEMMA ScannedTypeInv ==
  ASSUME TypeInv, NEW m \in Msg, Scanned(m)
  PROVE  TypeInv'
<1> USE DEF TypeInv, TypeOK
<1>1. todo[m] \in Seq(IndexKey) /\ todo[m] # << >> /\ Tail(todo[m]) \in Seq(IndexKey)
  BY HeadTail DEF MsgTypeOK, MsgShape, Scanned
<1>s. StoreTypeOK'
  BY StoreUnchanged DEF Scanned
<1>m. MsgTypeOK'
  BY <1>1 DEF MsgTypeOK, MsgShape, Scanned, Goto, MsgLabels, Holding
<1>h. MsgShape'
  BY <1>1 DEF MsgTypeOK, MsgShape, Scanned, Goto, MsgLabels, Holding
<1>f. FlowTypeOK' /\ FlowShape'
  BY FlowUnchanged DEF Scanned
<1>n. now' \in Nat
  BY DEF Scanned
<1>. QED BY <1>s, <1>m, <1>h, <1>f, <1>n

LEMMA ClaimWaitTypeInv ==
  ASSUME TypeInv, NEW m \in Msg, ClaimWait(m)
  PROVE  TypeInv'
<1> USE DEF TypeInv, TypeOK
<1>1. waits[m] \in Seq(Entry) /\ Head(waits[m]) \in Entry /\ Tail(waits[m]) \in Seq(Entry)
  BY HeadTail DEF MsgTypeOK, ClaimWait
<1>2. [owner |-> m, exp |-> now + ClaimTTL] \in Claim
  BY TimingAssumption DEF Claim
<1>s. StoreTypeOK'
  BY <1>2 DEF StoreTypeOK, ClaimWait
<1>m. MsgTypeOK'
  BY <1>1 DEF MsgTypeOK, MsgShape, ClaimWait, Goto, MsgLabels, Holding
<1>h. MsgShape'
  BY <1>1 DEF MsgTypeOK, MsgShape, ClaimWait, Goto, MsgLabels, Holding
<1>f. FlowTypeOK' /\ FlowShape'
  BY FlowUnchanged DEF ClaimWait
<1>n. now' \in Nat
  BY DEF ClaimWait
<1>. QED BY <1>s, <1>m, <1>h, <1>f, <1>n

LEMMA PostDeliveredTypeInv ==
  ASSUME TypeInv, NEW m \in Msg, PostDelivered(m)
  PROVE  TypeInv'
<1> USE DEF TypeInv, TypeOK
<1>1. waits[m] \in Seq(Entry) /\ Head(waits[m]) \in Entry
  BY HeadTail DEF MsgTypeOK, MsgShape, PostDelivered, Holding
<1>s. StoreTypeOK'
  BY StoreUnchanged DEF PostDelivered
<1>m. MsgTypeOK'
  BY DEF MsgTypeOK, MsgShape, PostDelivered, Goto, MsgLabels, Holding
<1>h. MsgShape'
  BY DEF MsgTypeOK, MsgShape, PostDelivered, Goto, MsgLabels, Holding
<1>f. FlowTypeOK' /\ FlowShape'
  BY <1>1 DEF FlowTypeOK, FlowShape, MsgTypeOK, PostDelivered, Phases, Entry
<1>n. now' \in Nat
  BY DEF PostDelivered
<1>. QED BY <1>s, <1>m, <1>h, <1>f, <1>n

LEMMA PostFailedTypeInv ==
  ASSUME TypeInv, NEW m \in Msg, PostFailed(m)
  PROVE  TypeInv'
<1> USE DEF TypeInv, TypeOK
<1>s. StoreTypeOK'
  BY StoreUnchanged DEF PostFailed
<1>m. MsgTypeOK'
  BY DEF MsgTypeOK, MsgShape, PostFailed, Goto, MsgLabels, Holding
<1>h. MsgShape'
  BY DEF MsgTypeOK, MsgShape, PostFailed, Goto, MsgLabels, Holding
<1>f. FlowTypeOK' /\ FlowShape'
  BY FlowUnchanged DEF PostFailed
<1>n. now' \in Nat
  BY DEF PostFailed
<1>. QED BY <1>s, <1>m, <1>h, <1>f, <1>n

LEMMA ReleaseClaimTypeInv ==
  ASSUME TypeInv, NEW m \in Msg, ReleaseClaim(m)
  PROVE  TypeInv'
<1> USE DEF TypeInv, TypeOK
<1>s. StoreTypeOK'
  BY DEF StoreTypeOK, ReleaseClaim, NoClaim, Claim
<1>m. MsgTypeOK'
  BY DEF MsgTypeOK, MsgShape, ReleaseClaim, Goto, MsgLabels, Holding, EndCall
<1>h. MsgShape'
  BY DEF MsgTypeOK, MsgShape, ReleaseClaim, Goto, MsgLabels, Holding, EndCall
<1>f. FlowTypeOK' /\ FlowShape'
  BY FlowUnchanged DEF ReleaseClaim, EndCall
<1>n. now' \in Nat
  BY DEF ReleaseClaim, EndCall
<1>. QED BY <1>s, <1>m, <1>h, <1>f, <1>n

LEMMA DeletePostedTypeInv ==
  ASSUME TypeInv, NEW m \in Msg, DeletePosted(m)
  PROVE  TypeInv'
<1> USE DEF TypeInv, TypeOK
<1>1. waits[m] \in Seq(Entry) /\ Tail(waits[m]) \in Seq(Entry)
  BY HeadTail DEF MsgTypeOK, MsgShape, DeletePosted, Holding
<1>s. StoreTypeOK'
  BY DeleteTypeOK DEF DeletePosted, storeVars
<1>m. MsgTypeOK'
  BY <1>1 DEF MsgTypeOK, MsgShape, DeletePosted, Goto, MsgLabels, Holding
<1>h. MsgShape'
  BY <1>1 DEF MsgTypeOK, MsgShape, DeletePosted, Goto, MsgLabels, Holding
<1>f. FlowTypeOK' /\ FlowShape'
  BY FlowUnchanged DEF DeletePosted
<1>n. now' \in Nat
  BY DEF DeletePosted
<1>. QED BY <1>s, <1>m, <1>h, <1>f, <1>n

LEMMA FinishTypeInv ==
  ASSUME TypeInv, NEW m \in Msg, Finish(m)
  PROVE  TypeInv'
<1> USE DEF TypeInv, TypeOK
<1>s. StoreTypeOK'
  BY StoreUnchanged DEF Finish, EndCall
<1>m. MsgTypeOK'
  BY DEF MsgTypeOK, MsgShape, Finish, Goto, MsgLabels, Holding, EndCall
<1>h. MsgShape'
  BY DEF MsgTypeOK, MsgShape, Finish, Goto, MsgLabels, Holding, EndCall
<1>f. FlowTypeOK' /\ FlowShape'
  BY FlowUnchanged DEF Finish, EndCall
<1>n. now' \in Nat
  BY DEF Finish, EndCall
<1>. QED BY <1>s, <1>m, <1>h, <1>f, <1>n

LEMMA AbortTypeInv ==
  ASSUME TypeInv, NEW m \in Msg, Abort(m)
  PROVE  TypeInv'
<1> USE DEF TypeInv, TypeOK
<1>s. StoreTypeOK'
  BY StoreUnchanged DEF Abort, EndCall
<1>m. MsgTypeOK'
  BY DEF MsgTypeOK, MsgShape, Abort, Goto, MsgLabels, Holding, EndCall
<1>h. MsgShape'
  BY DEF MsgTypeOK, MsgShape, Abort, Goto, MsgLabels, Holding, EndCall
<1>f. FlowTypeOK' /\ FlowShape'
  BY FlowUnchanged DEF Abort, EndCall
<1>n. now' \in Nat
  BY DEF Abort, EndCall
<1>. QED BY <1>s, <1>m, <1>h, <1>f, <1>n

LEMMA RequestOTPTypeInv ==
  ASSUME TypeInv, NEW j \in Job, RequestOTP(j)
  PROVE  TypeInv'
<1> USE DEF TypeInv, TypeOK
<1>1. PICK t \in Target, s \in Timeouts : /\ goal' = [goal EXCEPT ![j] = t]
                                         /\ timeout' = [timeout EXCEPT ![j] = s]
  BY JobAssumption DEF RequestOTP
<1>s. StoreTypeOK'
  BY StoreUnchanged DEF RequestOTP
<1>m. MsgTypeOK' /\ MsgShape'
  BY MsgUnchanged DEF RequestOTP
<1>t. FlowTypeOK'
  BY <1>1 DEF FlowTypeOK, FlowShape, RequestOTP, Enter, Phases, NoOTP
<1>h. FlowShape'
  BY <1>1 DEF FlowTypeOK, FlowShape, RequestOTP, Enter, Phases, NoOTP
<1>n. now' \in Nat
  BY DEF RequestOTP
<1>. QED BY <1>s, <1>m, <1>t, <1>h, <1>n

LEMMA StampIssuedTypeInv ==
  ASSUME TypeInv, NEW j \in Job, StampIssued(j)
  PROVE  TypeInv'
<1> USE DEF TypeInv, TypeOK
<1>s. StoreTypeOK'
  BY StoreUnchanged DEF StampIssued
<1>m. MsgTypeOK' /\ MsgShape'
  BY MsgUnchanged DEF StampIssued
<1>t. FlowTypeOK'
  BY KeysAreIndexKeys DEF FlowTypeOK, FlowShape, StampIssued, Enter, Phases
<1>h. FlowShape'
  BY KeysAreIndexKeys DEF FlowTypeOK, FlowShape, StampIssued, Enter, Phases
<1>n. now' \in Nat
  BY DEF StampIssued
<1>. QED BY <1>s, <1>m, <1>t, <1>h, <1>n

LEMMA LookupLatestTypeInv ==
  ASSUME TypeInv, NEW j \in Job, LookupLatest(j)
  PROVE  TypeInv'
<1> USE DEF TypeInv, TypeOK
<1>1. lookup[j] \in Seq(Key) /\ Head(lookup[j]) \in Key /\ Tail(lookup[j]) \in Seq(Key)
  BY HeadTail DEF FlowTypeOK, FlowShape, LookupLatest
<1>2. latest[Head(lookup[j])] \in Code
  BY <1>1 DEF StoreTypeOK
<1>s. StoreTypeOK'
  BY StoreUnchanged DEF LookupLatest
<1>m. MsgTypeOK' /\ MsgShape'
  BY MsgUnchanged DEF LookupLatest
<1>3. PICK rest \in Seq(Key), label \in {"latest", "clear", "resumed"} :
        /\ label = "latest" => rest # << >>
        /\ lookup' = [lookup EXCEPT ![j] = rest]
        /\ phase' = [phase EXCEPT ![j] = label]
  <2>1. \/ /\ lookup' = [lookup EXCEPT ![j] = << >>]
           /\ phase' = [phase EXCEPT ![j] = "resumed"]
        \/ /\ lookup' = [lookup EXCEPT ![j] = Tail(lookup[j])]
           /\ phase' = [phase EXCEPT ![j] = IF Len(lookup[j]) > 1 THEN "latest" ELSE "clear"]
    BY DEF LookupLatest, Enter, FlowTypeOK
  <2>2. << >> \in Seq(Key)
    OBVIOUS
  <2>3. Len(lookup[j]) > 1 => Tail(lookup[j]) # << >>
    BY <1>1, LongTail
  <2>. QED BY <1>1, <2>1, <2>2, <2>3
<1>4. otp' \in [Job -> [msg : Msg \cup {NoOne}, recv : Nat]]
  <2>. DEFINE code == latest[Head(lookup[j])]
  <2>1. [msg |-> code.msg, recv |-> code.recv] \in [msg : Msg \cup {NoOne}, recv : Nat]
    BY <1>2 DEF Code
  <2>2. otp' = [otp EXCEPT ![j] = [msg |-> code.msg, recv |-> code.recv]] \/ otp' = otp
    BY DEF LookupLatest
  <2>. QED BY <2>1, <2>2 DEF FlowTypeOK
<1>t. FlowTypeOK'
  BY <1>3, <1>4 DEF FlowTypeOK, LookupLatest, Phases
<1>h. FlowShape'
  BY <1>3 DEF FlowTypeOK, FlowShape, LookupLatest
<1>n. now' \in Nat
  BY DEF LookupLatest
<1>. QED BY <1>s, <1>m, <1>t, <1>h, <1>n

LEMMA ClearWaitTypeInv ==
  ASSUME TypeInv, NEW j \in Job, ClearWait(j)
  PROVE  TypeInv'
<1> USE DEF TypeInv, TypeOK
<1>s. StoreTypeOK'
  BY DeleteTypeOK DEF ClearWait, storeVars
<1>m. MsgTypeOK' /\ MsgShape'
  BY MsgUnchanged DEF ClearWait
<1>t. FlowTypeOK'
  BY DEF FlowTypeOK, FlowShape, ClearWait, Enter, Phases
<1>h. FlowShape'
  BY DEF FlowTypeOK, FlowShape, ClearWait, Enter, Phases
<1>n. now' \in Nat
  BY DEF ClearWait
<1>. QED BY <1>s, <1>m, <1>t, <1>h, <1>n

LEMMA RegisterWaitTypeInv ==
  ASSUME TypeInv, NEW j \in Job, RegisterWait(j)
  PROVE  TypeInv'
<1> USE DEF TypeInv, TypeOK
<1>1. goal[j] \in Target /\ timeout[j] \in Timeouts /\ issued[j] \in Nat
  BY DEF FlowTypeOK, FlowShape, RegisterWait
<1>2. now + timeout[j] + Grace \in Nat
  <2>1. now \in Nat /\ timeout[j] \in Nat /\ Grace \in Nat
    BY <1>1, TimingAssumption
  <2>. QED BY <2>1
<1>3. [target |-> goal[j], issued |-> issued[j], timeout |-> timeout[j],
       exp |-> now + timeout[j] + Grace] \in Wait
  BY <1>1, <1>2 DEF Wait
<1>4. wait' \in [Job -> Wait \cup {NoWait}]
  BY <1>3 DEF StoreTypeOK, RegisterWait
<1>5. index' \in [IndexKey -> SUBSET Job] /\ indexExp' \in [IndexKey -> Nat]
  BY <1>2 DEF StoreTypeOK, RegisterWait
<1>s. StoreTypeOK'
  BY <1>4, <1>5 DEF StoreTypeOK, RegisterWait
<1>m. MsgTypeOK' /\ MsgShape'
  BY MsgUnchanged DEF RegisterWait
<1>t. FlowTypeOK'
  BY DEF FlowTypeOK, FlowShape, RegisterWait, Enter, Phases
<1>h. FlowShape'
  BY DEF FlowTypeOK, FlowShape, RegisterWait, Enter, Phases
<1>n. now' \in Nat
  BY DEF RegisterWait
<1>. QED BY <1>s, <1>m, <1>t, <1>h, <1>n

LEMMA ParkTypeInv ==
  ASSUME TypeInv, NEW j \in Job, Park(j)
  PROVE  TypeInv'
<1> USE DEF TypeInv, TypeOK
<1>s. StoreTypeOK'
  BY StoreUnchanged DEF Park
<1>m. MsgTypeOK' /\ MsgShape'
  BY MsgUnchanged DEF Park
<1>t. FlowTypeOK'
  BY DEF FlowTypeOK, FlowShape, Park, Enter, Phases
<1>h. FlowShape'
  BY DEF FlowTypeOK, FlowShape, Park, Enter, Phases
<1>n. now' \in Nat
  BY DEF Park
<1>. QED BY <1>s, <1>m, <1>t, <1>h, <1>n

LEMMA WaitTimeoutTypeInv ==
  ASSUME TypeInv, NEW j \in Job, WaitTimeout(j)
  PROVE  TypeInv'
<1> USE DEF TypeInv, TypeOK
<1>s. StoreTypeOK'
  BY StoreUnchanged DEF WaitTimeout
<1>m. MsgTypeOK' /\ MsgShape'
  BY MsgUnchanged DEF WaitTimeout
<1>t. FlowTypeOK'
  BY DEF FlowTypeOK, FlowShape, WaitTimeout, Enter, Phases
<1>h. FlowShape'
  BY DEF FlowTypeOK, FlowShape, WaitTimeout, Enter, Phases
<1>n. now' \in Nat
  BY DEF WaitTimeout
<1>. QED BY <1>s, <1>m, <1>t, <1>h, <1>n

LEMMA AwaitErrorTypeInv ==
  ASSUME TypeInv, NEW j \in Job, AwaitError(j)
  PROVE  TypeInv'
<1> USE DEF TypeInv, TypeOK
<1>s. StoreTypeOK'
  BY StoreUnchanged DEF AwaitError
<1>m. MsgTypeOK' /\ MsgShape'
  BY MsgUnchanged DEF AwaitError
<1>t. FlowTypeOK'
  BY DEF FlowTypeOK, FlowShape, AwaitError, Enter, Phases
<1>h. FlowShape'
  BY DEF FlowTypeOK, FlowShape, AwaitError, Enter, Phases
<1>n. now' \in Nat
  BY DEF AwaitError
<1>. QED BY <1>s, <1>m, <1>t, <1>h, <1>n

LEMMA TickTypeInv ==
  ASSUME TypeInv, Tick
  PROVE  TypeInv'
<1>1. TypeOK'
  BY FlowUnchanged, MsgUnchanged
     DEF TypeInv, TypeOK, StoreTypeOK, Tick, Claim, NoClaim, Code, NoCode
<1>2. MsgShape' /\ FlowShape'
  BY FlowUnchanged, MsgUnchanged DEF TypeInv, TypeOK, Tick
<1>. QED BY <1>1, <1>2 DEF TypeInv

LEMMA NextTypeInv == TypeInv /\ [Next]_vars => TypeInv'
<1> SUFFICES ASSUME TypeInv, [Next]_vars PROVE TypeInv'
  OBVIOUS
<1>1. CASE Tick
  BY <1>1, TickTypeInv
<1>2. ASSUME NEW m \in Msg, Submit(m) \/ SubmitManual(m) \/ Handle(m) \/ Abort(m)
      PROVE  TypeInv'
  BY <1>2, SubmitTypeInv, SubmitManualTypeInv, SaveLatestTypeInv, MembersTypeInv,
     LoadTypeInv, ScannedTypeInv, ClaimWaitTypeInv, PostDeliveredTypeInv,
     PostFailedTypeInv, ReleaseClaimTypeInv, DeletePostedTypeInv, FinishTypeInv,
     AbortTypeInv
     DEF Handle
<1>3. ASSUME NEW j \in Job, RequestOTP(j) \/ Await(j) \/ WaitTimeout(j) \/ AwaitError(j)
      PROVE  TypeInv'
  BY <1>3, RequestOTPTypeInv, StampIssuedTypeInv, LookupLatestTypeInv,
     ClearWaitTypeInv, RegisterWaitTypeInv, ParkTypeInv, WaitTimeoutTypeInv,
     AwaitErrorTypeInv
     DEF Await
<1>4. CASE UNCHANGED vars
  BY <1>4, StoreUnchanged, MsgUnchanged, FlowUnchanged DEF vars, TypeInv, TypeOK
<1>. QED BY <1>1, <1>2, <1>3, <1>4 DEF Next

\* Every step of every call keeps the store, the handlers and the executions
\* well formed.
THEOREM TypeCorrect == Spec => []TypeOK
<1>1. Spec => []TypeInv
  BY InitTypeInv, NextTypeInv, PTL DEF Spec
<1>2. TypeInv => TypeOK
  BY DEF TypeInv
<1>. QED BY <1>1, <1>2, PTL

-----------------------------------------------------------------------------
(* A wait that still accepts codes is listed wherever a submission looks.  *)

\* ReachableWait alone is not inductive: a set may expire, or be given another
\* expiry by another job, while the wait is still open.  Whatever wrote a set
\* last wrote it after the wait's request, and the hour of grace is longer than
\* any timeout.
Open(j) == wait[j] # NoWait /\ now <= wait[j].issued + wait[j].timeout

Listed(j) ==
  \A k \in IndexesOf(j, wait[j].target) :
    j \in index[k] /\ indexExp[k] > wait[j].issued + wait[j].timeout

IndexInv ==
  \A j \in Job :
    /\ issued[j] <= now
    /\ wait[j] # NoWait => wait[j].issued <= now
    /\ Open(j) => Listed(j)

LEMMA IndexesAreKeys ==
  ASSUME NEW j \in Job, NEW t
  PROVE  IndexesOf(j, t) \subseteq IndexKey
<1>1. t \in Target => Keys(t) \subseteq Key
  <2> SUFFICES ASSUME t \in Target, NEW i \in DOMAIN IndexKeys[t]
               PROVE  IndexKeys[t][i] \in Key
    BY DEF Keys
  <2>1. IndexKeys[t] \in Seq(Key)
    BY KeysAreIndexKeys
  <2>. QED BY <2>1
<1>2. AccountOf[j] \in Account
  BY JobAssumption
<1>. QED BY <1>1, <1>2 DEF IndexesOf, IndexKey

\* The fields of a stored wait.
LEMMA StoredWait ==
  ASSUME TypeInv, NEW j \in Job, wait[j] # NoWait
  PROVE  /\ wait[j] \in Wait /\ wait[j].issued \in Nat /\ wait[j].timeout \in Nat
         /\ wait[j].timeout < Grace
<1>1. wait[j] \in Wait
  BY DEF TypeInv, TypeOK, StoreTypeOK
<1>2. wait[j].issued \in Nat /\ wait[j].timeout \in Timeouts
  BY <1>1 DEF Wait
<1>. QED BY <1>1, <1>2, TimingAssumption

LEMMA IndexUnchanged ==
  IndexInv /\ UNCHANGED <<now, wait, index, indexExp, issued>> => IndexInv'
BY DEF IndexInv, Open, Listed

\* Deleting job d's wait, under any target, takes only d out of sets.
LEMMA DeleteIndexInv ==
  ASSUME TypeInv, IndexInv, NEW d \in Job, NEW t,
         DeleteChannelOTPWait(d, t) \/ UNCHANGED <<wait, claim, index>>,
         UNCHANGED <<now, indexExp, issued>>
  PROVE  IndexInv'
<1>1. CASE DeleteChannelOTPWait(d, t)
  <2> SUFFICES ASSUME NEW j \in Job
               PROVE  /\ issued'[j] <= now'
                      /\ wait'[j] # NoWait => wait'[j].issued <= now'
                      /\ Open(j)' => Listed(j)'
    BY DEF IndexInv
  <2>1. wait' = [wait EXCEPT ![d] = NoWait]
    BY <1>1 DEF DeleteChannelOTPWait
  <2>2. CASE j = d
    <3>1. wait'[j] = NoWait
      BY <2>1, <2>2 DEF TypeInv, TypeOK, StoreTypeOK
    <3>. QED BY <3>1 DEF IndexInv, Open
  <2>3. CASE j # d
    <3>1. wait'[j] = wait[j]
      BY <2>1, <2>3 DEF TypeInv, TypeOK, StoreTypeOK
    <3>2. \A k \in IndexesOf(j, wait[j].target) : j \in index[k] => j \in index'[k]
      BY <1>1, <2>3, IndexesAreKeys DEF DeleteChannelOTPWait
    <3>. QED BY <3>1, <3>2 DEF IndexInv, Open, Listed
  <2>. QED BY <2>2, <2>3
<1>2. CASE UNCHANGED <<wait, claim, index>>
  BY <1>2, IndexUnchanged
<1>. QED BY <1>1, <1>2

LEMMA RegisterIndexInv ==
  ASSUME TypeInv, IndexInv, NEW d \in Job, RegisterWait(d)
  PROVE  IndexInv'
<1>. DEFINE exp == now + timeout[d] + Grace
            keys == IndexesOf(d, goal[d])
<1>1. /\ goal[d] \in Target /\ timeout[d] \in Timeouts /\ timeout[d] \in Nat
      /\ issued[d] \in Nat /\ now \in Nat /\ Grace \in Nat
      /\ 0 < Grace
  <2>1. /\ goal[d] \in Target /\ timeout[d] \in Timeouts
        /\ issued[d] \in Nat /\ now \in Nat
    BY DEF TypeInv, TypeOK, FlowTypeOK, FlowShape, RegisterWait
  <2>2. timeout[d] \in Nat /\ Grace \in Nat /\ timeout[d] < Grace
    BY <2>1, TimingAssumption
  <2>. QED BY <2>1, <2>2
<1>2. /\ wait' = [wait EXCEPT ![d] = [target |-> goal[d], issued |-> issued[d],
                                      timeout |-> timeout[d], exp |-> exp]]
      /\ index' = [k \in IndexKey |-> IF k \in keys THEN index[k] \cup {d} ELSE index[k]]
      /\ indexExp' = [k \in IndexKey |-> IF k \in keys THEN exp ELSE indexExp[k]]
      /\ now' = now /\ issued' = issued
  BY DEF RegisterWait
<1> SUFFICES ASSUME NEW j \in Job
             PROVE  /\ issued'[j] <= now'
                    /\ wait'[j] # NoWait => wait'[j].issued <= now'
                    /\ Open(j)' => Listed(j)'
  BY DEF IndexInv
<1>3. issued[j] <= now /\ issued[d] <= now
  BY DEF IndexInv
<1>4. CASE j = d
  <2>1. /\ wait'[d].target = goal[d] /\ wait'[d].issued = issued[d]
        /\ wait'[d].timeout = timeout[d]
    BY <1>2 DEF TypeInv, TypeOK, StoreTypeOK
  <2>2. exp > issued[d] + timeout[d]
    BY <1>1, <1>3
  <2>3. \A k \in keys : d \in index'[k] /\ indexExp'[k] = exp
    BY <1>2, IndexesAreKeys
  <2>. QED BY <1>2, <1>3, <1>4, <2>1, <2>2, <2>3 DEF Listed
<1>5. CASE j # d
  <2>1. wait'[j] = wait[j]
    BY <1>2, <1>5 DEF TypeInv, TypeOK, StoreTypeOK
  <2>2. ASSUME Open(j), NEW k \in IndexesOf(j, wait[j].target)
        PROVE  j \in index'[k] /\ indexExp'[k] > wait[j].issued + wait[j].timeout
    <3>1. j \in index[k] /\ indexExp[k] > wait[j].issued + wait[j].timeout
      BY <2>2 DEF IndexInv, Listed
    <3>2. k \in IndexKey
      BY IndexesAreKeys
    <3>3. exp > wait[j].issued + wait[j].timeout
      <4>1. /\ wait[j].issued \in Nat /\ wait[j].timeout \in Nat
            /\ wait[j].timeout < Grace /\ wait[j].issued <= now
        BY <2>2, StoredWait DEF Open, IndexInv
      <4>. QED BY <1>1, <4>1
    <3>. QED BY <1>2, <3>1, <3>2, <3>3
  <2>. QED BY <1>2, <1>3, <2>1, <2>2 DEF IndexInv, Open, Listed
<1>. QED BY <1>4, <1>5

LEMMA TickIndexInv ==
  ASSUME TypeInv, IndexInv, Tick
  PROVE  IndexInv'
<1>1. /\ now \in Nat /\ now' = now + 1 /\ issued' = issued
      /\ \A j \in Job : wait'[j] = wait[j] \/ wait'[j] = NoWait
      /\ \A k \in IndexKey : indexExp[k] > now' => index'[k] = index[k] /\ indexExp'[k] = indexExp[k]
  BY DEF Tick, flowVars, TypeInv, TypeOK, StoreTypeOK
<1> SUFFICES ASSUME NEW j \in Job
             PROVE  /\ issued'[j] <= now'
                    /\ wait'[j] # NoWait => wait'[j].issued <= now'
                    /\ Open(j)' => Listed(j)'
  BY DEF IndexInv
<1>2. issued'[j] <= now'
  BY <1>1 DEF IndexInv, TypeInv, TypeOK, FlowTypeOK
<1>3. ASSUME wait'[j] # NoWait
      PROVE  wait'[j] = wait[j] /\ wait[j].issued \in Nat /\ wait[j].timeout \in Nat /\ wait[j].issued <= now
  BY <1>1, <1>3, StoredWait DEF IndexInv
<1>4. ASSUME Open(j)', NEW k \in IndexesOf(j, wait'[j].target)
      PROVE  j \in index'[k] /\ indexExp'[k] > wait'[j].issued + wait'[j].timeout
  <2>1. wait'[j] # NoWait /\ now' <= wait'[j].issued + wait'[j].timeout
    BY <1>4 DEF Open
  <2>2. /\ wait'[j] = wait[j] /\ wait[j] # NoWait
        /\ wait[j].issued \in Nat /\ wait[j].timeout \in Nat
    BY <1>3, <2>1
  <2>3. Open(j)
    BY <1>1, <2>1, <2>2 DEF Open
  <2>4. j \in index[k] /\ indexExp[k] > wait[j].issued + wait[j].timeout
    BY <1>4, <2>2, <2>3 DEF IndexInv, Listed
  <2>5. k \in IndexKey /\ indexExp[k] \in Nat
    BY <1>4, IndexesAreKeys DEF TypeInv, TypeOK, StoreTypeOK
  <2>6. indexExp[k] > now'
    BY <1>1, <2>1, <2>2, <2>4, <2>5
  <2>. QED BY <1>1, <2>2, <2>4, <2>5, <2>6
<1>. QED BY <1>1, <1>2, <1>3, <1>4 DEF Listed

LEMMA StampIndexInv ==
  ASSUME TypeInv, IndexInv, NEW d \in Job, StampIssued(d)
  PROVE  IndexInv'
<1>1. issued' = [issued EXCEPT ![d] = now] /\ UNCHANGED <<now, storeVars>> /\ now \in Nat
  BY DEF StampIssued, TypeInv, TypeOK
<1>2. \A j \in Job : issued'[j] <= now'
  BY <1>1 DEF IndexInv, TypeInv, TypeOK, FlowTypeOK
<1>. QED BY <1>1, <1>2 DEF IndexInv, Open, Listed, storeVars

LEMMA NextIndexInv == TypeInv /\ IndexInv /\ [Next]_vars => IndexInv'
<1> SUFFICES ASSUME TypeInv, IndexInv, [Next]_vars PROVE IndexInv'
  OBVIOUS
<1>1. CASE Tick
  BY <1>1, TickIndexInv
<1>2. ASSUME NEW m \in Msg, DeletePosted(m)
      PROVE  IndexInv'
  <2>1. waits[m] \in Seq(Entry) /\ Head(waits[m]) \in Entry
    BY <1>2, HeadTail DEF TypeInv, TypeOK, MsgTypeOK, MsgShape, DeletePosted, Holding
  <2>2. Head(waits[m]).job \in Job
    BY <2>1 DEF Entry
  <2>. QED BY <1>2, <2>2, DeleteIndexInv DEF DeletePosted, flowVars
<1>3. ASSUME NEW m \in Msg,
             Submit(m) \/ SubmitManual(m) \/ Abort(m) \/ (Handle(m) /\ ~ DeletePosted(m))
      PROVE  UNCHANGED <<now, wait, index, indexExp, issued>>
  BY <1>3 DEF Handle, Submit, SubmitManual, Abort, SaveLatest, Members, Load, Scanned,
     ClaimWait, PostDelivered, PostFailed, ReleaseClaim, Finish, EndCall, storeVars, flowVars
<1>4. ASSUME NEW j \in Job, Await(j)
      PROVE  IndexInv'
  <2>1. CASE StampIssued(j)
    BY <2>1, StampIndexInv
  <2>2. CASE ClearWait(j)
    BY <2>2, DeleteIndexInv DEF ClearWait
  <2>3. CASE RegisterWait(j)
    BY <2>3, RegisterIndexInv
  <2>4. CASE LookupLatest(j) \/ Park(j)
    BY <2>4, IndexUnchanged DEF LookupLatest, Park, storeVars
  <2>. QED BY <1>4, <2>1, <2>2, <2>3, <2>4 DEF Await
<1>5. ASSUME NEW j \in Job, RequestOTP(j) \/ WaitTimeout(j) \/ AwaitError(j)
      PROVE  IndexInv'
  BY <1>5, IndexUnchanged DEF RequestOTP, WaitTimeout, AwaitError, storeVars
<1>6. CASE UNCHANGED vars
  BY <1>6, IndexUnchanged DEF vars, storeVars, flowVars
<1>. QED BY <1>1, <1>2, <1>3, <1>4, <1>5, <1>6, IndexUnchanged DEF Next

\* However waits are registered, replaced, deleted under another target, left
\* to expire or half written, a submission that looks under any index key of an
\* accepting wait finds the job listed there.
THEOREM ReachableCorrect == Spec => []ReachableWait
<1>1. Init => IndexInv
  <2> SUFFICES ASSUME Init, NEW j \in Job
               PROVE  issued[j] <= now /\ wait[j] = NoWait
    BY DEF IndexInv, Open
  <2>. QED BY DEF Init
<1>2. TypeInv /\ IndexInv => ReachableWait
  <2> SUFFICES ASSUME TypeInv, IndexInv, NEW j \in Job, Accepts(j, now)
               PROVE  \A k \in IndexesOf(j, wait[j].target) : j \in index[k]
    BY DEF ReachableWait
  <2>1. Open(j)
    BY DEF Accepts, InWindow, Open
  <2>. QED BY <2>1 DEF IndexInv, Listed
<1>3. TypeInv /\ [Next]_vars => TypeInv'
  BY NextTypeInv
<1>. QED BY <1>1, <1>2, <1>3, InitTypeInv, NextIndexInv, PTL DEF Spec

-----------------------------------------------------------------------------
(* What a claim protects: who holds a job, and who may post to it.         *)

\* The job a handler is posting to.
HeldJob(m) == Head(waits[m]).job

LEMMA HeldJobType ==
  ASSUME TypeInv, NEW m \in Msg, waits[m] # << >>
  PROVE  Head(waits[m]) \in Entry /\ HeldJob(m) \in Job
<1>1. Head(waits[m]) \in Entry
  BY HeadTail DEF TypeInv, TypeOK, MsgTypeOK
<1>. QED BY <1>1 DEF Entry, HeldJob

LEMMA HoldingWaits ==
  ASSUME TypeInv, NEW m \in Msg, pc[m] \in Holding
  PROVE  waits[m] # << >>
BY DEF TypeInv, MsgShape

-----------------------------------------------------------------------------
(* Claims and holders without store faults.                                *)

ClaimInv ==
  \A j \in Job : claim[j] # NoClaim =>
    claim[j].owner \in Msg /\ pc[claim[j].owner] \in Holding /\ HeldJob(claim[j].owner) = j

LEMMA ClaimInvUnchanged ==
  ClaimInv /\ UNCHANGED <<claim, pc, waits>> => ClaimInv'
BY DEF ClaimInv, HeldJob

\* A handler that holds no job owns no claim: it may do as it likes.
LEMMA ClaimInvOutside ==
  ASSUME TypeInv, ClaimInv, NEW m \in Msg, pc[m] \notin Holding,
         UNCHANGED claim,
         \A n \in Msg \ {m} : pc'[n] = pc[n] /\ waits'[n] = waits[n]
  PROVE  ClaimInv'
BY DEF ClaimInv, HeldJob

\* A handler that stays with its job keeps its claim.
LEMMA ClaimInvStays ==
  ASSUME TypeInv, ClaimInv, NEW m \in Msg, pc'[m] \in Holding, UNCHANGED <<claim, waits>>,
         \A n \in Msg \ {m} : pc'[n] = pc[n]
  PROVE  ClaimInv'
BY DEF ClaimInv, HeldJob

\* A handler that gives its job up takes the only claim it can own with it.
LEMMA ClaimInvLeaves ==
  ASSUME TypeInv, ClaimInv, NEW m \in Msg, pc[m] \in Holding,
         claim' = [claim EXCEPT ![HeldJob(m)] = NoClaim],
         \A n \in Msg \ {m} : pc'[n] = pc[n] /\ waits'[n] = waits[n]
  PROVE  ClaimInv'
<1> SUFFICES ASSUME NEW j \in Job, claim'[j] # NoClaim
             PROVE  /\ claim'[j].owner \in Msg /\ pc'[claim'[j].owner] \in Holding
                    /\ Head(waits'[claim'[j].owner]).job = j
  BY DEF ClaimInv, HeldJob
<1>. DEFINE h == HeldJob(m)
<1>0. claim \in [Job -> Claim]
  BY DEF TypeInv, TypeOK, StoreTypeOK
<1>. HIDE DEF h
<1>1. j # HeldJob(m) /\ claim'[j] = claim[j]
  <2>1. claim' = [claim EXCEPT ![h] = NoClaim]
    BY DEF h
  <2>2. j # h /\ claim'[j] = claim[j]
    BY <1>0, <2>1
  <2>. QED BY <2>2 DEF h
<1>2. /\ claim[j].owner \in Msg /\ pc[claim[j].owner] \in Holding
      /\ HeldJob(claim[j].owner) = j
  BY <1>1 DEF ClaimInv
<1>3. claim[j].owner # m
  BY <1>1, <1>2
<1>. QED BY <1>1, <1>2, <1>3 DEF HeldJob

LEMMA ClaimInvRemoved ==
  ASSUME ClaimInv, UNCHANGED <<pc, waits>>,
         \A j \in Job : claim'[j] = claim[j] \/ claim'[j] = NoClaim
  PROVE  ClaimInv'
<1> SUFFICES ASSUME NEW j \in Job, claim'[j] # NoClaim
             PROVE  /\ claim'[j].owner \in Msg /\ pc'[claim'[j].owner] \in Holding
                    /\ Head(waits'[claim'[j].owner]).job = j
  BY DEF ClaimInv, HeldJob
<1>1. claim'[j] = claim[j]
  OBVIOUS
<1>. QED BY <1>1 DEF ClaimInv, HeldJob

LEMMA HandleClaimInv ==
  ASSUME TypeInv, ClaimInv, "store" \notin Faults, NEW m \in Msg,
         Submit(m) \/ SubmitManual(m) \/ Handle(m) \/ Abort(m)
  PROVE  ClaimInv'
<1> USE DEF Goto
<1>1. CASE Submit(m) \/ SubmitManual(m) \/ SaveLatest(m) \/ Members(m) \/ Load(m) \/ Scanned(m)
  <2>1. pc[m] \notin Holding /\ UNCHANGED claim
    BY <1>1 DEF Submit, SubmitManual, SaveLatest, Members, Load, Scanned, Holding, storeVars
  <2>2. \A n \in Msg \ {m} : pc'[n] = pc[n] /\ waits'[n] = waits[n]
    BY <1>1 DEF Submit, SubmitManual, SaveLatest, Members, Load, Scanned,
       TypeInv, TypeOK, MsgTypeOK
  <2>. QED BY <2>1, <2>2, ClaimInvOutside
<1>2. CASE Finish(m)
  <2>1. pc[m] \notin Holding /\ UNCHANGED claim
    BY <1>2 DEF Finish, Holding, storeVars
  <2>2. \A n \in Msg \ {m} : pc'[n] = pc[n] /\ waits'[n] = waits[n]
    BY <1>2 DEF Finish, EndCall, TypeInv, TypeOK, MsgTypeOK
  <2>. QED BY <2>1, <2>2, ClaimInvOutside
<1>3. CASE ClaimWait(m)
  <2>1. pc[m] = "claim" /\ waits[m] # << >> /\ HeldJob(m) \in Job
    BY <1>3, HeldJobType DEF ClaimWait
  <2>2. CASE claim[HeldJob(m)] = NoClaim
    <3>. DEFINE h == HeldJob(m)
    <3>1. /\ claim' = [claim EXCEPT ![h] = [owner |-> m, exp |-> now + ClaimTTL]]
          /\ pc' = [pc EXCEPT ![m] = "post"] /\ waits' = waits
      BY <1>3, <2>2 DEF ClaimWait, HeldJob
    <3>0. h \in Job /\ claim \in [Job -> Claim] /\ pc \in [Msg -> MsgLabels]
      BY <2>1 DEF TypeInv, TypeOK, MsgTypeOK, StoreTypeOK
    <3>. HIDE DEF h
    <3>2. pc'[m] = "post" /\ claim'[h].owner = m
      BY <3>0, <3>1
    <3>3. ASSUME NEW j \in Job, j # h, claim'[j] # NoClaim
          PROVE  /\ claim'[j].owner \in Msg /\ pc'[claim'[j].owner] \in Holding
                 /\ Head(waits'[claim'[j].owner]).job = j
      <4>1. claim'[j] = claim[j]
        BY <3>0, <3>1, <3>3
      <4>2. /\ claim[j].owner \in Msg /\ pc[claim[j].owner] \in Holding
            /\ HeldJob(claim[j].owner) = j
        BY <3>3, <4>1 DEF ClaimInv
      <4>3. claim[j].owner # m
        BY <2>1, <4>2 DEF Holding
      <4>4. pc'[claim[j].owner] = pc[claim[j].owner]
        BY <3>0, <3>1, <4>2, <4>3
      <4>. QED BY <3>1, <4>1, <4>2, <4>4 DEF HeldJob
    <3>4. Head(waits'[m]).job = h /\ "post" \in Holding
      BY <3>1 DEF h, HeldJob, Holding
    <3>5. ASSUME NEW j \in Job, claim'[j] # NoClaim
          PROVE  /\ claim'[j].owner \in Msg /\ pc'[claim'[j].owner] \in Holding
                 /\ Head(waits'[claim'[j].owner]).job = j
      <4>1. CASE j = h
        BY <3>2, <3>4, <4>1
      <4>2. CASE j # h
        BY <3>3, <3>5, <4>2
      <4>. QED BY <4>1, <4>2
    <3>. QED BY <3>5 DEF ClaimInv, HeldJob
  <2>3. CASE claim[HeldJob(m)] # NoClaim
    <3>1. UNCHANGED <<claim, pc>> /\ waits' = [waits EXCEPT ![m] = Tail(waits[m])]
      BY <1>3, <2>3 DEF ClaimWait, HeldJob, TypeInv, TypeOK, MsgTypeOK
    <3>2. \A n \in Msg \ {m} : pc'[n] = pc[n] /\ waits'[n] = waits[n]
      BY <3>1 DEF TypeInv, TypeOK, MsgTypeOK
    <3>. QED BY <2>1, <3>1, <3>2, ClaimInvOutside DEF Holding
  <2>. QED BY <2>2, <2>3
<1>4. CASE PostDelivered(m) \/ PostFailed(m)
  <2>1. /\ UNCHANGED <<claim, waits>> /\ pc'[m] \in Holding
        /\ \A n \in Msg \ {m} : pc'[n] = pc[n]
    BY <1>4 DEF PostDelivered, PostFailed, Holding, storeVars, TypeInv, TypeOK, MsgTypeOK
  <2>. QED BY <2>1, ClaimInvStays
<1>5. CASE ReleaseClaim(m)
  <2>1. pc[m] \in Holding /\ claim' = [claim EXCEPT ![HeldJob(m)] = NoClaim]
    BY <1>5 DEF ReleaseClaim, Holding, HeldJob
  <2>2. \A n \in Msg \ {m} : pc'[n] = pc[n] /\ waits'[n] = waits[n]
    BY <1>5 DEF ReleaseClaim, EndCall, TypeInv, TypeOK, MsgTypeOK
  <2>. QED BY <2>1, <2>2, ClaimInvLeaves
<1>6. CASE DeletePosted(m)
  <2>1. pc[m] \in Holding /\ claim' = [claim EXCEPT ![HeldJob(m)] = NoClaim]
    BY <1>6 DEF DeletePosted, DeleteChannelOTPWait, Holding, HeldJob
  <2>2. \A n \in Msg \ {m} : pc'[n] = pc[n] /\ waits'[n] = waits[n]
    BY <1>6 DEF DeletePosted, TypeInv, TypeOK, MsgTypeOK
  <2>. QED BY <2>1, <2>2, ClaimInvLeaves
<1>. QED BY <1>1, <1>2, <1>3, <1>4, <1>5, <1>6 DEF Handle, Abort

LEMMA NextClaimInv ==
  "store" \notin Faults /\ TypeInv /\ ClaimInv /\ [Next]_vars => ClaimInv'
<1> SUFFICES ASSUME "store" \notin Faults, TypeInv, ClaimInv, [Next]_vars PROVE ClaimInv'
  OBVIOUS
<1>1. CASE Tick
  <2>1. /\ UNCHANGED <<pc, waits>>
        /\ \A j \in Job : claim'[j] = claim[j] \/ claim'[j] = NoClaim
    BY <1>1 DEF Tick, msgVars
  <2>. QED BY <2>1, ClaimInvRemoved
<1>2. ASSUME NEW j \in Job, ClearWait(j)
      PROVE  ClaimInv'
  <2>1. /\ UNCHANGED <<pc, waits>>
        /\ \A i \in Job : claim'[i] = claim[i] \/ claim'[i] = NoClaim
    BY <1>2 DEF ClearWait, DeleteChannelOTPWait, msgVars, TypeInv, TypeOK, StoreTypeOK
  <2>. QED BY <2>1, ClaimInvRemoved
<1>3. ASSUME NEW j \in Job,
             \/ RequestOTP(j) \/ StampIssued(j) \/ LookupLatest(j) \/ RegisterWait(j)
             \/ Park(j) \/ WaitTimeout(j) \/ AwaitError(j)
      PROVE  UNCHANGED <<claim, pc, waits>>
  BY <1>3 DEF RequestOTP, StampIssued, LookupLatest, RegisterWait, Park, WaitTimeout,
     AwaitError, msgVars, storeVars
<1>4. CASE UNCHANGED vars
  BY <1>4, ClaimInvUnchanged DEF vars, storeVars, msgVars
<1>. QED BY <1>1, <1>2, <1>3, <1>4, HandleClaimInv, ClaimInvUnchanged DEF Next, Await

\* While Redis answers, a claim in it always has a handler at work on that very
\* job: no code is turned away by the claim of a call that has ended.
THEOREM ClaimsHeld == ASSUME "store" \notin Faults PROVE Spec => []ClaimHeldByPoster
<1>1. Init => ClaimInv
  BY DEF Init, ClaimInv
<1>2. ClaimInv => ClaimHeldByPoster
  BY DEF ClaimInv, ClaimHeldByPoster, HeldJob
<1>3. TypeInv /\ ClaimInv /\ [Next]_vars => ClaimInv'
  BY NextClaimInv
<1>. QED BY <1>1, <1>2, <1>3, InitTypeInv, NextTypeInv, PTL DEF Spec

-----------------------------------------------------------------------------
(* The first wait of a job, whatever fails.                                  *)

\* Before its first registration a job has no wait and no handler knows of it:
\* the deletion that precedes the registration can take nobody's claim.
Quiet == {"idle", "sent", "latest", "clear", "register"}

InSnapshot(m, j) == \E i \in DOMAIN waits[m] : waits[m][i].job = j

FreshInv ==
  \A j \in Job :
    /\ phase[j] # "idle" => round[j] >= 1
    /\ round[j] <= 1 /\ phase[j] \in Quiet =>
         wait[j] = NoWait /\ \A m \in Msg : ~ InSnapshot(m, j)

\* A handler's claim is its own for as long as it holds the job: it was set
\* when the hold began, and a hold is shorter than a claim's life.
HoldInv ==
  \A m \in Msg : pc[m] \in Holding /\ round[HeldJob(m)] <= 1 =>
    /\ claim[HeldJob(m)] = [owner |-> m, exp |-> heldAt[m] + ClaimTTL]
    /\ now <= heldAt[m] + HoldLimit

\* The elements of a tail, and of a sequence with one more, are those of the
\* sequence.
LEMMA TailEntries ==
  ASSUME NEW S, NEW s \in Seq(S), s # << >>, NEW i \in DOMAIN Tail(s)
  PROVE  i + 1 \in DOMAIN s /\ Tail(s)[i] = s[i + 1]
OBVIOUS

LEMMA AppendEntries ==
  ASSUME NEW S, NEW s \in Seq(S), NEW e \in S, NEW i \in DOMAIN Append(s, e)
  PROVE  Append(s, e)[i] = e \/ (i \in DOMAIN s /\ Append(s, e)[i] = s[i])
OBVIOUS

\* The job a handler works on is among those it has in hand.
LEMMA HeldInSnapshot ==
  ASSUME TypeInv, NEW m \in Msg, waits[m] # << >>
  PROVE  InSnapshot(m, HeldJob(m))
<1>1. waits[m] \in Seq(Entry)
  BY DEF TypeInv, TypeOK, MsgTypeOK
<1>2. 1 \in DOMAIN waits[m] /\ Head(waits[m]) = waits[m][1]
  BY <1>1
<1>. QED BY <1>2 DEF InSnapshot, HeldJob

-----------------------------------------------------------------------------
(* FreshInv.                                                               *)

\* Any step that registers no wait for a quiet job and lets a handler learn of
\* a job only from a stored wait.
LEMMA FreshStep ==
  ASSUME FreshInv, round' = round,
         \A j \in Job : phase'[j] # "idle" => phase[j] # "idle",
         \A j \in Job : phase'[j] \in Quiet =>
           phase[j] \in Quiet /\ (wait'[j] = wait[j] \/ wait'[j] = NoWait),
         \A m \in Msg, j \in Job :
           InSnapshot(m, j)' => InSnapshot(m, j) \/ wait[j] # NoWait
  PROVE  FreshInv'
<1> SUFFICES ASSUME NEW j \in Job
             PROVE  /\ phase'[j] # "idle" => round'[j] >= 1
                    /\ round'[j] <= 1 /\ phase'[j] \in Quiet =>
                         wait'[j] = NoWait /\ \A m \in Msg : ~ InSnapshot(m, j)'
  BY DEF FreshInv
<1>. QED BY DEF FreshInv

\* A handler that drops its first wait has no other job in hand than before.
LEMMA TailSnapshot ==
  ASSUME TypeInv, NEW m \in Msg, waits[m] # << >>, waits' = [waits EXCEPT ![m] = Tail(waits[m])],
         NEW n \in Msg, NEW j \in Job, InSnapshot(n, j)'
  PROVE  InSnapshot(n, j)
<1>1. waits \in [Msg -> Seq(Entry)]
  BY DEF TypeInv, TypeOK, MsgTypeOK
<1>2. CASE n # m
  <2>1. waits'[n] = waits[n]
    BY <1>1, <1>2
  <2>. QED BY <2>1 DEF InSnapshot
<1>3. CASE n = m
  <2>1. waits'[n] = Tail(waits[m])
    BY <1>1, <1>3
  <2>2. PICK i \in DOMAIN Tail(waits[m]) : Tail(waits[m])[i].job = j
    BY <2>1 DEF InSnapshot
  <2>3. i + 1 \in DOMAIN waits[m] /\ Tail(waits[m])[i] = waits[m][i + 1]
    BY <1>1, TailEntries
  <2>. QED BY <1>3, <2>2, <2>3 DEF InSnapshot
<1>. QED BY <1>2, <1>3

\* Load puts a job in hand only if it was listed and its wait accepts the code.
LEMMA LoadSnapshot ==
  ASSUME TypeInv, NEW m \in Msg, Load(m), NEW n \in Msg, NEW j \in Job, InSnapshot(n, j)'
  PROVE  InSnapshot(n, j) \/ (n = m /\ j \in ids[m] /\ Accepts(j, recv[m]))
<1>1. waits \in [Msg -> Seq(Entry)] /\ ids[m] \subseteq Job
  BY DEF TypeInv, TypeOK, MsgTypeOK
<1>2. PICK d \in ids[m] :
        waits' = IF Accepts(d, recv[m])
                   THEN [waits EXCEPT ![m] =
                           Append(@, [job |-> d, target |-> wait[d].target])]
                   ELSE waits
  BY DEF Load
<1>. DEFINE e == [job |-> d, target |-> wait[d].target]
<1>3. CASE Accepts(d, recv[m]) /\ n = m
  <2>1. e \in Entry /\ e.job = d
    BY <1>1, <1>3 DEF Accepts, Entry, Wait, TypeInv, TypeOK, StoreTypeOK
  <2>2. waits'[n] = Append(waits[n], e)
    BY <1>1, <1>2, <1>3
  <2>. HIDE DEF e
  <2>3. PICK i \in DOMAIN Append(waits[n], e) : Append(waits[n], e)[i].job = j
    BY <2>2 DEF InSnapshot
  <2>4. \/ Append(waits[n], e)[i] = e
        \/ i \in DOMAIN waits[n] /\ Append(waits[n], e)[i] = waits[n][i]
    BY <1>1, <2>1, AppendEntries
  <2>. QED BY <1>3, <2>1, <2>3, <2>4 DEF InSnapshot
<1>4. CASE ~ (Accepts(d, recv[m]) /\ n = m)
  <2>1. waits'[n] = waits[n]
    BY <1>1, <1>2, <1>4
  <2>. QED BY <2>1 DEF InSnapshot
<1>. QED BY <1>3, <1>4

\* A handler that ends has nothing in hand.
LEMMA EndSnapshot ==
  ASSUME TypeInv, NEW m \in Msg, waits' = [waits EXCEPT ![m] = << >>],
         NEW n \in Msg, NEW j \in Job, InSnapshot(n, j)'
  PROVE  InSnapshot(n, j)
<1>1. waits \in [Msg -> Seq(Entry)]
  BY DEF TypeInv, TypeOK, MsgTypeOK
<1>2. waits'[n] = << >> \/ waits'[n] = waits[n]
  BY <1>1
<1>. QED BY <1>2 DEF InSnapshot

\* The steps of the handlers, for FreshInv.
LEMMA HandleFreshInv ==
  ASSUME TypeInv, FreshInv, NEW m \in Msg,
         Submit(m) \/ SubmitManual(m) \/ Handle(m) \/ Abort(m)
  PROVE  FreshInv'
<1>1. CASE Submit(m) \/ SubmitManual(m) \/ SaveLatest(m) \/ Members(m) \/ Scanned(m) \/ PostFailed(m)
  <2>1. UNCHANGED <<round, phase, wait, waits>>
    BY <1>1 DEF Submit, SubmitManual, SaveLatest, Members, Scanned, PostFailed, storeVars, flowVars
  <2>. QED BY <2>1, FreshStep DEF InSnapshot
<1>2. CASE Load(m)
  <2>1. UNCHANGED <<round, phase, wait>>
    BY <1>2 DEF Load, storeVars, flowVars
  <2>2. ASSUME NEW n \in Msg, NEW j \in Job, InSnapshot(n, j)'
        PROVE  InSnapshot(n, j) \/ wait[j] # NoWait
    BY <1>2, <2>2, LoadSnapshot DEF Accepts
  <2>. QED BY <2>1, <2>2, FreshStep
<1>3. CASE ClaimWait(m)
  <2>1. UNCHANGED <<round, phase, wait>>
    BY <1>3 DEF ClaimWait, flowVars
  <2>2. waits[m] # << >> /\ (waits' = waits \/ waits' = [waits EXCEPT ![m] = Tail(waits[m])])
    BY <1>3 DEF ClaimWait, TypeInv, TypeOK, MsgTypeOK
  <2>3. ASSUME NEW n \in Msg, NEW j \in Job, InSnapshot(n, j)'
        PROVE  InSnapshot(n, j)
    BY <2>2, <2>3, TailSnapshot DEF InSnapshot
  <2>. QED BY <2>1, <2>3, FreshStep
<1>4. CASE PostDelivered(m)
  <2>1. /\ phase[HeldJob(m)] = "waiting"
        /\ phase' = [phase EXCEPT ![HeldJob(m)] = "resumed"]
        /\ UNCHANGED <<round, wait, waits>>
    BY <1>4 DEF PostDelivered, HeldJob, storeVars
  <2>2. \A j \in Job : phase'[j] = phase[j] \/ (phase[j] = "waiting" /\ phase'[j] = "resumed")
    BY <2>1 DEF TypeInv, TypeOK, FlowTypeOK
  <2>. QED BY <2>1, <2>2, FreshStep DEF InSnapshot, Quiet
<1>5. CASE ReleaseClaim(m) \/ Finish(m) \/ Abort(m)
  <2>1. UNCHANGED <<round, phase, wait>> /\ waits' = [waits EXCEPT ![m] = << >>]
    BY <1>5 DEF ReleaseClaim, Finish, Abort, EndCall, storeVars, flowVars
  <2>. QED BY <2>1, EndSnapshot, FreshStep
<1>6. CASE DeletePosted(m)
  <2>1. UNCHANGED <<round, phase>> /\ \A j \in Job : wait'[j] = wait[j] \/ wait'[j] = NoWait
    BY <1>6 DEF DeletePosted, DeleteChannelOTPWait, flowVars, TypeInv, TypeOK, StoreTypeOK
  <2>2. waits[m] # << >> /\ waits' = [waits EXCEPT ![m] = Tail(waits[m])]
    BY <1>6, HoldingWaits DEF DeletePosted, Holding, TypeInv, TypeOK, MsgTypeOK
  <2>. QED BY <2>1, <2>2, TailSnapshot, FreshStep
<1>. QED BY <1>1, <1>2, <1>3, <1>4, <1>5, <1>6 DEF Handle

\* The steps of the workflows, for FreshInv.
LEMMA FlowFreshInv ==
  ASSUME TypeInv, FreshInv, NEW d \in Job,
         RequestOTP(d) \/ Await(d) \/ WaitTimeout(d) \/ AwaitError(d)
  PROVE  FreshInv'
<1> USE DEF Enter
<1>0. phase \in [Job -> Phases] /\ round \in [Job -> Nat] /\ wait \in [Job -> Wait \cup {NoWait}]
  BY DEF TypeInv, TypeOK, FlowTypeOK, StoreTypeOK
<1>1. CASE RequestOTP(d)
  <2>1. /\ phase[d] \in {"idle", "resumed", "timedout"}
        /\ round' = [round EXCEPT ![d] = round[d] + 1]
        /\ phase' = [phase EXCEPT ![d] = "sent"]
        /\ UNCHANGED <<wait, waits>>
    BY <1>0, <1>1 DEF RequestOTP, storeVars, msgVars
  <2> SUFFICES ASSUME NEW j \in Job
               PROVE  /\ phase'[j] # "idle" => round'[j] >= 1
                      /\ round'[j] <= 1 /\ phase'[j] \in Quiet =>
                           wait'[j] = NoWait /\ \A m \in Msg : ~ InSnapshot(m, j)'
    BY DEF FreshInv
  <2>2. \A m \in Msg : InSnapshot(m, j)' <=> InSnapshot(m, j)
    BY <2>1 DEF InSnapshot
  <2>3. CASE j = d
    <3>1. round'[j] = round[j] + 1 /\ round[j] \in Nat
      BY <1>0, <2>1, <2>3
    <3>2. round'[j] <= 1 => phase[j] = "idle" /\ round[j] <= 1
      BY <2>1, <2>3, <3>1 DEF FreshInv
    <3>. QED BY <2>1, <2>2, <3>1, <3>2 DEF FreshInv, Quiet
  <2>4. CASE j # d
    <3>1. round'[j] = round[j] /\ phase'[j] = phase[j]
      BY <1>0, <2>1, <2>4
    <3>. QED BY <2>1, <2>2, <3>1 DEF FreshInv
  <2>. QED BY <2>3, <2>4
<1>2. CASE StampIssued(d) \/ LookupLatest(d) \/ Park(d) \/ WaitTimeout(d) \/ AwaitError(d)
  <2>1. UNCHANGED <<round, wait, waits>>
    BY <1>2 DEF StampIssued, LookupLatest, Park, WaitTimeout, AwaitError, storeVars, msgVars
  <2>2. \A j \in Job : /\ phase'[j] # "idle" => phase[j] # "idle"
                       /\ phase'[j] \in Quiet => phase[j] \in Quiet
    BY <1>0, <1>2 DEF StampIssued, LookupLatest, Park, WaitTimeout, AwaitError, Quiet
  <2>. QED BY <2>1, <2>2, FreshStep DEF InSnapshot
<1>3. CASE ClearWait(d)
  <2>1. UNCHANGED <<round, waits>> /\ \A j \in Job : wait'[j] = wait[j] \/ wait'[j] = NoWait
    BY <1>0, <1>3 DEF ClearWait, DeleteChannelOTPWait, msgVars
  <2>2. \A j \in Job : /\ phase'[j] # "idle" => phase[j] # "idle"
                       /\ phase'[j] \in Quiet => phase[j] \in Quiet
    BY <1>0, <1>3 DEF ClearWait, Quiet
  <2>. QED BY <2>1, <2>2, FreshStep DEF InSnapshot
<1>4. CASE RegisterWait(d)
  <2>1. UNCHANGED <<round, waits>> /\ \A j \in Job : j # d => wait'[j] = wait[j]
    BY <1>0, <1>4 DEF RegisterWait, msgVars
  <2>2. \A j \in Job : /\ phase'[j] # "idle" => phase[j] # "idle"
                       /\ phase'[j] \in Quiet => phase[j] \in Quiet /\ j # d
    BY <1>0, <1>4 DEF RegisterWait, Quiet
  <2>. QED BY <2>1, <2>2, FreshStep DEF InSnapshot
<1>. QED BY <1>1, <1>2, <1>3, <1>4 DEF Await

-----------------------------------------------------------------------------
(* HoldInv.                                                                *)

\* Any step that starts no hold and touches no claim that is held.
LEMMA HoldStep ==
  ASSUME HoldInv, now' = now,
         \A j : round'[j] <= 1 => round[j] <= 1,
         \A m \in Msg : pc'[m] \in Holding =>
           /\ pc[m] \in Holding /\ waits'[m] = waits[m] /\ heldAt'[m] = heldAt[m]
           /\ round[HeldJob(m)] <= 1 => claim'[HeldJob(m)] = claim[HeldJob(m)]
  PROVE  HoldInv'
<1> SUFFICES ASSUME NEW m \in Msg, pc'[m] \in Holding, round'[Head(waits'[m]).job] <= 1
             PROVE  /\ claim'[Head(waits'[m]).job] = [owner |-> m, exp |-> heldAt'[m] + ClaimTTL]
                    /\ now' <= heldAt'[m] + HoldLimit
  BY DEF HoldInv, HeldJob
<1>1. Head(waits'[m]).job = HeldJob(m) /\ heldAt'[m] = heldAt[m] /\ pc[m] \in Holding
  BY DEF HeldJob
<1>2. round[HeldJob(m)] <= 1 /\ claim'[HeldJob(m)] = claim[HeldJob(m)]
  BY <1>1
<1>. QED BY <1>1, <1>2 DEF HoldInv

\* Two holders of one job are the same handler.
LEMMA HolderUnique ==
  ASSUME HoldInv, NEW m \in Msg, NEW n \in Msg, pc[m] \in Holding, pc[n] \in Holding,
         HeldJob(m) = HeldJob(n), round[HeldJob(m)] <= 1
  PROVE  m = n
<1>1. claim[HeldJob(m)] = [owner |-> m, exp |-> heldAt[m] + ClaimTTL]
  BY DEF HoldInv
<1>2. claim[HeldJob(m)] = [owner |-> n, exp |-> heldAt[n] + ClaimTTL]
  BY DEF HoldInv
<1>3. claim[HeldJob(m)].owner = m /\ claim[HeldJob(m)].owner = n
  BY <1>1, <1>2
<1>. QED BY <1>3

\* A step of a handler that is then not holding, and that removes at most the
\* claim it had.
LEMMA LeaveHoldInv ==
  ASSUME TypeInv, HoldInv, NEW m \in Msg, pc'[m] \notin Holding,
         UNCHANGED <<now, round>>,
         claim' = claim \/ (pc[m] \in Holding /\ claim' = [claim EXCEPT ![HeldJob(m)] = NoClaim]),
         \A n \in Msg \ {m} : pc'[n] = pc[n] /\ waits'[n] = waits[n] /\ heldAt'[n] = heldAt[n]
  PROVE  HoldInv'
<1>1. ASSUME NEW n \in Msg, pc'[n] \in Holding
      PROVE  /\ pc[n] \in Holding /\ waits'[n] = waits[n] /\ heldAt'[n] = heldAt[n]
             /\ round[HeldJob(n)] <= 1 => claim'[HeldJob(n)] = claim[HeldJob(n)]
  <2>1. n # m /\ pc[n] \in Holding /\ waits'[n] = waits[n] /\ heldAt'[n] = heldAt[n]
    BY <1>1
  <2>2. ASSUME round[HeldJob(n)] <= 1, claim' # claim
        PROVE  HeldJob(n) # HeldJob(m)
    BY <2>1, <2>2, HolderUnique
  <2>3. HeldJob(n) # HeldJob(m) => claim'[HeldJob(n)] = claim[HeldJob(n)]
    <3>1. HeldJob(n) \in Job
      BY <2>1, HoldingWaits, HeldJobType
    <3>. QED BY <3>1 DEF TypeInv, TypeOK, StoreTypeOK
  <2>. QED BY <2>1, <2>2, <2>3
<1>. QED BY <1>1, HoldStep

\* A claim that succeeds takes nobody's: there was none.
LEMMA ClaimHoldInv ==
  ASSUME TypeInv, HoldInv, NEW m \in Msg, ClaimWait(m), claim[HeldJob(m)] = NoClaim
  PROVE  HoldInv'
<1>. DEFINE h == HeldJob(m)
            c == [owner |-> m, exp |-> now + ClaimTTL]
<1>1. /\ claim' = [claim EXCEPT ![h] = c] /\ heldAt' = [heldAt EXCEPT ![m] = now]
      /\ pc' = [pc EXCEPT ![m] = "post"] /\ UNCHANGED <<now, waits, round>>
  BY DEF ClaimWait, HeldJob, Goto, flowVars
<1>2. /\ h \in Job /\ claim \in [Job -> Claim] /\ heldAt \in [Msg -> Nat]
      /\ pc \in [Msg -> MsgLabels] /\ now \in Nat
  BY HeldJobType DEF ClaimWait, TypeInv, TypeOK, StoreTypeOK, MsgTypeOK
<1>3. claim[h].owner \notin Msg
  BY NamesAssumption DEF NoClaim
<1> SUFFICES ASSUME NEW n \in Msg, pc'[n] \in Holding, round'[Head(waits'[n]).job] <= 1
             PROVE  /\ claim'[Head(waits'[n]).job] = [owner |-> n, exp |-> heldAt'[n] + ClaimTTL]
                    /\ now' <= heldAt'[n] + HoldLimit
  BY DEF HoldInv, HeldJob
<1>4. Head(waits'[n]).job = HeldJob(n) /\ round[HeldJob(n)] <= 1
  BY <1>1 DEF HeldJob
<1>5. CASE n = m
  <2>. HIDE DEF h
  <2>1. claim'[h] = c /\ heldAt'[n] = now
    BY <1>1, <1>2, <1>5
  <2>2. now <= now + HoldLimit
    BY <1>2, TimingAssumption
  <2>3. HeldJob(n) = h
    BY <1>5 DEF h
  <2>. QED BY <1>1, <1>4, <1>5, <2>1, <2>2, <2>3
<1>6. CASE n # m
  <2>1. pc[n] \in Holding /\ heldAt'[n] = heldAt[n]
    BY <1>1, <1>2, <1>6
  <2>2. /\ claim[HeldJob(n)] = [owner |-> n, exp |-> heldAt[n] + ClaimTTL]
        /\ now <= heldAt[n] + HoldLimit
    BY <1>4, <2>1 DEF HoldInv
  <2>3. HeldJob(n) # h
    <3>1. claim[HeldJob(n)].owner = n
      BY <2>2
    <3>. QED BY <1>3, <3>1
  <2>4. HeldJob(n) \in Job
    BY <2>1, HoldingWaits, HeldJobType
  <2>. HIDE DEF h
  <2>5. claim'[HeldJob(n)] = claim[HeldJob(n)]
    BY <1>1, <1>2, <2>3, <2>4
  <2>. QED BY <1>1, <1>4, <2>1, <2>2, <2>5
<1>. QED BY <1>5, <1>6

\* The steps of the handlers, for HoldInv.
LEMMA HandleHoldInv ==
  ASSUME TypeInv, HoldInv, NEW m \in Msg,
         Submit(m) \/ SubmitManual(m) \/ Handle(m) \/ Abort(m)
  PROVE  HoldInv'
<1> USE DEF Goto
<1>0. /\ pc \in [Msg -> MsgLabels] /\ waits \in [Msg -> Seq(Entry)] /\ heldAt \in [Msg -> Nat]
  BY DEF TypeInv, TypeOK, MsgTypeOK
<1>1. CASE Submit(m) \/ SubmitManual(m) \/ SaveLatest(m) \/ Members(m) \/ Load(m) \/ Scanned(m)
  <2>1. pc'[m] \notin Holding /\ UNCHANGED <<now, round, claim>>
    BY <1>0, <1>1 DEF Submit, SubmitManual, SaveLatest, Members, Load, Scanned, Holding, storeVars, flowVars
  <2>2. \A n \in Msg \ {m} : pc'[n] = pc[n] /\ waits'[n] = waits[n] /\ heldAt'[n] = heldAt[n]
    BY <1>0, <1>1 DEF Submit, SubmitManual, SaveLatest, Members, Load, Scanned
  <2>. QED BY <2>1, <2>2, LeaveHoldInv
<1>2. CASE ClaimWait(m) /\ claim[HeldJob(m)] = NoClaim
  BY <1>2, ClaimHoldInv
<1>3. CASE ClaimWait(m) /\ claim[HeldJob(m)] # NoClaim
  <2>1. pc'[m] \notin Holding /\ UNCHANGED <<now, round, claim>>
    BY <1>3 DEF ClaimWait, HeldJob, Holding, flowVars
  <2>2. \A n \in Msg \ {m} : pc'[n] = pc[n] /\ waits'[n] = waits[n] /\ heldAt'[n] = heldAt[n]
    BY <1>0, <1>3 DEF ClaimWait, HeldJob
  <2>. QED BY <2>1, <2>2, LeaveHoldInv
<1>4. CASE PostDelivered(m) \/ PostFailed(m)
  <2>1. /\ UNCHANGED <<now, round, claim, waits, heldAt>> /\ pc[m] \in Holding
        /\ \A n \in Msg \ {m} : pc'[n] = pc[n]
    BY <1>0, <1>4 DEF PostDelivered, PostFailed, Holding, storeVars, flowVars
  <2>. QED BY <2>1, HoldStep
<1>5. CASE ReleaseClaim(m) \/ Finish(m) \/ Abort(m)
  <2>1. /\ pc'[m] \notin Holding /\ UNCHANGED <<now, round>>
        /\ claim' = claim \/ (pc[m] \in Holding /\ claim' = [claim EXCEPT ![HeldJob(m)] = NoClaim])
    BY <1>0, <1>5 DEF ReleaseClaim, Finish, Abort, EndCall, Holding, HeldJob, storeVars, flowVars
  <2>2. \A n \in Msg \ {m} : pc'[n] = pc[n] /\ waits'[n] = waits[n] /\ heldAt'[n] = heldAt[n]
    BY <1>0, <1>5 DEF ReleaseClaim, Finish, Abort, EndCall
  <2>. QED BY <2>1, <2>2, LeaveHoldInv
<1>6. CASE DeletePosted(m)
  <2>1. /\ pc'[m] \notin Holding /\ UNCHANGED <<now, round>>
        /\ claim' = claim \/ (pc[m] \in Holding /\ claim' = [claim EXCEPT ![HeldJob(m)] = NoClaim])
    BY <1>0, <1>6 DEF DeletePosted, DeleteChannelOTPWait, Holding, HeldJob, flowVars
  <2>2. \A n \in Msg \ {m} : pc'[n] = pc[n] /\ waits'[n] = waits[n] /\ heldAt'[n] = heldAt[n]
    BY <1>0, <1>6 DEF DeletePosted
  <2>. QED BY <2>1, <2>2, LeaveHoldInv
<1>. QED BY <1>1, <1>2, <1>3, <1>4, <1>5, <1>6 DEF Handle

\* The steps of the workflows, for HoldInv: only the deletion that precedes a
\* registration touches a claim, and then nobody holds the job.
LEMMA FlowHoldInv ==
  ASSUME TypeInv, FreshInv, HoldInv, NEW d \in Job,
         RequestOTP(d) \/ Await(d) \/ WaitTimeout(d) \/ AwaitError(d)
  PROVE  HoldInv'
<1>1. CASE ClearWait(d)
  <2>1. UNCHANGED <<now, round, pc, waits, heldAt>> /\ phase[d] \in Quiet
    BY <1>1 DEF ClearWait, msgVars, Quiet
  <2>2. ASSUME NEW m \in Msg, pc[m] \in Holding, round[HeldJob(m)] <= 1
        PROVE  claim'[HeldJob(m)] = claim[HeldJob(m)]
    <3>1. HeldJob(m) \in Job /\ InSnapshot(m, HeldJob(m))
      BY <2>2, HoldingWaits, HeldJobType, HeldInSnapshot
    <3>2. HeldJob(m) # d
      BY <2>1, <2>2, <3>1 DEF FreshInv
    <3>. QED BY <1>1, <3>1, <3>2 DEF ClearWait, DeleteChannelOTPWait, TypeInv, TypeOK, StoreTypeOK
  <2>. QED BY <2>1, <2>2, HoldStep
<1>2. CASE ~ ClearWait(d)
  <2>1. UNCHANGED <<now, claim, pc, waits, heldAt>>
    BY <1>2 DEF Await, RequestOTP, StampIssued, LookupLatest, RegisterWait, Park, WaitTimeout,
       AwaitError, storeVars, msgVars
  <2>2. round' = round \/ round' = [round EXCEPT ![d] = round[d] + 1]
    BY <1>2 DEF Await, RequestOTP, StampIssued, LookupLatest, RegisterWait, Park, WaitTimeout,
       AwaitError, TypeInv, TypeOK, FlowTypeOK
  <2>3. \A m \in Msg : pc[m] \in Holding =>
          HeldJob(m) \in Job /\ (round'[HeldJob(m)] <= 1 => round[HeldJob(m)] <= 1)
    <3>1. ASSUME NEW j \in Job, round'[j] <= 1 PROVE round[j] <= 1
      <4>1. round \in [Job -> Nat] /\ round[j] \in Nat
        BY DEF TypeInv, TypeOK, FlowTypeOK
      <4>2. round'[j] = round[j] \/ round'[j] = round[j] + 1
        BY <2>2, <4>1
      <4>. QED BY <3>1, <4>1, <4>2
    <3>. QED BY <3>1, HoldingWaits, HeldJobType
  <2>. QED BY <2>1, <2>3 DEF HoldInv, HeldJob
<1>. QED BY <1>1, <1>2

\* Time ends no claim that is held, since a hold is shorter than its claim.
LEMMA TickHoldInv ==
  ASSUME TypeInv, HoldInv, Tick
  PROVE  HoldInv'
<1> SUFFICES ASSUME NEW m \in Msg, pc'[m] \in Holding, round'[Head(waits'[m]).job] <= 1
             PROVE  /\ claim'[Head(waits'[m]).job] = [owner |-> m, exp |-> heldAt'[m] + ClaimTTL]
                    /\ now' <= heldAt'[m] + HoldLimit
  BY DEF HoldInv, HeldJob
<1>1. /\ UNCHANGED <<round, waits, pc, heldAt>> /\ now' = now + 1
      /\ now \in Nat /\ heldAt[m] \in Nat
      /\ pc[m] \in Holding => now < heldAt[m] + HoldLimit
  BY DEF Tick, msgVars, flowVars, TypeInv, TypeOK, MsgTypeOK
<1>2. pc[m] \in Holding /\ HeldJob(m) \in Job /\ Head(waits'[m]).job = HeldJob(m)
  BY <1>1, HoldingWaits, HeldJobType DEF HeldJob
<1>3. claim[HeldJob(m)] = [owner |-> m, exp |-> heldAt[m] + ClaimTTL]
  BY <1>1, <1>2 DEF HoldInv
<1>4. now' <= heldAt[m] + HoldLimit /\ ~ (heldAt[m] + ClaimTTL <= now')
  BY <1>1, <1>2, TimingAssumption
<1>5. claim'[HeldJob(m)] = claim[HeldJob(m)]
  <2>1. claim'[HeldJob(m)] = IF claim[HeldJob(m)].exp <= now' THEN NoClaim ELSE claim[HeldJob(m)]
    BY <1>2 DEF Tick
  <2>2. claim[HeldJob(m)].exp = heldAt[m] + ClaimTTL
    BY <1>3
  <2>. QED BY <1>4, <2>1, <2>2
<1>. QED BY <1>1, <1>2, <1>3, <1>4, <1>5

-----------------------------------------------------------------------------

\* What makes PostMutex inductive.
MutexInv == FreshInv /\ HoldInv

\* Every step keeps both parts.
LEMMA NextMutexInv == TypeInv /\ MutexInv /\ [Next]_vars => MutexInv'
<1> SUFFICES ASSUME TypeInv, MutexInv, [Next]_vars PROVE MutexInv'
  OBVIOUS
<1> USE DEF MutexInv
<1>1. CASE Tick
  <2>1. /\ UNCHANGED <<round, phase, waits>>
        /\ \A j \in Job : wait'[j] = wait[j] \/ wait'[j] = NoWait
    BY <1>1 DEF Tick, msgVars, flowVars
  <2>. QED BY <1>1, <2>1, FreshStep, TickHoldInv DEF InSnapshot
<1>2. CASE UNCHANGED vars
  <2>1. UNCHANGED <<now, round, phase, wait, claim, pc, waits, heldAt>>
    BY <1>2 DEF vars, storeVars, msgVars, flowVars
  <2>2. FreshInv'
    BY <2>1, FreshStep DEF InSnapshot
  <2>3. HoldInv'
    BY <2>1 DEF HoldInv, HeldJob
  <2>. QED BY <2>2, <2>3
<1>. QED BY <1>1, <1>2, HandleFreshInv, HandleHoldInv, FlowFreshInv, FlowHoldInv DEF Next

\* Lost answers, Redis errors and handlers cut off anywhere included, two
\* handlers never post at once to a job that has registered one wait: nobody
\* takes or outlives the claim of a handler that is still at work.
THEOREM PostMutexCorrect == Spec => []PostMutex
<1>1. Init => MutexInv
  <2>1. Init => FreshInv
    BY DEF Init, FreshInv, InSnapshot
  <2>2. Init => HoldInv
    BY DEF Init, HoldInv, Holding
  <2>. QED BY <2>1, <2>2 DEF MutexInv
<1>2. MutexInv => PostMutex
  BY HolderUnique DEF MutexInv, PostMutex, HeldJob
<1>3. TypeInv /\ [Next]_vars => TypeInv'
  BY NextTypeInv
<1>. QED BY <1>1, <1>2, <1>3, InitTypeInv, NextMutexInv, PTL DEF Spec

-----------------------------------------------------------------------------
(* The first code of a job is the right one.                               *)

\* What a message and a job are to each other, and when a code is due.
Right(m, j) == m \in Manual \/ Keys(to[m]) \cap Keys(goal[j]) # {}
Due(m, j)   == InWindow(recv[m], issued[j], timeout[j]) /\ Right(m, j)

\* A handler at rest has nothing in hand; one at work looks under the keys of
\* its own target.
CallInv ==
  \A m \in Msg :
    /\ pc[m] \in {"idle", "failed"} => ids[m] = {} /\ waits[m] = << >>
    /\ m \notin Manual => fallback[m] = << >>
    /\ m \notin Manual /\ pc[m] \in {"save", "members", "load"} =>
         \A i \in DOMAIN todo[m] : todo[m][i] \in Keys(to[m])

\* A stored code is one that was submitted for a target of that key.
CodeInv ==
  \A k \in Key : latest[k] # NoCode =>
    /\ latest[k].msg \in Msg /\ pc[latest[k].msg] # "idle"
    /\ latest[k].msg \in Manual \/ k \in Keys(to[latest[k].msg])

\* A job looks for codes under the keys of what it waits for.
LookupInv ==
  \A j \in Job : phase[j] = "latest" =>
    \A i \in DOMAIN lookup[j] : lookup[j][i] \in Keys(goal[j])

\* The first wait of a job is stored and listed as the execution has it.
WaitInv ==
  \A j \in Job : round[j] <= 1 =>
    /\ wait[j] # NoWait => wait[j].issued = issued[j] /\ wait[j].timeout = timeout[j]
    /\ \A k \in IndexKey : j \in index[k] =>
         phase[j] \notin Quiet /\ k \in IndexesOf(j, goal[j])

\* Who finds it listed brings a code for its target, and who has it in hand a
\* code that is due.
ScanInv ==
  \A m \in Msg, j \in Job : round[j] <= 1 =>
    /\ j \in ids[m] => phase[j] \notin Quiet /\ Right(m, j)
    /\ InSnapshot(m, j) => Due(m, j)

\* What a job that has made one request goes on with.
FirstCode(j) ==
  /\ otp[j].msg \in Msg /\ pc[otp[j].msg] # "idle"
  /\ InWindow(otp[j].recv, issued[j], timeout[j])
  /\ Right(otp[j].msg, j)

ResultInv == \A j \in Job : round[j] <= 1 /\ phase[j] = "resumed" => FirstCode(j)

\* While a job has made one request, nothing it is known by changes once it
\* has registered its wait.
Steady ==
  \A j \in Job : round'[j] <= 1 =>
    /\ round[j] <= 1
    /\ phase[j] \notin Quiet =>
         /\ phase'[j] \notin Quiet
         /\ goal'[j] = goal[j] /\ issued'[j] = issued[j] /\ timeout'[j] = timeout[j]

\* A code keeps its target, and its time of reception while it is handled.
Kept ==
  \A m \in Msg : pc[m] # "idle" =>
    /\ pc'[m] # "idle" /\ to'[m] = to[m]
    /\ pc[m] # "failed" => recv'[m] = recv[m]

\* Every step is steady.
LEMMA SteadyStep ==
  ASSUME TypeInv, FreshInv, [Next]_vars
  PROVE  Steady
<1> USE DEF Enter
<1>0. phase \in [Job -> Phases] /\ round \in [Job -> Nat]
      /\ goal \in [Job -> Target \cup {NoTarget}] /\ issued \in [Job -> Nat]
      /\ timeout \in [Job -> Timeouts \cup {0}]
  BY DEF TypeInv, TypeOK, FlowTypeOK
<1>1. CASE UNCHANGED flowVars
  BY <1>1 DEF flowVars, Steady
<1>2. ASSUME NEW d \in Job, RequestOTP(d)
      PROVE  Steady
  <2>1. /\ round' = [round EXCEPT ![d] = round[d] + 1] /\ issued' = issued
        /\ phase' = [phase EXCEPT ![d] = "sent"]
        /\ \A j \in Job \ {d} : goal'[j] = goal[j] /\ timeout'[j] = timeout[j]
    BY <1>0, <1>2 DEF RequestOTP
  <2>2. round'[d] <= 1 => round[d] <= 1 /\ phase[d] = "idle"
    <3>1. round'[d] = round[d] + 1 /\ round[d] \in Nat
      BY <1>0, <2>1
    <3>. QED BY <3>1 DEF FreshInv
  <2>3. \A j \in Job \ {d} : round'[j] = round[j] /\ phase'[j] = phase[j]
    BY <1>0, <2>1
  <2>. QED BY <2>1, <2>2, <2>3 DEF Steady, Quiet
<1>3. ASSUME NEW d \in Job,
             Await(d) \/ WaitTimeout(d) \/ AwaitError(d)
      PROVE  Steady
  <2>1. UNCHANGED <<round, goal, timeout>>
    BY <1>3 DEF Await, StampIssued, LookupLatest, ClearWait, RegisterWait, Park, WaitTimeout,
       AwaitError
  <2>2. issued' = issued \/ (phase[d] \in Quiet /\ \A j \in Job \ {d} : issued'[j] = issued[j])
    BY <1>0, <1>3 DEF Await, StampIssued, LookupLatest, ClearWait, RegisterWait, Park,
       WaitTimeout, AwaitError, Quiet
  <2>3. \A j \in Job : phase[j] \notin Quiet => phase'[j] \notin Quiet
    BY <1>0, <1>3 DEF Await, StampIssued, LookupLatest, ClearWait, RegisterWait, Park,
       WaitTimeout, AwaitError, Quiet
  <2>. QED BY <2>1, <2>2, <2>3 DEF Steady
<1>4. ASSUME NEW m \in Msg, PostDelivered(m)
      PROVE  Steady
  <2>1. /\ phase' = [phase EXCEPT ![HeldJob(m)] = "resumed"]
        /\ UNCHANGED <<round, goal, issued, timeout>>
    BY <1>4 DEF PostDelivered, HeldJob
  <2>. QED BY <1>0, <2>1 DEF Steady, Quiet
<1>5. ASSUME NEW m \in Msg,
             Submit(m) \/ SubmitManual(m) \/ Abort(m) \/ (Handle(m) /\ ~PostDelivered(m))
      PROVE  UNCHANGED flowVars
  BY <1>5 DEF Submit, SubmitManual, Abort, Handle, SaveLatest, Members, Load, Scanned, ClaimWait,
     PostFailed, ReleaseClaim, DeletePosted, Finish, EndCall
<1>6. Tick => UNCHANGED flowVars
  BY DEF Tick
<1>7. UNCHANGED vars => UNCHANGED flowVars
  BY DEF vars
<1>. QED BY <1>1, <1>2, <1>3, <1>4, <1>5, <1>6, <1>7 DEF Next

\* Every step keeps what a message is.
LEMMA KeptStep ==
  ASSUME TypeInv, [Next]_vars
  PROVE  Kept
<1> USE DEF Goto
<1>0. pc \in [Msg -> MsgLabels] /\ to \in [Msg -> Target \cup {NoTarget}] /\ recv \in [Msg -> Nat]
  BY DEF TypeInv, TypeOK, MsgTypeOK
<1>1. CASE UNCHANGED msgVars
  BY <1>1 DEF msgVars, Kept
<1>2. ASSUME NEW m \in Msg, Submit(m) \/ SubmitManual(m)
      PROVE  Kept
  BY <1>0, <1>2 DEF Submit, SubmitManual, Kept
<1>3. ASSUME NEW m \in Msg, Handle(m) \/ Abort(m)
      PROVE  Kept
  <2>1. UNCHANGED <<to, recv>>
    BY <1>3 DEF Abort, Handle, SaveLatest, Members, Load, Scanned, ClaimWait,
       PostDelivered, PostFailed, ReleaseClaim, DeletePosted, Finish, EndCall
  <2>2. pc' = pc \/ \E l \in MsgLabels \ {"idle"} : pc' = [pc EXCEPT ![m] = l]
    BY <1>0, <1>3 DEF Abort, Handle, SaveLatest, Members, Load, Scanned, ClaimWait,
       PostDelivered, PostFailed, ReleaseClaim, DeletePosted, Finish, EndCall, MsgLabels
  <2>. QED BY <1>0, <2>1, <2>2 DEF Kept
<1>4. Tick => UNCHANGED msgVars
  BY DEF Tick
<1>5. ASSUME NEW d \in Job, RequestOTP(d) \/ Await(d) \/ WaitTimeout(d) \/ AwaitError(d)
      PROVE  UNCHANGED msgVars
  BY <1>5 DEF RequestOTP, Await, StampIssued, LookupLatest, ClearWait, RegisterWait, Park,
     WaitTimeout, AwaitError
<1>6. UNCHANGED vars => UNCHANGED msgVars
  BY DEF vars
<1>. QED BY <1>1, <1>2, <1>3, <1>4, <1>5, <1>6 DEF Next

\* What a submission has to inspect comes from its target.
LEMMA TodoKeys ==
  ASSUME NEW t \in Target
  PROVE  \A i \in DOMAIN IndexKeys[t] : IndexKeys[t][i] \in Keys(t)
BY DEF Keys

\* The steps of the handlers, for CallInv.
LEMMA CallStep ==
  ASSUME TypeInv, CallInv, NEW m \in Msg,
         Submit(m) \/ SubmitManual(m) \/ Handle(m) \/ Abort(m)
  PROVE  CallInv'
<1> USE DEF Goto
<1>0. /\ pc \in [Msg -> MsgLabels] /\ to \in [Msg -> Target \cup {NoTarget}]
      /\ todo \in [Msg -> Seq(IndexKey)] /\ fallback \in [Msg -> Seq(IndexKey)]
      /\ ids \in [Msg -> SUBSET Job] /\ waits \in [Msg -> Seq(Entry)]
  BY DEF TypeInv, TypeOK, MsgTypeOK
<1>1. /\ \A n \in Msg \ {m} : /\ pc'[n] = pc[n] /\ to'[n] = to[n] /\ todo'[n] = todo[n]
                              /\ fallback'[n] = fallback[n] /\ ids'[n] = ids[n]
                              /\ waits'[n] = waits[n]
  <2>1. CASE Submit(m) \/ SubmitManual(m)
    BY <1>0, <2>1 DEF Submit, SubmitManual
  <2>2. CASE SaveLatest(m) \/ Members(m) \/ Load(m) \/ Scanned(m)
    BY <1>0, <2>2 DEF SaveLatest, Members, Load, Scanned
  <2>3. CASE ClaimWait(m) \/ PostDelivered(m) \/ PostFailed(m) \/ DeletePosted(m)
    BY <1>0, <2>3 DEF ClaimWait, PostDelivered, PostFailed, DeletePosted
  <2>4. CASE ReleaseClaim(m) \/ Finish(m) \/ Abort(m)
    BY <1>0, <2>4 DEF ReleaseClaim, Finish, Abort, EndCall
  <2>. QED BY <2>1, <2>2, <2>3, <2>4 DEF Handle
<1> DEFINE Mine ==
      /\ pc'[m] \in {"idle", "failed"} => ids'[m] = {} /\ waits'[m] = << >>
      /\ m \notin Manual => fallback'[m] = << >>
      /\ m \notin Manual /\ pc'[m] \in {"save", "members", "load"} =>
           \A i \in DOMAIN todo'[m] : todo'[m][i] \in Keys(to'[m])
<1>2. Mine
  <2>1. CASE Submit(m)
    <3>1. PICK t \in Target : /\ to' = [to EXCEPT ![m] = t]
                              /\ todo' = [todo EXCEPT ![m] = IndexKeys[t]]
      BY <2>1 DEF Submit
    <3>2. to'[m] = t /\ todo'[m] = IndexKeys[t] /\ pc'[m] = "save" /\ fallback' = fallback
      BY <1>0, <2>1, <3>1 DEF Submit
    <3>. QED BY <3>2, TodoKeys DEF CallInv
  <2>2. CASE SubmitManual(m)
    BY <1>0, <2>2 DEF SubmitManual
  <2>3. CASE SaveLatest(m)
    <3>1. /\ m \notin Manual => \A i \in DOMAIN todo[m] : todo[m][i] \in Keys(to[m])
          /\ todo[m] # << >> /\ todo[m] \in Seq(IndexKey) /\ pc[m] = "save" /\ to[m] \in Target
      BY <1>0, <2>3 DEF SaveLatest, CallInv, TypeInv, MsgShape
    <3>2. /\ todo'[m] = Tail(todo[m]) \/ todo'[m] = IndexKeys[to[m]]
          /\ pc'[m] \in {"save", "members"} /\ to' = to /\ fallback' = fallback
      BY <1>0, <2>3, <3>1 DEF SaveLatest
    <3>3. m \notin Manual => \A i \in DOMAIN Tail(todo[m]) : Tail(todo[m])[i] \in Keys(to[m])
      BY <3>1, TailEntries
    <3>. QED BY <3>1, <3>2, <3>3, TodoKeys DEF CallInv
  <2>4. CASE Members(m) \/ Load(m)
    BY <1>0, <2>4 DEF Members, Load, CallInv
  <2>5. CASE Scanned(m)
    <3>1. /\ m \notin Manual => fallback[m] = << >>
                                /\ \A i \in DOMAIN todo[m] : todo[m][i] \in Keys(to[m])
          /\ todo[m] # << >> /\ todo[m] \in Seq(IndexKey)
      BY <1>0, <2>5 DEF Scanned, CallInv, TypeInv, MsgShape
    <3>2. /\ m \notin Manual => todo'[m] = Tail(todo[m]) /\ fallback'[m] = << >>
          /\ pc'[m] \in {"members", "claim"} /\ to' = to
      BY <1>0, <2>5, <3>1 DEF Scanned
    <3>3. m \notin Manual => \A i \in DOMAIN Tail(todo[m]) : Tail(todo[m])[i] \in Keys(to[m])
      BY <3>1, TailEntries
    <3>. QED BY <3>1, <3>2, <3>3
  <2>6. CASE ClaimWait(m) \/ PostDelivered(m) \/ PostFailed(m) \/ DeletePosted(m)
    <3>1. /\ pc'[m] \in {"claim", "post", "release", "delete"}
          /\ UNCHANGED <<to, todo, fallback>>
      BY <1>0, <2>6 DEF ClaimWait, PostDelivered, PostFailed, DeletePosted
    <3>. QED BY <3>1 DEF CallInv
  <2>7. CASE ReleaseClaim(m) \/ Finish(m) \/ Abort(m)
    <3>1. /\ pc'[m] \in {"failed", "done"}
          /\ waits'[m] = << >> /\ ids'[m] = {} /\ fallback'[m] = << >>
      BY <1>0, <2>7 DEF ReleaseClaim, Finish, Abort, EndCall
    <3>. QED BY <3>1
  <2>. QED BY <2>1, <2>2, <2>3, <2>4, <2>5, <2>6, <2>7 DEF Handle
<1>. QED BY <1>1, <1>2 DEF CallInv

\* Every step, for CodeInv: only SaveLatest stores a code, under a key of its
\* target.
LEMMA CodeStep ==
  ASSUME TypeInv, CallInv, CodeInv, Kept, [Next]_vars
  PROVE  CodeInv'
<1>1. ASSUME \A k \in Key : latest'[k] = latest[k] \/ latest'[k] = NoCode
      PROVE  CodeInv'
  <2> SUFFICES ASSUME NEW k \in Key, latest'[k] # NoCode
               PROVE  /\ latest'[k].msg \in Msg /\ pc'[latest'[k].msg] # "idle"
                      /\ latest'[k].msg \in Manual \/ k \in Keys(to'[latest'[k].msg])
    BY DEF CodeInv
  <2>1. latest'[k] = latest[k] /\ latest[k] # NoCode
    BY <1>1
  <2>2. /\ latest[k].msg \in Msg /\ pc[latest[k].msg] # "idle"
        /\ latest[k].msg \in Manual \/ k \in Keys(to[latest[k].msg])
    BY <2>1 DEF CodeInv
  <2>. QED BY <2>1, <2>2 DEF Kept
<1>2. ASSUME NEW m \in Msg, SaveLatest(m)
      PROVE  CodeInv'
  <2>1. /\ latest' = [latest EXCEPT ![Head(todo[m])] =
                        [msg |-> m, recv |-> recv[m], exp |-> now + LatestTTL]]
        /\ pc[m] = "save" /\ to' = to /\ latest \in [Key -> Code]
        /\ todo[m] # << >> /\ todo[m] \in Seq(IndexKey)
    BY <1>2 DEF SaveLatest, TypeInv, TypeOK, StoreTypeOK, MsgTypeOK, MsgShape
  <2>2. m \in Manual \/ Head(todo[m]) \in Keys(to[m])
    <3>1. 1 \in DOMAIN todo[m] /\ Head(todo[m]) = todo[m][1]
      BY <2>1
    <3>. QED BY <2>1, <3>1 DEF CallInv
  <2> SUFFICES ASSUME NEW k \in Key, latest'[k] # NoCode
               PROVE  /\ latest'[k].msg \in Msg /\ pc'[latest'[k].msg] # "idle"
                      /\ latest'[k].msg \in Manual \/ k \in Keys(to'[latest'[k].msg])
    BY DEF CodeInv
  <2>3. CASE k = Head(todo[m])
    <3>1. latest'[k].msg = m
      BY <2>1, <2>3
    <3>. QED BY <2>1, <2>2, <2>3, <3>1 DEF Kept
  <2>4. CASE k # Head(todo[m])
    <3>1. latest'[k] = latest[k]
      BY <2>1, <2>4
    <3>2. /\ latest[k].msg \in Msg /\ pc[latest[k].msg] # "idle"
          /\ latest[k].msg \in Manual \/ k \in Keys(to[latest[k].msg])
      BY <3>1 DEF CodeInv
    <3>. QED BY <3>1, <3>2 DEF Kept
  <2>. QED BY <2>3, <2>4
<1>3. CASE UNCHANGED latest
  BY <1>1, <1>3
<1>4. CASE Tick
  BY <1>1, <1>4 DEF Tick
<1>5. ASSUME NEW m \in Msg,
             Submit(m) \/ SubmitManual(m) \/ Abort(m) \/ (Handle(m) /\ ~SaveLatest(m))
      PROVE  UNCHANGED latest
  BY <1>5 DEF Submit, SubmitManual, Abort, Handle, Members, Load, Scanned, ClaimWait,
     PostDelivered, PostFailed, ReleaseClaim, DeletePosted, Finish, EndCall, storeVars
<1>6. ASSUME NEW d \in Job, RequestOTP(d) \/ Await(d) \/ WaitTimeout(d) \/ AwaitError(d)
      PROVE  UNCHANGED latest
  BY <1>6 DEF RequestOTP, Await, StampIssued, LookupLatest, ClearWait, RegisterWait, Park,
     WaitTimeout, AwaitError, storeVars
<1>7. UNCHANGED vars => UNCHANGED latest
  BY DEF vars, storeVars
<1>. QED BY <1>2, <1>3, <1>4, <1>5, <1>6, <1>7 DEF Next

\* The steps of the workflows, for LookupInv.
LEMMA LookupStep ==
  ASSUME TypeInv, LookupInv, NEW d \in Job,
         RequestOTP(d) \/ Await(d) \/ WaitTimeout(d) \/ AwaitError(d)
  PROVE  LookupInv'
<1> USE DEF Enter
<1>0. /\ phase \in [Job -> Phases] /\ goal \in [Job -> Target \cup {NoTarget}]
      /\ lookup \in [Job -> Seq(Key)]
      /\ phase[d] # "idle" => goal[d] \in Target
      /\ phase[d] = "latest" => lookup[d] # << >>
  BY DEF TypeInv, TypeOK, FlowTypeOK, FlowShape
<1>1. \A j \in Job \ {d} : phase'[j] = phase[j] /\ goal'[j] = goal[j] /\ lookup'[j] = lookup[j]
  BY <1>0 DEF RequestOTP, Await, StampIssued, LookupLatest, ClearWait, RegisterWait, Park,
     WaitTimeout, AwaitError
<1>2. CASE StampIssued(d)
  <2>1. lookup'[d] = IndexKeys[goal[d]] /\ goal' = goal /\ goal[d] \in Target
    BY <1>0, <1>2 DEF StampIssued
  <2>2. \A i \in DOMAIN lookup'[d] : lookup'[d][i] \in Keys(goal'[d])
    BY <2>1 DEF Keys
  <2>. QED BY <1>1, <2>2 DEF LookupInv
<1>3. CASE LookupLatest(d)
  <2>1. phase[d] = "latest" /\ goal' = goal /\ (phase'[d] = "latest" => lookup'[d] = Tail(lookup[d]))
    BY <1>0, <1>3 DEF LookupLatest
  <2>2. \A i \in DOMAIN Tail(lookup[d]) : Tail(lookup[d])[i] \in Keys(goal[d])
    BY <1>0, <2>1, TailEntries DEF LookupInv
  <2>. QED BY <1>1, <2>1, <2>2 DEF LookupInv
<1>4. CASE ~StampIssued(d) /\ ~LookupLatest(d)
  <2>1. phase'[d] # "latest"
    BY <1>0, <1>4 DEF RequestOTP, Await, ClearWait, RegisterWait, Park, WaitTimeout, AwaitError
  <2>. QED BY <1>1, <2>1 DEF LookupInv
<1>. QED BY <1>2, <1>3, <1>4

\* A step that stores and lists no wait.
LEMMA WaitLess ==
  ASSUME FreshInv, WaitInv, Steady,
         \A j \in Job : wait'[j] = wait[j] \/ wait'[j] = NoWait,
         \A k \in IndexKey : index'[k] \subseteq index[k]
  PROVE  WaitInv'
<1> SUFFICES ASSUME NEW j \in Job, round'[j] <= 1
             PROVE  /\ wait'[j] # NoWait =>
                         wait'[j].issued = issued'[j] /\ wait'[j].timeout = timeout'[j]
                    /\ \A k \in IndexKey : j \in index'[k] =>
                         phase'[j] \notin Quiet /\ k \in IndexesOf(j, goal'[j])
  BY DEF WaitInv, IndexesOf, Keys
<1>1. round[j] <= 1
  BY DEF Steady
<1>2. ASSUME wait'[j] # NoWait
      PROVE  wait'[j].issued = issued'[j] /\ wait'[j].timeout = timeout'[j]
  <2>1. wait'[j] = wait[j] /\ wait[j] # NoWait
    BY <1>2
  <2>2. phase[j] \notin Quiet
    BY <1>1, <2>1 DEF FreshInv
  <2>. QED BY <1>1, <2>1, <2>2 DEF WaitInv, Steady
<1>3. ASSUME NEW k \in IndexKey, j \in index'[k]
      PROVE  phase'[j] \notin Quiet /\ k \in IndexesOf(j, goal'[j])
  <2>1. phase[j] \notin Quiet /\ k \in IndexesOf(j, goal[j])
    BY <1>1, <1>3 DEF WaitInv
  <2>2. phase'[j] \notin Quiet /\ goal'[j] = goal[j]
    BY <2>1 DEF Steady
  <2>. QED BY <2>1, <2>2
<1>. QED BY <1>2, <1>3

\* A deletion, whether it works or fails, stores and lists nothing.
LEMMA DeleteLess ==
  ASSUME TypeInv, NEW j, NEW t,
         DeleteChannelOTPWait(j, t) \/ UNCHANGED <<wait, claim, index>>
  PROVE  /\ \A i \in Job : wait'[i] = wait[i] \/ wait'[i] = NoWait
         /\ \A k \in IndexKey : index'[k] \subseteq index[k]
BY DEF DeleteChannelOTPWait, TypeInv, TypeOK, StoreTypeOK

\* Every step, for WaitInv: RegisterWait stores what the execution has.
LEMMA WaitStep ==
  ASSUME TypeInv, FreshInv, WaitInv, Steady, [Next]_vars
  PROVE  WaitInv'
<1>1. CASE UNCHANGED <<wait, index>>
  BY <1>1, WaitLess
<1>2. CASE Tick
  BY <1>2, WaitLess DEF Tick
<1>3. ASSUME NEW m \in Msg, DeletePosted(m)
      PROVE  WaitInv'
  BY <1>3, DeleteLess, WaitLess DEF DeletePosted
<1>4. ASSUME NEW d \in Job, ClearWait(d)
      PROVE  WaitInv'
  BY <1>4, DeleteLess, WaitLess DEF ClearWait
<1>5. ASSUME NEW d \in Job, RegisterWait(d)
      PROVE  WaitInv'
  <2> DEFINE w == [target |-> goal[d], issued |-> issued[d], timeout |-> timeout[d],
                   exp |-> now + timeout[d] + Grace]
  <2>1. /\ wait' = [wait EXCEPT ![d] = w]
        /\ index' = [k \in IndexKey |-> IF k \in IndexesOf(d, goal[d])
                                          THEN index[k] \cup {d} ELSE index[k]]
        /\ phase[d] = "register" /\ phase' = [phase EXCEPT ![d] = "parking"]
        /\ UNCHANGED <<round, goal, issued, timeout>>
        /\ wait \in [Job -> Wait \cup {NoWait}] /\ phase \in [Job -> Phases]
    BY <1>5 DEF RegisterWait, Enter, TypeInv, TypeOK, StoreTypeOK, FlowTypeOK
  <2> SUFFICES ASSUME NEW j \in Job, round[j] <= 1
               PROVE  /\ wait'[j] # NoWait =>
                           wait'[j].issued = issued[j] /\ wait'[j].timeout = timeout[j]
                      /\ \A k \in IndexKey : j \in index'[k] =>
                           phase'[j] \notin Quiet /\ k \in IndexesOf(j, goal[j])
    BY <2>1 DEF WaitInv, IndexesOf, Keys
  <2>2. CASE j = d
    <3>1. wait'[j] = w /\ phase'[j] = "parking"
      BY <2>1, <2>2
    <3>2. ASSUME NEW k \in IndexKey, j \in index'[k]
          PROVE  k \in IndexesOf(j, goal[j])
      <4>1. CASE k \in IndexesOf(d, goal[d])
        BY <2>2, <4>1
      <4>2. CASE k \notin IndexesOf(d, goal[d])
        <5>1. j \in index[k]
          BY <2>1, <3>2, <4>2
        <5>. QED BY <2>1, <2>2, <5>1 DEF WaitInv, Quiet
      <4>. QED BY <4>1, <4>2
    <3>. QED BY <2>2, <3>1, <3>2 DEF Quiet
  <2>3. CASE j # d
    <3>1. wait'[j] = wait[j] /\ phase'[j] = phase[j]
      BY <2>1, <2>3
    <3>2. \A k \in IndexKey : j \in index'[k] => j \in index[k]
      BY <2>1, <2>3
    <3>. QED BY <3>1, <3>2 DEF WaitInv
  <2>. QED BY <2>2, <2>3
<1>6. ASSUME NEW m \in Msg,
             Submit(m) \/ SubmitManual(m) \/ Abort(m) \/ (Handle(m) /\ ~DeletePosted(m))
      PROVE  UNCHANGED <<wait, index>>
  BY <1>6 DEF Submit, SubmitManual, Abort, Handle, SaveLatest, Members, Load, Scanned, ClaimWait,
     PostDelivered, PostFailed, ReleaseClaim, Finish, EndCall, storeVars
<1>7. ASSUME NEW d \in Job,
             \/ RequestOTP(d) \/ WaitTimeout(d) \/ AwaitError(d)
             \/ (Await(d) /\ ~ClearWait(d) /\ ~RegisterWait(d))
      PROVE  UNCHANGED <<wait, index>>
  BY <1>7 DEF RequestOTP, Await, StampIssued, LookupLatest, Park, WaitTimeout, AwaitError, storeVars
<1>8. UNCHANGED vars => UNCHANGED <<wait, index>>
  BY DEF vars, storeVars
<1>. QED BY <1>1, <1>2, <1>3, <1>4, <1>5, <1>6, <1>7, <1>8 DEF Next

\* A handler that is at work keeps what it brings to a job that has registered.
LEMMA StillRight ==
  ASSUME Steady, Kept, NEW m \in Msg, NEW j \in Job, pc[m] # "idle", Right(m, j),
         round'[j] <= 1, phase[j] \notin Quiet
  PROVE  Right(m, j)'
<1>1. to'[m] = to[m] /\ goal'[j] = goal[j]
  BY DEF Steady, Kept
<1>. QED BY <1>1 DEF Right, Keys

\* A step in which no handler learns of a job.
LEMMA ScanLess ==
  ASSUME FreshInv, CallInv, ScanInv, Steady, Kept,
         \A m \in Msg, j \in Job : j \in ids'[m] => j \in ids[m],
         \A m \in Msg, j \in Job : InSnapshot(m, j)' => InSnapshot(m, j)
  PROVE  ScanInv'
<1> SUFFICES ASSUME NEW m \in Msg, NEW j \in Job, round'[j] <= 1
             PROVE  /\ j \in ids'[m] => phase'[j] \notin Quiet /\ Right(m, j)'
                    /\ InSnapshot(m, j)' => Due(m, j)'
  BY DEF ScanInv
<1>1. round[j] <= 1
  BY DEF Steady
<1>2. ASSUME j \in ids'[m]
      PROVE  phase'[j] \notin Quiet /\ Right(m, j)'
  <2>1. j \in ids[m]
    BY <1>2
  <2>2. phase[j] \notin Quiet /\ Right(m, j) /\ pc[m] # "idle"
    BY <1>1, <2>1 DEF ScanInv, CallInv
  <2>. QED BY <2>2, StillRight DEF Steady
<1>3. ASSUME InSnapshot(m, j)'
      PROVE  Due(m, j)'
  <2>1. InSnapshot(m, j)
    BY <1>3
  <2>2. phase[j] \notin Quiet /\ Due(m, j)
    BY <1>1, <2>1 DEF ScanInv, FreshInv
  <2>3. waits[m] # << >>
    BY <2>1 DEF InSnapshot
  <2>4. pc[m] \notin {"idle", "failed"}
    BY <2>3 DEF CallInv
  <2>5. recv'[m] = recv[m] /\ issued'[j] = issued[j] /\ timeout'[j] = timeout[j]
    BY <2>2, <2>4 DEF Kept, Steady
  <2>. QED BY <2>2, <2>4, <2>5, StillRight DEF Due, InWindow
<1>. QED BY <1>2, <1>3

\* What a message and a job are to each other depends on these alone.
LEMMA SameFlow ==
  ASSUME UNCHANGED <<to, recv, flowVars>>
  PROVE  /\ round' = round /\ phase' = phase
         /\ \A m, j : (Right(m, j)' <=> Right(m, j)) /\ (Due(m, j)' <=> Due(m, j))
<1>1. round' = round /\ phase' = phase /\ goal' = goal /\ issued' = issued /\ timeout' = timeout
  BY DEF flowVars
<1>2. ASSUME NEW m, NEW j
      PROVE  Right(m, j)' <=> Right(m, j)
  BY <1>1 DEF Right, Keys
<1>. QED BY <1>1, <1>2 DEF Due, InWindow

\* Who is found under a key of the target waits for a code of that key.
LEMMA MembersScan ==
  ASSUME TypeInv, CallInv, WaitInv, ScanInv, NEW m \in Msg, Members(m)
  PROVE  ScanInv'
<1> DEFINE k == Head(todo[m])
<1>1. /\ ids' = [ids EXCEPT ![m] = index[k] \ seen[m]] /\ ids \in [Msg -> SUBSET Job]
      /\ todo[m] # << >> /\ todo[m] \in Seq(IndexKey) /\ pc[m] = "members"
      /\ UNCHANGED <<to, recv, waits, flowVars>>
  BY DEF Members, TypeInv, TypeOK, MsgTypeOK, MsgShape
<1>2. k \in IndexKey /\ 1 \in DOMAIN todo[m] /\ k = todo[m][1]
  BY <1>1
<1>3. m \in Manual \/ k \in Keys(to[m])
  BY <1>1, <1>2 DEF CallInv
<1> HIDE DEF k
<1>4. ASSUME NEW j \in Job, round[j] <= 1, j \in index[k]
      PROVE  phase[j] \notin Quiet /\ Right(m, j)
  <2>1. phase[j] \notin Quiet /\ k \in IndexesOf(j, goal[j])
    BY <1>2, <1>4 DEF WaitInv
  <2>2. CASE m \in Manual
    BY <2>1, <2>2 DEF Right
  <2>3. CASE m \notin Manual
    <3>1. k \in Keys(to[m]) /\ to[m] \in Target
      BY <1>1, <1>3, <2>3 DEF TypeInv, MsgShape
    <3>2. k \in Key
      BY <3>1, KeysAreIndexKeys DEF Keys
    <3>3. AccountOf[j] \in Account
      BY JobAssumption
    <3>4. k \in Keys(goal[j])
      BY <2>1, <3>2, <3>3, NamesAssumption DEF IndexesOf
    <3>. QED BY <2>1, <3>1, <3>4 DEF Right
  <2>. QED BY <2>2, <2>3
<1> SUFFICES ASSUME NEW n \in Msg, NEW j \in Job, round[j] <= 1
             PROVE  /\ j \in ids'[n] => phase[j] \notin Quiet /\ Right(n, j)
                    /\ InSnapshot(n, j) => Due(n, j)
  BY <1>1, SameFlow DEF ScanInv, InSnapshot
<1>5. j \in ids'[n] => j \in ids[n] \/ (n = m /\ j \in index[k])
  BY <1>1
<1>. QED BY <1>4, <1>5 DEF ScanInv

\* A wait that is kept accepts the code.
LEMMA LoadScan ==
  ASSUME TypeInv, WaitInv, ScanInv, NEW m \in Msg, Load(m)
  PROVE  ScanInv'
<1>1. /\ UNCHANGED <<to, recv, wait, flowVars>> /\ ids \in [Msg -> SUBSET Job]
      /\ \E d \in ids[m] : ids' = [ids EXCEPT ![m] = ids[m] \ {d}]
  BY DEF Load, TypeInv, TypeOK, MsgTypeOK, storeVars
<1> SUFFICES ASSUME NEW n \in Msg, NEW j \in Job, round[j] <= 1
             PROVE  /\ j \in ids'[n] => phase[j] \notin Quiet /\ Right(n, j)
                    /\ InSnapshot(n, j)' => Due(n, j)
  BY <1>1, SameFlow DEF ScanInv
<1>2. j \in ids'[n] => j \in ids[n]
  BY <1>1
<1>3. ASSUME n = m, j \in ids[m], Accepts(j, recv[m])
      PROVE  Due(n, j)
  <2>1. Right(n, j)
    BY <1>3 DEF ScanInv
  <2>2. /\ InWindow(recv[m], wait[j].issued, wait[j].timeout)
        /\ wait[j].issued = issued[j] /\ wait[j].timeout = timeout[j]
    BY <1>3 DEF Accepts, WaitInv
  <2>. QED BY <1>3, <2>1, <2>2 DEF Due
<1>4. InSnapshot(n, j)' => InSnapshot(n, j) \/ (n = m /\ j \in ids[m] /\ Accepts(j, recv[m]))
  BY LoadSnapshot
<1>. QED BY <1>2, <1>3, <1>4 DEF ScanInv

\* Every step, for ScanInv.
LEMMA ScanStep ==
  ASSUME TypeInv, FreshInv, CallInv, WaitInv, ScanInv, Steady, Kept, [Next]_vars
  PROVE  ScanInv'
<1>0. ids \in [Msg -> SUBSET Job]
  BY DEF TypeInv, TypeOK, MsgTypeOK
<1>1. CASE UNCHANGED <<ids, waits>>
  BY <1>1, ScanLess DEF InSnapshot
<1>2. ASSUME NEW m \in Msg, Members(m)
      PROVE  ScanInv'
  BY <1>2, MembersScan
<1>3. ASSUME NEW m \in Msg, Load(m)
      PROVE  ScanInv'
  BY <1>3, LoadScan
<1>4. ASSUME NEW m \in Msg, ClaimWait(m) \/ DeletePosted(m)
      PROVE  ScanInv'
  <2>1. ids' = ids
    BY <1>4 DEF ClaimWait, DeletePosted
  <2>2. waits' = waits \/ (waits[m] # << >> /\ waits' = [waits EXCEPT ![m] = Tail(waits[m])])
    BY <1>4, HoldingWaits DEF ClaimWait, DeletePosted, Holding, TypeInv, TypeOK, MsgTypeOK
  <2>3. ASSUME NEW n \in Msg, NEW j \in Job, InSnapshot(n, j)'
        PROVE  InSnapshot(n, j)
    BY <2>2, <2>3, TailSnapshot DEF InSnapshot
  <2>. QED BY <2>1, <2>3, ScanLess
<1>5. ASSUME NEW m \in Msg, ReleaseClaim(m) \/ Finish(m) \/ Abort(m)
      PROVE  ScanInv'
  <2>1. ids' = [ids EXCEPT ![m] = {}] /\ waits' = [waits EXCEPT ![m] = << >>]
    BY <1>5 DEF ReleaseClaim, Finish, Abort, EndCall
  <2>2. \A n \in Msg, j \in Job : j \in ids'[n] => j \in ids[n]
    BY <1>0, <2>1
  <2>. QED BY <2>1, <2>2, EndSnapshot, ScanLess
<1>6. ASSUME NEW m \in Msg,
             \/ Submit(m) \/ SubmitManual(m) \/ SaveLatest(m) \/ Scanned(m)
             \/ PostDelivered(m) \/ PostFailed(m)
      PROVE  UNCHANGED <<ids, waits>>
  BY <1>6 DEF Submit, SubmitManual, SaveLatest, Scanned, PostDelivered, PostFailed
<1>7. ASSUME NEW d \in Job, RequestOTP(d) \/ Await(d) \/ WaitTimeout(d) \/ AwaitError(d)
      PROVE  UNCHANGED <<ids, waits>>
  BY <1>7 DEF RequestOTP, Await, StampIssued, LookupLatest, ClearWait, RegisterWait, Park,
     WaitTimeout, AwaitError, msgVars
<1>8. Tick \/ UNCHANGED vars => UNCHANGED <<ids, waits>>
  BY DEF Tick, vars, msgVars
<1>. QED BY <1>1, <1>2, <1>3, <1>4, <1>5, <1>6, <1>7, <1>8 DEF Next, Handle

\* What FirstCode says after a step, the code being m.
LEMMA FirstCodeNext ==
  ASSUME NEW j \in Job, NEW m \in Msg, otp'[j].msg = m, pc'[m] # "idle", Right(m, j)',
         InWindow(otp'[j].recv, issued'[j], timeout'[j])
  PROVE  FirstCode(j)'
BY DEF FirstCode, Right, Keys, InWindow

\* A code that a job went on with stays the right one.
LEMMA ResultKept ==
  ASSUME ResultInv, Steady, Kept, NEW j \in Job, round'[j] <= 1, phase[j] = "resumed",
         otp'[j] = otp[j]
  PROVE  FirstCode(j)'
<1>1. round[j] <= 1 /\ phase[j] \notin Quiet
  BY DEF Steady, Quiet
<1>2. FirstCode(j)
  BY <1>1 DEF ResultInv
<1>3. issued'[j] = issued[j] /\ timeout'[j] = timeout[j]
  BY <1>1 DEF Steady
<1>4. PICK m \in Msg : m = otp[j].msg
  BY <1>2 DEF FirstCode
<1>5. pc[m] # "idle" /\ Right(m, j)
  BY <1>2, <1>4 DEF FirstCode
<1>6. pc'[m] # "idle" /\ Right(m, j)'
  BY <1>1, <1>5, StillRight DEF Kept
<1>7. otp'[j].msg = m /\ InWindow(otp'[j].recv, issued'[j], timeout'[j])
  BY <1>2, <1>3, <1>4 DEF FirstCode
<1>. QED BY <1>6, <1>7, FirstCodeNext

\* A post hands the job a code that is due.
LEMMA PostResult ==
  ASSUME TypeInv, ScanInv, ResultInv, Steady, Kept, NEW m \in Msg, PostDelivered(m)
  PROVE  ResultInv'
<1> DEFINE h == HeldJob(m)
<1>1. /\ pc[m] = "post" /\ pc'[m] # "idle" /\ h \in Job /\ waits[m] # << >>
      /\ phase[h] = "waiting" /\ phase' = [phase EXCEPT ![h] = "resumed"]
      /\ otp' = [otp EXCEPT ![h] = [msg |-> m, recv |-> recv[m]]]
  BY HoldingWaits, HeldJobType DEF PostDelivered, HeldJob, Holding, Kept
<1>2. /\ phase \in [Job -> Phases]
      /\ otp \in [Job -> [msg : Msg \cup {NoOne}, recv : Nat]]
  BY DEF TypeInv, TypeOK, FlowTypeOK
<1>3. InSnapshot(m, h)
  BY <1>1, HeldInSnapshot
<1> HIDE DEF h
<1> SUFFICES ASSUME NEW j \in Job, round'[j] <= 1, phase'[j] = "resumed"
             PROVE  FirstCode(j)'
  BY DEF ResultInv
<1>4. round[j] <= 1
  BY DEF Steady
<1>5. CASE j = h
  <2>1. Due(m, j) /\ phase[j] \notin Quiet
    BY <1>1, <1>3, <1>4, <1>5 DEF ScanInv, Quiet
  <2>2. otp'[j] = [msg |-> m, recv |-> recv[m]]
    BY <1>1, <1>2, <1>5
  <2>3. otp'[j].msg = m /\ otp'[j].recv = recv[m]
    BY <2>2
  <2>4. Right(m, j)'
    BY <1>1, <2>1, StillRight DEF Due
  <2>5. InWindow(otp'[j].recv, issued'[j], timeout'[j])
    BY <2>1, <2>3 DEF Due, Steady
  <2>. QED BY <1>1, <2>3, <2>4, <2>5, FirstCodeNext
<1>6. CASE j # h
  <2>1. phase[j] = "resumed" /\ otp'[j] = otp[j]
    BY <1>1, <1>2, <1>6
  <2>. QED BY <2>1, ResultKept
<1>. QED BY <1>5, <1>6

\* A stored code that a job finds is one for its target, in its window.
LEMMA LookupResult ==
  ASSUME TypeInv, CodeInv, LookupInv, ResultInv, Steady, Kept, NEW d \in Job, LookupLatest(d)
  PROVE  ResultInv'
<1> DEFINE k == Head(lookup[d])
           code == latest[k]
<1>1. /\ phase \in [Job -> Phases] /\ latest \in [Key -> Code]
      /\ otp \in [Job -> [msg : Msg \cup {NoOne}, recv : Nat]]
      /\ phase[d] = "latest" /\ lookup[d] \in Seq(Key) /\ lookup[d] # << >>
  BY DEF LookupLatest, TypeInv, TypeOK, StoreTypeOK, FlowTypeOK, FlowShape
<1>2. k \in Key /\ 1 \in DOMAIN lookup[d] /\ k = lookup[d][1]
  BY <1>1
<1>3. k \in Keys(goal[d])
  BY <1>1, <1>2 DEF LookupInv
<1>4. /\ UNCHANGED <<goal, issued, timeout, to, pc>>
      /\ \A j \in Job \ {d} : phase'[j] = phase[j] /\ otp'[j] = otp[j]
  BY <1>1 DEF LookupLatest, Enter, msgVars
<1>5. /\ phase'[d] = "resumed" =>
           /\ code # NoCode /\ InWindow(code.recv, issued[d], timeout[d])
           /\ otp' = [otp EXCEPT ![d] = [msg |-> code.msg, recv |-> code.recv]]
  BY <1>1 DEF LookupLatest, Enter
<1> HIDE DEF k
<1> SUFFICES ASSUME NEW j \in Job, round'[j] <= 1, phase'[j] = "resumed"
             PROVE  FirstCode(j)'
  BY DEF ResultInv
<1>6. CASE j = d
  <2>1. PICK m \in Msg : m = code.msg
    BY <1>2, <1>5, <1>6 DEF CodeInv
  <2>2. pc[m] # "idle" /\ (m \in Manual \/ k \in Keys(to[m]))
    BY <1>2, <1>5, <1>6, <2>1 DEF CodeInv
  <2>3. Right(m, j)'
    BY <1>3, <1>4, <1>6, <2>2 DEF Right, Keys
  <2>4. otp'[j] = [msg |-> m, recv |-> code.recv]
    BY <1>1, <1>5, <1>6, <2>1
  <2>5. otp'[j].msg = m /\ otp'[j].recv = code.recv
    BY <2>4
  <2>6. InWindow(otp'[j].recv, issued'[j], timeout'[j])
    BY <1>4, <1>5, <1>6, <2>5
  <2>. QED BY <1>4, <2>2, <2>3, <2>5, <2>6, FirstCodeNext
<1>7. CASE j # d
  BY <1>4, <1>7, ResultKept
<1>. QED BY <1>6, <1>7

\* Every step, for ResultInv.
LEMMA ResultStep ==
  ASSUME TypeInv, CodeInv, LookupInv, ScanInv, ResultInv, Steady, Kept, [Next]_vars
  PROVE  ResultInv'
<1> USE DEF Enter
<1>0. phase \in [Job -> Phases] /\ otp \in [Job -> [msg : Msg \cup {NoOne}, recv : Nat]]
  BY DEF TypeInv, TypeOK, FlowTypeOK
<1>1. ASSUME \A j \in Job : phase'[j] = "resumed" => phase[j] = "resumed" /\ otp'[j] = otp[j]
      PROVE  ResultInv'
  BY <1>1, ResultKept DEF ResultInv
<1>2. ASSUME NEW m \in Msg, PostDelivered(m)
      PROVE  ResultInv'
  BY <1>2, PostResult
<1>3. ASSUME NEW d \in Job, LookupLatest(d)
      PROVE  ResultInv'
  BY <1>3, LookupResult
<1>4. ASSUME NEW d \in Job, RequestOTP(d)
      PROVE  ResultInv'
  <2>1. /\ phase' = [phase EXCEPT ![d] = "sent"] /\ otp' = [otp EXCEPT ![d] = NoOTP]
    BY <1>4 DEF RequestOTP
  <2>2. \A j \in Job : phase'[j] = "resumed" => phase[j] = "resumed" /\ otp'[j] = otp[j]
    BY <1>0, <2>1
  <2>. QED BY <1>1, <2>2
<1>5. ASSUME NEW d \in Job,
             WaitTimeout(d) \/ AwaitError(d) \/ (Await(d) /\ ~LookupLatest(d))
      PROVE  ResultInv'
  <2>1. /\ otp' = otp
        /\ \E l \in Phases \ {"resumed"} : phase' = [phase EXCEPT ![d] = l]
    BY <1>0, <1>5 DEF Await, StampIssued, ClearWait, RegisterWait, Park, WaitTimeout, AwaitError,
       Phases
  <2>2. \A j \in Job : phase'[j] = "resumed" => phase[j] = "resumed" /\ otp'[j] = otp[j]
    BY <1>0, <2>1
  <2>. QED BY <1>1, <2>2
<1>6. ASSUME UNCHANGED flowVars
      PROVE  ResultInv'
  BY <1>1, <1>6 DEF flowVars
<1>7. ASSUME NEW m \in Msg,
             Submit(m) \/ SubmitManual(m) \/ Abort(m) \/ (Handle(m) /\ ~PostDelivered(m))
      PROVE  UNCHANGED flowVars
  BY <1>7 DEF Submit, SubmitManual, Abort, Handle, SaveLatest, Members, Load, Scanned, ClaimWait,
     PostFailed, ReleaseClaim, DeletePosted, Finish, EndCall
<1>8. Tick \/ UNCHANGED vars => UNCHANGED flowVars
  BY DEF Tick, vars
<1>. QED BY <1>2, <1>3, <1>4, <1>5, <1>6, <1>7, <1>8 DEF Next

-----------------------------------------------------------------------------

\* What makes the delivery of the first code inductive.
DeliveryInv ==
  /\ FreshInv /\ CallInv /\ CodeInv /\ LookupInv /\ WaitInv /\ ScanInv /\ ResultInv

\* The initial states.
LEMMA InitDeliveryInv == Init => DeliveryInv
<1> SUFFICES ASSUME Init PROVE DeliveryInv
  OBVIOUS
<1>1. FreshInv /\ CallInv /\ CodeInv /\ LookupInv
  BY DEF Init, FreshInv, InSnapshot, CallInv, CodeInv, LookupInv
<1>2. WaitInv /\ ScanInv /\ ResultInv
  BY DEF Init, WaitInv, ScanInv, InSnapshot, ResultInv
<1>. QED BY <1>1, <1>2 DEF DeliveryInv

\* Every step, for FreshInv.
LEMMA NextFreshInv == TypeInv /\ FreshInv /\ [Next]_vars => FreshInv'
<1> SUFFICES ASSUME TypeInv, FreshInv, [Next]_vars PROVE FreshInv'
  OBVIOUS
<1>1. CASE Tick \/ UNCHANGED vars
  <2>1. /\ UNCHANGED <<round, phase, waits>>
        /\ \A j \in Job : wait'[j] = wait[j] \/ wait'[j] = NoWait
    BY <1>1 DEF Tick, vars, storeVars, msgVars, flowVars
  <2>. QED BY <2>1, FreshStep DEF InSnapshot
<1>. QED BY <1>1, HandleFreshInv, FlowFreshInv DEF Next

\* Every step keeps the whole invariant.
LEMMA NextDeliveryInv == TypeInv /\ DeliveryInv /\ [Next]_vars => DeliveryInv'
<1> SUFFICES ASSUME TypeInv, DeliveryInv, [Next]_vars PROVE DeliveryInv'
  OBVIOUS
<1> USE DEF DeliveryInv
<1>1. Steady /\ Kept
  BY SteadyStep, KeptStep
<1>2. FreshInv'
  BY NextFreshInv
<1>3. CallInv'
  <2>1. CASE UNCHANGED msgVars
    BY <2>1 DEF CallInv, msgVars, Keys
  <2>2. Tick \/ UNCHANGED vars => UNCHANGED msgVars
    BY DEF Tick, vars
  <2>3. ASSUME NEW d \in Job, RequestOTP(d) \/ Await(d) \/ WaitTimeout(d) \/ AwaitError(d)
        PROVE  UNCHANGED msgVars
    BY <2>3 DEF RequestOTP, Await, StampIssued, LookupLatest, ClearWait, RegisterWait, Park,
       WaitTimeout, AwaitError
  <2>. QED BY <2>1, <2>2, <2>3, CallStep DEF Next
<1>4. LookupInv'
  <2>1. CASE UNCHANGED <<goal, lookup>> /\ \A j \in Job : phase'[j] = "latest" => phase[j] = "latest"
    BY <2>1 DEF LookupInv, Keys
  <2>2. ASSUME NEW m \in Msg, Submit(m) \/ SubmitManual(m) \/ Handle(m) \/ Abort(m)
        PROVE  LookupInv'
    <3>1. UNCHANGED <<goal, lookup>>
      BY <2>2 DEF Submit, SubmitManual, Abort, Handle, SaveLatest, Members, Load, Scanned,
         ClaimWait, PostDelivered, PostFailed, ReleaseClaim, DeletePosted, Finish, EndCall, flowVars
    <3>2. phase' = phase \/ phase' = [phase EXCEPT ![HeldJob(m)] = "resumed"]
      BY <2>2 DEF Submit, SubmitManual, Abort, Handle, SaveLatest, Members, Load, Scanned,
         ClaimWait, PostDelivered, PostFailed, ReleaseClaim, DeletePosted, Finish, EndCall, flowVars,
         HeldJob
    <3>3. phase \in [Job -> Phases]
      BY DEF TypeInv, TypeOK, FlowTypeOK
    <3>. QED BY <2>1, <3>1, <3>2, <3>3
  <2>3. Tick \/ UNCHANGED vars => UNCHANGED <<goal, lookup, phase>>
    BY DEF Tick, vars, flowVars
  <2>. QED BY <2>1, <2>2, <2>3, LookupStep DEF Next
<1>5. CodeInv'
  BY <1>1, CodeStep
<1>6. WaitInv'
  BY <1>1, WaitStep
<1>7. ScanInv'
  BY <1>1, ScanStep
<1>8. ResultInv'
  BY <1>1, ResultStep
<1>. QED BY <1>2, <1>3, <1>4, <1>5, <1>6, <1>7, <1>8

\* However many codes arrive, for whomever, and whatever fails or expires, the
\* code a job goes on with after its first request was submitted for a target
\* of that job's, unless by hand, and received in the window of that request.
THEOREM FirstCodeCorrect ==
  Spec => [](\A j \in Job : round[j] <= 1 /\ phase[j] = "resumed" => FirstCode(j))
<1>1. TypeInv /\ [Next]_vars => TypeInv'
  BY NextTypeInv
<1>2. DeliveryInv => (\A j \in Job : round[j] <= 1 /\ phase[j] = "resumed" => FirstCode(j))
  BY DEF DeliveryInv, ResultInv
<1>. QED BY <1>1, <1>2, InitTypeInv, InitDeliveryInv, NextDeliveryInv, PTL DEF Spec

\* No job makes more requests than the bound.
RoundInv == \A j \in Job : round[j] <= Rounds

\* The bound on the requests of a job holds.
LEMMA RoundsBounded == Spec => []RoundInv
<1>1. Init => RoundInv
  BY TimingAssumption DEF Init, RoundInv
<1>2. TypeInv /\ RoundInv /\ [Next]_vars => RoundInv'
  <2> SUFFICES ASSUME TypeInv, RoundInv, [Next]_vars PROVE RoundInv'
    OBVIOUS
  <2>0. round \in [Job -> Nat] /\ Rounds \in Nat
    BY TimingAssumption DEF TypeInv, TypeOK, FlowTypeOK
  <2>1. ASSUME NEW d \in Job, RequestOTP(d)
        PROVE  RoundInv'
    <3>1. round' = [round EXCEPT ![d] = round[d] + 1] /\ round[d] < Rounds
      BY <2>1 DEF RequestOTP
    <3>2. round[d] \in Nat /\ round[d] + 1 <= Rounds
      BY <2>0, <3>1
    <3> SUFFICES ASSUME NEW j \in Job PROVE round'[j] <= Rounds
      BY DEF RoundInv
    <3>3. round'[j] = IF j = d THEN round[d] + 1 ELSE round[j]
      BY <2>0, <3>1
    <3>. QED BY <3>2, <3>3 DEF RoundInv
  <2>2. CASE UNCHANGED round
    BY <2>2 DEF RoundInv
  <2>3. ASSUME NEW m \in Msg, Submit(m) \/ SubmitManual(m) \/ Handle(m) \/ Abort(m)
        PROVE  UNCHANGED round
    BY <2>3 DEF Submit, SubmitManual, Abort, Handle, SaveLatest, Members, Load, Scanned,
       ClaimWait, PostDelivered, PostFailed, ReleaseClaim, DeletePosted, Finish, EndCall, flowVars
  <2>4. ASSUME NEW d \in Job, Await(d) \/ WaitTimeout(d) \/ AwaitError(d)
        PROVE  UNCHANGED round
    BY <2>4 DEF Await, StampIssued, LookupLatest, ClearWait, RegisterWait, Park, WaitTimeout,
       AwaitError
  <2>5. Tick \/ UNCHANGED vars => UNCHANGED round
    BY DEF Tick, vars, flowVars
  <2>. QED BY <2>1, <2>2, <2>3, <2>4, <2>5 DEF Next
<1>. QED BY <1>1, <1>2, InitTypeInv, NextTypeInv, PTL DEF Spec

\* Where jobs make one request, a workflow goes on with a code received in the
\* window of its request.
THEOREM CodesInWindow ==
  ASSUME Rounds <= 1
  PROVE  Spec => []CodeInWindow
<1>1. ASSUME RoundInv, \A j \in Job : round[j] <= 1 /\ phase[j] = "resumed" => FirstCode(j), TypeOK
      PROVE  CodeInWindow
  <2>1. ASSUME NEW j \in Job PROVE round[j] <= 1
    BY <1>1, TimingAssumption DEF RoundInv, TypeOK, FlowTypeOK
  <2>. QED BY <1>1, <2>1 DEF CodeInWindow, FirstCode
<1>. QED BY <1>1, TypeCorrect, RoundsBounded, FirstCodeCorrect, PTL

\* Where jobs make one request, a workflow goes on with a code for its target.
THEOREM TargetsAreRight ==
  ASSUME Rounds <= 1
  PROVE  Spec => []RightTarget
<1>1. ASSUME RoundInv, \A j \in Job : round[j] <= 1 /\ phase[j] = "resumed" => FirstCode(j), TypeOK
      PROVE  RightTarget
  <2>1. ASSUME NEW j \in Job PROVE round[j] <= 1
    BY <1>1, TimingAssumption DEF RoundInv, TypeOK, FlowTypeOK
  <2>. QED BY <1>1, <2>1 DEF RightTarget, FirstCode, Right
<1>. QED BY <1>1, TypeCorrect, RoundsBounded, FirstCodeCorrect, PTL
=============================================================================
