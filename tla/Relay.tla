------------------------------- MODULE Relay -------------------------------
(***************************************************************************)
(* The way of a one-time code from a WhatsApp notification on the phone to *)
(* the service's OTP webhook: the Android forwarder (whatsapp-relay) and   *)
(* the answers of appsvc/otp_webhook.go it acts on.                        *)
(*                                                                         *)
(* A notification listener runs its callbacks one after the other on the   *)
(* main looper, remembers the texts it has queued in memory, and queues    *)
(* one persistent WorkManager request per code.  The process may die       *)
(* between any two steps: what the listener remembers and the callbacks    *)
(* that wait are gone, the queued requests are not.                        *)
(*                                                                         *)
(* A body stands for all texts of one fingerprint (package, code, hash).   *)
(***************************************************************************)
EXTENDS Naturals, FiniteSets, Sequences, SequencesExt

CONSTANTS
  Message,          \* the WhatsApp messages that may arrive
  Body,             \* the candidate texts a notification can hold
  BodiesOf,         \* [Message -> Seq(Body)]: the texts a message shows as
  CodeBody,         \* the texts with a code, a keyword and the issuer's name
  Url,              \* the webhook addresses a user may save
  Routable,         \* those whose path is /<target>/<purpose>
  Blank,            \* no address saved
  MaxFingerprints,  \* MAX_FORWARDED_FINGERPRINTS
  MaxLosses,        \* bound: deaths and disconnections of the listener
  MaxSaves          \* bound: times the user saves an address

ASSUME RelayAssumption ==
  /\ BodiesOf \in [Message -> Seq(Body)]
  /\ CodeBody \subseteq Body
  /\ Routable \subseteq Url
  /\ Blank \notin Url
  /\ MaxFingerprints \in Nat \ {0}
  /\ MaxLosses \in Nat /\ MaxSaves \in Nat

VARIABLES
  arrived,     \* the messages that have arrived
  tray,        \* the unread ones: what the active notification shows
  connected,   \* the system has bound the listener
  looper,      \* callbacks that wait: the messages each notification shows
  handling,    \* [url, left]: the address read and the texts still to inspect
  remembered,  \* forwardedFingerprints, oldest first
  url,         \* SettingsStore.webhookUrl
  work,        \* every request queued: [body, url, state]
  taken,       \* <<body, url>>: codes the webhook has passed on
  losses, saves,
  born         \* history: requests queued before the process last died

vars == <<arrived, tray, connected, looper, handling, remembered, url, work,
          taken, losses, saves, born>>
phone == <<arrived, tray, connected, looper, losses, born>>
settings == <<url, saves>>

Idle == [url |-> Blank, left |-> <<>>]

Init ==
  /\ arrived = {} /\ tray = <<>>
  /\ connected = FALSE /\ looper = <<>> /\ handling = Idle
  /\ remembered = <<>>
  /\ url \in Url \cup {Blank}
  /\ work = <<>> /\ taken = {}
  /\ losses = 0 /\ saves = 0 /\ born = 0

-----------------------------------------------------------------------------
(* The phone: messages arrive and are read, the system binds the listener. *)

\* WhatsApp posts its notification anew, with every unread message in it; a
\* bound listener gets onNotificationPosted.
Arrive(m) ==
  /\ m \notin arrived
  /\ arrived' = arrived \cup {m}
  /\ tray' = Append(tray, m)
  /\ looper' = IF connected THEN Append(looper, tray') ELSE looper
  /\ UNCHANGED <<connected, handling, remembered, settings, work, taken, losses, born>>

\* The user reads the chat: the notification goes.
Read ==
  /\ tray # <<>>
  /\ tray' = <<>>
  /\ UNCHANGED <<arrived, connected, looper, handling, remembered, settings,
                 work, taken, losses, born>>

\* Mutant: the listener waits for the next notification.
ConnectOnly ==
  /\ ~connected
  /\ connected' = TRUE
  /\ UNCHANGED <<arrived, tray, looper, handling, remembered, settings, work,
                 taken, losses, born>>

\* onListenerConnected handles the notifications that are active.  The rebinding
\* is asked for by onListenerDisconnected, at boot and at a package's replacement.
Connect ==
  /\ ~connected
  /\ connected' = TRUE
  /\ looper' = IF tray = <<>> THEN looper ELSE Append(looper, tray)
  /\ UNCHANGED <<arrived, tray, handling, remembered, settings, work, taken, losses, born>>

\* The system unbinds the listener between two callbacks and the object lives
\* on: the waiting callbacks are not run, what it remembers stays.
Disconnect ==
  /\ connected /\ handling.left = <<>> /\ losses < MaxLosses
  /\ connected' = FALSE
  /\ looper' = <<>>
  /\ losses' = losses + 1
  /\ UNCHANGED <<arrived, tray, handling, remembered, settings, work, taken, born>>

\* The process dies, in the middle of a callback or not.
Die ==
  /\ losses < MaxLosses
  /\ connected' = FALSE
  /\ looper' = <<>> /\ handling' = Idle /\ remembered' = <<>>
  /\ losses' = losses + 1 /\ born' = Len(work)
  /\ UNCHANGED <<arrived, tray, settings, work, taken>>

SaveUrl(u) ==
  /\ saves < MaxSaves
  /\ url' = u
  /\ saves' = saves + 1
  /\ UNCHANGED <<phone, handling, remembered, work, taken>>

-----------------------------------------------------------------------------
(* The listener: handleNotification, one candidate per step. *)

Candidates(shown) == FlattenSeq([i \in DOMAIN shown |-> BodiesOf[shown[i]]])

\* The address is read once per notification; without one nothing is inspected.
Begin ==
  /\ connected /\ handling.left = <<>> /\ looper # <<>>
  /\ looper' = Tail(looper)
  /\ handling' = IF url = Blank THEN Idle
                 ELSE [url |-> url, left |-> Candidates(Head(looper))]
  /\ UNCHANGED <<arrived, tray, connected, losses, born, remembered, settings,
                 work, taken>>

\* Mutant: the newest entry makes room.
RememberOldest(body) ==
  LET longer == Append(remembered, body)
  IN  SubSeq(longer, 1, IF Len(longer) > MaxFingerprints
                        THEN MaxFingerprints ELSE Len(longer))

\* rememberForwardedFingerprint: the oldest entries make room.
Remember(body) ==
  LET longer == Append(remembered, body)
  IN  SubSeq(longer, 1 + (IF Len(longer) > MaxFingerprints
                          THEN Len(longer) - MaxFingerprints ELSE 0), Len(longer))

Fresh(body) == body \in CodeBody /\ body \notin Range(remembered)

\* A request of the work manager, which outlives the process.
Queue(body, u) == work' = Append(work, [body |-> body, url |-> u, state |-> "queued"])

\* A text that is no code, or is remembered, is passed over; any other is
\* remembered and queued for the address in hand.
Inspect ==
  /\ handling.left # <<>>
  /\ handling' = [handling EXCEPT !.left = Tail(handling.left)]
  /\ LET body == Head(handling.left)
     IN  IF Fresh(body)
         THEN /\ remembered' = Remember(body)
              /\ Queue(body, handling.url)
         ELSE UNCHANGED <<remembered, work>>
  /\ UNCHANGED <<phone, settings, taken>>

-----------------------------------------------------------------------------
(* OtpForwardWorker, OtpWebhookClient and the webhook's answer.  An attempt *)
(* that does not reach the webhook, or that the webhook answers with 502,   *)
(* leaves the request queued: it changes nothing and has no action.         *)

End(w, state) == work' = [work EXCEPT ![w].state = state]

\* 202: the code was passed on and the answer arrived.
Forward(w) ==
  /\ work[w].state = "queued" /\ work[w].url \in Routable
  /\ taken' = taken \cup {<<work[w].body, work[w].url>>}
  /\ End(w, "done")
  /\ UNCHANGED <<phone, handling, remembered, settings>>

\* The code was passed on and the answer was lost (a time-out, the death of the
\* process): the request runs again.
ForwardUnheard(w) ==
  /\ work[w].state = "queued" /\ work[w].url \in Routable
  /\ taken' = taken \cup {<<work[w].body, work[w].url>>}
  /\ UNCHANGED <<phone, handling, remembered, settings, work>>

\* 400 for a path that is no route: a permanent failure.
Refuse(w) ==
  /\ work[w].state = "queued" /\ work[w].url \notin Routable
  /\ End(w, "failed")
  /\ UNCHANGED <<phone, handling, remembered, settings, taken>>

-----------------------------------------------------------------------------
Work(w) == Forward(w) \/ ForwardUnheard(w) \/ Refuse(w)

Next ==
  \/ \E m \in Message : Arrive(m)
  \/ Read \/ Connect \/ Disconnect \/ Die \/ Begin \/ Inspect
  \/ \E u \in Url \cup {Blank} : SaveUrl(u)
  \/ \E w \in DOMAIN work : Work(w)

Spec == Init /\ [][Next]_vars

\* The system rebinds the listener, the looper runs its callbacks, and some
\* request is answered at last while any waits: WorkManager keeps and retries
\* them, and an attempt fails for ever only if the webhook is out of reach for ever.
FairSpec ==
  /\ Spec
  /\ WF_vars(Connect) /\ WF_vars(Begin) /\ WF_vars(Inspect)
  /\ WF_vars(\E w \in DOMAIN work : Forward(w) \/ Refuse(w))

-----------------------------------------------------------------------------
(* Properties *)

TypeOK ==
  /\ arrived \subseteq Message
  /\ tray \in Seq(arrived)
  /\ connected \in BOOLEAN
  /\ looper \in Seq(Seq(arrived))
  /\ handling \in [url : Url \cup {Blank}, left : Seq(Body)]
  /\ remembered \in Seq(CodeBody) /\ Len(remembered) <= MaxFingerprints
  /\ url \in Url \cup {Blank}
  /\ work \in Seq([body : CodeBody, url : Url, state : {"queued", "done", "failed"}])
  /\ taken \in SUBSET (CodeBody \X Routable)
  /\ losses \in 0..MaxLosses /\ saves \in 0..MaxSaves
  /\ born \in 0..Len(work)

\* The same text is queued twice in the life of a process only after as many
\* other codes as the listener remembers were queued in between: updates of a
\* notification, a rebinding and a changed address do not send a code again.
\* rememberForwardedFingerprint, WhatsAppNotificationListenerService.kt:120.
RepeatedOnlyIfForgotten ==
  \A i, j \in (born + 1)..Len(work) :
    i < j /\ work[i].body = work[j].body =>
      Cardinality({work[k].body : k \in (i + 1)..(j - 1)}) >= MaxFingerprints

\* The relay and the webhook agree on every request that is over: one reported
\* done was passed on by the webhook, and one given up for good can never have
\* been, however often answers were lost and the request was run again.
\* OtpWebhookClient.kt:36-47 with otp_webhook.go:71-91.
EndsAgree ==
  \A w \in DOMAIN work :
    LET sent == <<work[w].body, work[w].url>> \in taken
    IN  /\ work[w].state = "done" => sent
        /\ work[w].state = "failed" => ~sent

\* What the relay must never do, whatever the phone and the network do: queue a
\* code again that it remembers, or be at odds with the webhook about an end.
\* WhatsAppNotificationListenerService.kt:35-127, OtpForwardWorker.kt, otp_webhook.go.
RelayHolds == TypeOK /\ RepeatedOnlyIfForgotten /\ EndsAgree

\* What the phone has done about a text: the webhook has it, or refused it.
Settled(body) ==
  \E w \in DOMAIN work : work[w].body = body /\ work[w].state \in {"done", "failed"}

\* With an address saved all along, every code that stays on the phone's screen
\* is passed on or refused, whatever deaths, disconnections and lost answers
\* come in between.  onListenerConnected, WhatsAppNotificationListenerService.kt:15.
ShownCodeSettles ==
  [](url # Blank) =>
    \A m \in Message : \A body \in CodeBody :
      (m \in Range(tray) /\ body \in Range(BodiesOf[m]))
        ~> (Settled(body) \/ m \notin Range(tray))
=============================================================================
