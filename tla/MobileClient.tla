---------------------------- MODULE MobileClient ----------------------------
(***************************************************************************)
(* The Android client of one paired device (src/clients/android): the      *)
(* service and its connection manager, the pump that renders what the      *)
(* durable push consumer delivers, and the answers of the user.            *)
(*                                                                         *)
(* Android creates and destroys the service at will.  Each instance has a  *)
(* new NatsConnectionManager, so "instance k" names both; the instance     *)
(* that exists is the last one created, while `alive`.  What an instance   *)
(* has started may outlive it: cancelling a coroutine takes effect only    *)
(* where it suspends, and Nats.connect and js.subscribe block.             *)
(*                                                                         *)
(* The server binds the consumer to one subscription at a time and tells   *)
(* anyone else that it is already bound.  It frees the consumer when the   *)
(* connection is closed, or when pings have gone unanswered.               *)
(*                                                                         *)
(* The notifications are interactive requests.  Lifecycle events, which    *)
(* handleLifecycle acknowledges and nothing more, the heartbeats and the   *)
(* dashboard are left out.                                                 *)
(***************************************************************************)
EXTENDS Naturals, FiniteSets

CONSTANTS
    Notifications,
    None,           \* no message: not a notification
    MaxDeliver,     \* of the consumer (3 in the code)
    \* Bounds of the model, none of them in the code:
    MaxServices,    \* instances of the service
    MaxTaps,        \* buttons the user presses, and swipes
    MaxFaults       \* failed calls, broken links, services stopped, processes
                    \* killed, changes of silent mode

ASSUME MobileAssumption ==
    /\ None \notin Notifications
    /\ MaxDeliver \in Nat \ {0} /\ MaxServices \in Nat \ {0}
    /\ MaxTaps \in Nat /\ MaxFaults \in Nat

VARIABLES
    created, alive, \* instances created; the last one is not destroyed yet
    job,            \* connectJob of each instance
    link,           \* its connection
    bound,          \* the instance to whose connection the consumer is bound,
                    \* 0 for none, or Gone
    pump,           \* instances with a message pump
    buffer,         \* messages delivered to the pump
    hand,           \* the message each pump is working on
    handled,        \* pumps whose message is handled: ack() comes next
    rendered,       \* renderedIds of each manager
    consumer,       \* each message at the durable consumer
    deliveries,     \* how often it has been delivered
    shown,          \* notifications in the tray
    opened,         \* those whose "More..." button was pressed
    publishing,     \* answers each instance is publishing
    answered,       \* requests whose answer is in the stream
    swiped,         \* notifications the user has swiped away (history)
    silent,         \* silent mode
    drawn,          \* how often each instance has rendered each (history)
    hidden,         \* acknowledged and not rendered on purpose (history)
    taps, faults

serviceVars == <<created, alive>>
linkVars == <<job, link, bound>>
pumpVars == <<pump, buffer, hand, handled>>
showVars == <<rendered, drawn, hidden>>
streamVars == <<consumer, deliveries>>
userVars == <<shown, opened, publishing, answered, swiped, taps>>
vars == <<serviceVars, linkVars, pumpVars, showVars, streamVars, userVars,
          silent, faults>>

Services == 1 .. MaxServices

\* The server takes a connection for bound that the client has lost.
Gone == MaxServices + 1

TypeOK ==
    /\ created \in 0 .. MaxServices /\ alive \in BOOLEAN
    /\ job \in [Services -> {"off", "dial", "bind", "watch", "wait", "over"}]
    /\ link \in [Services -> {"down", "up", "broken", "closing"}]
    /\ bound \in 0 .. created \cup {Gone}
    /\ pump \in SUBSET Services
    /\ buffer \in [Services -> SUBSET Notifications]
    /\ hand \in [Services -> Notifications \cup {None}]
    /\ handled \in SUBSET {k \in pump : hand[k] # None}
    /\ rendered \in [Services -> SUBSET Notifications]
    /\ consumer \in [Notifications ->
                       {"unsent", "pending", "sent", "acked", "dropped"}]
    /\ deliveries \in [Notifications -> 0 .. MaxDeliver]
    /\ \A s \in {shown, opened, answered, swiped, hidden} : s \subseteq Notifications
    /\ publishing \in [Services -> SUBSET Notifications]
    /\ silent \in BOOLEAN
    /\ drawn \in [Services -> [Notifications -> Nat]]
    /\ taps \in 0 .. MaxTaps /\ faults \in 0 .. MaxFaults

Init ==
    /\ created = 0 /\ alive = FALSE
    /\ job = [k \in Services |-> "off"]
    /\ link = [k \in Services |-> "down"]
    /\ bound = 0
    /\ pump = {}
    /\ buffer = [k \in Services |-> {}]
    /\ hand = [k \in Services |-> None]
    /\ handled = {}
    /\ rendered = [k \in Services |-> {}]
    /\ consumer = [n \in Notifications |-> "unsent"]
    /\ deliveries = [n \in Notifications |-> 0]
    /\ shown = {} /\ opened = {} /\ answered = {} /\ swiped = {} /\ hidden = {}
    /\ publishing = [k \in Services |-> {}]
    /\ silent = FALSE
    /\ drawn = [k \in Services |-> [n \in Notifications |-> 0]]
    /\ taps = 0 /\ faults = 0

Fault ==
    /\ faults < MaxFaults
    /\ faults' = faults + 1

\* Instance k has not been destroyed: its scope and its job are active.
Live(k) == alive /\ k = created

\* The service is meant to be connected.
Running == alive /\ job[created] # "off"

\* manager.connection, and what its status says until the loss is noticed.
Connected(k) == job[k] \in {"bind", "watch"} /\ link[k] \in {"up", "broken"}

(***************************************************************************)
(* The service (NatsService).                                              *)
(***************************************************************************)

\* The app is opened, or Android restarts the sticky service: onCreate if need be, then onStartCommand and manager.connect, which
\* does nothing when its job is active.
Start ==
    /\ \/ /\ ~alive /\ created < MaxServices
          /\ created' = created + 1 /\ alive' = TRUE
       \/ /\ alive /\ job[created] = "off"
          /\ UNCHANGED serviceVars
    /\ job' = [job EXCEPT ![created'] = "dial"]
    /\ UNCHANGED <<link, bound, pumpVars, showVars, streamVars, userVars, silent,
                   faults>>

\* The job ends where it is suspended; a blocking call goes on.  The
\* connection is closed by a coroutine of its own, if there is one yet.
disconnect(k) ==
    /\ job' = [job EXCEPT ![k] = IF @ \in {"dial", "bind"} THEN @ ELSE "over"]
    /\ link' = [link EXCEPT ![k] = IF ~Connected(k) THEN @
                                   ELSE IF @ = "up" THEN "closing" ELSE "down"]

\* onDestroy: "Disconnect" in the app, a new pairing, a refused or timed out
\* foreground service.
Destroy ==
    /\ alive /\ Fault
    /\ alive' = FALSE
    /\ disconnect(created)
    /\ UNCHANGED <<created, bound, pumpVars, showVars, streamVars, userVars, silent>>

\* The process is killed: every connection breaks, the tray stays.
KillProcess ==
    /\ created > 0 /\ Fault
    /\ alive' = FALSE
    /\ job' = [k \in Services |-> IF k <= created THEN "over" ELSE "off"]
    /\ link' = [k \in Services |-> "down"]
    /\ bound' = IF bound = 0 THEN 0 ELSE Gone
    /\ pump' = {}
    /\ buffer' = [k \in Services |-> {}]
    /\ hand' = [k \in Services |-> None]
    /\ handled' = {}
    /\ publishing' = [k \in Services |-> {}]
    /\ UNCHANGED <<created, showVars, streamVars, shown, opened, answered, swiped,
                   taps, silent>>

SetSilent ==
    /\ Fault
    /\ silent' = ~silent
    /\ UNCHANGED <<serviceVars, linkVars, pumpVars, showVars, streamVars, userVars>>

(***************************************************************************)
(* connectOnce and reconnect (NatsConnectionManager), from step to step.   *)
(***************************************************************************)

\* The next delay() of a cancelled job throws, and the job is over.
Suspended(k, next) == IF Live(k) THEN next ELSE "over"

DialSucceeds(k) ==
    /\ job[k] = "dial"
    /\ job' = [job EXCEPT ![k] = "bind"]
    /\ link' = [link EXCEPT ![k] = "up"]
    /\ UNCHANGED <<serviceVars, bound, pumpVars, showVars, streamVars, userVars,
                   silent, faults>>

\* Mutant: connectOnce gives up instead of entering the reconnection loop.
GiveUp(k) == job' = [job EXCEPT ![k] = "over"]

\* The exception handler: to the backoff of the reconnection loop.
Backoff(k) == job' = [job EXCEPT ![k] = Suspended(k, "wait")]

DialFails(k) ==
    /\ job[k] = "dial" /\ Fault
    /\ Backoff(k)
    /\ UNCHANGED <<serviceVars, link, bound, pumpVars, showVars, streamVars, userVars,
                   silent>>

\* Mutant: the IDs already rendered are forgotten with the connection.
ForgetRendered(k) ==
    /\ pump' = IF Live(k) THEN pump \cup {k} ELSE pump
    /\ rendered' = [rendered EXCEPT ![k] = {}]

\* The pump of subscribeToConsumer: launched in the scope, unless that is
\* cancelled.
StartPump(k) ==
    /\ pump' = IF Live(k) THEN pump \cup {k} ELSE pump
    /\ UNCHANGED rendered

\* subscribeToConsumer binds the consumer; the other subscriptions and the
\* first query, which do not fail on a link that is up, belong to the step.
Bind(k) ==
    /\ job[k] = "bind" /\ link[k] \in {"up", "closing"}
    /\ bound = 0
    /\ bound' = k
    /\ job' = [job EXCEPT ![k] = Suspended(k, "watch")]
    /\ StartPump(k)
    /\ UNCHANGED <<serviceVars, link, buffer, hand, handled, drawn, hidden, streamVars,
                   userVars, silent, faults>>

\* The consumer is already bound, or the link is gone.  (connectOnce does not
\* close the connection then, which nothing uses any more.)
BindFails(k) ==
    /\ job[k] = "bind" /\ (bound # 0 \/ link[k] \in {"broken", "down"})
    /\ Backoff(k)
    /\ link' = [link EXCEPT ![k] = IF @ = "closing" THEN @ ELSE "down"]
    /\ UNCHANGED <<serviceVars, bound, pumpVars, showVars, streamVars, userVars,
                   silent, faults>>

Retry(k) ==
    /\ job[k] = "wait"
    /\ job' = [job EXCEPT ![k] = "dial"]
    /\ UNCHANGED <<serviceVars, link, bound, pumpVars, showVars, streamVars, userVars,
                   silent, faults>>

\* Mutant: the ack of the old pump is still to come.
StopPumpLate(k) ==
    /\ link' = [link EXCEPT ![k] = "down"]
    /\ pump' = pump \ {k}
    /\ buffer' = [buffer EXCEPT ![k] = {}]
    /\ UNCHANGED <<hand, handled>>

\* What the pump had not handled goes with the connection.
StopPump(k) ==
    /\ link' = [link EXCEPT ![k] = "down"]
    /\ pump' = pump \ {k}
    /\ buffer' = [buffer EXCEPT ![k] = {}]
    /\ hand' = [hand EXCEPT ![k] = None]
    /\ handled' = handled \ {k}

\* The monitor sees another status than CONNECTED, closes the connection (which
\* no longer reaches the server) and enters the reconnection loop.
NoticeLoss(k) ==
    /\ job[k] = "watch" /\ link[k] = "broken"
    /\ StopPump(k)
    /\ Backoff(k)
    /\ UNCHANGED <<serviceVars, bound, showVars, streamVars, userVars, silent, faults>>

\* The close() that disconnect has launched reaches the server.
Close(k) ==
    /\ link[k] = "closing"
    /\ StopPump(k)
    /\ bound' = IF bound = k THEN 0 ELSE bound
    /\ UNCHANGED <<serviceVars, job, showVars, streamVars, userVars, silent, faults>>

Break(k) ==
    /\ link[k] = "up" /\ Fault
    /\ link' = [link EXCEPT ![k] = "broken"]
    /\ bound' = IF bound = k THEN Gone ELSE bound
    /\ UNCHANGED <<serviceVars, job, pumpVars, showVars, streamVars, userVars,
                   silent>>

(***************************************************************************)
(* The server: the durable push consumer of the device.                    *)
(***************************************************************************)

Publish(n) ==
    /\ consumer[n] = "unsent"
    /\ consumer' = [consumer EXCEPT ![n] = "pending"]
    /\ UNCHANGED <<serviceVars, linkVars, pumpVars, showVars, deliveries, userVars,
                   silent, faults>>

\* A delivery counts whether or not it arrives.
Push(n) ==
    /\ consumer[n] = "pending" /\ bound # 0
    /\ consumer' = [consumer EXCEPT ![n] = "sent"]
    /\ deliveries' = [deliveries EXCEPT ![n] = @ + 1]
    /\ buffer' = [k \in Services |->
                    IF k = bound /\ k \in pump THEN buffer[k] \cup {n}
                                              ELSE buffer[k]]
    /\ UNCHANGED <<serviceVars, linkVars, pump, hand, handled, showVars, userVars, silent,
                   faults>>

\* A pump that can work has handled a message long before the 30 s of AckWait.
InHand(n) ==
    \E k \in pump : link[k] = "up" /\ (n \in buffer[k] \/ hand[k] = n)

\* AckWait has passed.
Expire(n) ==
    /\ consumer[n] = "sent" /\ ~InHand(n)
    /\ consumer' = [consumer EXCEPT ![n] =
                      IF deliveries[n] < MaxDeliver THEN "pending" ELSE "dropped"]
    /\ UNCHANGED <<serviceVars, linkVars, pumpVars, showVars, deliveries, userVars,
                   silent, faults>>

\* The server's pings to a client that is gone were not answered.
Unbind ==
    /\ bound = Gone
    /\ bound' = 0
    /\ UNCHANGED <<serviceVars, job, link, pumpVars, showVars, streamVars, userVars,
                   silent, faults>>

(***************************************************************************)
(* The pump: nextMessage, handleMessage and handleRequest, then ack().     *)
(***************************************************************************)

Acknowledge(k, n) ==
    consumer' = IF link[k] \in {"up", "closing"}
                THEN [consumer EXCEPT ![n] = "acked"] ELSE consumer

\* Mutant: the message is acknowledged when it is taken.
AckFirst(k, n) ==
    /\ hand' = [hand EXCEPT ![k] = n]
    /\ Acknowledge(k, n)

IntoHand(k, n) ==
    /\ hand' = [hand EXCEPT ![k] = n]
    /\ UNCHANGED consumer

Take(k, n) ==
    /\ k \in pump /\ n \in buffer[k] /\ hand[k] = None
    /\ buffer' = [buffer EXCEPT ![k] = @ \ {n}]
    /\ IntoHand(k, n)
    /\ UNCHANGED <<serviceVars, linkVars, pump, handled, showVars, deliveries,
                   userVars, silent, faults>>

MarkRendered(k, n) == rendered' = [rendered EXCEPT ![k] = @ \cup {n}]

\* "Dedup": this manager has rendered it already.
Skip(k, n) ==
    /\ n \in rendered[k]
    /\ UNCHANGED <<showVars, shown, faults>>

Render(k, n) ==
    /\ n \notin rendered[k] /\ ~silent
    /\ shown' = shown \cup {n}
    /\ drawn' = [drawn EXCEPT ![k][n] = @ + 1]
    /\ MarkRendered(k, n)
    /\ UNCHANGED <<hidden, faults>>

Suppress(k, n) ==
    /\ n \notin rendered[k] /\ silent
    /\ MarkRendered(k, n)
    /\ hidden' = hidden \cup {n}
    /\ UNCHANGED <<drawn, shown, faults>>

\* The payload cannot be parsed or rendered: it is acknowledged, so that it
\* does not come back for ever.
RenderFails(k, n) ==
    /\ n \notin rendered[k] /\ Fault
    /\ hidden' = hidden \cup {n}
    /\ UNCHANGED <<drawn, shown, rendered>>

Handle(k) ==
    /\ k \in pump \ handled /\ hand[k] # None
    /\ handled' = handled \cup {k}
    /\ \/ Skip(k, hand[k])
       \/ Render(k, hand[k])
       \/ Suppress(k, hand[k])
       \/ RenderFails(k, hand[k])
    /\ UNCHANGED <<serviceVars, linkVars, pump, buffer, hand, streamVars, opened,
                   publishing, answered, swiped, taps, silent>>

Ack(k) ==
    /\ k \in handled
    /\ Acknowledge(k, hand[k])
    /\ hand' = [hand EXCEPT ![k] = None]
    /\ handled' = handled \ {k}
    /\ UNCHANGED <<serviceVars, linkVars, pump, buffer, showVars, deliveries, userVars,
                   silent, faults>>

(***************************************************************************)
(* The user.                                                               *)
(***************************************************************************)

Press ==
    /\ taps < MaxTaps
    /\ taps' = taps + 1

\* The intent reaches handlePublishResponse, which answers only on a connection
\* that looks connected.  A service that did not exist is created for the intent
\* and not connected.
PublishIntent(n) ==
    /\ alive \/ created < MaxServices
    /\ alive' = TRUE
    /\ created' = IF alive THEN created ELSE created + 1
    /\ publishing' = IF alive /\ Connected(created)
                     THEN [publishing EXCEPT ![created] = @ \cup {n}]
                     ELSE publishing

\* An answer button of the notification.
Tap(n) ==
    /\ n \in shown
    /\ Press
    /\ PublishIntent(n)
    /\ UNCHANGED <<linkVars, pumpVars, showVars, streamVars, shown, opened, answered,
                   swiped, silent, faults>>

\* "More...": the receiver dismisses the notification and opens the app.
More(n) ==
    /\ n \in shown
    /\ Press
    /\ shown' = shown \ {n}
    /\ opened' = opened \cup {n}
    /\ UNCHANGED <<serviceVars, linkVars, pumpVars, showVars, streamVars, publishing,
                   answered, swiped, silent, faults>>

\* The notification is ongoing and not cancelled by a tap, but from Android 14
\* on it can be swiped away all the same.  Nothing listens for that.
Swipe(n) ==
    /\ n \in shown
    /\ Press
    /\ shown' = shown \ {n}
    /\ swiped' = swiped \cup {n}
    /\ UNCHANGED <<serviceVars, linkVars, pumpVars, showVars, streamVars, opened,
                   publishing, answered, silent, faults>>

\* An answer in the dialog of the app.
Choose(n) ==
    /\ n \in opened
    /\ Press
    /\ PublishIntent(n)
    /\ UNCHANGED <<linkVars, pumpVars, showVars, streamVars, shown, opened, answered,
                   swiped, silent, faults>>

Published(k, n) == publishing' = [publishing EXCEPT ![k] = @ \ {n}]

\* The answer is in the stream (once: its Nats-Msg-Id names the notification).
PublishSucceeds(k, n) ==
    /\ n \in publishing[k] /\ link[k] \in {"up", "closing"}
    /\ Published(k, n)
    /\ answered' = answered \cup {n}
    /\ shown' = shown \ {n}
    /\ UNCHANGED <<serviceVars, linkVars, pumpVars, showVars, streamVars, opened,
                   swiped, taps, silent, faults>>

\* Mutant: the notification is dismissed whatever became of the answer.
Dismiss(n) == shown' = shown \ {n}

Keep(n) == UNCHANGED shown

\* No acknowledgment, or the scope is cancelled: the stream may have it.
PublishFails(k, n) ==
    /\ n \in publishing[k] /\ (link[k] # "up" \/ ~Live(k))
    /\ Published(k, n)
    /\ answered' \in {answered, answered \cup {n}}
    /\ Keep(n)
    /\ UNCHANGED <<serviceVars, linkVars, pumpVars, showVars, streamVars, opened,
                   swiped, taps, silent, faults>>

Connect(k) ==
    DialSucceeds(k) \/ DialFails(k) \/ Bind(k) \/ BindFails(k) \/ Retry(k)

Deliver(n) == Publish(n) \/ Push(n) \/ Expire(n)

Use(n) == Tap(n) \/ More(n) \/ Choose(n) \/ Swipe(n)

Next ==
    \/ Start \/ Destroy \/ KillProcess \/ SetSilent \/ Unbind
    \/ \E k \in Services : Connect(k) \/ NoticeLoss(k) \/ Close(k) \/ Break(k)
    \/ \E n \in Notifications : Deliver(n) \/ Use(n)
    \/ \E k \in Services : Handle(k) \/ Ack(k)
    \/ \E k \in Services, n \in Notifications :
         Take(k, n) \/ PublishSucceeds(k, n) \/ PublishFails(k, n)

Spec == Init /\ [][Next]_vars

(***************************************************************************)
(* What has begun goes on: blocking calls have timeouts, delays end, the   *)
(* pump and the server run.  Nothing says that the service is started,     *)
(* that the user answers, or that anything fails.                          *)
(***************************************************************************)

Progress ==
    /\ WF_vars(Unbind)
    /\ \A k \in Services :
         /\ WF_vars(DialSucceeds(k)) /\ WF_vars(Bind(k)) /\ WF_vars(BindFails(k))
         /\ WF_vars(Retry(k)) /\ WF_vars(NoticeLoss(k)) /\ WF_vars(Close(k))
         /\ WF_vars(Handle(k)) /\ WF_vars(Ack(k))
    /\ \A n \in Notifications : WF_vars(Push(n)) /\ WF_vars(Expire(n))
    /\ \A k \in Services, n \in Notifications :
         /\ WF_vars(Take(k, n))
         /\ WF_vars(PublishSucceeds(k, n) \/ PublishFails(k, n))

FairSpec == Spec /\ Progress

(***************************************************************************)
(* Properties.                                                             *)
(***************************************************************************)

\* The consumer is bound to a connection that nobody owns: the service was
\* destroyed while Nats.connect was blocked, so disconnect found no connection
\* to close, and the job went on to bind it before its first delay().
Leaked ==
    /\ bound \in Services
    /\ link[bound] = "up" /\ job[bound] = "over"

Drawn(n) == \E k \in Services : drawn[k][n] > 0

\* One instance of the service renders a notification once, although the ack
\* may be lost with the connection and the consumer delivers it again: the user
\* who has answered is not asked again (handleRequest, isRendered).
RenderedOnce == \A k \in Services, n \in Notifications : drawn[k][n] <= 1

\* A question the user has seen stays in the tray until its answer is in the
\* stream, whatever becomes of the connection, the service and the process; only
\* the user takes it away before, with "More..." or a swipe.
TapIsNotLost ==
    \A n \in Notifications :
      Drawn(n) => n \in shown \cup answered \cup opened \cup swiped

\* A message that is acknowledged, and so never comes again, was rendered, or was
\* kept from the tray on purpose, by some instance: the ack comes after that, in
\* whatever instance, although the same message may be in another one's hand, and
\* the connection, the service or the process may end in between.
AckedIsHandled ==
    \A n \in Notifications : consumer[n] = "acked" => Drawn(n) \/ n \in hidden

\* A service that goes on running, and finds no leaked connection, handles every
\* message the consumer has for the device, unless the deliveries the consumer
\* may attempt went into connections that were broken.
Delivered ==
    <>[](Running /\ ~Leaked) =>
      \A n \in Notifications :
        consumer[n] = "pending" ~>
          (Drawn(n) \/ n \in hidden \/ consumer[n] = "dropped")

\* A service that goes on running, and finds no leaked connection, is bound to
\* its consumer in the end, after broken links, failed attempts and consumers
\* still bound to a connection that is gone.
Reconnects ==
    <>[](Running /\ ~Leaked) =>
      <>[](Running /\ bound = created /\ link[created] = "up" /\ created \in pump)
=============================================================================
