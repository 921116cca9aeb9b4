---------------------------- MODULE AskDecision -----------------------------
(***************************************************************************)
(* Interactive asks of MCP clients (cli/internal/mcpserver): the ask tool, *)
(* the DecisionStore, and the goroutines that settle a decision.           *)
(*                                                                         *)
(*   handleAsk             publishes the request, registers the decision,  *)
(*                         starts a subscriber and a timer, returns        *)
(*   response subscriber   one per ask; handles the first message that     *)
(*                         arrives on the flow's response subject          *)
(*   timeout timer         one per ask; publishes an ErrorResponse there   *)
(*                         and a failed lifecycle event                    *)
(*   interjection consumer on a stop, resolves every pending decision      *)
(*   handleAwaitDecision   waits for the decision or for its own timeout   *)
(*                                                                         *)
(* The response subject belongs to the flow: the subscribers of all asks   *)
(* of a flow see every message on it.  A core NATS subscription sees what  *)
(* is published while it exists and nothing from before.                   *)
(*                                                                         *)
(* A NotificationResponse is reduced to the ask it names (request_id) and  *)
(* the choice made; timestamps, and the ledger rows that requests and      *)
(* responses also leave, are not part of this module.                      *)
(***************************************************************************)
EXTENDS Naturals, FiniteSets

CONSTANTS
    Asks,           \* notification IDs, one for each call of ask
    Flows,          \* flow IDs
    Waiters,        \* calls of await_decision, one for each
    Choices,        \* what a user may choose
    Impatient,      \* asks with a timeout_sec below zero: no time at all
    Blank,          \* a decided resource without response fields
    Open,           \* a pending one
    \* Bounds of the model, none of them in the code:
    MaxAnswers,     \* answers given, by all devices and `renotify answer`
    MaxStops,       \* stop interjections
    MaxFaults       \* failed subscriptions and publishes, messages that cannot
                    \* be parsed, calls of Server.Stop

Response == [ask : Asks, choice : Choices]
Timeout == [code : {"timeout"}]
Message == Response \cup Timeout

ASSUME AskAssumption ==
    /\ Impatient \subseteq Asks
    /\ {MaxAnswers, MaxStops, MaxFaults} \subseteq Nat
    /\ Blank \notin Response /\ Open \notin Response /\ Blank # Open

VARIABLES
    flowOf,         \* the flow each ask is made in
    ask,            \* how far each call of handleAsk is
    verdict,        \* DecisionStore: Open, Blank or the response copied in
    sub,            \* each response subscriber
    inbox,          \* the message each subscriber has received first, if any
    cancelled,      \* subscribers whose context is cancelled
    timer,          \* each timeout timer
    stopping,       \* the flow of the stop being handled, as a set
    collected,      \* resolveDecisionsForFlow's ids, the ones left
    waitsFor,       \* the ask each await_decision waits for, as a set
    got,            \* what it returned, Open before
    answers, stops, faults, shutdowns,      \* bounds
    crashed         \* a goroutine panicked: the daemon is gone

decisionVars == <<verdict, crashed>>
subVars == <<sub, inbox, cancelled>>
stopVars == <<stopping, collected, stops>>
waitVars == <<waitsFor, got>>
vars == <<flowOf, ask, decisionVars, subVars, timer, stopVars, waitVars,
          answers, faults, shutdowns>>

AskSteps == {"new", "published", "registered", "subscribed", "returned",
             "refused"}
SubStates == {"none", "starting", "listening", "done"}
TimerStates == {"none", "armed", "expired", "responded", "failed", "cancelled"}

TypeOK ==
    /\ flowOf \in [Asks -> Flows]
    /\ ask \in [Asks -> AskSteps]
    /\ verdict \in [Asks -> Response \cup {Blank, Open}]
    /\ sub \in [Asks -> SubStates]
    /\ inbox \in [Asks -> SUBSET Message]
    /\ cancelled \subseteq Asks
    /\ timer \in [Asks -> TimerStates]
    /\ stopping \subseteq Flows
    /\ collected \subseteq Asks
    /\ waitsFor \in [Waiters -> SUBSET Asks]
    /\ got \in [Waiters -> Response \cup {Blank, Open}]
    /\ {answers, stops, faults, shutdowns} \subseteq Nat
    /\ crashed \in BOOLEAN

Init ==
    /\ flowOf \in [Asks -> Flows]
    /\ ask = [a \in Asks |-> "new"]
    /\ verdict = [a \in Asks |-> Open]
    /\ sub = [a \in Asks |-> "none"]
    /\ inbox = [a \in Asks |-> {}]
    /\ cancelled = {}
    /\ timer = [a \in Asks |-> "none"]
    /\ stopping = {} /\ collected = {} /\ stops = 0
    /\ waitsFor = [w \in Waiters |-> {}]
    /\ got = [w \in Waiters |-> Open]
    /\ answers = 0 /\ faults = 0 /\ shutdowns = 0
    /\ crashed = FALSE

NoFault == faults' = faults
Fault == faults + shutdowns < MaxFaults /\ faults' = faults + 1

-----------------------------------------------------------------------------
(* The DecisionStore.  The resource of an ask is there from Register on,   *)
(* and its channel is closed from the first Resolve on: Remove is never    *)
(* called.                                                                 *)

Registered(a) == ask[a] \in {"registered", "subscribed", "returned"}
Decided(a) == verdict[a] # Open

\* Mutant: the channel is only closed if it is not closed yet, but the
\* response fields are always copied.
ResolveAgain(a, v) ==
    /\ verdict' = [verdict EXCEPT ![a] = v]
    /\ crashed' = FALSE

\* Resolve copies the response fields and closes the channel.  Nothing asks
\* whether it is closed already: closing it twice panics, and the panic of a
\* goroutine ends the daemon.
Resolve(a, v) ==
    /\ verdict' = [verdict EXCEPT ![a] = v]
    /\ crashed' = Decided(a)

\* ResolveTimeout leaves the response fields as they are.
ResolveTimeout(a) ==
    /\ verdict' = [verdict EXCEPT ![a] = IF Decided(a) THEN @ ELSE Blank]
    /\ crashed' = Decided(a)

-----------------------------------------------------------------------------
(* The response subject of a flow.                                         *)

\* A subscriber handles one message and returns: only the first one counts.
Deliver(f, m) ==
    inbox' = [a \in Asks |->
                 IF flowOf[a] = f /\ sub[a] = "listening" /\ inbox[a] = {}
                 THEN {m} ELSE inbox[a]]

-----------------------------------------------------------------------------
(* handleAsk.                                                              *)

\* The request is published.  The call is refused if the flow is not in the
\* registry (lookupFlow) or the publish fails.
Publish(a) ==
    /\ ask[a] = "new"
    /\ \E s \in {"published", "refused"} : ask' = [ask EXCEPT ![a] = s]
    /\ UNCHANGED <<flowOf, decisionVars, subVars, timer, stopVars, waitVars,
                   answers, faults, shutdowns>>

Register(a) ==
    /\ ask[a] = "published"
    /\ ask' = [ask EXCEPT ![a] = "registered"]
    /\ UNCHANGED <<flowOf, decisionVars, subVars, timer, stopVars, waitVars,
                   answers, faults, shutdowns>>

\* startResponseSubscriber only starts the goroutine.
StartSubscriber(a) ==
    /\ ask[a] = "registered"
    /\ ask' = [ask EXCEPT ![a] = "subscribed"]
    /\ sub' = [sub EXCEPT ![a] = "starting"]
    /\ UNCHANGED <<flowOf, decisionVars, inbox, cancelled, timer, stopVars,
                   waitVars, answers, faults, shutdowns>>

\* startTimeoutTimer; then the activity of the flow is updated and the agent
\* gets the notification ID.
StartTimer(a) ==
    /\ ask[a] = "subscribed"
    /\ ask' = [ask EXCEPT ![a] = "returned"]
    /\ timer' = [timer EXCEPT ![a] = "armed"]
    /\ UNCHANGED <<flowOf, decisionVars, subVars, stopVars, waitVars,
                   answers, faults, shutdowns>>

-----------------------------------------------------------------------------
(* The response subscriber.                                                *)

Subscribe(a) ==
    /\ sub[a] = "starting"
    /\ \/ sub' = [sub EXCEPT ![a] = "listening"] /\ NoFault
       \/ sub' = [sub EXCEPT ![a] = "done"] /\ Fault
    /\ UNCHANGED <<flowOf, ask, decisionVars, inbox, cancelled, timer,
                   stopVars, waitVars, answers, shutdowns>>

\* Mutant: an ErrorResponse is not meant for the subscriber.
IgnoreError(a) ==
    /\ sub[a] = "listening" /\ inbox[a] # {}
    /\ sub' = [sub EXCEPT ![a] = "done"]
    /\ inbox' = [inbox EXCEPT ![a] = {}]
    /\ \E m \in inbox[a] : IF m \in Timeout THEN UNCHANGED decisionVars
                                            ELSE Resolve(a, m)
    /\ UNCHANGED <<flowOf, ask, cancelled, timer, stopVars, waitVars,
                   answers, faults, shutdowns>>

\* Mutant: an ErrorResponse is taken for an answer.
NoProbe(a) ==
    /\ sub[a] = "listening" /\ inbox[a] # {}
    /\ sub' = [sub EXCEPT ![a] = "done"]
    /\ inbox' = [inbox EXCEPT ![a] = {}]
    /\ \E m \in inbox[a] : Resolve(a, m)
    /\ UNCHANGED <<flowOf, ask, cancelled, timer, stopVars, waitVars,
                   answers, faults, shutdowns>>

\* Mutant: the subscriber's loop goes on after a message.
KeepListening(a) ==
    /\ sub[a] = "listening" /\ inbox[a] # {}
    /\ inbox' = [inbox EXCEPT ![a] = {}]
    /\ \E m \in inbox[a] : IF m \in Timeout THEN ResolveTimeout(a)
                                            ELSE Resolve(a, m)
    /\ UNCHANGED <<flowOf, ask, sub, cancelled, timer, stopVars, waitVars,
                   answers, faults, shutdowns>>

\* handleResponse takes the message for its own, whatever it answers.
HandleResponse(a) ==
    /\ sub[a] = "listening" /\ inbox[a] # {}
    /\ sub' = [sub EXCEPT ![a] = "done"]
    /\ inbox' = [inbox EXCEPT ![a] = {}]
    /\ \E m \in inbox[a] : IF m \in Timeout THEN ResolveTimeout(a)
                                            ELSE Resolve(a, m)
    /\ UNCHANGED <<flowOf, ask, cancelled, timer, stopVars, waitVars,
                   answers, faults, shutdowns>>

\* The subscriber returns without a decision: its context is cancelled, NextMsg
\* fails with something else than a timeout, or the message cannot be parsed.
GiveUpListening(a) ==
    /\ sub[a] = "listening"
    /\ \/ a \in cancelled /\ NoFault
       \/ Fault
    /\ sub' = [sub EXCEPT ![a] = "done"]
    /\ inbox' = [inbox EXCEPT ![a] = {}]
    /\ UNCHANGED <<flowOf, ask, decisionVars, cancelled, timer, stopVars,
                   waitVars, answers, shutdowns>>

-----------------------------------------------------------------------------
(* The timeout timer.                                                      *)

\* The time is up.  A timeout of a second or more gives the subscriber, one
\* goroutine that sends one protocol line, the time to subscribe, and the
\* timer the time to be waiting in its select when the decision is made.
\* Without any time, the two cases of the select may be ready together, and
\* it takes either.
Expire(a) ==
    /\ timer[a] = "armed"
    /\ a \in Impatient \/ (sub[a] # "starting" /\ ~Decided(a))
    /\ timer' = [timer EXCEPT ![a] = "expired"]
    /\ UNCHANGED <<flowOf, ask, decisionVars, subVars, stopVars, waitVars,
                   answers, faults, shutdowns>>

\* The decision's channel is closed before the time is up.
CancelTimer(a) ==
    /\ timer[a] = "armed" /\ Decided(a)
    /\ timer' = [timer EXCEPT ![a] = "cancelled"]
    /\ UNCHANGED <<flowOf, ask, decisionVars, subVars, stopVars, waitVars,
                   answers, faults, shutdowns>>

\* The ErrorResponse is published on the flow's response subject; an error
\* of the publish is ignored.
PublishTimeout(a) ==
    /\ timer[a] = "expired"
    /\ timer' = [timer EXCEPT ![a] = "responded"]
    /\ \/ Deliver(flowOf[a], [code |-> "timeout"]) /\ NoFault
       \/ UNCHANGED inbox /\ Fault
    /\ UNCHANGED <<flowOf, ask, decisionVars, sub, cancelled, stopVars,
                   waitVars, answers, shutdowns>>

\* The flow is failed: the lifecycle event goes to the registry.
PublishFailed(a) ==
    /\ timer[a] = "responded"
    /\ timer' = [timer EXCEPT ![a] = "failed"]
    /\ UNCHANGED <<flowOf, ask, decisionVars, subVars, stopVars, waitVars,
                   answers, faults, shutdowns>>

-----------------------------------------------------------------------------
(* The interjection consumer: resolveDecisionsForFlow, called by           *)
(* handleStop.                                                             *)

\* The ids are collected under the read lock ...
CollectPending(f) ==
    /\ stopping = {} /\ stops < MaxStops
    /\ stopping' = {f}
    /\ stops' = stops + 1
    /\ collected' = {a \in Asks : Registered(a) /\ ~Decided(a)}
    /\ UNCHANGED <<flowOf, ask, decisionVars, subVars, timer, waitVars,
                   answers, faults, shutdowns>>

\* ... and resolved one by one, each under the write lock.
ResolveCollected(a) ==
    /\ a \in collected
    /\ collected' = collected \ {a}
    /\ ResolveTimeout(a)
    /\ UNCHANGED <<flowOf, ask, subVars, timer, stopping, stops, waitVars,
                   answers, faults, shutdowns>>

EndStop ==
    /\ stopping # {} /\ collected = {}
    /\ stopping' = {}
    /\ UNCHANGED <<flowOf, ask, decisionVars, subVars, timer, collected,
                   stops, waitVars, answers, faults, shutdowns>>

-----------------------------------------------------------------------------
(* handleAwaitDecision.  Its two reads of the store may be one step: a     *)
(* channel that is there stays, and stays closed.                          *)

Await(w, a) ==
    /\ waitsFor[w] = {} /\ ask[a] = "returned"
    /\ waitsFor' = [waitsFor EXCEPT ![w] = {a}]
    /\ got' = [got EXCEPT ![w] = verdict[a]]
    /\ UNCHANGED <<flowOf, ask, decisionVars, subVars, timer, stopVars,
                   answers, faults, shutdowns>>

Waiting(w) == waitsFor[w] # {} /\ got[w] = Open

\* The channel is closed: the verdict is read anew.
Wake(w) ==
    /\ Waiting(w)
    /\ \E a \in waitsFor[w] :
          /\ Decided(a)
          /\ got' = [got EXCEPT ![w] = verdict[a]]
    /\ UNCHANGED <<flowOf, ask, decisionVars, subVars, timer, stopVars,
                   waitsFor, answers, faults, shutdowns>>

\* The call's own timeout: decided, as far as the agent is told.
AwaitTimeout(w) ==
    /\ Waiting(w)
    /\ got' = [got EXCEPT ![w] = Blank]
    /\ UNCHANGED <<flowOf, ask, decisionVars, subVars, timer, stopVars,
                   waitsFor, answers, faults, shutdowns>>

-----------------------------------------------------------------------------
(* The environment.                                                        *)

\* A user answers a request on one of the devices, or with `renotify answer`,
\* before or after it is decided: nobody takes it off the other devices.  A
\* device answers in the flow of the request.  The command takes the flow and
\* the request it is given, and asks nobody whether they belong together.
Answer(a, f, c) ==
    /\ ask[a] \notin {"new", "refused"}
    /\ answers < MaxAnswers
    /\ answers' = answers + 1
    /\ Deliver(f, [ask |-> a, choice |-> c])
    /\ UNCHANGED <<flowOf, ask, decisionVars, sub, cancelled, timer, stopVars,
                   waitVars, faults, shutdowns>>

\* Server.Stop cancels the subscribers of this moment; the timers run on.
Shutdown ==
    /\ faults + shutdowns < MaxFaults
    /\ shutdowns' = shutdowns + 1
    /\ cancelled' = cancelled \cup {a \in Asks : sub[a] \in {"starting", "listening"}}
    /\ UNCHANGED <<flowOf, ask, decisionVars, sub, inbox, timer, stopVars,
                   waitVars, answers, faults>>

-----------------------------------------------------------------------------

HandleAsk(a) == Publish(a) \/ Register(a) \/ StartSubscriber(a) \/ StartTimer(a)
Subscriber(a) == Subscribe(a) \/ HandleResponse(a) \/ GiveUpListening(a)
Timer(a) == Expire(a) \/ CancelTimer(a) \/ PublishTimeout(a) \/ PublishFailed(a)
Stop == \/ \E f \in Flows : CollectPending(f)
        \/ \E a \in Asks : ResolveCollected(a)
        \/ EndStop

Next ==
    /\ ~crashed
    /\ \/ \E a \in Asks : HandleAsk(a) \/ Subscriber(a) \/ Timer(a)
       \/ Stop
       \/ \E w \in Waiters, a \in Asks : Await(w, a)
       \/ \E w \in Waiters : Wake(w) \/ AwaitTimeout(w)
       \/ \E a \in Asks, f \in Flows, c \in Choices : Answer(a, f, c)
       \/ Shutdown

Spec == Init /\ [][Next]_vars

\* The goroutines run and time passes for the asks.  No await_decision needs
\* its own timeout, no user needs to answer.
Fairness ==
    /\ \A a \in Asks :
          /\ WF_vars(~crashed /\ (Register(a) \/ StartSubscriber(a) \/ StartTimer(a)))
          /\ WF_vars(~crashed /\ Subscriber(a))
          /\ WF_vars(~crashed /\ Timer(a))
    /\ \A w \in Waiters : WF_vars(~crashed /\ Wake(w))

FairSpec == Spec /\ Fairness

-----------------------------------------------------------------------------
(* Properties.                                                             *)

\* The only second close of a decision's channel is the work of a stop: the
\* timer, the subscriber and any number of answers never collide.
OnlyStopsCrash == crashed => stops > 0

\* The store, the subscribers, the timers, the stops and the waiting calls
\* together keep the promise of DecisionPromise.
Promise == INSTANCE DecisionPromise WITH Answers <- Response, down <- crashed
KeepsPromise == Promise!Spec

\* While nothing fails, an ask that has returned is decided, or what will decide
\* it is on its way: its timer runs, or its subscriber listens and the timer's
\* message, or another, is to come.  So no message on the flow's subject, to this
\* ask or to another, comes and goes between the timer and the subscriber.
DecisionIsDue ==
    faults = 0 /\ shutdowns = 0 =>
        \A a \in Asks \ Impatient :
            ask[a] = "returned" /\ ~Decided(a) =>
                \/ timer[a] = "armed"
                \/ sub[a] = "listening" /\ (timer[a] = "expired" \/ inbox[a] # {})

\* What an agent was given as the answer to its ask is the answer that settled
\* it, and remains so for every other call, until the daemon goes down.
AgentsAgree ==
    \A w \in Waiters :
        got[w] \in Response => crashed \/ \E a \in waitsFor[w] : verdict[a] = got[w]

\* While nothing fails, every ask is decided, with no need of an answer, and
\* so every wait ends, with no need of a timeout of its own.  An ask whose
\* timer may expire before its subscription is excepted.
WaitsEnd ==
    \A w \in Waiters :
        Waiting(w) ~> \/ ~Waiting(w)
                      \/ crashed \/ faults > 0 \/ shutdowns > 0
                      \/ waitsFor[w] \subseteq Impatient

-----------------------------------------------------------------------------
(* What the repository's documents say and the code does not do.           *)

\* docs/analysis-payload-schemas.md, DecisionResource: "Once decided, the
\* resource is immutable."
DecidedIsImmutable ==
    [][\A a \in Asks : Decided(a) => verdict'[a] = verdict[a] /\ ~crashed']_vars

\* docs/renotify-architecture.md: "Each response must route back to the
\* correct pipeline without confusion."
AnswerRoutesToItsAsk ==
    \A a \in Asks : verdict[a] \in Response => verdict[a].ask = a

=============================================================================
