-------------------------- MODULE InterjectionQueue --------------------------
(***************************************************************************)
(* Interjections to MCP flows (cli/internal/mcpserver): a mobile user or   *)
(* `renotify interject` sends a stop or a note to a flow, the daemon's     *)
(* interjection consumer debounces it and puts it into the flow's queue,   *)
(* and the agent takes it from there.                                      *)
(*                                                                         *)
(*   consumer              consumeInterjections: one JetStream message at  *)
(*                         a time: debounce, queue, fail the flow (stop),  *)
(*                         acknowledge                                     *)
(*   check_interjections   drains the queue                                *)
(*   await_interjection    drains the queue or, if it is empty, fetches    *)
(*                         the queue's channel and waits until an Append   *)
(*                         closes it, then drains                          *)
(*                                                                         *)
(* An interjection is its place in the stream.  A pause is handled as a    *)
(* note.  What a stop does to pending decisions is in AskDecision.         *)
(***************************************************************************)
EXTENDS Integers, Sequences, FiniteSets

CONSTANTS
    Flows,          \* flow IDs
    Callers,        \* MCP sessions, one call of either tool at a time
    Window,         \* interjection.debounce_window, in seconds
    MaxDeliver,     \* the consumer's MaxDeliver (3 in the code)
    \* Bounds of the model, none of them in the code:
    MaxTime,        \* the clock stops here
    MaxSends,       \* interjections sent
    MaxFaults,      \* lost acks and iterator errors
    MaxRestarts     \* daemon restarts

ASSUME InterjectionAssumption ==
    /\ Window \in Nat /\ MaxDeliver \in Nat \ {0}
    /\ {MaxTime, MaxSends, MaxFaults, MaxRestarts} \subseteq Nat

Actions == {"stop", "note"}

VARIABLES
    now,            \* wall clock
    opened,         \* flows register_flow has returned an ID for
    stream,         \* interject subjects of the RENOTIFY stream, in order
    cursor,         \* messages 1..cursor have been delivered at least once
    unacked,        \* <<i, n>>: message i was delivered n times, ack missing
    job,            \* <<i, n>>: the delivery the consumer holds
    pc,             \* where the consumer is
    debounce,       \* debounceMap: when an action of a flow was last let by
    registered,     \* InterjectionStore: flows with a queue
    queue,          \* their queues
    at,             \* where each call is
    on,             \* the flow of each call
    stopped,        \* flows failed by a stop
    \* Histories, each since the daemon has been started but the first:
    heard,          \* messages that reached the debounce check
    judged,         \* the same for flows with a queue, with the time
    put,            \* what was put into each queue, with the time
    handed,         \* what was handed to calls, in order
    faults,         \* number of faults so far (bound)
    restarts        \* number of restarts so far (bound)

consumerVars == <<cursor, unacked, job, pc>>
storeVars == <<registered, queue>>
callVars == <<at, on>>
historyVars == <<heard, judged, put, handed>>
vars == <<now, opened, stream, consumerVars, debounce, storeVars, callVars,
          stopped, historyVars, faults, restarts>>

Command == [flow : Flows, action : Actions]
Stamp == [flow : Flows, action : Actions, at : Nat]
Timed == [msg : Nat, at : Nat]
NoJob == <<0, 0>>

TypeOK ==
    /\ now \in Nat
    /\ opened \subseteq Flows
    /\ stream \in Seq(Command)
    /\ cursor \in 0..Len(stream)
    /\ unacked \subseteq (1..cursor) \X (1..(MaxDeliver - 1))
    /\ job \in ((1..cursor) \X (1..MaxDeliver)) \cup {NoJob}
    /\ pc \in {"next", "check", "append", "finish", "done"}
    /\ pc \in {"check", "append", "finish"} => job # NoJob
    /\ debounce \subseteq Stamp
    /\ registered \subseteq opened
    /\ queue \in [Flows -> Seq(Nat)]
    /\ at \in [Callers -> {"idle", "drained", "parked", "woken"}]
    /\ on \in [Callers -> Flows]
    /\ stopped \subseteq Flows
    /\ heard \subseteq 1..Len(stream)
    /\ judged \subseteq Timed
    /\ put \in [Flows -> Seq(Timed)]
    /\ handed \in [Flows -> Seq(Nat)]
    /\ {faults, restarts} \subseteq Nat

Empty == [f \in Flows |-> <<>>]

Init ==
    /\ now = 0 /\ opened = {} /\ stream = <<>>
    /\ cursor = 0 /\ unacked = {} /\ job = NoJob /\ pc = "next"
    /\ debounce = {}
    /\ registered = {} /\ queue = Empty
    /\ at = [c \in Callers |-> "idle"]
    /\ on \in [Callers -> Flows]
    /\ stopped = {}
    /\ heard = {} /\ judged = {} /\ put = Empty /\ handed = Empty
    /\ faults = 0 /\ restarts = 0

NoFault == faults' = faults
Fault == faults < MaxFaults /\ faults' = faults + 1

-----------------------------------------------------------------------------
(* The InterjectionStore, every method under its mutex.                    *)

\* register_flow: a queue, and the flow's ID goes out to the devices.
Register(f) ==
    /\ f \notin opened
    /\ opened' = opened \cup {f}
    /\ registered' = registered \cup {f}
    /\ UNCHANGED <<now, stream, consumerVars, debounce, queue, callVars,
                   stopped, historyVars, faults, restarts>>

\* terminate_flow.  A call parked on the queue's channel stays parked.
Remove(f) ==
    /\ f \in registered
    /\ registered' = registered \ {f}
    /\ queue' = [queue EXCEPT ![f] = <<>>]
    /\ UNCHANGED <<now, opened, stream, consumerVars, debounce, callVars,
                   stopped, historyVars, faults, restarts>>

\* The item is queued and the channel closed: all calls parked on it wake.
\* The next ones will wait on a new channel.
Put(f, i) ==
    IF f \in registered
    THEN /\ queue' = [queue EXCEPT ![f] = Append(@, i)]
         /\ put' = [put EXCEPT ![f] = Append(@, [msg |-> i, at |-> now])]
         /\ at' = [c \in Callers |-> IF at[c] = "parked" /\ on[c] = f
                                     THEN "woken" ELSE at[c]]
    ELSE UNCHANGED <<queue, put, at>>

\* Mutant: the items are copied out and the queue is left.
Peek(f) ==
    /\ handed' = [handed EXCEPT ![f] = @ \o queue[f]]
    /\ queue' = queue

\* Drain: all of the queue goes to the call.
Drain(f) ==
    /\ handed' = [handed EXCEPT ![f] = @ \o queue[f]]
    /\ queue' = [queue EXCEPT ![f] = <<>>]

-----------------------------------------------------------------------------
(* The consumer goroutine.                                                 *)

\* Mutant: acknowledged as soon as it is fetched.
AckOnFetch(d) == unacked

\* Mutant: deliveries without end.
RequeueForever(d) == unacked \cup {d}

\* A delivery that goes unacknowledged is tried again unless it was the last.
Requeue(d) == IF d[2] < MaxDeliver THEN unacked \cup {d} ELSE unacked

FetchNew ==
    /\ pc = "next" /\ cursor < Len(stream)
    /\ cursor' = cursor + 1
    /\ job' = <<cursor + 1, 1>>
    /\ pc' = "check"
    /\ UNCHANGED <<now, opened, stream, unacked, debounce, storeVars, callVars,
                   stopped, historyVars, faults, restarts>>

FetchRedelivered ==
    /\ pc = "next"
    /\ \E u \in unacked :
          /\ unacked' = unacked \ {u}
          /\ job' = <<u[1], u[2] + 1>>
    /\ pc' = "check"
    /\ UNCHANGED <<now, opened, stream, cursor, debounce, storeVars, callVars,
                   stopped, historyVars, faults, restarts>>

\* iter.Next fails while the daemon runs on: the goroutine returns, for good.
ConsumerQuits ==
    /\ pc = "next" /\ pc' = "done" /\ Fault
    /\ UNCHANGED <<now, opened, stream, cursor, unacked, job, debounce,
                   storeVars, callVars, stopped, historyVars, restarts>>

\* msg.Ack, in time or not.
Ack == /\ pc' = "next" /\ job' = NoJob
       /\ \/ UNCHANGED unacked /\ NoFault
          \/ unacked' = Requeue(job) /\ Fault

\* Mutant: one window for all the actions of a flow.
RepeatOfFlow(m) ==
    \E d \in debounce : d.flow = m.flow /\ now - d.at < Window

\* debounceMap.check: the same action of the same flow was let by within the
\* window.
Repeat(m) ==
    \E d \in debounce :
        d.flow = m.flow /\ d.action = m.action /\ now - d.at < Window

\* The map holds the last time of each action of each flow.
Remember(m) ==
    debounce' = {d \in debounce : d.flow # m.flow \/ d.action # m.action}
                \cup {[flow |-> m.flow, action |-> m.action, at |-> now]}

\* The flow is failed: a lifecycle event for the registry.
Fail(m) ==
    stopped' = IF m.action = "stop" THEN stopped \cup {m.flow} ELSE stopped

\* Mutant: a stop fails its flow before it is queued.
FailAtOnce(m) ==
    /\ Remember(m) /\ Fail(m)
    /\ pc' = "append"
    /\ UNCHANGED <<job, unacked>> /\ NoFault

\* Not a repeat: it is remembered in the map, recorded in the ledger, whose
\* error is ignored, and handled.
LetBy(m) ==
    /\ Remember(m) /\ UNCHANGED stopped
    /\ pc' = "append"
    /\ UNCHANGED <<job, unacked>> /\ NoFault

\* A repeat is acknowledged and dropped.
CheckDebounce ==
    /\ pc = "check"
    /\ LET m == stream[job[1]] IN
       /\ heard' = heard \cup {job[1]}
       /\ judged' = IF m.flow \in registered
                    THEN judged \cup {[msg |-> job[1], at |-> now]}
                    ELSE judged
       /\ IF Repeat(m) THEN Ack /\ UNCHANGED <<debounce, stopped>> ELSE LetBy(m)
    /\ UNCHANGED <<now, opened, stream, cursor, storeVars, callVars, put,
                   handed, restarts>>

\* handleStop and handleNote: the item is queued first ...
AppendItem ==
    /\ pc = "append" /\ pc' = "finish"
    /\ Put(stream[job[1]].flow, job[1])
    /\ UNCHANGED <<now, opened, stream, cursor, unacked, job, debounce,
                   registered, on, stopped, heard, judged, handed, faults,
                   restarts>>

\* ... and then, for a stop, the flow is failed and its asks are settled.
Finish ==
    /\ pc = "finish"
    /\ Fail(stream[job[1]])
    /\ Ack
    /\ UNCHANGED <<now, opened, stream, cursor, debounce, storeVars, callVars,
                   historyVars, restarts>>

-----------------------------------------------------------------------------
(* The agents' calls.                                                      *)

\* check_interjections
Check(c, f) ==
    /\ at[c] = "idle"
    /\ Drain(f)
    /\ UNCHANGED <<now, opened, stream, consumerVars, debounce, registered,
                   callVars, stopped, heard, judged, put, faults, restarts>>

\* await_interjection: a first look at the queue, under the mutex.
AwaitDrain(c, f) ==
    /\ at[c] = "idle"
    /\ at' = [at EXCEPT ![c] = IF queue[f] = <<>> THEN "drained" ELSE "idle"]
    /\ on' = [on EXCEPT ![c] = f]
    /\ Drain(f)
    /\ UNCHANGED <<now, opened, stream, consumerVars, debounce, registered,
                   stopped, heard, judged, put, faults, restarts>>

\* Then, under the mutex again, the channel, which a flow that is not (or no
\* longer) registered does not have.
AwaitPark(c) ==
    /\ at[c] = "drained"
    /\ at' = [at EXCEPT ![c] = IF on[c] \in registered THEN "parked" ELSE "idle"]
    /\ UNCHANGED <<now, opened, stream, consumerVars, debounce, storeVars, on,
                   stopped, historyVars, faults, restarts>>

\* The channel was closed.  Another call may have been faster: then the
\* result is empty.
AwaitWake(c) ==
    /\ at[c] = "woken"
    /\ at' = [at EXCEPT ![c] = "idle"]
    /\ Drain(on[c])
    /\ UNCHANGED <<now, opened, stream, consumerVars, debounce, registered, on,
                   stopped, heard, judged, put, faults, restarts>>

\* The timeout.  A call whose channel is closed may still take this branch.
AwaitTimeout(c) ==
    /\ at[c] \in {"parked", "woken"}
    /\ at' = [at EXCEPT ![c] = "idle"]
    /\ UNCHANGED <<now, opened, stream, consumerVars, debounce, storeVars, on,
                   stopped, historyVars, faults, restarts>>

-----------------------------------------------------------------------------
(* The environment.                                                        *)

\* A device, or `renotify interject`, whose message ID carries the
\* milliseconds: two of its messages are never duplicates.
Send(m) ==
    /\ m.flow \in opened
    /\ Len(stream) < MaxSends
    /\ stream' = Append(stream, m)
    /\ UNCHANGED <<now, opened, consumerVars, debounce, storeVars, callVars,
                   stopped, historyVars, faults, restarts>>

Tick ==
    /\ now < MaxTime
    /\ now' = now + 1
    /\ UNCHANGED <<opened, stream, consumerVars, debounce, storeVars, callVars,
                   stopped, historyVars, faults, restarts>>

\* The stream is in memory: it is gone with the embedded broker, and when a
\* shared broker restarts.  A shared broker that runs on keeps it, with the
\* consumer's position, or without it if the daemon was away longer than the
\* consumer's InactiveThreshold.
LoseStream ==
    /\ stream' = <<>> /\ cursor' = 0 /\ unacked' = {} /\ heard' = {}
KeepPosition ==
    /\ unacked' = IF job = NoJob THEN unacked ELSE Requeue(job)
    /\ UNCHANGED <<stream, cursor, heard>>
LosePosition ==
    /\ cursor' = 0 /\ unacked' = {}
    /\ UNCHANGED <<stream, heard>>

\* The queues and the debounce map live in memory, and calls end with the
\* daemon.
Restart ==
    /\ restarts < MaxRestarts
    /\ restarts' = restarts + 1
    /\ LoseStream \/ KeepPosition \/ LosePosition
    /\ job' = NoJob /\ pc' = "next"
    /\ debounce' = {}
    /\ registered' = {} /\ queue' = Empty
    /\ at' = [c \in Callers |-> "idle"]
    /\ judged' = {} /\ put' = Empty /\ handed' = Empty
    /\ UNCHANGED <<now, opened, on, stopped, faults>>

-----------------------------------------------------------------------------

Consumer == FetchNew \/ FetchRedelivered \/ CheckDebounce \/ AppendItem \/ Finish
Calls(c) == \/ \E f \in opened : Check(c, f) \/ AwaitDrain(c, f)
            \/ AwaitPark(c) \/ AwaitWake(c) \/ AwaitTimeout(c)

Next ==
    \/ \E f \in Flows : Register(f) \/ Remove(f)
    \/ Consumer
    \/ ConsumerQuits
    \/ \E c \in Callers : Calls(c)
    \/ \E m \in Command : Send(m)
    \/ Tick
    \/ Restart

Spec == Init /\ [][Next]_vars

\* The consumer goroutine is scheduled.  Nothing is assumed of users, agents,
\* the clock and restarts.
FairSpec == Spec /\ WF_vars(Consumer)

-----------------------------------------------------------------------------
(* Properties.                                                             *)

\* What is put into a queue is handed to exactly one call, in order, or still
\* there: overlapping calls neither share an item nor lose one between them.
EachToOneCall ==
    \A f \in registered :
        handed[f] \o queue[f] = [k \in DOMAIN put[f] |-> put[f][k].msg]

\* The map and the queues agree: an interjection to a flow with a queue is in
\* it, or about to be, or the same action was put there less than a window
\* before.  So no stop is swallowed by a note, or by a stop nobody was shown.
DroppedOnlyRepeats ==
    \A j \in judged :
        LET m == stream[j.msg] IN
        \/ m.flow \notin registered
        \/ pc = "append" /\ job[1] = j.msg
        \/ \E k \in DOMAIN put[m.flow] :
              /\ stream[put[m.flow][k].msg].action = m.action
              /\ \/ put[m.flow][k].msg = j.msg
                 \/ put[m.flow][k].at <= j.at /\ j.at < put[m.flow][k].at + Window

\* A flow is not failed for a stop before the stop is where the agent, woken
\* by its settled ask or by the flow's end, can find it.
StopIsShownFirst ==
    \A f \in stopped \cap registered :
        \E k \in DOMAIN put[f] : stream[put[f][k].msg].action = "stop"

\* The queues, the consumer and the overlapping calls together are what an
\* agent may take them for: a mailbox (Mailbox) that is there once, and out of
\* which every interjection goes to one call.
Box == INSTANCE Mailbox WITH
          Items <- 1..MaxSends,
          open <- registered, used <- opened, box <- queue, given <- handed
KeepsMailboxes == Box!Spec

\* An interjection that the consumer has not looked at is ahead of it, in its
\* hand or delivered once more.  Acknowledgements are lost only after that, so
\* only restarts use up its deliveries, and it takes MaxDeliver of them.
NoneIsLost ==
    restarts < MaxDeliver =>
        \A i \in DOMAIN stream :
            \/ i \in heard \/ i > cursor
            \/ pc = "check" /\ job[1] = i
            \/ \E u \in unacked : u[1] = i

\* Every interjection is heard in the end, over lost acks and restarts of the
\* daemon, unless it is lost with the embedded broker's stream, the consumer
\* goroutine has ended, or restarts have used up its deliveries.
AllAreHeard ==
    \A i \in 1..MaxSends :
        i \in DOMAIN stream ~>
            \/ i \in heard \/ i \notin DOMAIN stream
            \/ pc = "done" \/ restarts >= MaxDeliver

-----------------------------------------------------------------------------
(* What the repository's documents say and the code does not do.           *)

\* cli/internal/mcpserver/tool_interject.go: await_interjection "Blocks until
\* an interjection arrives or the timeout expires."  So no call is blocked on
\* a flow that has an interjection waiting.
ParkedMeansEmpty ==
    \A c \in Callers : at[c] = "parked" => queue[on[c]] = <<>>

=============================================================================
