------------------------------- MODULE CliAsk -------------------------------
(***************************************************************************)
(* Notifications from the command that publishes one to the history that   *)
(* records it: the processes of `renotify ask`, `renotify post` and        *)
(* `renotify dispatch` (cli/internal/command), the ask tool of the MCP     *)
(* server as far as it writes to the ledger, the users who answer, and the *)
(* registry consumer that puts requests and responses into the ledger      *)
(* (cli/internal/registry/lifecycle.go).                                   *)
(*                                                                         *)
(* A command is named by its notification.  "ask" is `renotify ask`,       *)
(* "permission" the PermissionRequest hook of dispatch, "post" is          *)
(* `renotify post` and the Notification hook; each has a flow of its own.  *)
(* "mcp" is a call of the ask tool, in any flow that is known.             *)
(*                                                                         *)
(* A message is routed by the subject of its flow.  Nobody compares the    *)
(* request it names with the one that was asked: a command takes what      *)
(* comes on its flow, and the history files it under the request.          *)
(*                                                                         *)
(* What the lifecycle events do to the flow registry is FlowRegistry; the  *)
(* decisions and stops of MCP asks are AskDecision.                        *)
(***************************************************************************)
EXTENDS NotificationLedger, Naturals, FiniteSets, Sequences

CONSTANTS
    Flows,
    Kinds,          \* the kind of each command; several ways to choose them
    Picks,          \* what a user may pick on a notification
    Deny,           \* the two picks every permission request offers;
    AllowOnce,      \* the others are its permission suggestions
    LabelOf,        \* the label of each pick: the text of the answer
    \* Bounds of the model, none of them in the code:
    MaxAnswers,     \* messages the users send
    MaxInterjects,  \* interjections sent to one command
    MaxTroubles     \* failed publishes and statements, lost acknowledgements,
                    \* broken connections, killed processes, restarts

AllKinds == {"ask", "permission", "post", "mcp"}

\* On a request subject; on a response subject, a NotificationResponse, an
\* ErrorResponse, and what cannot be parsed.
Request == [type : {"request"}, of : Notifications]
Response == [type : {"response"}, flow : Flows, of : Notifications, pick : Picks]
Refusal == [type : {"error", "garbled"}, flow : Flows]
Message == Request \cup Response \cup Refusal

ASSUME CliAssumption ==
    /\ Kinds \subseteq [Notifications -> AllKinds]
    /\ {Deny, AllowOnce} \subseteq Picks
    /\ LabelOf \in [Picks -> Answers]
    /\ {MaxAnswers, MaxInterjects, MaxTroubles} \subseteq Nat
    /\ None \notin Response \cup Refusal

VARIABLES
    kind, flowOf,   \* the kind and the flow of each command
    step,           \* how far each command is
    outcome,        \* how it ended
    start,          \* length of the stream when it began to listen
    heard,          \* what it has received on its flow, None before
    patience,       \* the users have time: the timeout has not passed
    due,            \* length of the stream when it passed
    cut,            \* commands whose connection is gone
    interjects,     \* interjections delivered to a command, not yet handled
    events,         \* what it has published on the lifecycle subject
    log,            \* the stream: requests, and messages to the flows
    consumer,       \* the goroutine of the registry consumer
    pos,            \* its position in the stream
    unacked,        \* messages applied whose acknowledgement was lost
    sent, interjected, errors, lostAcks, faults, restarts   \* bounds

fixedVars == <<kind, flowOf>>
cmdVars == <<step, outcome, start, heard, patience, due, cut, interjects, events>>
consumerVars == <<consumer, pos, unacked>>
boundVars == <<sent, interjected, errors, lostAcks, faults, restarts>>
vars == <<fixedVars, cmdVars, log, consumerVars, boundVars, ledgerVars>>

Steps == {"new", "listening", "announced", "requested", "recorded",
          "waiting", "done"}
Outcomes == {"none", "answered", "sent", "timeout", "stopped", "interrupted",
             "refused", "error", "killed"}
Interjections == {"stop", "note", "garbled"}

TypeOK ==
    /\ LedgerTypeOK
    /\ kind \in Kinds
    /\ flowOf \in [Notifications -> Flows]
    /\ step \in [Notifications -> Steps]
    /\ outcome \in [Notifications -> Outcomes]
    /\ start \in [Notifications -> Nat]
    /\ heard \in [Notifications -> Response \cup Refusal \cup {None}]
    /\ patience \subseteq Notifications
    /\ due \in [Notifications -> Nat]
    /\ cut \subseteq Notifications
    /\ interjects \in [Notifications -> Seq(Interjections)]
    /\ events \in [Notifications -> Seq({"active", "completed", "failed"})]
    /\ log \in Seq(Message)
    /\ consumer \in {"running", "quit"}
    /\ pos \in 0..Len(log)
    /\ unacked \subseteq 1..pos
    /\ interjected \in [Notifications -> Nat]
    /\ {sent, errors, lostAcks, faults, restarts} \subseteq Nat

\* Only a call of the ask tool may be in the flow of another command.
FlowsAreOwn ==
    \A m, n \in Notifications :
        m # n /\ flowOf[m] = flowOf[n] => "mcp" \in {kind[m], kind[n]}

Init ==
    /\ LedgerInit
    /\ kind \in Kinds /\ flowOf \in [Notifications -> Flows] /\ FlowsAreOwn
    /\ step = [n \in Notifications |-> "new"]
    /\ outcome = [n \in Notifications |-> "none"]
    /\ start = [n \in Notifications |-> 0]
    /\ heard = [n \in Notifications |-> None]
    /\ patience = Notifications
    /\ due = [n \in Notifications |-> 0]
    /\ cut = {}
    /\ interjects = [n \in Notifications |-> <<>>]
    /\ events = [n \in Notifications |-> <<>>]
    /\ log = <<>>
    /\ consumer = "running"
    /\ pos = 0
    /\ unacked = {}
    /\ interjected = [n \in Notifications |-> 0]
    /\ sent = 0 /\ errors = 0 /\ lostAcks = 0 /\ faults = 0 /\ restarts = 0

\* Something goes wrong: the statements, the acknowledgements and the restarts
\* that do are counted apart.
Trouble == errors + lostAcks + faults + restarts < MaxTroubles

Fault == Trouble /\ faults' = faults + 1
NoFault == faults' = faults

RequestOf(n) == [type |-> "request", of |-> n]

\* Where the stream has messages on the response subject of a flow.
Replies(f) == {i \in 1..Len(log) : log[i].type # "request" /\ log[i].flow = f}

\* Where it has responses to a request, on whatever flow.
Responses(r) == {i \in 1..Len(log) : log[i].type = "response" /\ log[i].of = r}

\* The users and the ask tool know a flow when it has been announced.
Known(f) ==
    \A n \in Notifications : kind[n] # "mcp" /\ flowOf[n] = f => events[n] # <<>>

-----------------------------------------------------------------------------
(* The steps of a command.                                                 *)

To(n, s) == step' = [step EXCEPT ![n] = s] /\ UNCHANGED outcome
End(n, o) == /\ step' = [step EXCEPT ![n] = "done"]
             /\ outcome' = [outcome EXCEPT ![n] = o]

\* A publish on the flow's lifecycle or request subject.  It fails on a
\* broken connection, and may fail on any other.
Reaches(n) == n \notin cut /\ NoFault
Misses(n) == IF n \in cut THEN NoFault ELSE Fault

\* A last lifecycle event: an error of its publish is ignored.
Announce(n, s) ==
    \/ Reaches(n) /\ events' = [events EXCEPT ![n] = Append(@, s)]
    \/ Misses(n) /\ UNCHANGED events

\* Ephemeral consumers that deliver what is published from now on; ask and
\* dispatch create them before they publish anything.
Listen(n) ==
    /\ step[n] = "new" /\ kind[n] \in {"ask", "permission"}
    /\ \/ Reaches(n) /\ To(n, "listening")
       \/ Misses(n) /\ End(n, "error")
    /\ start' = [start EXCEPT ![n] = Len(log)]
    /\ UNCHANGED <<fixedVars, heard, patience, due, cut, interjects, events, log,
                   consumerVars, ledgerVars, sent, interjected, errors,
                   lostAcks, restarts>>

\* The active event.  post listens to nobody.
Open(n) ==
    /\ \/ step[n] = "listening"
       \/ step[n] = "new" /\ kind[n] = "post"
    /\ \/ /\ Reaches(n) /\ To(n, "announced")
          /\ events' = [events EXCEPT ![n] = Append(@, "active")]
       \/ Misses(n) /\ End(n, "error") /\ UNCHANGED events
    /\ UNCHANGED <<fixedVars, start, heard, patience, due, cut, interjects, log,
                   consumerVars, ledgerVars, sent, interjected, errors,
                   lostAcks, restarts>>

\* Mutant: the consumers are created after the request, and miss what is
\* published before they are.
RequestThenListen(n) ==
    /\ step[n] = "announced"
    /\ \/ /\ Reaches(n)
          /\ To(n, IF kind[n] = "post" THEN "requested" ELSE "waiting")
          /\ log' = Append(log, RequestOf(n))
       \/ Misses(n) /\ End(n, "error") /\ UNCHANGED log
    /\ \E k \in 0..MaxAnswers : start' = [start EXCEPT ![n] = Len(log') + k]
    /\ UNCHANGED <<fixedVars, heard, patience, due, cut, interjects, events,
                   consumerVars, ledgerVars, sent, interjected, errors,
                   lostAcks, restarts>>

\* The request; then the safety timer and the goroutines that pump the
\* messages of the consumers into channels are started.  If it cannot be
\* published the flow stays open: there is no failed event on this path.
PublishRequest(n) ==
    /\ step[n] = "announced"
    /\ \/ /\ Reaches(n)
          /\ To(n, IF kind[n] = "post" THEN "requested" ELSE "waiting")
          /\ log' = Append(log, RequestOf(n))
       \/ Misses(n) /\ End(n, "error") /\ UNCHANGED log
    /\ UNCHANGED <<fixedVars, start, heard, patience, due, cut, interjects, events,
                   consumerVars, ledgerVars, sent, interjected, errors,
                   lostAcks, restarts>>

\* post ends its flow.  `renotify post` reports an error of this publish, the
\* hook ignores it.
ClosePost(n) ==
    /\ step[n] = "requested" /\ kind[n] = "post"
    /\ \/ /\ Reaches(n) /\ End(n, "sent")
          /\ events' = [events EXCEPT ![n] = Append(@, "completed")]
       \/ /\ Misses(n) /\ UNCHANGED events
          /\ \E o \in {"sent", "error"} : End(n, o)
    /\ UNCHANGED <<fixedVars, start, heard, patience, due, cut, interjects, log,
                   consumerVars, ledgerVars, sent, interjected, errors,
                   lostAcks, restarts>>

-----------------------------------------------------------------------------
(* The wait loop of ask and dispatch.                                      *)

Waits(n) == step[n] = "waiting" /\ kind[n] \in {"ask", "permission"}

\* The response consumer delivers, and pumpMessages puts the message into the
\* channel; the command handles one and exits.
Deliver(n) ==
    /\ Waits(n) /\ n \notin cut /\ heard[n] = None
    /\ \E i \in Replies(flowOf[n]) :
          /\ i > start[n]
          /\ \A j \in Replies(flowOf[n]) : j > start[n] => i <= j
          /\ heard' = [heard EXCEPT ![n] = log[i]]
    /\ UNCHANGED <<fixedVars, step, outcome, start, patience, due, cut, interjects,
                   events, log, consumerVars, boundVars, ledgerVars>>

\* Mutant: the flow is ended before the answer is looked at, and reported.
DropResponse(n) ==
    /\ Waits(n) /\ heard[n] # None
    /\ \/ heard[n].type = "response" /\ End(n, "answered")
       \/ heard[n].type = "error" /\ End(n, "refused")
       \/ heard[n].type = "garbled" /\ End(n, "error")
    /\ UNCHANGED events /\ NoFault
    /\ UNCHANGED <<fixedVars, start, heard, patience, due, cut, interjects, log,
                   consumerVars, ledgerVars, sent, interjected, errors,
                   lostAcks, restarts>>

\* The hook fails its flow; ask leaves it open.
GiveUp(n, o) ==
    /\ End(n, o)
    /\ \/ kind[n] = "permission" /\ Announce(n, "failed")
       \/ kind[n] = "ask" /\ UNCHANGED <<events, faults>>

\* handleResponse, handlePermissionResponse: the completed event, the answer
\* or the hook's decision on stdout, exit code 0; or an error.
HandleResponse(n) ==
    /\ Waits(n) /\ heard[n] # None
    /\ \/ heard[n].type = "response" /\ Announce(n, "completed") /\ End(n, "answered")
       \/ heard[n].type = "error" /\ GiveUp(n, "refused")
       \/ heard[n].type = "garbled" /\ GiveUp(n, "error")
    /\ UNCHANGED <<fixedVars, start, heard, patience, due, cut, interjects, log,
                   consumerVars, ledgerVars, sent, interjected, errors,
                   lostAcks, restarts>>

\* handleInterjection.  A stop fails the flow, a note is printed, and what
\* cannot be parsed ends the command without a word to its flow.
HandleInterjection(n) ==
    /\ Waits(n) /\ interjects[n] # <<>>
    /\ interjects' = [interjects EXCEPT ![n] = Tail(@)]
    /\ \/ Head(interjects[n]) = "stop" /\ Announce(n, "failed") /\ End(n, "stopped")
       \/ Head(interjects[n]) = "note" /\ UNCHANGED <<step, outcome, events, faults>>
       \/ Head(interjects[n]) = "garbled" /\ End(n, "error") /\ UNCHANGED <<events, faults>>
    /\ UNCHANGED <<fixedVars, start, heard, patience, due, cut, log,
                   consumerVars, ledgerVars, sent, interjected, errors,
                   lostAcks, restarts>>

\* The timeout of the ask passes.
Impatience(n) ==
    /\ Waits(n) /\ n \in patience
    /\ patience' = patience \ {n}
    /\ due' = [due EXCEPT ![n] = Len(log)]
    /\ UNCHANGED <<fixedVars, step, outcome, start, heard, cut, interjects, events,
                   log, consumerVars, boundVars, ledgerVars>>

\* The messages that were published in time and are still under way.
UnderWay(n) == {i \in Replies(flowOf[n]) : i > start[n] /\ i <= due[n]}

\* Mutant: the timer is stopped when the connection breaks.
TimerOfConnection(n) ==
    /\ Waits(n) /\ n \notin patience
    /\ n \notin cut /\ UnderWay(n) = {}
    /\ Announce(n, "failed") /\ End(n, "timeout")
    /\ UNCHANGED <<fixedVars, start, heard, patience, due, cut, interjects, log,
                   consumerVars, ledgerVars, sent, interjected, errors,
                   lostAcks, restarts>>

\* The safety timer runs for the timeout and a grace period.  The grace
\* period is the time a message needs at most: what was answered in time has
\* arrived by then, and been handled.
SafetyTimer(n) ==
    /\ Waits(n) /\ n \notin patience
    /\ n \in cut \/ UnderWay(n) = {}
    /\ Announce(n, "failed") /\ End(n, "timeout")
    /\ UNCHANGED <<fixedVars, start, heard, patience, due, cut, interjects, log,
                   consumerVars, ledgerVars, sent, interjected, errors,
                   lostAcks, restarts>>

\* SIGINT or SIGTERM.
Interrupt(n) ==
    /\ Waits(n)
    /\ Announce(n, "failed") /\ End(n, "interrupted")
    /\ UNCHANGED <<fixedVars, start, heard, patience, due, cut, interjects, log,
                   consumerVars, ledgerVars, sent, interjected, errors,
                   lostAcks, restarts>>

\* The process is killed.  The calls of the ask tool live in the daemon.
Kill(n) ==
    /\ step[n] \notin {"new", "done"} /\ kind[n] # "mcp"
    /\ Fault /\ End(n, "killed")
    /\ UNCHANGED <<fixedVars, start, heard, patience, due, cut, interjects, events,
                   log, consumerVars, ledgerVars, sent, interjected, errors,
                   lostAcks, restarts>>

\* The connection breaks.  MaxReconnects(0): it is closed for good, the pumps
\* return, and the command waits for its timer.
Disconnect(n) ==
    /\ step[n] \notin {"new", "done"} /\ kind[n] # "mcp" /\ n \notin cut
    /\ Fault /\ cut' = cut \cup {n}
    /\ UNCHANGED <<fixedVars, step, outcome, start, heard, patience, due,
                   interjects, events, log, consumerVars, ledgerVars, sent,
                   interjected, errors, lostAcks, restarts>>

-----------------------------------------------------------------------------
(* The hook's decision: the switch of handlePermissionResponse.            *)

Suggestions == Picks \ {Deny, AllowOnce}

\* matchSuggestion: a suggestion with the label.  A label nobody offered
\* allows without updating permissions.
matchSuggestion(l) ==
    IF \E s \in Suggestions : LabelOf[s] = l
    THEN CHOOSE s \in Suggestions : LabelOf[s] = l
    ELSE AllowOnce

Decision(l) ==
    IF l = LabelOf[Deny] THEN Deny
    ELSE IF l = LabelOf[AllowOnce] THEN AllowOnce
    ELSE matchSuggestion(l)

-----------------------------------------------------------------------------
(* The ask tool.  Its records reach the ledger on two paths: the stream,   *)
(* and requests to the svc.insert-* endpoints, whose errors are ignored.   *)

\* A statement of the ledger, or its failure.
Statement(S) ==
    \/ S /\ UNCHANGED errors
    \/ Trouble /\ errors' = errors + 1 /\ StatementFails

McpRequest(n) ==
    /\ step[n] = "new" /\ kind[n] = "mcp" /\ Known(flowOf[n])
    /\ To(n, "requested")
    /\ log' = Append(log, RequestOf(n))
    /\ UNCHANGED <<fixedVars, start, heard, patience, due, cut, interjects, events,
                   consumerVars, boundVars, ledgerVars>>

McpInsertRequest(n) ==
    /\ step[n] = "requested" /\ kind[n] = "mcp"
    /\ To(n, "recorded")
    /\ Statement(InsertRequest(n))
    /\ UNCHANGED <<fixedVars, start, heard, patience, due, cut, interjects, events,
                   log, consumerVars, sent, interjected, lostAcks, faults,
                   restarts>>

\* The response subscriber subscribes to the flow's response subject, and the
\* timer starts.
McpListen(n) ==
    /\ step[n] = "recorded"
    /\ To(n, "waiting")
    /\ start' = [start EXCEPT ![n] = Len(log)]
    /\ UNCHANGED <<fixedVars, heard, patience, due, cut, interjects, events, log,
                   consumerVars, boundVars, ledgerVars>>

\* handleResponse.  A response resolves the decision of this ask and is
\* inserted under the request it names; the rest is not recorded.
McpHandleResponse(n) ==
    /\ step[n] = "waiting" /\ kind[n] = "mcp" /\ heard[n] # None
    /\ \/ /\ heard[n].type = "response" /\ End(n, "answered")
          /\ \E checked \in BOOLEAN :
                Statement(InsertResponse(heard[n].of, LabelOf[heard[n].pick], checked))
       \/ /\ heard[n].type = "error" /\ End(n, "timeout")
          /\ UNCHANGED <<ledgerVars, errors>>
       \/ /\ heard[n].type = "garbled" /\ End(n, "error")
          /\ UNCHANGED <<ledgerVars, errors>>
    /\ UNCHANGED <<fixedVars, start, heard, patience, due, cut, interjects, events,
                   log, consumerVars, sent, interjected, lostAcks, faults,
                   restarts>>

\* Every response subscriber of the flow that still listens hears a message
\* when it is published, whatever becomes of it in the stream.
Broadcast(m) ==
    heard' = [n \in Notifications |->
                 IF /\ kind[n] = "mcp" /\ step[n] = "waiting"
                    /\ heard[n] = None /\ flowOf[n] = m.flow
                 THEN m ELSE heard[n]]

\* The timer of an ask that nobody has resolved publishes an ErrorResponse to
\* the flow, and fails it.
McpTimeout(n) ==
    /\ kind[n] = "mcp" /\ n \in patience
    /\ step[n] = "waiting" \/ outcome[n] = "error"
    /\ patience' = patience \ {n}
    /\ LET m == [type |-> "error", flow |-> flowOf[n]]
       IN  \/ /\ Reaches(n)
              /\ log' = Append(log, m) /\ Broadcast(m)
              /\ events' = [events EXCEPT ![n] = Append(@, "failed")]
           \/ /\ Misses(n)
              /\ UNCHANGED <<log, heard, events>>
    /\ UNCHANGED <<fixedVars, step, outcome, start, due, cut, interjects,
                   consumerVars, ledgerVars, sent, interjected, errors, lostAcks,
                   restarts>>

-----------------------------------------------------------------------------
(* The users.                                                              *)

\* A user answers, on a device or with `renotify answer`, which is given the
\* flow and the request and checks neither.  The message ID of an answer names
\* the request: the stream drops one that follows another within two minutes,
\* and only the subscribers hear it.
Answer(f, r, p) ==
    /\ Known(f)
    /\ r \in requests \/ \E i \in 1..Len(log) : log[i] = RequestOf(r)
    /\ sent < MaxAnswers
    /\ sent' = sent + 1
    /\ LET m == [type |-> "response", flow |-> f, of |-> r, pick |-> p]
       IN  /\ \/ log' = Append(log, m)
              \/ Responses(r) # {} /\ UNCHANGED log
           /\ Broadcast(m)
    /\ UNCHANGED <<fixedVars, step, outcome, start, patience, due, cut, interjects,
                   events, consumerVars, ledgerVars, interjected, errors,
                   lostAcks, faults, restarts>>

\* Somebody publishes what is no message on a response subject.
Garble(f) ==
    /\ Known(f) /\ sent < MaxAnswers
    /\ sent' = sent + 1
    /\ LET m == [type |-> "garbled", flow |-> f]
       IN  log' = Append(log, m) /\ Broadcast(m)
    /\ UNCHANGED <<fixedVars, step, outcome, start, patience, due, cut, interjects,
                   events, consumerVars, ledgerVars, interjected, errors,
                   lostAcks, faults, restarts>>

\* An interjection reaches the consumer of an ask.  dispatch has none: it
\* does not notice a stop.
Interject(n, i) ==
    /\ Waits(n) /\ kind[n] = "ask" /\ n \notin cut
    /\ interjected[n] < MaxInterjects
    /\ interjected' = [interjected EXCEPT ![n] = @ + 1]
    /\ interjects' = [interjects EXCEPT ![n] = Append(@, i)]
    /\ UNCHANGED <<fixedVars, step, outcome, start, heard, patience, due, cut,
                   events, log, consumerVars, ledgerVars, sent, errors, lostAcks,
                   faults, restarts>>

-----------------------------------------------------------------------------
(* The registry consumer: processMessage on requests and responses.        *)

\* processRequest, processResponse.
Store(m) ==
    \/ m.type = "request" /\ Statement(InsertRequest(m.of))
    \/ /\ m.type = "response"
       /\ \E checked \in BOOLEAN :
             Statement(InsertResponse(m.of, LabelOf[m.pick], checked))
    \/ m.type \in {"error", "garbled"} /\ UNCHANGED <<ledgerVars, errors>>

\* Mutant: the consumer is created with DeliverLast, and skips to the end.
ProcessLast ==
    /\ consumer = "running" /\ pos < Len(log)
    /\ pos' = Len(log)
    /\ Store(log[Len(log)])
    /\ UNCHANGED <<unacked, lostAcks>>
    /\ UNCHANGED <<fixedVars, cmdVars, log, consumer, sent, interjected, faults,
                   restarts>>

\* Mutant: the message that is delivered again is the one before.
ReprocessBefore ==
    /\ consumer = "running" /\ pos < Len(log)
    /\ pos' = pos + 1
    /\ Store(log[pos + 1])
    /\ \/ UNCHANGED <<unacked, lostAcks>>
       \/ /\ Trouble /\ lostAcks' = lostAcks + 1
          /\ unacked' = unacked \cup {pos}
    /\ UNCHANGED <<fixedVars, cmdVars, log, consumer, sent, interjected, faults,
                   restarts>>

\* An error is logged and the message acknowledged all the same; the
\* acknowledgement may get lost.
Process ==
    /\ consumer = "running" /\ pos < Len(log)
    /\ pos' = pos + 1
    /\ Store(log[pos + 1])
    /\ \/ UNCHANGED <<unacked, lostAcks>>
       \/ /\ Trouble /\ lostAcks' = lostAcks + 1
          /\ unacked' = unacked \cup {pos + 1}
    /\ UNCHANGED <<fixedVars, cmdVars, log, consumer, sent, interjected, faults,
                   restarts>>

\* It is delivered again, out of order, after AckWait.
Reprocess(i) ==
    /\ consumer = "running" /\ i \in unacked
    /\ unacked' = unacked \ {i}
    /\ Store(log[i])
    /\ UNCHANGED <<fixedVars, cmdVars, log, consumer, pos, sent, interjected,
                   lostAcks, faults, restarts>>

\* Any error of the iterator ends the goroutine until the next start.
ConsumerQuits ==
    /\ consumer = "running" /\ Fault
    /\ consumer' = "quit"
    /\ UNCHANGED <<fixedVars, cmdVars, log, pos, unacked, ledgerVars, sent,
                   interjected, errors, lostAcks, restarts>>

\* The daemon is restarted.  With it goes the broker, if it is embedded, the
\* daemon's own in memory: the stream is lost and every connection is cut.
Restart ==
    /\ Trouble /\ restarts' = restarts + 1
    /\ consumer' = "running"
    /\ LET killed == {n \in Notifications :
                         kind[n] = "mcp" /\ step[n] \notin {"new", "done"}}
       IN  /\ step' = [n \in Notifications |->
                          IF n \in killed THEN "done" ELSE step[n]]
           /\ outcome' = [n \in Notifications |->
                             IF n \in killed THEN "killed" ELSE outcome[n]]
    /\ \/ /\ log' = <<>> /\ pos' = 0 /\ unacked' = {}
          /\ cut' = cut \cup {n \in Notifications :
                                 kind[n] # "mcp" /\ step[n] # "new"}
       \/ UNCHANGED <<log, pos, unacked, cut>>
    /\ UNCHANGED <<fixedVars, start, heard, patience, due, interjects, events,
                   ledgerVars, sent, interjected, errors, lostAcks, faults>>

-----------------------------------------------------------------------------

Command(n) ==
    \/ Listen(n) \/ Open(n) \/ PublishRequest(n) \/ ClosePost(n)
    \/ Deliver(n) \/ HandleResponse(n) \/ HandleInterjection(n)
    \/ Impatience(n) \/ SafetyTimer(n)
    \/ McpRequest(n) \/ McpInsertRequest(n) \/ McpListen(n)
    \/ McpHandleResponse(n) \/ McpTimeout(n)

Consumer == Process \/ \E i \in unacked : Reprocess(i)

\* Everything but the messages of the users.
Proceeds ==
    \/ \E n \in Notifications : Command(n)
    \/ \E n \in Notifications : Interrupt(n) \/ Kill(n) \/ Disconnect(n)
    \/ \E n \in Notifications, i \in Interjections : Interject(n, i)
    \/ Consumer
    \/ ConsumerQuits
    \/ Restart

Next ==
    \/ Proceeds
    \/ \E f \in Flows, r \in Notifications, p \in Picks : Answer(f, r, p)
    \/ \E f \in Flows : Garble(f)

Spec == Init /\ [][Next]_vars

\* The processes run, their timers expire, and the consumer's goroutine runs
\* while it is alive.  No user needs to answer.
Fairness ==
    /\ \A n \in Notifications : WF_vars(Command(n))
    /\ WF_vars(Consumer)

FairSpec == Spec /\ Fairness

-----------------------------------------------------------------------------
(* Properties.                                                             *)

\* What a command has acted on: the decision printed for the hook, or the
\* answer itself.
ActedOn(n) ==
    IF kind[n] = "permission"
    THEN LabelOf[Decision(LabelOf[heard[n].pick])]
    ELSE LabelOf[heard[n].pick]

\* The commands that have acted on an answer to r, whoever asked.
ActedFor(r) == {n \in Notifications : outcome[n] = "answered" /\ heard[n].of = r}

\* The first answer to r came on the flow of the command, and not too early for
\* it.  The second may come on another flow, or on the same one to an ask tool
\* that listens only after it has published its request.
HeardFirst(n, r) ==
    \E i \in Responses(r) :
        /\ \A j \in Responses(r) : i <= j
        /\ i > start[n] /\ log[i].flow = flowOf[n]

Recorded(r) == ShownAnswer(r) # None /\ errors = 0 /\ restarts = 0

\* The pipelines and the history never tell two stories of one request: while
\* the stream and the statements survive, and all who have acted on an answer to
\* it took the first, that is the one the history shows, whatever is answered
\* afterwards, on whatever flow, delivered again or refused by a foreign key.
\* (Who took it need not be who asked: nobody compares the two.)
OneStory ==
    \A r \in Notifications :
        Recorded(r) /\ (\A n \in ActedFor(r) : HeardFirst(n, r)) =>
            \A n \in ActedFor(r) : ShownAnswer(r) = ActedOn(n)

\* What is answered in time is never lost to the order in which consumers,
\* request and timer are set up, or to a second message: the stream holds none
\* for the flow of a command that timed out, unless its connection broke.
InTimeIsHeard ==
    \A n \in Notifications :
        outcome[n] = "timeout" /\ kind[n] # "mcp" /\ n \notin cut =>
            \A i \in Replies(flowOf[n]) : i > due[n]

\* `renotify ask` does not end its flow when it is told of an error or cannot
\* parse what it is told.
LeavesOpen(n) == kind[n] = "ask" /\ outcome[n] \in {"refused", "error"}

\* A command that has opened a flow also ends it, once, and with the status
\* its exit code tells, unless the broker cannot be reached, the command is
\* killed, or `renotify ask` meets an error or what it cannot parse.
FlowsAreEnded ==
    \A n \in Notifications :
        /\ step[n] = "done" /\ kind[n] # "mcp" /\ events[n] # <<>>
        /\ faults = 0 /\ n \notin cut /\ ~LeavesOpen(n)
        => events[n] = <<"active", IF outcome[n] \in {"answered", "sent"}
                                   THEN "completed" ELSE "failed">>

\* Every command that waits comes to an end, with no need of an answer, of
\* the daemon or of its connection.
WaitsEnd ==
    \A n \in Notifications : Waits(n) ~> step[n] = "done"

\* Statements that have to fail before an answer is missing: the records of an
\* MCP ask that took the answer to its own request are written on two paths.
Paths(n) == IF kind[n] = "mcp" /\ heard[n].of = n THEN 2 ELSE 1

\* What a command has acted on is never lost to the history: when the registry
\* consumer has taken all answers to the request they name, the history shows
\* one under it, though perhaps not under the request that was asked.  One
\* path is enough, unless its statement fails or the stream is lost.
AnswersAreKept ==
    \A n \in Notifications :
        outcome[n] = "answered" =>
            \/ ShownAnswer(heard[n].of) # None
            \/ errors >= Paths(n) \/ restarts > 0
            \/ \E i \in Responses(heard[n].of) : i > pos

=============================================================================
