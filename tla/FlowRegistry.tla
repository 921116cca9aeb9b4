---------------------------- MODULE FlowRegistry ----------------------------
(***************************************************************************)
(* The daemon's active flow registry (cli/internal/registry): three        *)
(* goroutines share the ledger and the heartbeat's workspace snapshot.     *)
(*                                                                         *)
(*   "consumer"  consumeLifecycle: takes lifecycle events off the durable  *)
(*               JetStream consumer, one at a time, applies each to the    *)
(*               ledger, acknowledges it and rebuilds the snapshot         *)
(*   "ticker"    runReaper: sweeps for stale flows on every tick           *)
(*   "startup"   Start: one sweep and one rebuild, on the daemon's main    *)
(*               goroutine, while the other two already run                *)
(*                                                                         *)
(* Around them: the flows' owners (CLI commands and MCP tool calls) that   *)
(* publish lifecycle events and update activity, the stream with its       *)
(* message-ID deduplication and at-least-once delivery, the clock, and     *)
(* daemon restarts (the ledger survives; with the embedded broker the      *)
(* memory-backed stream does not).                                         *)
(***************************************************************************)
EXTENDS FlowLedger, Integers, Sequences

CONSTANTS
    GracePeriod,    \* reaping.grace_period, in seconds
    MaxDeliver,     \* the consumer's MaxDeliver (3 in the code)
    DupWindow,      \* the stream's Duplicates window (2 minutes in the code)
    Embedded,       \* TRUE: embedded broker; FALSE: shared broker
    EndKinds,       \* the ways a flow is ended, a subset of AllEndKinds
    Sweepers,       \* the goroutines that sweep: "startup", "ticker"
    \* Bounds of the model, none of them in the code:
    MaxTime,        \* the clock stops here
    ActiveUntil,    \* owners start nothing after this second
    MaxCalls,       \* owners' calls on open flows
    MaxFaults,      \* failed ledger operations, publishes and acks
    MaxRestarts     \* daemon restarts

\* Who ends a flow, and hence the suffix of the Nats-Msg-Id it publishes:
\* the owner ("completed", "failed"), the mobile user's stop ("stopped"), or
\* the ask timer ("timeout").  The event's status is "failed" for the last two.
AllEndKinds == {"completed", "failed", "stopped", "timeout"}

ASSUME RegistryAssumption ==
    /\ GracePeriod \in Nat
    /\ MaxDeliver \in Nat \ {0}
    /\ DupWindow \in Nat
    /\ Embedded \in BOOLEAN
    /\ EndKinds \subseteq AllEndKinds
    /\ Sweepers \subseteq {"startup", "ticker"}
    /\ {MaxTime, ActiveUntil, MaxCalls, MaxFaults, MaxRestarts} \subseteq Nat

NoJob == <<0, 0>>

StatusOf(kind) == IF kind = "completed" THEN "completed" ELSE "failed"

Threads == Sweepers \cup {"consumer"}

CallOps == {"refresh", "activity"} \cup AllEndKinds
Call == [flow : Flows, op : CallOps, ts : Nat]
Event == [flow : Flows, status : Statuses, ts : Nat]
MsgKinds == {"open", "reaped"} \cup AllEndKinds
Id == [flow : Flows, kind : MsgKinds, at : Nat]

VARIABLES
    now,            \* wall clock
    opened,         \* flows whose owner has published the first "active"
    calls,          \* owners' calls in progress
    made,           \* number of calls begun (bound)
    stream,         \* lifecycle subjects of the RENOTIFY stream, in order
    msgIds,         \* message IDs the stream has stored, with the time
    cursor,         \* messages 1..cursor have been delivered at least once
    unacked,        \* <<i, n>>: message i was delivered n times, ack missing
    job,            \* <<i, n>>: the delivery the consumer holds
    pc,             \* where each goroutine is
    view,           \* each goroutine's result of ListActiveFlows
    stale,          \* each sweeper's flows still to terminate
    reapedAt,       \* each sweeper's timestamp for this pass
    reaping,        \* the flow each sweeper has terminated and not announced
    workspaces,     \* heartbeat.Publisher.workspaces
    faults,         \* number of faults so far (bound)
    restarts        \* number of restarts so far (bound)

clientVars == <<opened, calls, made>>
streamVars == <<stream, msgIds>>
consumerVars == <<cursor, unacked, job>>
sweepVars == <<stale, reapedAt, reaping>>
vars == <<ledgerVars, now, clientVars, streamVars, consumerVars, pc, view,
          sweepVars, workspaces, faults, restarts>>

PCs == {"next", "handle", "refresh", "read", "terminate", "publish",
        "list", "set", "relist", "reset", "done"}

TypeOK ==
    /\ LedgerTypeOK
    /\ now \in Nat
    /\ opened \subseteq Flows
    /\ calls \subseteq Call
    /\ made \in Nat
    /\ stream \in Seq(Event)
    /\ msgIds \subseteq Id
    /\ cursor \in 0..Len(stream)
    /\ unacked \subseteq (1..cursor) \X (1..(MaxDeliver - 1))
    /\ job \in Nat \X Nat
    /\ pc \in [Threads -> PCs]
    /\ pc["consumer"] \in {"handle", "refresh"} =>
           job \in (1..cursor) \X (1..MaxDeliver)
    /\ view \in [Threads -> SUBSET Flows]
    /\ stale \in [Sweepers -> SUBSET Flows]
    /\ reapedAt \in [Sweepers -> Nat]
    /\ reaping \in [Sweepers -> SUBSET Flows]
    /\ workspaces \subseteq Flows
    /\ faults \in Nat
    /\ restarts \in Nat

\* Start: the consumer goroutine and the ticker run before the startup sweep.
StartPC == [t \in Threads |-> IF t = "consumer" THEN "next" ELSE "read"]

Init ==
    /\ LedgerInit
    /\ now = 0
    /\ opened = {} /\ calls = {} /\ made = 0
    /\ stream = <<>> /\ msgIds = {}
    /\ cursor = 0 /\ unacked = {} /\ job = NoJob
    /\ pc = StartPC
    /\ view = [t \in Threads |-> {}]
    /\ stale = [s \in Sweepers |-> {}]
    /\ reapedAt = [s \in Sweepers |-> 0]
    /\ reaping = [s \in Sweepers |-> {}]
    /\ workspaces = {}
    /\ faults = 0 /\ restarts = 0

Goto(t, l) == pc' = [pc EXCEPT ![t] = l]

NoFault == faults' = faults
Fault == faults < MaxFaults /\ faults' = faults + 1

-----------------------------------------------------------------------------
(* The stream.                                                             *)

\* The server still remembers the message ID, which is the flow's ID with a
\* suffix for the kind of event.
Duplicate(f, kind) ==
    \E m \in msgIds : m.flow = f /\ m.kind = kind /\ now < m.at + DupWindow

\* PublishMsg with a Nats-Msg-Id: a duplicate is dropped by the server.
Publish(e, kind) ==
    IF Duplicate(e.flow, kind)
    THEN UNCHANGED streamVars
    ELSE /\ stream' = Append(stream, e)
         /\ msgIds' = msgIds \cup {[flow |-> e.flow, kind |-> kind, at |-> now]}

\* A publish that is accepted, or fails and is only logged or ignored.
TryPublish(e, kind) ==
    \/ Publish(e, kind) /\ NoFault
    \/ UNCHANGED streamVars /\ Fault

-----------------------------------------------------------------------------
(* The owners of flows.                                                    *)

\* A CLI command, a hook or register_flow mints a flow ID and publishes its
\* first "active" event, under the flow ID as message ID.
OpenFlow(f) ==
    /\ f \notin opened
    /\ now <= ActiveUntil
    /\ opened' = opened \cup {f}
    /\ TryPublish([flow |-> f, status |-> "active", ts |-> now], "open")
    /\ UNCHANGED <<ledgerVars, now, calls, made, consumerVars, pc, view,
                   sweepVars, workspaces, restarts>>

\* A call takes its timestamp first.  refresh_flow, post and ask then need
\* the flow to be in the registry (lookupFlow); ending a flow does not.
BeginCall(f, op) ==
    /\ f \in opened
    /\ made < MaxCalls
    /\ now <= ActiveUntil
    /\ op \in {"refresh", "activity"} => f \in active
    /\ calls' = calls \cup {[flow |-> f, op |-> op, ts |-> now]}
    /\ made' = made + 1
    /\ UNCHANGED <<ledgerVars, now, opened, streamVars, consumerVars, pc, view,
                   sweepVars, workspaces, faults, restarts>>

\* handleRefreshFlow publishes an "active" event.  Its message ID carries the
\* milliseconds, so it is never a duplicate.
FinishRefresh(c) ==
    /\ c.op = "refresh"
    /\ \/ /\ stream' = Append(stream,
                   [flow |-> c.flow, status |-> "active", ts |-> c.ts])
          /\ NoFault
       \/ UNCHANGED stream /\ Fault
    /\ UNCHANGED <<ledgerVars, msgIds>>

\* terminate_flow, CLI exit, stop, ask timeout: a terminal event.
FinishEnd(c) ==
    /\ c.op \in AllEndKinds
    /\ TryPublish([flow |-> c.flow, status |-> StatusOf(c.op), ts |-> c.ts],
                  c.op)
    /\ UNCHANGED ledgerVars

\* post and ask end with svc.update-activity; its error is ignored.
FinishActivity(c) ==
    /\ c.op = "activity"
    /\ \/ UpdateFlowActivity(c.flow, c.ts) /\ NoFault
       \/ LedgerError /\ Fault
    /\ UNCHANGED streamVars

FinishCall(c) ==
    /\ c \in calls
    /\ calls' = calls \ {c}
    /\ FinishRefresh(c) \/ FinishEnd(c) \/ FinishActivity(c)
    /\ UNCHANGED <<now, opened, made, consumerVars, pc, view, sweepVars,
                   workspaces, restarts>>

-----------------------------------------------------------------------------
(* The consumer goroutine.                                                 *)

\* iter.Next returns the next message of the stream ...
FetchNew ==
    /\ pc["consumer"] = "next"
    /\ cursor < Len(stream)
    /\ cursor' = cursor + 1
    /\ job' = <<cursor + 1, 1>>
    /\ Goto("consumer", "handle")
    /\ UNCHANGED <<ledgerVars, now, clientVars, streamVars, unacked, view,
                   sweepVars, workspaces, faults, restarts>>

\* ... or, after AckWait, one whose acknowledgement did not arrive in time.
FetchRedelivered ==
    /\ pc["consumer"] = "next"
    /\ \E u \in unacked :
          /\ unacked' = unacked \ {u}
          /\ job' = <<u[1], u[2] + 1>>
    /\ Goto("consumer", "handle")
    /\ UNCHANGED <<ledgerVars, now, clientVars, streamVars, cursor, view,
                   sweepVars, workspaces, faults, restarts>>

\* iter.Next fails while the daemon runs on (a missed heartbeat of the broker,
\* a deleted consumer): the error is logged and the goroutine returns.  Nobody
\* starts it again.
ConsumerQuits ==
    /\ pc["consumer"] = "next"
    /\ Goto("consumer", "done")
    /\ Fault
    /\ UNCHANGED <<ledgerVars, now, clientVars, streamVars, consumerVars, view,
                   sweepVars, workspaces, restarts>>

\* Mutant: deliveries without end.
RequeueForever(d) == unacked \cup {d}

\* A delivery that goes unacknowledged is tried again unless it was the last.
Requeue(d) == IF d[2] < MaxDeliver THEN unacked \cup {d} ELSE unacked

\* msg.Ack, then rebuildWorkspaceSnapshot.  Every event is acknowledged, the
\* ones the ledger failed to take too.
Ack == /\ unacked' = unacked
       /\ job' = NoJob
       /\ Goto("consumer", "list")

\* The ack is lost or late: the server will deliver the message again.
LoseAck == /\ unacked' = Requeue(job)
           /\ job' = NoJob
           /\ Goto("consumer", "list")

\* How a handler ends: ledger operation Op commits or fails, and its ack is
\* in time or not.  At most one of the two goes wrong in one step.
Conclude(Op) ==
    \/ Op /\ Ack /\ NoFault
    \/ Op /\ LoseAck /\ Fault
    \/ LedgerError /\ Ack /\ Fault

Handling(st) ==
    /\ pc["consumer"] = "handle"
    /\ stream[job[1]].status \in st

consumerFrame == <<now, clientVars, streamVars, cursor, view, sweepVars,
                   workspaces, restarts>>

\* handleActive, first transaction: RegisterFlow.  Any error, a conflict with
\* an existing row first of all, is taken as "refresh instead".
HandleActive ==
    /\ Handling({"active"})
    /\ LET e == stream[job[1]] IN
       \/ /\ RegisterFlow(e.flow, e.ts)
          /\ \/ Ack /\ NoFault
             \/ LoseAck /\ Fault
       \/ /\ e.flow \in active
          /\ LedgerError /\ NoFault
          /\ Goto("consumer", "refresh") /\ UNCHANGED <<unacked, job>>
       \/ /\ e.flow \notin active
          /\ LedgerError /\ Fault
          /\ Goto("consumer", "refresh") /\ UNCHANGED <<unacked, job>>
    /\ UNCHANGED consumerFrame

\* Mutant: the refresh is stamped with the time it is handled.
RefreshNow ==
    /\ pc["consumer"] = "refresh"
    /\ LET e == stream[job[1]]
           Op == RefreshFlow(e.flow, now) \/ (e.flow \notin active /\ LedgerError)
       IN Conclude(Op)
    /\ UNCHANGED consumerFrame

\* handleActive, second transaction: RefreshFlow, its error ignored.
HandleRefresh ==
    /\ pc["consumer"] = "refresh"
    /\ LET e == stream[job[1]]
           Op == RefreshFlow(e.flow, e.ts) \/ (e.flow \notin active /\ LedgerError)
       IN Conclude(Op)
    /\ UNCHANGED consumerFrame

\* handleTerminal: TerminateFlow; an error is logged and the event is gone.
HandleTerminal ==
    /\ Handling(TerminalStatuses)
    /\ LET e == stream[job[1]]
       IN Conclude(TerminateFlow(e.flow, e.status, e.ts))
    /\ UNCHANGED consumerFrame

-----------------------------------------------------------------------------
(* rebuildWorkspaceSnapshot, run by all three goroutines: nothing holds a  *)
(* lock from the query to SetWorkspaces.                                   *)

\* Where a goroutine goes after its rebuild.  reapOnce's rebuild is followed,
\* in Start, by a second one.
Resume(t, l) ==
    CASE t = "consumer" -> "next"
      [] t = "ticker"   -> "read"
      [] t = "startup"  -> IF l \in {"list", "set"} THEN "relist" ELSE "done"

ListFlows(t) ==
    /\ pc[t] \in {"list", "relist"}
    /\ \/ /\ view' = [view EXCEPT ![t] = ListActiveFlows]
          /\ Goto(t, IF pc[t] = "list" THEN "set" ELSE "reset")
          /\ NoFault
       \/ UNCHANGED view /\ Goto(t, Resume(t, pc[t])) /\ Fault
    /\ UNCHANGED <<ledgerVars, now, clientVars, streamVars, consumerVars,
                   sweepVars, workspaces, restarts>>

SetWorkspaces(t) ==
    /\ pc[t] \in {"set", "reset"}
    /\ workspaces' = view[t]
    /\ view' = [view EXCEPT ![t] = {}]
    /\ Goto(t, Resume(t, pc[t]))
    /\ UNCHANGED <<ledgerVars, now, clientVars, streamVars, consumerVars,
                   sweepVars, faults, restarts>>

-----------------------------------------------------------------------------
(* reapOnce, run by the ticker and by Start.                               *)

\* The stale rows are read once; the pass's timestamp is taken after that.
SweepRead(s) ==
    LET found == StaleFlows(now, GracePeriod) IN
    /\ pc[s] = "read"
    /\ \/ /\ found # {}
          /\ stale' = [stale EXCEPT ![s] = found]
          /\ reapedAt' = [reapedAt EXCEPT ![s] = now]
          /\ Goto(s, "terminate") /\ NoFault
       \/ /\ found = {} /\ s = "startup"
          /\ Goto(s, "relist") /\ UNCHANGED <<stale, reapedAt>> /\ NoFault
       \/ /\ s = "startup"      \* the query fails
          /\ Goto(s, "relist") /\ UNCHANGED <<stale, reapedAt>> /\ Fault
    /\ UNCHANGED <<ledgerVars, now, clientVars, streamVars, consumerVars, view,
                   reaping, workspaces, restarts>>

\* The next flow of the list is terminated without looking at its row again.
\* On an error the loop moves on to the next.
SweepTerminate(s) ==
    /\ pc[s] = "terminate"
    /\ \E f \in stale[s] :
          /\ stale' = [stale EXCEPT ![s] = @ \ {f}]
          /\ \/ /\ TerminateFlow(f, "failed", reapedAt[s])
                /\ reaping' = [reaping EXCEPT ![s] = {f}]
                /\ Goto(s, "publish") /\ NoFault
             \/ /\ LedgerError /\ UNCHANGED reaping
                /\ Goto(s, IF stale[s] = {f} THEN "list" ELSE "terminate")
                /\ Fault
    /\ UNCHANGED <<now, clientVars, streamVars, consumerVars, view, reapedAt,
                   workspaces, restarts>>

\* Mutant: the reaped flow is logged and not announced.
SweepSilently(s) ==
    /\ pc[s] = "publish"
    /\ reaping' = [reaping EXCEPT ![s] = {}]
    /\ Goto(s, IF stale[s] = {} THEN "list" ELSE "terminate")
    /\ UNCHANGED <<ledgerVars, now, clientVars, streamVars, consumerVars, view,
                   stale, reapedAt, workspaces, faults, restarts>>

\* Mutant: the goroutine returns when the publish fails.
SweepPublishOrQuit(s) ==
    /\ pc[s] = "publish"
    /\ \E f \in reaping[s] :
          LET e == [flow |-> f, status |-> "failed", ts |-> reapedAt[s]] IN
          \/ /\ Publish(e, "reaped") /\ NoFault
             /\ Goto(s, IF stale[s] = {} THEN "list" ELSE "terminate")
          \/ UNCHANGED streamVars /\ Fault /\ Goto(s, "done")
    /\ reaping' = [reaping EXCEPT ![s] = {}]
    /\ UNCHANGED <<ledgerVars, now, clientVars, consumerVars, view, stale,
                   reapedAt, workspaces, restarts>>

\* publishFailedLifecycle, after the transaction and outside of it.
SweepPublish(s) ==
    /\ pc[s] = "publish"
    /\ \E f \in reaping[s] :
          TryPublish([flow |-> f, status |-> "failed", ts |-> reapedAt[s]],
                     "reaped")
    /\ reaping' = [reaping EXCEPT ![s] = {}]
    /\ Goto(s, IF stale[s] = {} THEN "list" ELSE "terminate")
    /\ UNCHANGED <<ledgerVars, now, clientVars, consumerVars, view, stale,
                   reapedAt, workspaces, restarts>>

-----------------------------------------------------------------------------
(* The environment.                                                        *)

Tick ==
    /\ now < MaxTime
    /\ now' = now + 1
    /\ UNCHANGED <<ledgerVars, clientVars, streamVars, consumerVars, pc, view,
                   sweepVars, workspaces, faults, restarts>>

\* What the broker keeps over a restart of the daemon.  The embedded broker
\* loses its memory-backed stream.  A shared broker keeps it, with the
\* consumer's position (the delivery in hand is redelivered), or, if the
\* daemon was away longer than the consumer's InactiveThreshold, without: the
\* consumer is created anew and delivers everything again.
BrokerAfterRestart ==
    \/ /\ Embedded
       /\ stream' = <<>> /\ msgIds' = {} /\ cursor' = 0 /\ unacked' = {}
    \/ /\ ~Embedded
       /\ unacked' = IF pc["consumer"] \in {"handle", "refresh"}
                     THEN Requeue(job) ELSE unacked
       /\ UNCHANGED <<streamVars, cursor>>
    \/ /\ ~Embedded
       /\ cursor' = 0 /\ unacked' = {}
       /\ UNCHANGED streamVars

\* The daemon stops or dies anywhere, and is started again.  Calls of MCP
\* clients end with it; a CLI process may live on and finish its call.
Restart ==
    /\ restarts < MaxRestarts
    /\ restarts' = restarts + 1
    /\ BrokerAfterRestart
    /\ calls' \in SUBSET calls
    /\ job' = NoJob
    /\ pc' = StartPC
    /\ view' = [t \in Threads |-> {}]
    /\ stale' = [s \in Sweepers |-> {}]
    /\ reapedAt' = [s \in Sweepers |-> 0]
    /\ reaping' = [s \in Sweepers |-> {}]
    /\ workspaces' = {}
    /\ UNCHANGED <<ledgerVars, now, opened, made, faults>>

-----------------------------------------------------------------------------

Consume == FetchNew \/ FetchRedelivered \/ HandleActive \/ HandleRefresh
           \/ HandleTerminal
Rebuild(t) == ListFlows(t) \/ SetWorkspaces(t)
Sweep(s) == SweepRead(s) \/ SweepTerminate(s) \/ SweepPublish(s)

Next ==
    \/ \E f \in Flows : OpenFlow(f)
    \/ \E f \in Flows, op \in {"refresh", "activity"} \cup EndKinds :
           BeginCall(f, op)
    \/ \E c \in calls : FinishCall(c)
    \/ Consume
    \/ ConsumerQuits
    \/ \E t \in Threads : Rebuild(t)
    \/ \E s \in Sweepers : Sweep(s)
    \/ Tick
    \/ Restart

Spec == Init /\ [][Next]_vars

\* Goroutines are scheduled and the clock goes on.  Nothing is assumed of the
\* owners except that a call in progress ends, and nothing of restarts.
Fairness ==
    /\ WF_vars(Consume \/ Rebuild("consumer"))
    /\ \A s \in Sweepers : WF_vars(Sweep(s) \/ Rebuild(s))
    /\ WF_vars(\E c \in calls : FinishCall(c))
    /\ WF_vars(Tick)

FairSpec == Spec /\ Fairness

-----------------------------------------------------------------------------
(* Properties.                                                             *)

\* The transactions of RegisterFlow and TerminateFlow tie the two tables
\* together: a running flow always has an audit row for the second it was
\* registered in, over conflicts, redeliveries, rollbacks and restarts.
BirthRecorded ==
    \A f \in active :
        \E e \in audit : e.flow = f /\ e.ts = registeredAt[f]

\* No fault so far, and no shared broker to deliver old events again.
Ordered == faults = 0 /\ (Embedded \/ restarts = 0)

\* How many events the ledger has seen: all that were delivered but one
\* still on its way to its handler's first transaction.
applied == IF pc["consumer"] = "handle" THEN cursor - 1 ELSE cursor

IsEvent(i, f, sts) == stream[i].flow = f /\ stream[i].status \in sts

\* A sweep took flow f out: its "failed" event is published or about to be.
Announced(f) == \E m \in msgIds : m.flow = f /\ m.kind = "reaped"
Reaped(f) == Announced(f) \/ \E s \in Sweepers : f \in reaping[s]

\* The last event of flow f among the applied ones is terminal, or active.
EndedInLog(f) ==
    \E i \in 1..applied :
        /\ IsEvent(i, f, TerminalStatuses)
        /\ \A j \in (i+1)..applied : ~IsEvent(j, f, {"active"})
LiveInLog(f) ==
    \E i \in 1..applied :
        /\ IsEvent(i, f, {"active"})
        /\ \A j \in (i+1)..applied : ~IsEvent(j, f, TerminalStatuses)

\* Deliveries come one at a time and in order: without faults nothing waits
\* to be delivered again, and what the consumer holds is the newest delivery;
\* it only ever falls back to RefreshFlow on an "active" event.
InOrder ==
    LET holding == pc["consumer"] \in {"handle", "refresh"} IN
    /\ Ordered => unacked = {}
    /\ Ordered /\ holding => job[1] = cursor
    /\ pc["consumer"] = "refresh" => stream[job[1]].status = "active"

\* A sweeper has at most one flow terminated and not yet announced, and only
\* between the two steps.
OneReapedAtATime ==
    \A s \in Sweepers :
        IF pc[s] = "publish"
        THEN \E f \in Flows : reaping[s] = {f}
        ELSE reaping[s] = {}

\* While events arrive in order and nothing fails, a flow whose last applied
\* event is terminal is out of the registry, whatever the sweepers, the
\* snapshot rebuilds and late calls do: no interleaving resurrects it.
EndedStaysOut == Ordered => \A f \in Flows : EndedInLog(f) => f \notin active

\* And a flow whose last applied event is "active" is in the registry unless
\* a sweep took it out, and then its "failed" event is published or about to
\* be: RegisterFlow's conflict and RefreshFlow's missing row lose nothing.
LiveUnlessReaped ==
    Ordered => \A f \in Flows : LiveInLog(f) => f \in active \/ Reaped(f)

\* The safety half of NoPhantomFlows.  A row's activity is its owner's: once
\* the owners have been silent for the grace period, every row is stale to a
\* sweep that reads it, whatever is delivered again, refreshed, restarted or
\* registered late.
SilentAreStale ==
    now > ActiveUntil + GracePeriod => active = StaleFlows(now, GracePeriod)

\* R-CLI-18: once its owner is silent, every flow leaves the registry for
\* good, whatever was lost (terminal events included) or delivered again.
NoPhantomFlows == <>[](active = {})

-----------------------------------------------------------------------------
(* What the repository's documents say and the code does not do.           *)

\* docs/analysis-payload-schemas.md, DaemonHeartbeat: "a snapshot of its
\* workspaces with their active flow IDs".  So once the registry has settled,
\* the heartbeat shows it.
HeartbeatSettles ==
    (<>[](active = {})) => <>[](workspaces = {})

=============================================================================
