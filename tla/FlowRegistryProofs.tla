------------------------- MODULE FlowRegistryProofs -------------------------
(***************************************************************************)
(* Proofs about FlowRegistry, for any number of flows, any grace period    *)
(* and any bounds.                                                         *)
(***************************************************************************)
EXTENDS FlowRegistry, TLAPS

-----------------------------------------------------------------------------
(* Type correctness, one lemma per group of actions.                       *)

\* TerminalStatuses and the status of an event of each kind are statuses.
LEMMA StatusType ==
    /\ \A k \in AllEndKinds : StatusOf(k) \in Statuses
    /\ "active" \in Statuses
    /\ "failed" \in Statuses
BY DEF AllEndKinds, StatusOf, Statuses, TerminalStatuses

\* InsertEvent yields audit rows.
LEMMA InsertEventType ==
    ASSUME NEW f \in Flows, NEW ts \in Nat, NEW st \in Statuses,
           audit \subseteq AuditRow
    PROVE  InsertEvent(f, ts, st) \subseteq AuditRow
BY DEF InsertEvent, AuditRow

\* The ledger's transactions keep its type.
LEMMA LedgerType ==
    ASSUME NEW f \in Flows, NEW ts \in Nat, NEW st \in Statuses, LedgerTypeOK,
           \/ RegisterFlow(f, ts)
           \/ UpdateFlowActivity(f, ts)
           \/ RefreshFlow(f, ts)
           \/ TerminateFlow(f, st, ts)
           \/ LedgerError
    PROVE  LedgerTypeOK'
<1> USE DEF LedgerTypeOK
<1>1. CASE RegisterFlow(f, ts)
  BY <1>1, InsertEventType, StatusType DEF RegisterFlow
<1>2. CASE UpdateFlowActivity(f, ts)
  BY <1>2 DEF UpdateFlowActivity
<1>3. CASE RefreshFlow(f, ts)
  BY <1>3, InsertEventType, StatusType DEF RefreshFlow
<1>4. CASE TerminateFlow(f, st, ts)
  BY <1>4, InsertEventType DEF TerminateFlow
<1>5. CASE LedgerError
  BY <1>5 DEF LedgerError, ledgerVars
<1> QED
  BY <1>1, <1>2, <1>3, <1>4, <1>5

\* Appending an event to the stream.
LEMMA AppendType ==
    ASSUME NEW S, NEW s \in Seq(S), NEW e \in S
    PROVE  /\ Append(s, e) \in Seq(S)
           /\ Len(Append(s, e)) = Len(s) + 1
           /\ Len(s) \in Nat
           /\ \A i \in 1..Len(s) : Append(s, e)[i] = s[i]
OBVIOUS

\* A publish leaves events in the stream, and never shortens it.
LEMMA PublishType ==
    ASSUME NEW e \in Event, NEW kind \in MsgKinds, TypeOK,
           TryPublish(e, kind)
    PROVE  /\ stream' \in Seq(Event)
           /\ msgIds' \subseteq Id
           /\ Len(stream') >= Len(stream)
           /\ faults' \in Nat
<1>1. /\ stream \in Seq(Event) /\ msgIds \subseteq Id /\ faults \in Nat
      /\ e.flow \in Flows /\ now \in Nat
  BY DEF TypeOK, Event
<1>2. [flow |-> e.flow, kind |-> kind, at |-> now] \in Id
  BY <1>1 DEF Id
<1>3. /\ Append(stream, e) \in Seq(Event)
      /\ Len(Append(stream, e)) >= Len(stream)
  BY <1>1, AppendType
<1>4. CASE Publish(e, kind) /\ NoFault
  BY <1>1, <1>2, <1>3, <1>4 DEF Publish, streamVars, NoFault
<1>5. CASE UNCHANGED streamVars /\ Fault
  BY <1>1, <1>5 DEF streamVars, Fault
<1> QED
  BY <1>4, <1>5 DEF TryPublish

\* The steps of the owners keep the types.
LEMMA OwnerType ==
    ASSUME TypeOK,
           \/ \E f \in Flows : OpenFlow(f)
           \/ \E f \in Flows, op \in {"refresh", "activity"} \cup EndKinds :
                  BeginCall(f, op)
           \/ \E c \in calls : FinishCall(c)
    PROVE  TypeOK'
<1>1. ASSUME NEW f \in Flows, OpenFlow(f)
      PROVE  TypeOK'
  <2>1. [flow |-> f, status |-> "active", ts |-> now] \in Event
    BY StatusType DEF TypeOK, Event
  <2>2. "open" \in MsgKinds
    BY DEF MsgKinds
  <2>3. /\ stream' \in Seq(Event)
        /\ msgIds' \subseteq Id
        /\ Len(stream') >= Len(stream)
        /\ faults' \in Nat
    BY <1>1, <2>1, <2>2, PublishType DEF OpenFlow
  <2> QED
    BY <1>1, <2>3 DEF OpenFlow, TypeOK, LedgerTypeOK, ledgerVars,
       consumerVars, sweepVars
<1>2. ASSUME NEW f \in Flows,
             NEW op \in {"refresh", "activity"} \cup EndKinds,
             BeginCall(f, op)
      PROVE  TypeOK'
  <2>1. [flow |-> f, op |-> op, ts |-> now] \in Call
    BY RegistryAssumption DEF TypeOK, Call, CallOps
  <2> QED
    BY <1>2, <2>1 DEF BeginCall, TypeOK, LedgerTypeOK, ledgerVars,
       streamVars, consumerVars, sweepVars
<1>3. ASSUME NEW c \in calls, FinishCall(c)
      PROVE  TypeOK'
  <2>1. c.flow \in Flows /\ c.op \in CallOps /\ c.ts \in Nat
    BY DEF TypeOK, Call
  <2>2. /\ LedgerTypeOK'
        /\ stream' \in Seq(Event)
        /\ msgIds' \subseteq Id
        /\ Len(stream') >= Len(stream)
        /\ faults' \in Nat
    <3>1. CASE FinishRefresh(c)
      <4>1. [flow |-> c.flow, status |-> "active", ts |-> c.ts] \in Event
        BY <2>1, StatusType DEF Event
      <4>2. stream \in Seq(Event) /\ faults \in Nat
        BY DEF TypeOK
      <4>3. /\ stream' \in Seq(Event)
            /\ Len(stream') >= Len(stream)
            /\ faults' \in Nat
        BY <3>1, <4>1, <4>2, AppendType DEF FinishRefresh, NoFault, Fault
      <4> QED
        BY <3>1, <4>3 DEF FinishRefresh, TypeOK, LedgerTypeOK, ledgerVars
    <3>2. CASE FinishEnd(c)
      <4>1. /\ [flow |-> c.flow, status |-> StatusOf(c.op), ts |-> c.ts]
                   \in Event
            /\ c.op \in MsgKinds
        BY <2>1, <3>2, StatusType DEF FinishEnd, Event, MsgKinds
      <4> QED
        BY <3>2, <4>1, PublishType
           DEF FinishEnd, TypeOK, LedgerTypeOK, ledgerVars
    <3>3. CASE FinishActivity(c)
      <4>1. LedgerTypeOK'
        BY <2>1, <3>3, LedgerType, StatusType DEF FinishActivity, TypeOK
      <4> QED
        BY <3>3, <4>1 DEF FinishActivity, TypeOK, streamVars, NoFault, Fault
    <3> QED
      BY <1>3, <3>1, <3>2, <3>3 DEF FinishCall
  <2> QED
    BY <1>3, <2>2 DEF FinishCall, TypeOK, consumerVars, sweepVars
<1> QED
  BY <1>1, <1>2, <1>3

\* How a handler ends keeps the consumer's types.
LEMMA AckType ==
    ASSUME TypeOK, pc["consumer"] \in {"handle", "refresh"}, Ack \/ LoseAck
    PROVE  /\ unacked' \subseteq (1..cursor) \X (1..(MaxDeliver - 1))
           /\ job' = NoJob
           /\ pc' = [pc EXCEPT !["consumer"] = "list"]
<1>1. /\ job \in (1..cursor) \X (1..MaxDeliver)
      /\ unacked \subseteq (1..cursor) \X (1..(MaxDeliver - 1))
  BY DEF TypeOK
<1>2. MaxDeliver \in Nat \ {0}
  BY RegistryAssumption
<1>3. job[2] < MaxDeliver => job \in (1..cursor) \X (1..(MaxDeliver - 1))
  BY <1>1, <1>2
<1> QED
  BY <1>1, <1>3 DEF Ack, LoseAck, Requeue, Goto

\* The frame every handler shares, and its ledger operation, give TypeOK'.
LEMMA HandlerType ==
    ASSUME TypeOK, LedgerTypeOK', UNCHANGED consumerFrame, faults' \in Nat,
           \/ Ack \/ LoseAck
           \/ Goto("consumer", "refresh") /\ UNCHANGED <<unacked, job>>,
           pc["consumer"] \in {"handle", "refresh"}
    PROVE  TypeOK'
<1>1. /\ unacked' \subseteq (1..cursor) \X (1..(MaxDeliver - 1))
      /\ job' \in Nat \X Nat
      /\ pc' \in [Threads -> PCs]
      /\ pc'["consumer"] \in {"handle", "refresh"} =>
             job' \in (1..cursor) \X (1..MaxDeliver)
  <2>1. "consumer" \in Threads /\ pc \in [Threads -> PCs]
    BY DEF TypeOK, Threads
  <2>2. CASE Ack \/ LoseAck
    BY <2>1, <2>2, AckType DEF NoJob, PCs
  <2>3. CASE Goto("consumer", "refresh") /\ UNCHANGED <<unacked, job>>
    BY <2>1, <2>3 DEF Goto, PCs, TypeOK
  <2> QED
    BY <2>2, <2>3
<1> QED
  BY <1>1 DEF TypeOK, consumerFrame, clientVars, streamVars, sweepVars

\* The event in the consumer's hands.
LEMMA JobEvent ==
    ASSUME TypeOK, pc["consumer"] \in {"handle", "refresh"}
    PROVE  /\ job[1] \in 1..cursor
           /\ job[1] \in 1..Len(stream)
           /\ stream[job[1]] \in Event
<1>1. /\ job \in (1..cursor) \X (1..MaxDeliver)
      /\ stream \in Seq(Event)
      /\ cursor \in 0..Len(stream)
  BY DEF TypeOK
<1>2. job[1] \in 1..cursor /\ job[1] \in 1..Len(stream)
  BY <1>1
<1> QED
  BY <1>1, <1>2

\* The steps of the consumer keep the types.
LEMMA ConsumerType ==
    ASSUME TypeOK, Consume
    PROVE  TypeOK'
<1>0. "consumer" \in Threads /\ MaxDeliver \in Nat \ {0}
  BY RegistryAssumption DEF Threads
<1>1. CASE FetchNew
  <2>1. cursor + 1 \in 1..Len(stream) /\ cursor \in Nat
    BY <1>1 DEF FetchNew, TypeOK
  <2>2. job' \in (1..cursor') \X (1..MaxDeliver) /\ job' \in Nat \X Nat
    BY <1>0, <1>1, <2>1 DEF FetchNew
  <2>3. unacked' \subseteq (1..cursor') \X (1..(MaxDeliver - 1))
    <3>1. 1..cursor \subseteq 1..(cursor + 1)
      BY <2>1
    <3> QED
      BY <1>1, <3>1 DEF FetchNew, TypeOK
  <2>4. pc' \in [Threads -> PCs]
    BY <1>0, <1>1 DEF FetchNew, Goto, PCs, TypeOK
  <2>5. cursor' \in 0..Len(stream')
    BY <1>1, <2>1 DEF FetchNew, streamVars
  <2> QED
    BY <1>1, <2>2, <2>3, <2>4, <2>5 DEF FetchNew, TypeOK, LedgerTypeOK,
       ledgerVars, clientVars, streamVars, sweepVars
<1>2. CASE FetchRedelivered
  <2>1. PICK u \in unacked : /\ unacked' = unacked \ {u}
                             /\ job' = <<u[1], u[2] + 1>>
    BY <1>2 DEF FetchRedelivered
  <2>2. u \in (1..cursor) \X (1..(MaxDeliver - 1)) /\ cursor \in Nat
    BY DEF TypeOK
  <2>3. u[1] \in 1..cursor /\ u[2] + 1 \in 1..MaxDeliver
    BY <1>0, <2>2
  <2>4. job' \in (1..cursor) \X (1..MaxDeliver) /\ job' \in Nat \X Nat
    BY <1>0, <2>1, <2>2, <2>3
  <2>5. pc' \in [Threads -> PCs]
    BY <1>0, <1>2 DEF FetchRedelivered, Goto, PCs, TypeOK
  <2> QED
    BY <1>2, <2>1, <2>4, <2>5 DEF FetchRedelivered, TypeOK, LedgerTypeOK,
       ledgerVars, clientVars, streamVars, sweepVars
<1>3. ASSUME HandleActive \/ HandleRefresh \/ HandleTerminal
      PROVE  TypeOK'
  <2>1. pc["consumer"] \in {"handle", "refresh"} /\ UNCHANGED consumerFrame
    BY <1>3 DEF HandleActive, HandleRefresh, HandleTerminal, Handling
  <2> DEFINE e == stream[job[1]]
  <2>2. e \in Event
    BY <2>1, JobEvent
  <2>3. e.flow \in Flows /\ e.ts \in Nat /\ e.status \in Statuses
    BY <2>2 DEF Event
  <2>4. \/ Ack \/ LoseAck
        \/ Goto("consumer", "refresh") /\ UNCHANGED <<unacked, job>>
    BY <1>3 DEF HandleActive, HandleRefresh, HandleTerminal, Conclude
  <2>5. NoFault \/ Fault
    BY <1>3 DEF HandleActive, HandleRefresh, HandleTerminal, Conclude
  <2>6. faults' \in Nat
    BY <2>5 DEF NoFault, Fault, TypeOK
  <2>7. \/ RegisterFlow(e.flow, e.ts) \/ RefreshFlow(e.flow, e.ts)
        \/ TerminateFlow(e.flow, e.status, e.ts) \/ LedgerError
    BY <1>3 DEF HandleActive, HandleRefresh, HandleTerminal, Conclude
  <2>8. LedgerTypeOK'
    <3> HIDE DEF e
    <3> QED
      BY <2>3, <2>7, LedgerType DEF TypeOK
  <2> QED
    BY <2>1, <2>4, <2>6, <2>8, HandlerType
<1> QED
  BY <1>1, <1>2, <1>3 DEF Consume

\* rebuildWorkspaceSnapshot keeps the types.
LEMMA RebuildType ==
    ASSUME TypeOK, NEW t \in Threads, Rebuild(t)
    PROVE  TypeOK'
<1>1. Sweepers \subseteq {"startup", "ticker"}
  BY RegistryAssumption
<1>2. \A l \in PCs : Resume(t, l) \in {"next", "read", "relist", "done"}
  BY <1>1 DEF Threads, Resume
<1>3. pc \in [Threads -> PCs] /\ pc[t] \in PCs /\ active \subseteq Flows
  BY DEF TypeOK, LedgerTypeOK
<1>4. CASE ListFlows(t)
  <2>1. /\ pc' \in [Threads -> PCs]
        /\ pc'["consumer"] \in {"handle", "refresh"} =>
               pc["consumer"] \in {"handle", "refresh"}
    BY <1>2, <1>3, <1>4 DEF ListFlows, Goto, PCs, Threads
  <2>2. view' \in [Threads -> SUBSET Flows]
    BY <1>3, <1>4 DEF ListFlows, ListActiveFlows, TypeOK
  <2>3. faults' \in Nat
    BY <1>4 DEF ListFlows, TypeOK, NoFault, Fault
  <2> QED
    BY <1>4, <2>1, <2>2, <2>3 DEF ListFlows, TypeOK, LedgerTypeOK,
       ledgerVars, clientVars, streamVars, consumerVars, sweepVars
<1>5. CASE SetWorkspaces(t)
  <2>1. /\ pc' \in [Threads -> PCs]
        /\ pc'["consumer"] \in {"handle", "refresh"} =>
               pc["consumer"] \in {"handle", "refresh"}
    BY <1>2, <1>3, <1>5 DEF SetWorkspaces, Goto, PCs, Threads
  <2>2. view' \in [Threads -> SUBSET Flows] /\ workspaces' \subseteq Flows
    BY <1>5 DEF SetWorkspaces, TypeOK
  <2> QED
    BY <1>5, <2>1, <2>2 DEF SetWorkspaces, TypeOK, LedgerTypeOK,
       ledgerVars, clientVars, streamVars, consumerVars, sweepVars
<1> QED
  BY <1>4, <1>5 DEF Rebuild

\* reapOnce keeps the types.
LEMMA SweepType ==
    ASSUME TypeOK, NEW s \in Sweepers, Sweep(s)
    PROVE  TypeOK'
<1>1. s \in Threads /\ s # "consumer"
  BY RegistryAssumption DEF Threads
<1>2. pc \in [Threads -> PCs]
  BY DEF TypeOK
<1>3. CASE SweepRead(s)
  <2>1. /\ pc' \in [Threads -> PCs]
        /\ pc'["consumer"] = pc["consumer"]
    BY <1>1, <1>2, <1>3 DEF SweepRead, Goto, PCs, Threads
  <2>2. StaleFlows(now, GracePeriod) \subseteq Flows
    BY DEF StaleFlows, TypeOK, LedgerTypeOK
  <2>3. /\ stale' \in [Sweepers -> SUBSET Flows]
        /\ reapedAt' \in [Sweepers -> Nat]
    <3> DEFINE found == StaleFlows(now, GracePeriod)
    <3>1. \/ /\ stale' = [stale EXCEPT ![s] = found]
             /\ reapedAt' = [reapedAt EXCEPT ![s] = now]
          \/ UNCHANGED <<stale, reapedAt>>
      BY <1>3 DEF SweepRead
    <3> HIDE DEF found
    <3>2. /\ stale \in [Sweepers -> SUBSET Flows]
          /\ reapedAt \in [Sweepers -> Nat]
          /\ now \in Nat /\ found \subseteq Flows
      BY <2>2 DEF TypeOK, found
    <3> QED
      BY <3>1, <3>2
  <2>4. faults' \in Nat
    BY <1>3 DEF SweepRead, TypeOK, NoFault, Fault
  <2> QED
    BY <1>3, <2>1, <2>3, <2>4 DEF SweepRead, TypeOK, LedgerTypeOK,
       ledgerVars, clientVars, streamVars, consumerVars
<1>4. CASE SweepTerminate(s)
  <2>1. /\ pc' \in [Threads -> PCs]
        /\ pc'["consumer"] = pc["consumer"]
    BY <1>1, <1>2, <1>4 DEF SweepTerminate, Goto, PCs, Threads
  <2>2. PICK f \in stale[s] :
           /\ stale' = [stale EXCEPT ![s] = @ \ {f}]
           /\ \/ /\ TerminateFlow(f, "failed", reapedAt[s])
                 /\ reaping' = [reaping EXCEPT ![s] = {f}] /\ NoFault
              \/ LedgerError /\ UNCHANGED reaping /\ Fault
    BY <1>4 DEF SweepTerminate
  <2>3. f \in Flows /\ reapedAt[s] \in Nat /\ LedgerTypeOK
    BY DEF TypeOK
  <2>4. LedgerTypeOK'
    BY <2>2, <2>3, LedgerType, StatusType
  <2>5. stale' \in [Sweepers -> SUBSET Flows]
    BY <2>2 DEF TypeOK
  <2>6. reaping' \in [Sweepers -> SUBSET Flows]
    BY <2>2, <2>3 DEF TypeOK
  <2>7. faults' \in Nat
    BY <2>2 DEF TypeOK, NoFault, Fault
  <2> QED
    BY <1>4, <2>1, <2>4, <2>5, <2>6, <2>7 DEF SweepTerminate, TypeOK,
       clientVars, streamVars, consumerVars
<1>5. CASE SweepPublish(s)
  <2>1. /\ pc' \in [Threads -> PCs]
        /\ pc'["consumer"] = pc["consumer"]
    BY <1>1, <1>2, <1>5 DEF SweepPublish, Goto, PCs, Threads
  <2>2. PICK f \in reaping[s] :
           TryPublish([flow |-> f, status |-> "failed", ts |-> reapedAt[s]],
                      "reaped")
    BY <1>5 DEF SweepPublish
  <2>3. [flow |-> f, status |-> "failed", ts |-> reapedAt[s]] \in Event
    BY StatusType DEF TypeOK, Event
  <2>4. "reaped" \in MsgKinds
    BY DEF MsgKinds
  <2>5. /\ stream' \in Seq(Event)
        /\ msgIds' \subseteq Id
        /\ Len(stream') >= Len(stream)
        /\ faults' \in Nat
    BY <2>2, <2>3, <2>4, PublishType
  <2>6. reaping' \in [Sweepers -> SUBSET Flows]
    BY <1>5 DEF SweepPublish, TypeOK
  <2> QED
    BY <1>5, <2>1, <2>5, <2>6 DEF SweepPublish, TypeOK, LedgerTypeOK,
       ledgerVars, clientVars, consumerVars
<1> QED
  BY <1>3, <1>4, <1>5 DEF Sweep

\* The clock, a lost consumer and restarts keep the types.
LEMMA EnvironmentType ==
    ASSUME TypeOK, Tick \/ ConsumerQuits \/ Restart
    PROVE  TypeOK'
<1>1. CASE Tick
  BY <1>1 DEF Tick, TypeOK, LedgerTypeOK, ledgerVars, clientVars, streamVars,
     consumerVars, sweepVars
<1>2. CASE Restart
  <2>1. MaxDeliver \in Nat \ {0} /\ stream \in Seq(Event)
    BY RegistryAssumption DEF TypeOK
  <2>2. Len(stream) \in Nat /\ cursor \in 0..Len(stream)
    BY <2>1 DEF TypeOK
  <2>3. /\ stream' \in Seq(Event)
        /\ msgIds' \subseteq Id
        /\ cursor' \in 0..Len(stream')
        /\ unacked' \subseteq (1..cursor') \X (1..(MaxDeliver - 1))
    <3>1. ASSUME pc["consumer"] \in {"handle", "refresh"}
          PROVE  Requeue(job) \subseteq (1..cursor) \X (1..(MaxDeliver - 1))
      BY <2>1, <3>1 DEF TypeOK, Requeue
    <3>2. CASE /\ stream' = <<>> /\ msgIds' = {} /\ cursor' = 0
               /\ unacked' = {}
      BY <3>2
    <3>3. CASE /\ unacked' = IF pc["consumer"] \in {"handle", "refresh"}
                             THEN Requeue(job) ELSE unacked
               /\ UNCHANGED <<streamVars, cursor>>
      BY <2>2, <3>1, <3>3 DEF TypeOK, streamVars
    <3>4. CASE cursor' = 0 /\ unacked' = {} /\ UNCHANGED streamVars
      BY <2>2, <3>4 DEF TypeOK, streamVars
    <3> QED
      BY <1>2, <3>2, <3>3, <3>4 DEF Restart, BrokerAfterRestart
  <2>4. /\ pc' \in [Threads -> PCs] /\ pc'["consumer"] = "next"
        /\ job' \in Nat \X Nat
    BY <1>2 DEF Restart, StartPC, PCs, Threads, NoJob
  <2> QED
    BY <1>2, <2>3, <2>4 DEF Restart, TypeOK, LedgerTypeOK, ledgerVars
<1>3. CASE ConsumerQuits
  <2>1. /\ pc' \in [Threads -> PCs] /\ pc'["consumer"] = "done"
        /\ faults' \in Nat
    BY <1>3 DEF ConsumerQuits, Goto, Fault, TypeOK, Threads, PCs
  <2> QED
    BY <1>3, <2>1 DEF ConsumerQuits, TypeOK, LedgerTypeOK, ledgerVars,
       clientVars, streamVars, consumerVars, sweepVars
<1> QED
  BY <1>1, <1>2, <1>3

\* Every state has its type.
THEOREM TypeCorrect == Spec => []TypeOK
<1>1. Init => TypeOK
  BY DEF Init, LedgerInit, TypeOK, LedgerTypeOK, StartPC, PCs, Threads, NoJob
<1>2. TypeOK /\ [Next]_vars => TypeOK'
  <2>1. ASSUME TypeOK, Next PROVE TypeOK'
    BY <2>1, OwnerType, ConsumerType, RebuildType, SweepType, EnvironmentType
       DEF Next
  <2>2. ASSUME TypeOK, UNCHANGED vars PROVE TypeOK'
    BY <2>2 DEF vars, TypeOK, LedgerTypeOK, ledgerVars, clientVars,
       streamVars, consumerVars, sweepVars
  <2> QED
    BY <2>1, <2>2
<1> QED
  BY <1>1, <1>2, PTL DEF Spec

-----------------------------------------------------------------------------
(* Every step of the registry is one ledger transaction or none, and the   *)
(* two tables stay tied together.                                          *)

\* The ledger's own steps.
LedgerStep ==
    \/ LedgerError
    \/ \E f \in Flows, ts \in Nat :
          \/ RegisterFlow(f, ts)
          \/ UpdateFlowActivity(f, ts)
          \/ RefreshFlow(f, ts)
          \/ \E st \in TerminalStatuses : TerminateFlow(f, st, ts)

\* No step of the registry mixes two transactions or writes a row otherwise.
LEMMA NextIsLedgerStep ==
    ASSUME TypeOK, [Next]_vars
    PROVE  LedgerStep
<1>1. ASSUME NEW c \in calls, FinishCall(c)
      PROVE  LedgerStep
  <2>1. c.flow \in Flows /\ c.ts \in Nat
    BY DEF TypeOK, Call
  <2>2. UpdateFlowActivity(c.flow, c.ts) \/ LedgerError
    BY <1>1 DEF FinishCall, FinishRefresh, FinishEnd, FinishActivity,
       LedgerError
  <2> QED
    BY <2>1, <2>2 DEF LedgerStep
<1>2. CASE Consume
  <2>1. CASE FetchNew \/ FetchRedelivered
    BY <2>1 DEF FetchNew, FetchRedelivered, LedgerStep, LedgerError
  <2>2. CASE HandleActive \/ HandleRefresh \/ HandleTerminal
    <3> DEFINE e == stream[job[1]]
    <3>1. pc["consumer"] \in {"handle", "refresh"}
      BY <2>2 DEF HandleActive, HandleRefresh, HandleTerminal, Handling
    <3>2. e.flow \in Flows /\ e.ts \in Nat
      BY <3>1, JobEvent DEF Event
    <3>3. \/ RegisterFlow(e.flow, e.ts) \/ RefreshFlow(e.flow, e.ts)
          \/ /\ TerminateFlow(e.flow, e.status, e.ts)
             /\ e.status \in TerminalStatuses
          \/ LedgerError
      BY <2>2 DEF HandleActive, HandleRefresh, HandleTerminal, Conclude,
         Handling
    <3> HIDE DEF e
    <3> QED
      BY <3>2, <3>3 DEF LedgerStep
  <2> QED
    BY <1>2, <2>1, <2>2 DEF Consume
<1>3. ASSUME NEW s \in Sweepers, Sweep(s)
      PROVE  LedgerStep
  <2>1. reapedAt[s] \in Nat /\ stale[s] \subseteq Flows
    BY DEF TypeOK
  <2>2. \/ LedgerError
        \/ \E f \in stale[s] : TerminateFlow(f, "failed", reapedAt[s])
    BY <1>3 DEF Sweep, SweepRead, SweepTerminate, SweepPublish, LedgerError
  <2> QED
    BY <2>1, <2>2 DEF LedgerStep, TerminalStatuses
<1>4. ASSUME \/ \E f \in Flows : OpenFlow(f)
             \/ \E f \in Flows, op \in {"refresh", "activity"} \cup EndKinds :
                    BeginCall(f, op)
             \/ \E t \in Threads : Rebuild(t)
             \/ Tick \/ ConsumerQuits \/ Restart \/ UNCHANGED vars
      PROVE  LedgerError
  BY <1>4 DEF OpenFlow, BeginCall, Rebuild, ListFlows, SetWorkspaces, Tick,
     ConsumerQuits, Restart, vars, LedgerError
<1> QED
  BY <1>1, <1>2, <1>3, <1>4 DEF Next, LedgerStep

\* INSERT OR IGNORE keeps every row, and leaves one for its flow and second.
LEMMA InsertEventKeeps ==
    ASSUME NEW f, NEW ts, NEW st
    PROVE  /\ audit \subseteq InsertEvent(f, ts, st)
           /\ \E e \in InsertEvent(f, ts, st) : e.flow = f /\ e.ts = ts
<1> DEFINE row == [flow |-> f, ts |-> ts, status |-> st]
<1>1. CASE \E e \in audit : e.flow = f /\ e.ts = ts
  BY <1>1 DEF InsertEvent
<1>2. CASE ~ \E e \in audit : e.flow = f /\ e.ts = ts
  <2>1. InsertEvent(f, ts, st) = audit \cup {row}
    BY <1>2 DEF InsertEvent
  <2>2. row.flow = f /\ row.ts = ts
    OBVIOUS
  <2> HIDE DEF row
  <2> QED
    BY <2>1, <2>2
<1> QED
  BY <1>1, <1>2

\* A ledger transaction keeps the tie between the two tables.
LEMMA LedgerBirth ==
    ASSUME LedgerTypeOK, BirthRecorded, LedgerStep
    PROVE  BirthRecorded'
<1> SUFFICES ASSUME NEW f \in active'
             PROVE  \E e \in audit' : e.flow = f /\ e.ts = registeredAt'[f]
  BY DEF BirthRecorded
<1>1. registeredAt \in [Flows -> Nat] /\ active \subseteq Flows
  BY DEF LedgerTypeOK
<1>2. CASE /\ f \in active /\ registeredAt'[f] = registeredAt[f]
           /\ audit \subseteq audit'
  BY <1>2 DEF BirthRecorded
<1>3. CASE LedgerError
  BY <1>2, <1>3 DEF LedgerError, ledgerVars
<1>4. ASSUME NEW g \in Flows, NEW ts \in Nat, RegisterFlow(g, ts)
      PROVE  \E e \in audit' : e.flow = f /\ e.ts = registeredAt'[f]
  <2>1. CASE f = g
    BY <1>1, <1>4, <2>1, InsertEventKeeps DEF RegisterFlow
  <2>2. CASE f # g
    BY <1>1, <1>2, <1>4, <2>2, InsertEventKeeps DEF RegisterFlow
  <2> QED
    BY <2>1, <2>2
<1>5. ASSUME NEW g \in Flows, NEW ts \in Nat,
             UpdateFlowActivity(g, ts) \/ RefreshFlow(g, ts)
      PROVE  \E e \in audit' : e.flow = f /\ e.ts = registeredAt'[f]
  BY <1>2, <1>5, InsertEventKeeps DEF UpdateFlowActivity, RefreshFlow
<1>6. ASSUME NEW g \in Flows, NEW ts \in Nat, NEW st \in TerminalStatuses,
             TerminateFlow(g, st, ts)
      PROVE  \E e \in audit' : e.flow = f /\ e.ts = registeredAt'[f]
  <2>1. f \in active /\ f # g
    BY <1>6 DEF TerminateFlow
  <2> QED
    BY <1>1, <1>2, <1>6, <2>1, InsertEventKeeps DEF TerminateFlow
<1> QED
  BY <1>3, <1>4, <1>5, <1>6 DEF LedgerStep

\* A running flow has an audit row for the second it was registered in.
THEOREM BirthsRecorded == Spec => []BirthRecorded
<1>1. Init => BirthRecorded
  BY DEF Init, LedgerInit, BirthRecorded
<1>2. TypeOK /\ BirthRecorded /\ [Next]_vars => BirthRecorded'
  BY NextIsLedgerStep, LedgerBirth DEF TypeOK
<1> QED
  BY <1>1, <1>2, TypeCorrect, PTL DEF Spec

-----------------------------------------------------------------------------
(* The order of deliveries.                                                *)

\* What all steps but the consumer's own and a restart have in common: they
\* leave the deliveries alone and only ever append to the stream.
Background ==
    /\ UNCHANGED <<cursor, unacked, job, restarts>>
    /\ \/ pc'["consumer"] = pc["consumer"]
       \/ {pc["consumer"], pc'["consumer"]} \cap {"handle", "refresh"} = {}
    /\ faults' \in {faults, faults + 1}
    /\ Len(stream') >= Len(stream)
    /\ \A i \in 1..Len(stream) : stream'[i] = stream[i]

\* A publish, if it happens, appends.
LEMMA PublishAppends ==
    ASSUME NEW e \in Event, NEW kind, TypeOK, TryPublish(e, kind)
    PROVE  /\ faults' \in {faults, faults + 1}
           /\ Len(stream') >= Len(stream)
           /\ \A i \in 1..Len(stream) : stream'[i] = stream[i]
<1>1. stream \in Seq(Event) /\ faults \in Nat
  BY DEF TypeOK
<1>2. faults' \in {faults, faults + 1}
  BY DEF TryPublish, NoFault, Fault
<1>3. stream' = stream \/ stream' = Append(stream, e)
  BY DEF TryPublish, Publish, streamVars
<1> QED
  BY <1>1, <1>2, <1>3, AppendType

\* The owners' steps are background steps.
LEMMA OwnerBackground ==
    ASSUME TypeOK,
           \/ \E f \in Flows : OpenFlow(f)
           \/ \E f \in Flows, op \in {"refresh", "activity"} \cup EndKinds :
                  BeginCall(f, op)
           \/ \E c \in calls : FinishCall(c)
    PROVE  Background
<1>0. stream \in Seq(Event) /\ Len(stream) \in Nat
  BY DEF TypeOK
<1>1. ASSUME NEW f \in Flows, OpenFlow(f)
      PROVE  Background
  <2>1. [flow |-> f, status |-> "active", ts |-> now] \in Event
    BY StatusType DEF TypeOK, Event
  <2>2. /\ faults' \in {faults, faults + 1}
        /\ Len(stream') >= Len(stream)
        /\ \A i \in 1..Len(stream) : stream'[i] = stream[i]
    BY <1>1, <2>1, PublishAppends DEF OpenFlow
  <2> QED
    BY <1>1, <2>2 DEF OpenFlow, Background, consumerVars
<1>2. ASSUME NEW f \in Flows,
             NEW op \in {"refresh", "activity"} \cup EndKinds,
             BeginCall(f, op)
      PROVE  Background
  BY <1>0, <1>2 DEF BeginCall, Background, consumerVars, streamVars
<1>3. ASSUME NEW c \in calls, FinishCall(c)
      PROVE  Background
  <2>1. c.flow \in Flows /\ c.op \in CallOps /\ c.ts \in Nat
    BY DEF TypeOK, Call
  <2>2. /\ faults' \in {faults, faults + 1}
        /\ Len(stream') >= Len(stream)
        /\ \A i \in 1..Len(stream) : stream'[i] = stream[i]
    <3>1. CASE FinishRefresh(c)
      <4>1. [flow |-> c.flow, status |-> "active", ts |-> c.ts] \in Event
        BY <2>1, StatusType DEF Event
      <4>2. faults' \in {faults, faults + 1}
        BY <3>1 DEF FinishRefresh, NoFault, Fault
      <4> QED
        BY <1>0, <3>1, <4>1, <4>2, AppendType DEF FinishRefresh
    <3>2. CASE FinishEnd(c)
      <4>1. [flow |-> c.flow, status |-> StatusOf(c.op), ts |-> c.ts] \in Event
        BY <2>1, <3>2, StatusType DEF FinishEnd, Event
      <4> QED
        BY <3>2, <4>1, PublishAppends DEF FinishEnd
    <3>3. CASE FinishActivity(c)
      BY <1>0, <3>3 DEF FinishActivity, streamVars, NoFault, Fault
    <3> QED
      BY <1>3, <3>1, <3>2, <3>3 DEF FinishCall
  <2> QED
    BY <1>3, <2>2 DEF FinishCall, Background, consumerVars
<1> QED
  BY <1>1, <1>2, <1>3

\* So are the snapshot rebuilds, the sweeps, the clock and a consumer that
\* quits.
LEMMA RestBackground ==
    ASSUME TypeOK,
           \/ \E t \in Threads : Rebuild(t)
           \/ \E s \in Sweepers : Sweep(s)
           \/ Tick \/ ConsumerQuits
           \/ UNCHANGED vars
    PROVE  Background
<1>0. /\ stream \in Seq(Event) /\ Len(stream) \in Nat
      /\ pc \in [Threads -> PCs] /\ "consumer" \in Threads
  BY DEF TypeOK, Threads
<1>1. ASSUME NEW t \in Threads, Rebuild(t)
      PROVE  Background
  <2>1. \/ pc'["consumer"] = pc["consumer"]
        \/ {pc["consumer"], pc'["consumer"]} \cap {"handle", "refresh"} = {}
    <3>1. CASE t = "consumer"
      BY <1>0, <1>1, <3>1 DEF Rebuild, ListFlows, SetWorkspaces, Goto, Resume
    <3>2. CASE t # "consumer"
      BY <1>0, <1>1, <3>2 DEF Rebuild, ListFlows, SetWorkspaces, Goto
    <3> QED
      BY <3>1, <3>2
  <2> QED
    BY <1>0, <1>1, <2>1 DEF Rebuild, ListFlows, SetWorkspaces, Background,
       consumerVars, streamVars, NoFault, Fault
<1>2. ASSUME NEW s \in Sweepers, Sweep(s)
      PROVE  Background
  <2>1. pc'["consumer"] = pc["consumer"]
    <3>1. s # "consumer"
      BY RegistryAssumption
    <3>2. CASE SweepRead(s)
      BY <1>0, <3>1, <3>2 DEF SweepRead, Goto
    <3>3. CASE SweepTerminate(s)
      BY <1>0, <3>1, <3>3 DEF SweepTerminate, Goto
    <3>4. CASE SweepPublish(s)
      BY <1>0, <3>1, <3>4 DEF SweepPublish, Goto
    <3> QED
      BY <1>2, <3>2, <3>3, <3>4 DEF Sweep
  <2>2. /\ faults' \in {faults, faults + 1}
        /\ Len(stream') >= Len(stream)
        /\ \A i \in 1..Len(stream) : stream'[i] = stream[i]
    <3>1. CASE SweepPublish(s)
      <4>1. PICK f \in reaping[s] :
               TryPublish([flow |-> f, status |-> "failed",
                           ts |-> reapedAt[s]], "reaped")
        BY <3>1 DEF SweepPublish
      <4>2. [flow |-> f, status |-> "failed", ts |-> reapedAt[s]] \in Event
        BY StatusType DEF TypeOK, Event
      <4> QED
        BY <4>1, <4>2, PublishAppends
    <3>2. CASE SweepRead(s) \/ SweepTerminate(s)
      <4>1. UNCHANGED stream
        BY <3>2 DEF SweepRead, SweepTerminate, streamVars
      <4>2. NoFault \/ Fault
        BY <3>2 DEF SweepRead, SweepTerminate
      <4> QED
        BY <1>0, <4>1, <4>2 DEF NoFault, Fault
    <3> QED
      BY <1>2, <3>1, <3>2 DEF Sweep
  <2> QED
    BY <1>2, <2>1, <2>2 DEF Sweep, SweepRead, SweepTerminate, SweepPublish,
       Background, consumerVars
<1>3. CASE Tick \/ UNCHANGED vars
  BY <1>0, <1>3 DEF Tick, vars, Background, consumerVars, streamVars
<1>4. CASE ConsumerQuits
  <2>1. pc["consumer"] = "next" /\ pc'["consumer"] = "done"
    BY <1>0, <1>4 DEF ConsumerQuits, Goto
  <2> QED
    BY <1>0, <1>4, <2>1 DEF ConsumerQuits, Fault, Background, consumerVars,
       streamVars
<1> QED
  BY <1>1, <1>2, <1>3, <1>4

\* A background step keeps the order of deliveries.
LEMMA BackgroundOrder ==
    ASSUME TypeOK, InOrder, Background
    PROVE  InOrder'
<1>1. faults \in Nat /\ (Ordered' => Ordered)
  BY DEF TypeOK, Background, Ordered
<1>2. pc'["consumer"] \in {"handle", "refresh"} => pc'["consumer"] = pc["consumer"]
  BY DEF Background
<1>3. pc["consumer"] = "refresh" => stream'[job[1]] = stream[job[1]]
  BY JobEvent DEF Background
<1> QED
  BY <1>1, <1>2, <1>3 DEF InOrder, Background

\* The consumer's own steps keep it.
LEMMA ConsumerOrder ==
    ASSUME TypeOK, InOrder, Consume
    PROVE  InOrder'
<1>0. /\ "consumer" \in Threads /\ pc \in [Threads -> PCs]
      /\ faults \in Nat /\ cursor \in Nat
  BY DEF TypeOK, Threads
<1>1. CASE FetchNew
  <2>1. Ordered' <=> Ordered
    BY <1>1 DEF FetchNew, Ordered
  <2>2. job'[1] = cursor' /\ unacked' = unacked /\ pc'["consumer"] = "handle"
    BY <1>0, <1>1 DEF FetchNew, Goto
  <2> QED
    BY <2>1, <2>2 DEF InOrder
<1>2. CASE FetchRedelivered
  <2>1. ~Ordered' /\ pc'["consumer"] = "handle"
    BY <1>0, <1>2 DEF FetchRedelivered, InOrder, Ordered, Goto
  <2> QED
    BY <2>1 DEF InOrder
<1>3. ASSUME HandleActive \/ HandleRefresh \/ HandleTerminal
      PROVE  InOrder'
  <2>1. /\ UNCHANGED <<restarts, stream, cursor>>
        /\ NoFault \/ Fault
    BY <1>3 DEF HandleActive, HandleRefresh, HandleTerminal, Conclude,
       consumerFrame, streamVars
  <2>2. Ordered' => Ordered /\ NoFault
    BY <1>0, <2>1 DEF Ordered, NoFault, Fault
  <2>3. unacked' = unacked \/ Fault
    BY <1>3 DEF HandleActive, HandleRefresh, HandleTerminal, Conclude, Ack
  <2>4. \/ pc'["consumer"] = "list"
        \/ /\ pc'["consumer"] = "refresh" /\ job' = job
           /\ pc["consumer"] = "handle" /\ stream[job[1]].status = "active"
    <3>1. CASE HandleActive
      BY <1>0, <3>1 DEF HandleActive, Handling, Ack, LoseAck, Goto
    <3>2. CASE HandleRefresh \/ HandleTerminal
      BY <1>0, <3>2 DEF HandleRefresh, HandleTerminal, Conclude, Ack, LoseAck,
         Goto
    <3> QED
      BY <1>3, <3>1, <3>2
  <2>5. Ordered' => unacked' = {}
    BY <2>2, <2>3, <1>0 DEF InOrder, NoFault, Fault
  <2> QED
    BY <2>1, <2>2, <2>4, <2>5 DEF InOrder
<1> QED
  BY <1>1, <1>2, <1>3 DEF Consume

\* Between two sweep steps at most one flow is unannounced.
LEMMA OneReapedStep ==
    ASSUME TypeOK, OneReapedAtATime, [Next]_vars
    PROVE  OneReapedAtATime'
<1> SUFFICES ASSUME NEW s \in Sweepers
             PROVE  IF pc'[s] = "publish"
                    THEN \E f \in Flows : reaping'[s] = {f}
                    ELSE reaping'[s] = {}
  BY DEF OneReapedAtATime
<1>0. /\ pc \in [Threads -> PCs] /\ reaping \in [Sweepers -> SUBSET Flows]
      /\ s \in Threads /\ s # "consumer"
  BY RegistryAssumption DEF TypeOK, Threads
<1>1. CASE pc'[s] = pc[s] /\ reaping'[s] = reaping[s]
  BY <1>1 DEF OneReapedAtATime
<1>2. CASE \/ \E f \in Flows : OpenFlow(f)
           \/ \E f \in Flows, op \in {"refresh", "activity"} \cup EndKinds :
                  BeginCall(f, op)
           \/ \E c \in calls : FinishCall(c)
           \/ Tick \/ UNCHANGED vars
  BY <1>1, <1>2 DEF OpenFlow, BeginCall, FinishCall, Tick, vars, sweepVars
<1>3. CASE Consume
  <2>1. \E l \in PCs : pc' = [pc EXCEPT !["consumer"] = l]
    <3>1. CASE FetchNew \/ FetchRedelivered
      BY <3>1 DEF FetchNew, FetchRedelivered, Goto, PCs
    <3>2. CASE HandleActive
      BY <3>2 DEF HandleActive, Ack, LoseAck, Goto, PCs
    <3>3. CASE HandleRefresh \/ HandleTerminal
      BY <3>3 DEF HandleRefresh, HandleTerminal, Conclude, Ack, LoseAck, Goto,
         PCs
    <3> QED
      BY <1>3, <3>1, <3>2, <3>3 DEF Consume
  <2>2. UNCHANGED reaping
    BY <1>3 DEF Consume, FetchNew, FetchRedelivered, HandleActive,
       HandleRefresh, HandleTerminal, consumerFrame, sweepVars
  <2> QED
    BY <1>0, <1>1, <2>1, <2>2
<1>4. ASSUME NEW t \in Threads, Rebuild(t)
      PROVE  IF pc'[s] = "publish"
             THEN \E f \in Flows : reaping'[s] = {f}
             ELSE reaping'[s] = {}
  <2>1. UNCHANGED reaping
    BY <1>4 DEF Rebuild, ListFlows, SetWorkspaces, sweepVars
  <2>2. CASE t = s
    <3>1. pc[s] # "publish" /\ pc'[s] # "publish"
      BY <1>0, <1>4, <2>2, RegistryAssumption
         DEF Rebuild, ListFlows, SetWorkspaces, Goto, Resume
    <3> QED
      BY <2>1, <3>1 DEF OneReapedAtATime
  <2>3. CASE t # s
    BY <1>0, <1>1, <1>4, <2>1, <2>3 DEF Rebuild, ListFlows, SetWorkspaces, Goto
  <2> QED
    BY <2>2, <2>3
<1>5. ASSUME NEW r \in Sweepers, Sweep(r)
      PROVE  IF pc'[s] = "publish"
             THEN \E f \in Flows : reaping'[s] = {f}
             ELSE reaping'[s] = {}
  <2>1. CASE r # s
    BY <1>0, <1>1, <1>5, <2>1 DEF Sweep, SweepRead, SweepTerminate,
       SweepPublish, Goto
  <2>2. CASE r = s /\ SweepRead(s)
    BY <1>0, <2>2 DEF SweepRead, Goto, OneReapedAtATime
  <2>3. CASE r = s /\ SweepTerminate(s)
    <3>1. stale[s] \subseteq Flows
      BY DEF TypeOK
    <3> QED
      BY <1>0, <2>3, <3>1 DEF SweepTerminate, Goto, OneReapedAtATime
  <2>4. CASE r = s /\ SweepPublish(s)
    BY <1>0, <2>4 DEF SweepPublish, Goto
  <2> QED
    BY <1>5, <2>1, <2>2, <2>3, <2>4 DEF Sweep
<1>6. CASE Restart
  BY <1>0, <1>6 DEF Restart, StartPC
<1>7. CASE ConsumerQuits
  BY <1>0, <1>1, <1>7 DEF ConsumerQuits, Goto, sweepVars
<1> QED
  BY <1>2, <1>3, <1>4, <1>5, <1>6, <1>7 DEF Next

\* A restart empties the consumer's hands, and orders nothing unless the
\* stream is emptied too.
LEMMA RestartOrder ==
    ASSUME TypeOK, InOrder, Restart
    PROVE  /\ InOrder'
           /\ pc'["consumer"] = "next"
           /\ Ordered' => cursor' = 0
<1>1. pc'["consumer"] = "next"
  BY DEF Restart, StartPC, Threads
<1>2. restarts \in Nat /\ restarts' = restarts + 1
  BY DEF Restart, TypeOK
<1>3. Ordered' => Embedded
  BY <1>2 DEF Ordered
<1>4. Ordered' => cursor' = 0 /\ unacked' = {}
  BY <1>3 DEF Restart, BrokerAfterRestart
<1> QED
  BY <1>1, <1>4 DEF InOrder

\* Deliveries come one at a time, in the order of the stream.
THEOREM DeliveriesInOrder == Spec => [](InOrder /\ OneReapedAtATime)
<1>1. Init => InOrder /\ OneReapedAtATime
  BY RegistryAssumption DEF Init, InOrder, OneReapedAtATime, StartPC, Threads
<1>2. TypeOK /\ InOrder /\ OneReapedAtATime /\ [Next]_vars
      => (InOrder /\ OneReapedAtATime)'
  <2> SUFFICES ASSUME TypeOK, InOrder, OneReapedAtATime, [Next]_vars
               PROVE  InOrder' /\ OneReapedAtATime'
    OBVIOUS
  <2>1. OneReapedAtATime'
    BY OneReapedStep
  <2>2. InOrder'
    BY OwnerBackground, RestBackground, BackgroundOrder, ConsumerOrder,
       RestartOrder DEF Next
  <2> QED
    BY <2>1, <2>2
<1> QED
  BY <1>1, <1>2, TypeCorrect, PTL DEF Spec

-----------------------------------------------------------------------------
(* No interleaving resurrects a flow, and none loses one.                  *)

\* The log applied so far is the same before and after.
SameLog ==
    /\ applied' = applied
    /\ \A i \in 1..applied : stream'[i] = stream[i]

\* EndedInLog and LiveInLog depend on the applied log only.
LEMMA SameLogSameFate ==
    ASSUME SameLog, applied \in Int, NEW f
    PROVE  /\ EndedInLog(f)' <=> EndedInLog(f)
           /\ LiveInLog(f)' <=> LiveInLog(f)
<1>1. \A sts : \A i \in 1..applied : IsEvent(i, f, sts)' <=> IsEvent(i, f, sts)
  BY DEF SameLog, IsEvent
<1>2. \A i \in 1..applied : (i+1)..applied \subseteq 1..applied
  BY SMT
<1> QED
  BY <1>1, <1>2 DEF SameLog, EndedInLog, LiveInLog

\* One more event applied: the new last event of its flow decides.
LEMMA NextLogFate ==
    ASSUME applied' = applied + 1, stream' = stream, applied \in Nat, NEW f
    PROVE  /\ EndedInLog(f)' =>
                  \/ IsEvent(applied + 1, f, TerminalStatuses)
                  \/ EndedInLog(f) /\ ~IsEvent(applied + 1, f, {"active"})
           /\ LiveInLog(f)' =>
                  \/ IsEvent(applied + 1, f, {"active"})
                  \/ LiveInLog(f) /\ ~IsEvent(applied + 1, f, TerminalStatuses)
<1> DEFINE n == applied + 1
<1>1. \A i, sts : IsEvent(i, f, sts)' <=> IsEvent(i, f, sts)
  BY DEF IsEvent
<1>2. /\ applied' = n
      /\ \A i \in 1..n : i # n => /\ i \in 1..applied
                                  /\ n \in (i+1)..n
                                  /\ (i+1)..applied \subseteq (i+1)..n
  BY SMT
<1> HIDE DEF n
<1>3. ASSUME EndedInLog(f)', ~IsEvent(n, f, TerminalStatuses)
      PROVE  EndedInLog(f) /\ ~IsEvent(n, f, {"active"})
  <2>1. PICK i \in 1..n : /\ IsEvent(i, f, TerminalStatuses)
                          /\ \A j \in (i+1)..n : ~IsEvent(j, f, {"active"})
    BY <1>1, <1>2, <1>3 DEF EndedInLog
  <2>2. i # n
    BY <1>3, <2>1
  <2> QED
    BY <1>2, <2>1, <2>2 DEF EndedInLog
<1>4. ASSUME LiveInLog(f)', ~IsEvent(n, f, {"active"})
      PROVE  LiveInLog(f) /\ ~IsEvent(n, f, TerminalStatuses)
  <2>1. PICK i \in 1..n : /\ IsEvent(i, f, {"active"})
                          /\ \A j \in (i+1)..n : ~IsEvent(j, f, TerminalStatuses)
    BY <1>1, <1>2, <1>4 DEF LiveInLog
  <2>2. i # n
    BY <1>4, <2>1
  <2> QED
    BY <1>2, <2>1, <2>2 DEF LiveInLog
<1> QED
  BY <1>3, <1>4 DEF n

\* The two safety properties together.
FatesInv == EndedStaysOut /\ LiveUnlessReaped

\* A step that applies no event keeps them if it registers nothing and loses
\* no flow without accounting for it.
LEMMA FatesKept ==
    ASSUME FatesInv, TypeOK,
           Ordered' => /\ Ordered
                       /\ SameLog
                       /\ active' \subseteq active
                       /\ \A f \in Flows : f \in active \/ Reaped(f)
                                               => (f \in active \/ Reaped(f))'
    PROVE  FatesInv'
<1> SUFFICES ASSUME Ordered', NEW f \in Flows
             PROVE  /\ EndedInLog(f)' => f \notin active'
                    /\ LiveInLog(f)' => (f \in active \/ Reaped(f))'
  BY DEF FatesInv, EndedStaysOut, LiveUnlessReaped
<1>1. applied \in Int
  BY DEF applied, TypeOK
<1>2. /\ EndedInLog(f)' <=> EndedInLog(f)
      /\ LiveInLog(f)' <=> LiveInLog(f)
  BY <1>1, SameLogSameFate
<1> QED
  BY <1>2 DEF FatesInv, EndedStaysOut, LiveUnlessReaped

\* Before an ordered state comes an ordered state and a faultless step.
LEMMA OrderedBefore ==
    ASSUME TypeOK, Background, Ordered'
    PROVE  Ordered /\ faults' = faults /\ SameLog
<1>1. faults \in Nat /\ cursor \in Nat /\ cursor <= Len(stream)
  BY DEF TypeOK
<1>2. Ordered /\ faults' = faults
  BY <1>1 DEF Background, Ordered
<1>3. applied' = applied
  BY DEF Background, applied
<1>4. 1..applied \subseteq 1..Len(stream)
  BY <1>1 DEF applied, TypeOK
<1> QED
  BY <1>2, <1>3, <1>4 DEF SameLog, Background

\* Owners, rebuilds and the clock touch no row of active_flows and no sweep.
LEMMA QuietFates ==
    ASSUME TypeOK, FatesInv,
           \/ \E f \in Flows : OpenFlow(f)
           \/ \E f \in Flows, op \in {"refresh", "activity"} \cup EndKinds :
                  BeginCall(f, op)
           \/ \E c \in calls : FinishCall(c)
           \/ \E t \in Threads : Rebuild(t)
           \/ Tick \/ ConsumerQuits
           \/ UNCHANGED vars
    PROVE  FatesInv'
<1>1. Background
  BY OwnerBackground, RestBackground
<1>2. UNCHANGED <<active, reaping>> /\ msgIds \subseteq msgIds'
  <2>1. ASSUME NEW f \in Flows, OpenFlow(f)
        PROVE  UNCHANGED <<active, reaping>> /\ msgIds \subseteq msgIds'
    BY <2>1 DEF OpenFlow, TryPublish, Publish, streamVars, ledgerVars, sweepVars
  <2>2. ASSUME NEW c \in calls, FinishCall(c)
        PROVE  UNCHANGED <<active, reaping>> /\ msgIds \subseteq msgIds'
    <3>1. UNCHANGED reaping
      BY <2>2 DEF FinishCall, sweepVars
    <3>2. UNCHANGED active
      BY <2>2 DEF FinishCall, FinishRefresh, FinishEnd, FinishActivity,
         UpdateFlowActivity, LedgerError, ledgerVars
    <3>3. msgIds \subseteq msgIds'
      BY <2>2 DEF FinishCall, FinishRefresh, FinishEnd, FinishActivity,
         TryPublish, Publish, streamVars
    <3> QED
      BY <3>1, <3>2, <3>3
  <2>3. ASSUME \/ \E f \in Flows, op \in {"refresh", "activity"} \cup EndKinds :
                      BeginCall(f, op)
               \/ \E t \in Threads : Rebuild(t)
               \/ Tick \/ ConsumerQuits
               \/ UNCHANGED vars
        PROVE  UNCHANGED <<active, reaping, msgIds>>
    BY <2>3 DEF BeginCall, ConsumerQuits, Rebuild, ListFlows, SetWorkspaces, Tick, vars,
       streamVars, ledgerVars, sweepVars
  <2> QED
    BY <2>1, <2>2, <2>3
<1>3. \A f : Reaped(f) => Reaped(f)'
  BY <1>2 DEF Reaped, Announced
<1> QED
  BY <1>1, <1>2, <1>3, OrderedBefore, FatesKept

\* A sweep takes flows out and announces what it took.
LEMMA SweepFates ==
    ASSUME TypeOK, FatesInv, OneReapedAtATime, NEW s \in Sweepers, Sweep(s)
    PROVE  FatesInv'
<1>0. Background
  BY RestBackground
<1>1. reaping \in [Sweepers -> SUBSET Flows]
  BY DEF TypeOK
<1>2. CASE SweepRead(s)
  <2>1. UNCHANGED <<active, reaping, msgIds>>
    BY <1>2 DEF SweepRead, ledgerVars, streamVars
  <2> QED
    BY <1>0, <2>1, OrderedBefore, FatesKept DEF Reaped, Announced
<1>3. CASE SweepTerminate(s)
  <2>1. reaping[s] = {} /\ UNCHANGED msgIds
    BY <1>3 DEF SweepTerminate, OneReapedAtATime, streamVars
  <2>2. PICK g \in stale[s] :
           \/ /\ TerminateFlow(g, "failed", reapedAt[s])
              /\ reaping' = [reaping EXCEPT ![s] = {g}]
           \/ LedgerError /\ UNCHANGED reaping
    BY <1>3 DEF SweepTerminate
  <2>3. /\ active' \subseteq active
        /\ \A f \in active : f \in active' \/ f \in reaping'[s]
    <3>1. CASE /\ TerminateFlow(g, "failed", reapedAt[s])
               /\ reaping' = [reaping EXCEPT ![s] = {g}]
      <4>1. active' = active \ {g} /\ reaping'[s] = {g}
        BY <1>1, <3>1 DEF TerminateFlow
      <4> QED
        BY <4>1
    <3>2. CASE LedgerError
      BY <3>2 DEF LedgerError, ledgerVars
    <3> QED
      BY <2>2, <3>1, <3>2
  <2>4. \A r \in Sweepers : reaping[r] \subseteq reaping'[r]
    BY <1>1, <2>1, <2>2
  <2>5. \A f \in Flows : f \in active \/ Reaped(f)
                             => (f \in active \/ Reaped(f))'
    BY <2>1, <2>3, <2>4 DEF Reaped, Announced
  <2> QED
    BY <1>0, <2>3, <2>5, OrderedBefore, FatesKept
<1>4. CASE SweepPublish(s)
  <2>1. PICK g \in Flows : reaping[s] = {g}
    BY <1>4 DEF SweepPublish, OneReapedAtATime
  <2>2. TryPublish([flow |-> g, status |-> "failed", ts |-> reapedAt[s]],
                   "reaped")
    BY <1>4, <2>1 DEF SweepPublish
  <2>3. UNCHANGED active /\ msgIds \subseteq msgIds'
    BY <1>4, <2>2 DEF SweepPublish, ledgerVars, TryPublish, Publish, streamVars
  <2>4. \A r \in Sweepers : r # s => reaping'[r] = reaping[r]
    BY <1>1, <1>4 DEF SweepPublish
  <2>5. NoFault => Announced(g)'
    <3>1. ASSUME NoFault
          PROVE  Publish([flow |-> g, status |-> "failed", ts |-> reapedAt[s]],
                         "reaped")
      BY <2>2, <3>1 DEF TryPublish, NoFault, Fault, TypeOK
    <3>2. CASE Duplicate(g, "reaped")
      BY <2>3, <3>2 DEF Duplicate, Announced
    <3>3. ASSUME ~Duplicate(g, "reaped"), NoFault
          PROVE  [flow |-> g, kind |-> "reaped", at |-> now] \in msgIds'
      BY <3>1, <3>3 DEF Publish
    <3> QED
      BY <3>2, <3>3 DEF Announced
  <2>6. NoFault => \A f \in Flows : f \in active \/ Reaped(f)
                                       => (f \in active \/ Reaped(f))'
    BY <2>1, <2>3, <2>4, <2>5 DEF Reaped, Announced
  <2> QED
    BY <1>0, <2>3, <2>6, OrderedBefore, FatesKept DEF NoFault
<1> QED
  BY <1>2, <1>3, <1>4 DEF Sweep

\* The consumer applies the next event, and its flow's fate follows it.
LEMMA ConsumerFates ==
    ASSUME TypeOK, FatesInv, InOrder, Consume
    PROVE  FatesInv'
<1>0. /\ "consumer" \in Threads /\ pc \in [Threads -> PCs]
      /\ faults \in Nat /\ cursor \in Nat
  BY DEF TypeOK, Threads
<1>1. CASE FetchNew
  <2>1. /\ UNCHANGED <<active, msgIds, reaping, stream, faults, restarts>>
        /\ pc["consumer"] = "next" /\ pc'["consumer"] = "handle"
        /\ cursor' = cursor + 1
    BY <1>0, <1>1 DEF FetchNew, Goto, ledgerVars, streamVars, sweepVars
  <2>2. Ordered' => Ordered /\ SameLog
    BY <1>0, <2>1 DEF Ordered, SameLog, applied
  <2> QED
    BY <2>1, <2>2, FatesKept DEF Reaped, Announced
<1>2. CASE FetchRedelivered
  <2>1. ~Ordered'
    BY <1>2 DEF FetchRedelivered, InOrder, Ordered
  <2> QED
    BY <2>1 DEF FatesInv, EndedStaysOut, LiveUnlessReaped
<1>3. CASE HandleActive \/ HandleRefresh \/ HandleTerminal
  <2> DEFINE e == stream[job[1]]
  <2>1. UNCHANGED <<restarts, stream, cursor, msgIds, reaping>>
    BY <1>3 DEF HandleActive, HandleRefresh, HandleTerminal,
       consumerFrame, streamVars, sweepVars
  <2>2. NoFault \/ Fault
    BY <1>3 DEF HandleActive, HandleRefresh, HandleTerminal, Conclude
  <2>3. Ordered' => Ordered /\ ~Fault
    BY <1>0, <2>1, <2>2 DEF Ordered, NoFault, Fault
  <2>4. \A f : Reaped(f)' <=> Reaped(f)
    BY <2>1 DEF Reaped, Announced
  <2>5. CASE HandleRefresh
    <3>1. UNCHANGED active
      BY <2>5 DEF HandleRefresh, Conclude, RefreshFlow, LedgerError, ledgerVars
    <3>2. pc["consumer"] = "refresh" /\ pc'["consumer"] = "list"
      BY <1>0, <2>5 DEF HandleRefresh, Conclude, Ack, LoseAck, Goto
    <3>3. SameLog
      BY <2>1, <3>2 DEF SameLog, applied
    <3> QED
      BY <2>3, <2>4, <3>1, <3>3, FatesKept
  <2>6. CASE HandleActive \/ HandleTerminal
    <3> SUFFICES ASSUME Ordered', NEW f \in Flows
                 PROVE  /\ EndedInLog(f)' => f \notin active'
                        /\ LiveInLog(f)' => (f \in active \/ Reaped(f))'
      BY DEF FatesInv, EndedStaysOut, LiveUnlessReaped
    <3>1. pc["consumer"] = "handle" /\ pc'["consumer"] \in {"list", "refresh"}
      BY <1>0, <2>6 DEF HandleActive, HandleTerminal, Handling, Conclude, Ack,
         LoseAck, Goto
    <3>2. job[1] = cursor /\ Ordered /\ ~Fault
      BY <2>3, <3>1 DEF InOrder
    <3>3. cursor \in 1..cursor
      BY <3>1, <3>2, JobEvent
    <3>4. applied' = applied + 1 /\ applied \in Nat /\ applied + 1 = job[1]
      BY <1>0, <2>1, <3>1, <3>2, <3>3 DEF applied
    <3>5. /\ EndedInLog(f)' =>
                 \/ IsEvent(job[1], f, TerminalStatuses)
                 \/ EndedInLog(f) /\ ~IsEvent(job[1], f, {"active"})
          /\ LiveInLog(f)' =>
                 \/ IsEvent(job[1], f, {"active"})
                 \/ LiveInLog(f) /\ ~IsEvent(job[1], f, TerminalStatuses)
      <4> HIDE DEF FatesInv
      <4> QED
        BY <2>1, <3>4, NextLogFate
    <3>6. /\ EndedInLog(f) => f \notin active
          /\ LiveInLog(f) => f \in active \/ Reaped(f)
      BY <3>2 DEF FatesInv, EndedStaysOut, LiveUnlessReaped
    <3>7. CASE HandleActive
      <4>1. /\ e.status = "active"
            /\ active' = active \cup {e.flow}
        BY <3>2, <3>7 DEF HandleActive, Handling, RegisterFlow, LedgerError,
           ledgerVars
      <4>2. IsEvent(job[1], f, {"active"}) <=> f = e.flow
        BY <4>1 DEF IsEvent
      <4>3. ~IsEvent(job[1], f, TerminalStatuses)
        BY <4>1 DEF IsEvent, TerminalStatuses
      <4> HIDE DEF e
      <4> QED
        BY <2>4, <3>5, <3>6, <4>1, <4>2, <4>3
    <3>8. CASE HandleTerminal
      <4>1. /\ e.status \in TerminalStatuses
            /\ active' = active \ {e.flow}
        BY <3>2, <3>8 DEF HandleTerminal, Handling, Conclude, TerminateFlow
      <4>2. IsEvent(job[1], f, TerminalStatuses) <=> f = e.flow
        BY <4>1 DEF IsEvent
      <4>3. ~IsEvent(job[1], f, {"active"})
        BY <4>1 DEF IsEvent, TerminalStatuses
      <4> HIDE DEF e
      <4> QED
        BY <2>4, <3>5, <3>6, <4>1, <4>2, <4>3
    <3> QED
      BY <2>6, <3>7, <3>8
  <2> QED
    BY <1>3, <2>5, <2>6
<1> QED
  BY <1>1, <1>2, <1>3 DEF Consume

\* After a restart nothing is applied, or the order is gone.
LEMMA RestartFates ==
    ASSUME TypeOK, InOrder, Restart
    PROVE  FatesInv'
<1> SUFFICES ASSUME Ordered', NEW f \in Flows
             PROVE  ~EndedInLog(f)' /\ ~LiveInLog(f)'
  BY DEF FatesInv, EndedStaysOut, LiveUnlessReaped
<1>1. applied' = 0
  BY RestartOrder DEF applied
<1>2. 1..0 = {}
  BY SMT
<1> QED
  BY <1>1, <1>2 DEF EndedInLog, LiveInLog

\* Both properties hold in every reachable state, by induction together with
\* the order of deliveries and the shape of a sweep.
THEOREM Fates == Spec => [](EndedStaysOut /\ LiveUnlessReaped)
<1>1. Init => FatesInv
  <2>1. ASSUME Init, NEW f \in Flows
        PROVE  ~EndedInLog(f) /\ ~LiveInLog(f)
    <3>1. applied = 0 /\ 1..0 = {}
      BY <2>1 DEF Init, applied, StartPC, Threads
    <3> QED
      BY <3>1 DEF EndedInLog, LiveInLog
  <2> QED
    BY <2>1 DEF FatesInv, EndedStaysOut, LiveUnlessReaped
<1>2. TypeOK /\ InOrder /\ OneReapedAtATime /\ FatesInv /\ [Next]_vars
      => FatesInv'
  BY QuietFates, SweepFates, ConsumerFates, RestartFates DEF Next
<1>3. FatesInv => EndedStaysOut /\ LiveUnlessReaped
  BY DEF FatesInv
<1> QED
  BY <1>1, <1>2, <1>3, TypeCorrect, DeliveriesInOrder, PTL DEF Spec

\* While events arrive in order and nothing fails, a flow whose last applied
\* event is terminal stays out of the registry, for any number of flows and
\* sweeps: no late call, snapshot rebuild or sweep brings it back.
THEOREM EndedStayOut == Spec => []EndedStaysOut
  BY Fates, PTL

-----------------------------------------------------------------------------
(* Silent owners are found out.                                            *)

\* Nothing that can still reach a row's activity is younger than the owners'
\* last second: not the rows, the "active" events of the stream, delivered or
\* not, nor the calls in progress.
Stamps ==
    /\ \A f \in Flows : lastActivity[f] <= ActiveUntil
    /\ \A i \in 1..Len(stream) :
           stream[i].status = "active" => stream[i].ts <= ActiveUntil
    /\ \A c \in calls : c.ts <= ActiveUntil

\* Appending an event keeps the stream's stamps, if it is terminal or old.
LEMMA AppendStamps ==
    ASSUME TypeOK, Stamps, NEW e \in Event,
           e.status = "active" => e.ts <= ActiveUntil,
           stream' = stream \/ stream' = Append(stream, e)
    PROVE  \A i \in 1..Len(stream') :
               stream'[i].status = "active" => stream'[i].ts <= ActiveUntil
<1>1. CASE stream' = stream
  BY <1>1 DEF Stamps
<1>2. CASE stream' = Append(stream, e)
  <2>1. stream \in Seq(Event)
    BY DEF TypeOK
  <2>2. /\ Len(stream') = Len(stream) + 1
        /\ Len(stream) \in Nat
        /\ \A i \in 1..Len(stream) : stream'[i] = stream[i]
    BY <1>2, <2>1, AppendType
  <2>3. stream'[Len(stream) + 1] = e
    BY <1>2, <2>1
  <2>4. \A i \in 1..Len(stream') : i \in 1..Len(stream) \/ i = Len(stream) + 1
    BY <2>2
  <2> QED
    BY <2>2, <2>3, <2>4 DEF Stamps
<1> QED
  BY <1>1, <1>2

\* Every transaction leaves the rows alone, zeroes one or stamps one with its
\* own timestamp.
LEMMA RowStamps ==
    ASSUME LedgerTypeOK, NEW f \in Flows, NEW ts \in Nat, NEW st,
           \A g \in Flows : lastActivity[g] <= ActiveUntil,
           \/ ts <= ActiveUntil /\ \/ RegisterFlow(f, ts)
                                   \/ UpdateFlowActivity(f, ts)
                                   \/ RefreshFlow(f, ts)
           \/ TerminateFlow(f, st, ts)
           \/ LedgerError
    PROVE  \A g \in Flows : lastActivity'[g] <= ActiveUntil
<1>1. lastActivity \in [Flows -> Nat] /\ ActiveUntil \in Nat
  BY RegistryAssumption DEF LedgerTypeOK
<1>2. \/ lastActivity' = lastActivity
      \/ \E n \in Nat : /\ n <= ActiveUntil
                        /\ lastActivity' = [lastActivity EXCEPT ![f] = n]
  BY <1>1 DEF RegisterFlow, UpdateFlowActivity, RefreshFlow, TerminateFlow,
     LedgerError, ledgerVars
<1> QED
  BY <1>1, <1>2

\* The owners stamp what they do with a second in which they are active.
LEMMA OwnerStamps ==
    ASSUME TypeOK, Stamps,
           \/ \E f \in Flows : OpenFlow(f)
           \/ \E f \in Flows, op \in {"refresh", "activity"} \cup EndKinds :
                  BeginCall(f, op)
           \/ \E c \in calls : FinishCall(c)
    PROVE  Stamps'
<1>1. ASSUME NEW f \in Flows, OpenFlow(f)
      PROVE  Stamps'
  <2> DEFINE e == [flow |-> f, status |-> "active", ts |-> now]
  <2>1. e \in Event /\ e.ts <= ActiveUntil
    BY <1>1, StatusType DEF OpenFlow, TypeOK, Event
  <2>2. stream' = stream \/ stream' = Append(stream, e)
    BY <1>1 DEF OpenFlow, TryPublish, Publish, streamVars
  <2> HIDE DEF e
  <2>3. \A i \in 1..Len(stream') :
            stream'[i].status = "active" => stream'[i].ts <= ActiveUntil
    BY <2>1, <2>2, AppendStamps
  <2> QED
    BY <1>1, <2>3 DEF OpenFlow, Stamps, ledgerVars
<1>2. ASSUME NEW f \in Flows,
             NEW op \in {"refresh", "activity"} \cup EndKinds,
             BeginCall(f, op)
      PROVE  Stamps'
  BY <1>2 DEF BeginCall, Stamps, ledgerVars, streamVars
<1>3. ASSUME NEW c \in calls, FinishCall(c)
      PROVE  Stamps'
  <2>1. /\ c.flow \in Flows /\ c.op \in CallOps /\ c.ts \in Nat
        /\ c.ts <= ActiveUntil
    BY DEF TypeOK, Call, Stamps
  <2>2. \A d \in calls' : d.ts <= ActiveUntil
    BY <1>3 DEF FinishCall, Stamps
  <2>3. CASE FinishRefresh(c)
    <3> DEFINE e == [flow |-> c.flow, status |-> "active", ts |-> c.ts]
    <3>1. e \in Event /\ e.ts <= ActiveUntil
      BY <2>1, StatusType DEF Event
    <3>2. stream' = stream \/ stream' = Append(stream, e)
      BY <2>3 DEF FinishRefresh
    <3> HIDE DEF e
    <3> QED
      BY <2>2, <2>3, <3>1, <3>2, AppendStamps
         DEF FinishRefresh, Stamps, ledgerVars
  <2>4. CASE FinishEnd(c)
    <3> DEFINE e == [flow |-> c.flow, status |-> StatusOf(c.op), ts |-> c.ts]
    <3>1. e \in Event /\ e.status # "active"
      BY <2>1, <2>4, StatusType DEF FinishEnd, Event, StatusOf
    <3>2. stream' = stream \/ stream' = Append(stream, e)
      BY <2>4 DEF FinishEnd, TryPublish, Publish, streamVars
    <3> HIDE DEF e
    <3> QED
      BY <2>2, <2>4, <3>1, <3>2, AppendStamps
         DEF FinishEnd, Stamps, ledgerVars
  <2>5. CASE FinishActivity(c)
    <3>1. \A g \in Flows : lastActivity'[g] <= ActiveUntil
      BY <2>1, <2>5, RowStamps DEF FinishActivity, TypeOK, Stamps
    <3> QED
      BY <2>2, <2>5, <3>1 DEF FinishActivity, Stamps, streamVars
  <2> QED
    BY <1>3, <2>3, <2>4, <2>5 DEF FinishCall
<1> QED
  BY <1>1, <1>2, <1>3

\* The consumer stamps rows with what an "active" event of the stream says.
LEMMA ConsumerStamps ==
    ASSUME TypeOK, InOrder, Stamps, Consume
    PROVE  Stamps'
<1>1. CASE FetchNew \/ FetchRedelivered
  BY <1>1 DEF FetchNew, FetchRedelivered, Stamps, ledgerVars, clientVars,
     streamVars
<1>2. CASE HandleActive \/ HandleRefresh \/ HandleTerminal
  <2> DEFINE e == stream[job[1]]
  <2>1. pc["consumer"] \in {"handle", "refresh"} /\ UNCHANGED consumerFrame
    BY <1>2 DEF HandleActive, HandleRefresh, HandleTerminal, Handling
  <2>2. e.flow \in Flows /\ e.ts \in Nat
    BY <2>1, JobEvent DEF Event
  <2>3. e.status = "active" => e.ts <= ActiveUntil
    BY <2>1, JobEvent DEF Stamps
  <2>4. \/ e.status = "active" /\ \/ RegisterFlow(e.flow, e.ts)
                                  \/ RefreshFlow(e.flow, e.ts)
        \/ TerminateFlow(e.flow, e.status, e.ts)
        \/ LedgerError
    BY <1>2 DEF HandleActive, HandleRefresh, HandleTerminal, Conclude,
       Handling, InOrder
  <2> HIDE DEF e
  <2>5. \A g \in Flows : lastActivity'[g] <= ActiveUntil
    BY <2>2, <2>3, <2>4, RowStamps DEF TypeOK, Stamps
  <2> QED
    BY <2>1, <2>5 DEF consumerFrame, clientVars, streamVars, Stamps
<1> QED
  BY <1>1, <1>2 DEF Consume

\* A sweep only zeroes rows and publishes "failed".
LEMMA SweepStamps ==
    ASSUME TypeOK, Stamps, NEW s \in Sweepers, Sweep(s)
    PROVE  Stamps'
<1>0. reapedAt[s] \in Nat /\ stale[s] \subseteq Flows /\ reaping[s] \subseteq Flows
  BY DEF TypeOK
<1>1. CASE SweepRead(s)
  BY <1>1 DEF SweepRead, Stamps, ledgerVars, clientVars, streamVars
<1>2. CASE SweepTerminate(s)
  <2>1. PICK f \in stale[s] :
            TerminateFlow(f, "failed", reapedAt[s]) \/ LedgerError
    BY <1>2 DEF SweepTerminate
  <2>2. \A g \in Flows : lastActivity'[g] <= ActiveUntil
    BY <1>0, <2>1, RowStamps DEF TypeOK, Stamps
  <2> QED
    BY <1>2, <2>2 DEF SweepTerminate, Stamps, clientVars, streamVars
<1>3. CASE SweepPublish(s)
  <2>1. PICK f \in reaping[s] :
            TryPublish([flow |-> f, status |-> "failed", ts |-> reapedAt[s]],
                       "reaped")
    BY <1>3 DEF SweepPublish
  <2> DEFINE e == [flow |-> f, status |-> "failed", ts |-> reapedAt[s]]
  <2>2. e \in Event /\ e.status # "active"
    BY <1>0, StatusType DEF Event
  <2>3. stream' = stream \/ stream' = Append(stream, e)
    BY <2>1 DEF TryPublish, Publish, streamVars
  <2> HIDE DEF e
  <2> QED
    BY <1>3, <2>2, <2>3, AppendStamps
       DEF SweepPublish, Stamps, ledgerVars, clientVars
<1> QED
  BY <1>1, <1>2, <1>3 DEF Sweep

\* A restart keeps the stream or empties it, and starts no call.
LEMMA RestStamps ==
    ASSUME TypeOK, Stamps,
           \/ \E t \in Threads : Rebuild(t)
           \/ Tick \/ ConsumerQuits \/ Restart \/ UNCHANGED vars
    PROVE  Stamps'
<1>1. CASE Restart
  <2>1. UNCHANGED lastActivity /\ calls' \subseteq calls
    BY <1>1 DEF Restart, ledgerVars
  <2>2. stream' = stream \/ stream' = <<>>
    BY <1>1 DEF Restart, BrokerAfterRestart, streamVars
  <2> QED
    BY <2>1, <2>2 DEF Stamps
<1>2. CASE ~Restart
  BY <1>2 DEF Rebuild, ListFlows, SetWorkspaces, Tick, ConsumerQuits, vars,
     Stamps, ledgerVars, clientVars, streamVars
<1> QED
  BY <1>1, <1>2

\* Once the owners have been silent for the grace period every row is stale,
\* so the next sweep of either goroutine takes it out: no redelivery, no late
\* call, no fallback to RefreshFlow and no restart gives a row a timestamp its
\* owner did not take.
THEOREM SilenceShows == Spec => []SilentAreStale
<1>1. Init => Stamps
  BY RegistryAssumption DEF Init, LedgerInit, Stamps
<1>2. TypeOK /\ InOrder /\ Stamps /\ [Next]_vars => Stamps'
  BY OwnerStamps, ConsumerStamps, SweepStamps, RestStamps DEF Next
<1>3. TypeOK /\ Stamps => SilentAreStale
  <2> SUFFICES ASSUME TypeOK, Stamps, now > ActiveUntil + GracePeriod,
                      NEW f \in active
               PROVE  lastActivity[f] + GracePeriod < now
    BY DEF SilentAreStale, StaleFlows
  <2>1. /\ f \in Flows /\ lastActivity[f] \in Nat
        /\ {ActiveUntil, GracePeriod, now} \subseteq Nat
    BY RegistryAssumption DEF TypeOK, LedgerTypeOK
  <2> QED
    BY <2>1 DEF Stamps
<1> QED
  BY <1>1, <1>2, <1>3, TypeCorrect, DeliveriesInOrder, PTL DEF Spec

=============================================================================
