# Renotify in TLA+

Formal models of [Renotify](../src/README.md), a human-in-the-loop notification
system: AI agents and developer workflows send notifications and questions to a
phone, the answers, stops and notes come back. Paths below are relative to
`src/`; `cli/` is the Go daemon and CLI, `clients/android` the mobile app.

Contents: [the system](#the-system), [the modules](#the-modules),
[the runs](#the-runs), [the proofs](#the-proofs),
[divergences](#where-code-and-documents-disagree),
[what is not modelled](#not-modelled), [the plan](#plan).

    tlc -config RegistryOrder.cfg MCFlowRegistry      # every run: see below
    tlapm FlowRegistryProofs.tla                      # every proof

## The system

A daemon per user (`renotify daemon start`) connects to NATS, either a broker
it embeds, with a memory-backed JetStream stream that dies with it, or a shared
one that outlives it. Six subsystems start in this order and stop in the
reverse one: ledger, HTTP server, MCP server, heartbeat publisher, presence
tracker, registry. They share the process, the NATS connection and, directly or
through request-reply endpoints, the SQLite ledger. CLI commands are processes
of their own; agents talk to the MCP server over HTTP or through a stdio relay;
phones talk to the broker.

Everything about a unit of work, a *flow*, runs over five subjects of the
stream `RENOTIFY`: `lifecycle` (active, completed, failed), `request`,
`response`, `interject` and the heartbeats beside it. Whoever publishes sets a
message ID (`Nats-Msg-Id`), under which the stream drops duplicates for two
minutes. Consumers are durable, acknowledge explicitly, and get a message again
after 30 s without an acknowledgement, three times in all.

### Inventory

For each part: its state, its operations, how it touches the others, what is
hard about it, and what makes it correct.

| Part | State | Operations | Hard | Correct when |
|---|---|---|---|---|
| Flow ledger `ledger/flows.go` | `active_flows`, `flow_lifecycle_events` | RegisterFlow, RefreshFlow, UpdateFlowActivity, TerminateFlow, ReapStaleFlows, ListActiveFlows | keys to the second, `INSERT OR IGNORE`, errors rolled back | the two tables never contradict each other |
| Flow registry `registry/` | durable consumer, reaper's list, write endpoints | consumeLifecycle, handleActive, handleTerminal, reapOnce, rebuildWorkspaceSnapshot, update-activity | three goroutines, redelivery, restart, errors only logged | no ended flow comes back, no live one disappears silently, no dead one stays |
| JetStream transport `broker/{jetstream,publish,subjects}.go` | stream, message IDs, consumers' positions | publish, fetch, ack | at-least-once, dedup window, MaxDeliver, restart | what is stored is delivered in order |
| Heartbeat publisher `heartbeat/` | workspace snapshot | SetWorkspaces, publish | the snapshot has three writers | the snapshot settles on the registry |
| MCP flow and post tools `mcpserver/tool_{flow,post}.go` | none but the client of the registry | register_flow, refresh_flow, terminate_flow, post | timestamp, look-up and publish are separate | calls on ended flows do no harm |
| MCP ask `mcpserver/{tool_ask,tool_await,decisions,subscriber,timeout}.go` | DecisionStore, one subscriber and timer per ask | ask, await_decision, Resolve, ResolveTimeout | answer, timeout, stop and shutdown race; one subject per flow | each decision is settled once, and every wait ends |
| MCP interjections `mcpserver/{interject,interjections,tool_interject}.go` | debounce map, queue and channel per flow | consumeInterjections, check_interjections, await_interjection | wake-ups, overlapping drains, redelivery, restart | each interjection reaches one call |
| MCP server, stdio relay `mcpserver/{server,stdio_relay,nats_transport}.go`, `command/mcp.go` | session map, channel of 64 per session | open, close, read, write, stop | open against close and stop; back-pressure | a closed session leaves nothing behind; an open one reads every line |
| Notification ledger `ledger/{requests,responses,interjections}.go` | three tables | insert, by consumer and by endpoint | the same record over two paths, foreign keys | every answered request is stored with its first answer |
| Ledger database `ledger/{ledger,schema,subsystem}.go` | connection pool, schema version | Open, migrate, Close | pragmas per connection, interrupted migration | a migration runs once, in order |
| History query `ledger/history.go` | none | QueryHistory | union, order, pages; three queries | a notification is shown with the answer it was given |
| Registry query endpoints `registry/*endpoint.go` | none | svc.flows, svc.presence | none | read-only |
| CLI ask, dispatch `command/{ask,dispatch,response,flow}.go` | two ephemeral consumers, a safety timer | wait for answer, interjection, signal, timer | all four race | one exit, one terminal event |
| CLI post, answer `command/{post,answer}.go` | none | publish | a failing publish in the middle | the flow it opens is ended |
| CLI queries and settings `command/...` | none | request, print | none | read-only |
| Daemon controller `daemon/`, `command/daemon.go` | started subsystems | Run, reloadAuth, stop | failure half-way up; reload | what was started is stopped |
| Pairing, authorization `pairing/`, `command/{pair,revoke}.go`, `broker/auth.go`, `state/devices.go` | `devices.json`, broker's users | pair, revoke, reload | read-modify-write without lock | a revoked device stays revoked |
| Device presence `presence/` | last seen per device | heartbeat, reload, list | reload against heartbeat | exactly the paired devices, in their last state |
| Embedded broker, connection `broker/{embedded,client}.go`, `tlsgen/`, `netutil/` | NATS server | start, stop | I/O | - |
| HTTP server `httpserver/` | listener | start, stop | I/O | - |
| Configuration `config/`, `xdg/` | none | load, validate | layers | later layers win |
| Identifiers `crockford/`, `state/{flowid,daemonid,workspace}.go` | ID files | encode, decode | alphabet, padding | decode inverts encode |
| Payload types `payload/` | none | records, JSON | probing for an error response | - |
| Android connection `nats/NatsConnectionManager.kt` | connection, rendered IDs | connect, reconnect, disconnect | backoff, half-made connections, redelivery | one binding of the consumer; each notification once |
| Android service `nats/NatsService.kt`, `notification/` | shown notifications | render, answer, interject | disconnected, process death | what is acknowledged was shown |
| Android dashboard | views | show | none | - |
| Android pairing, telemetry | provisioning, reports | scan, upload | retry of uploads | a report is deleted after its ack |

## The modules

| Module | Models | Built on |
|---|---|---|
| `FlowLedger` | the two flow tables and their transactions | |
| `FlowRegistry` | consumer, reaper, start-up sweep, snapshot; owners, stream, clock, restart | EXTENDS `FlowLedger` |
| `DecisionPromise` | abstract specification of ask and await_decision | |
| `Mailbox` | abstract specification of what the interjection tools promise | |
| `AskDecision` | handleAsk, DecisionStore, subscribers, timers, stops, waits | INSTANCE `DecisionPromise` |
| `InterjectionQueue` | interjection consumer, debounce, queues, the two tools | INSTANCE `Mailbox` |
| `NotificationLedger` | the request and response tables and the statements on them | |
| `CliAsk` | the processes of ask, post and dispatch, the ask tool's records, the users, the consumer that fills the tables | EXTENDS `NotificationLedger` |
| `StdioRelay` | `renotify mcp` and the sessions the daemon keeps for it | |
| `MobileClient` | the Android service, its connections, the pump, the taps; the server side of the device's consumer | |
| `Pairing` | pair, revoke, reload and status commands next to daemons: devices.json, PID file, SIGHUP, broker users, consumers, presence | |
| `FlowRegistryProofs`, `AskDecisionProofs`, `InterjectionQueueProofs`, `CliAskProofs`, `StdioRelayProofs`, `MobileClientProofs`, `PairingProofs` | theorems | EXTEND theirs |
| `MCFlowRegistry`, `MCAskDecision`, `MCCliAsk`, `MCStdioRelay`, `MCPairing` | values, symmetry sets and smaller initial or next-state predicates for TLC | EXTEND theirs |

Three modules look at the flow's subjects from different sides and share no
state: `FlowRegistry` at the lifecycle events, `AskDecision` at what the daemon
does with answers, timeouts and stops, `CliAsk` at requests and answers on their
way from a process to the history.

Operators marked `Mutant:` are not part of the models. They are single wrong
versions of the definition that follows them, for trying that a property
notices.

### FlowLedger and FlowRegistry

*State.* `active`, `registeredAt`, `lastActivity` are the rows of
`active_flows`, `audit` those of `flow_lifecycle_events`. RFC 3339 text has no
fractions of a second, so the model's clock counts seconds and two events of a
flow may carry the same one. Labels and metadata are left out: the code copies
them and takes no decision on them.

*Goroutines.* `pc`, `view`, `stale`, `reapedAt`, `reaping` hold what each of
the three goroutines (`consumer`, `ticker`, `startup`) has in its local
variables between two steps. A step is a transaction, a publish or an
assignment to shared state; between steps the others run.

| Action | Code |
|---|---|
| `OpenFlow`, `BeginCall`, `FinishCall` | CLI and MCP tools as the registry sees them: the timestamp and the look-up come first, the publish or the activity update after. The four ways to end a flow differ in the message ID |
| `FetchNew`, `FetchRedelivered`, `ConsumerQuits` | `iter.Next` in consumeLifecycle: new, again, or an error on which the goroutine returns |
| `HandleActive`, `HandleRefresh` | handleActive: RegisterFlow, and on *any* error RefreshFlow |
| `HandleTerminal` | handleTerminal; a ledger error is logged and the message acknowledged |
| `ListFlows`, `SetWorkspaces` | rebuildWorkspaceSnapshot, which every handler and sweep ends with |
| `SweepRead`, `SweepTerminate`, `SweepPublish` | reapOnce: one query, then per flow a transaction and a publish |
| `Tick`, `Restart` | time; the daemon stops or dies between any two steps. The ledger survives, the stream if the broker does |

`Fault` is one of: a ledger operation rolled back, a publish that fails, an
acknowledgement that is lost, a consumer that ends.

### AskDecision and DecisionPromise

*State.* For each ask: how far `handleAsk` is, its decision (`verdict`: open,
decided without an answer, or the answer), its subscriber with the first
message it received, its timer. For the interjection consumer: the stop in hand
and the ids it collected. For each await_decision: what it waits for and what
it got. `crashed` is a panic of a goroutine, which ends the process.

| Action | Code |
|---|---|
| `Publish`, `Register`, `StartSubscriber`, `StartTimer` | handleAsk in its order. The request is out before anybody listens for the answer |
| `Subscribe`, `HandleResponse`, `GiveUpListening` | startResponseSubscriber: a core NATS subscription on the *flow's* response subject; one message, then done |
| `Expire`, `CancelTimer`, `PublishTimeout`, `PublishFailed` | startTimeoutTimer: an ErrorResponse on the response subject, then a failed lifecycle event |
| `CollectPending`, `ResolveCollected`, `EndStop` | resolveDecisionsForFlow: ids under the read lock, each resolved under the write lock |
| `Await`, `Wake`, `AwaitTimeout` | handleAwaitDecision |
| `Answer`, `Shutdown` | any device or `renotify answer`, which takes a flow and a request and checks neither, so that an answer may come to any flow; Server.Stop |

`Resolve` closes the decision's channel without asking whether it is closed; in
Go a second close panics, and that is how it is modelled.

A timeout of at least a second leaves a started goroutine the time to subscribe
and a waiting one the time to see a closed channel; `Expire` says so, and
`Impatient` names the asks for which it is not assumed (`timeout_sec` below
zero); one of the two of `asks` is such an ask, so both schedules occur.

`DecisionPromise` is what an agent may rely on: a promise per ask, settled at
most once, and callers that get what it was settled with or give up. It has no
subscribers, timers, subjects or stops. `AskDecision` implements it with
`Answers <- Response` and `down <- crashed`. So what follows from the promise
holds of the component: whoever was given an answer was given the one that
settled its ask (`AgentsAgree`).

That an ask is decided at all is a matter of subscriber and timer, which work on
the same subject: the timer's message is what ends the subscriber.
`DecisionIsDue` says at which of the two the decision is.

### InterjectionQueue

*State.* The interject messages of the stream, the consumer's position, its
debounce map, the per-flow queues, where each call of a tool is (idle, has seen
an empty queue, parked on the channel, woken). The closing and replacing of the
queue's channel is modelled by what it does: `Put` wakes exactly the calls that
are parked, and a call that parks afterwards waits for the next one. `put`,
`handed`, `heard`, `judged` are histories for the properties; no action reads
them.

`Mailbox` is what an agent may take all this for: per flow a mailbox, opened
once, out of which everything is given to one call, in order. `KeepsMailboxes`
refines it with `box <- queue`, `given <- handed`; the consumer, the debounce,
the channel and where the calls are stutter.

| Action | Code |
|---|---|
| `Register`, `Remove` | register_flow, terminate_flow |
| `FetchNew`, `FetchRedelivered`, `ConsumerQuits` | consumeInterjections' iterator |
| `CheckDebounce`, `AppendItem`, `Finish` | handle: debounce and ledger record; queue; fail the flow (stop) and acknowledge |
| `Check`, `AwaitDrain`, `AwaitPark`, `AwaitWake`, `AwaitTimeout` | the two tools. await's look at the queue and its fetch of the channel are two critical sections |
| `Send`, `Tick`, `Restart` | users, time, the daemon. Queues and debounce map do not survive it |

### NotificationLedger and CliAsk

*State.* `requests` and `responses` are the two notification tables. A foreign
key ties a response to its request, but `PRAGMA foreign_keys` is executed on
one connection of the pool only: `InsertResponse` has a parameter that says
whether the connection it got checks.

A command is a process that runs once, with a notification and a flow of its
own; a call of the ask tool has a notification of its own and is in any flow
that is known, another's too. `step` and `outcome` say how far it is and how it
ended, `start` where its ephemeral consumers or its subscription begin, `heard`
the message in its channel, `interjects` what is in the other one, `events` what
it has said about its flow, `cut` whether its connection is gone. `log` is the
stream of requests and of messages on response subjects: responses, which carry
the flow they are sent to and the request they name, error responses, and what
cannot be parsed. `pos` and `unacked` are what the daemon's consumer has
applied, and applied without the server's knowing. `patience` holds the commands
whose timeout has not passed, `due` where the stream was when it did.

As in the code, the flow routes and the request files: a command acts on
whatever comes on its flow, and the ledger stores it under the request it names.

| Action | Code |
|---|---|
| `Listen`, `Open`, `PublishRequest` | runAsk and the permission hook: consumers first, then the active event, then the request. Each may fail; a failed request leaves the flow open |
| `ClosePost` | `renotify post` and the notification hook: opened, published, completed |
| `Deliver`, `HandleResponse`, `HandleInterjection`, `SafetyTimer`, `Interrupt` | the select loop. Whichever is taken first says how the flow ends |
| `Disconnect`, `Kill` | MaxReconnects(0): a broken connection is closed for good; a process may die at any step |
| `HandleResponse`, `GiveUp` | an answer; an error response or what cannot be parsed, of which `renotify ask` does not tell its flow and the hook does |
| `Decision` | handlePermissionResponse: the label back to what was picked |
| `McpRequest`, `McpInsertRequest`, `McpListen`, `McpHandleResponse`, `McpTimeout` | the ask tool, as far as it writes to the stream and, by svc.insert-request and svc.insert-response, to the ledger. Its timeout goes to everybody on the flow |
| `Answer`, `Garble`, `Interject`, `Impatience` | users and time. An answer goes to any flow and names any request that was made; the stream drops a second one to the same request within two minutes (the message ID names the request and not the flow), and only subscribers hear it |
| `Process`, `Reprocess`, `ConsumerQuits`, `Restart` | the registry's consumer: insert, then acknowledge whatever became of the insert; redelivery; loss of the in-memory stream |

A grace period lies between a command's timeout and its safety timer. It is
taken to be longer than a message needs (`UnderWay`): what was published before
the timeout has arrived when the timer fires, on a connection that holds.

### StdioRelay

*State.* `client` is the process `renotify mcp`, `opens` and `closes` what waits
for the callbacks of the two subscriptions of the daemon, `opener` where the
open callback is, `sessions` the map (`Nil` after Stop, as in the code, where an
insert then panics). For each session: its natsConn, what waits for its callback
(`queue`), the line the callback holds, the channel, the MCP session that
reads it and the goroutine that waits for its end. A line is its number.
`missed` remembers closes that found nothing, for the properties.

| Action | Code |
|---|---|
| `Open`, `SendLine`, `Leave`, `Vanish` | runMCP. The open is flushed to the broker, not to the daemon; a line published before the daemon has subscribed is lost |
| `BeginOpen`, `SubscribeLines`, `ConnectSession`, `InsertSession` | handleStdioOpen: duplicate check and insert are two critical sections, with the subscription and the MCP session between them |
| `HandleClose`, `WaitEnds` | removeStdioSession, by the client or after the session's end. Who takes it out of the map closes it, unless the SDK has |
| `Unsubscribe` | the second half of natsConn.Close |
| `StopListening`, `StopSessions`, `Restart` | stopStdioRelay; a new process |
| `TakeLine`, `PassLine`, `ReadLine`, `ReadError` | the callback, which waits for room in the channel or for the close; natsConn.Read |
| `WriteError`, `CloseFailed`, `SessionEnds` | what the MCP SDK does with a session whose Read or Write failed: it calls natsConn.Close, and when that has returned ss.Wait does. The map has the session with a closed connection until then, or gets it afterwards, when the open callback is not that far yet |

### MobileClient

*State.* The service has instances, numbered, each with a connection manager:
what Android has destroyed may still be in a blocking call. For each: its
connect job, its connection, its pump with what was delivered to it, the message
in hand and whether it is handled, the IDs it has rendered, the answers it is
publishing. `bound` is the instance to whose connection the server has bound the
device's consumer, or `Gone` when it has not noticed that the connection broke.
`consumer` and `deliveries` are the server's view of each message.

| Action | Code |
|---|---|
| `Start`, `Destroy`, `KillProcess`, `SetSilent` | onStartCommand, onDestroy, Android, the switch |
| `DialSucceeds`, `DialFails`, `Bind`, `BindFails`, `Retry`, `NoticeLoss`, `Close` | connectOnce, the reconnection loop, the monitor, disconnect. Cancellation takes effect where a job suspends, not in a blocking call |
| `Publish`, `Push`, `Expire`, `Unbind` | the durable push consumer of the device: one binding, deliveries that count whether or not they arrive |
| `Take`, `Handle`, `Ack` | the pump: render, skip what this manager has rendered, suppress while silent, acknowledge all of them, and what cannot be rendered too |
| `Tap`, `More`, `Choose`, `PublishSucceeds`, `PublishFails` | buttons, dialog, handlePublishResponse: dropped while disconnected, dismissed after the stream has the answer |
| `Swipe` | the user, without the app: since Android 14 an ongoing notification can be swiped away, and nothing listens for it |

### Pairing

*State.* `file` and `tmp` are `devices.json` and `devices.json.tmp`, each a set
of devices, empty (`Empty`, as left by a truncation) or otherwise not parsable
(`Broken`). A command is a process with what it has read and is about to save,
its open file and the PID it has read; a daemon is a process with its step
(`pc`), the users of its broker, the consumers it made, the devices its presence
tracker knows and has seen, and one pending SIGHUP, the capacity of the channel
the signals go to. `paired`, `revoked`, `promised` and `overlapped` are
histories for the properties; the first also keeps a device ID from being
drawn twice, no other action reads them.

| Action | Code |
|---|---|
| `BeginPair`, `BeginRevoke` | AddDevice; RemoveDevice of one device, ClearDevices for `--all`: what is read now is saved later |
| `OpenTmp`, `WriteTmp`, `Rename`, `RenameFails` | writeAtomicBytes, one system call each. An open file follows its inode: it may be renamed or replaced by another command in between |
| `BeginReload`, `BeginStatus`, `ReadPid`, `CleanPid`, `Kill` | `daemon reload`, `daemon status`, signalDaemonReload: PID file, signal 0, SIGHUP or removal of a stale file. SIGHUP kills a process that has not yet called signal.Notify, or has called signal.Stop |
| `CommandFails` | killed or in error at any point; a write is left half done |
| `Start`, `LookAgain`, `CleanStale`, `WritePid` | the two looks at the PID file, the removals that follow them, writePID |
| `TrackDevices`, `Notify`, `ReadDevices`, `StartBroker`, `EnsureJetStream` | the rest of the start in its order, with its three loads of devices.json, of which two ignore errors |
| `Reload`, `ReloadAuth`, `FinishReload` | reloadAuth: load; users of the broker, who are disconnected when no longer there; consumers and presence |
| `Interrupt`, `ShutBroker`, `StopSignals`, `CheckOwner`, `RemovePid`, `Crash` | SIGTERM and the deferred calls in their order; a crash anywhere |
| `Heartbeat` | handleHeartbeat for a device that is a user of the broker |

The model's PID file is read and written in one step, and no PID is used again.

## The runs

All with `-workers 2`; states are distinct states.

| Run | Config / module | Checks | States, time |
|---|---|---|---|
| `registry_order` | `RegistryOrder.cfg` / `MCFlowRegistry` | `EndedStaysOut`, `LiveUnlessReaped` | 2.6 M, 40 s |
| `registry_faults` | `RegistryFaults.cfg` / `MCFlowRegistry` | `TypeOK`, `BirthRecorded`, `SilentAreStale`, `NoPhantomFlows` | 274 k, 15 s |
| `registry_heartbeat` | `RegistryHeartbeat.cfg` / `MCFlowRegistry` | `HeartbeatSettles` is violated | |
| `asks` | `Asks.cfg` / `MCAskDecision` | `TypeOK`, `OnlyStopsCrash`, `DecisionIsDue`, `KeepsPromise`, `WaitsEnd` | 1.6 M, 125 s |
| `ask_immutable` | `AskImmutable.cfg` / `AskDecision` | `DecidedIsImmutable` is violated | |
| `ask_routing` | `AskRouting.cfg` / `AskDecision` | `AnswerRoutesToItsAsk` is violated | |
| `interjections` | `Interjections.cfg` / `InterjectionQueue` | `TypeOK`, `DroppedOnlyRepeats`, `StopIsShownFirst`, `NoneIsLost`, `KeepsMailboxes`, `AllAreHeard` | 238 k, 18 s |
| `interjections_parked` | `InterjectionsParked.cfg` / `InterjectionQueue` | `ParkedMeansEmpty` is violated | |
| `cli_history` | `CliAsk.cfg` / `MCCliAsk` | `TypeOK`, `OneStory`, `InTimeIsHeard`, `FlowsAreEnded`, `AnswersAreKept`, `WaitsEnd` | 1.3 M, 140 s |
| `stdio_relay` | `StdioRelay.cfg` / `MCStdioRelay` | `TypeOK`, `NothingLeaks`, `NoGaps`, `ClosedEnds`, `EndedIsReleased`, `CallbackReturns` | 426 k, 140 s |
| `mobile_client` | `MobileClient.cfg` / `MobileClient` | `TypeOK`, `RenderedOnce`, `TapIsNotLost`, `AckedIsHandled`, `Delivered`, `Reconnects` | 282 k, 40 s |
| `pairing` | `Pairing.cfg` / `MCPairing` | `TypeOK`, `PairedUntilRevoked`, `Agreement`, `CutOff`, `KeepsSeen` | 5.1 M, 100 s |

What the passing ones show:

* `registry_order`. With three goroutines and the owners interleaved in every
  way, and a restart, as long as nothing fails the registry is what the event
  log says: a flow whose last applied event is terminal has no row
  (`EndedStaysOut`), and one whose last event is active has one unless a sweep
  took it and has announced that or is about to (`LiveUnlessReaped`). Both hang
  on details: RegisterFlow's conflict standing for "refresh instead",
  RefreshFlow doing nothing without a row, activity being an UPDATE and not an
  upsert.
* `registry_faults`. A lost acknowledgement, a failed transaction or publish, or
  a consumer that ends, and a restart at any point, do not part the two tables
  (`BirthRecorded`). Once the owners have been silent for the grace period no
  row looks alive any more (`SilentAreStale`), and the flow leaves for good
  (`NoPhantomFlows`), be it through its own terminal event or the reaper, and
  even if old events are delivered again afterwards.
* `asks`. Subscriber, timer and any answers never resolve a decision twice; only
  a stop can (`OnlyStopsCrash`), wherever the answers are sent. The component implements its promise (`KeepsPromise`).
  While nothing fails, no message on the flow's subject, to this ask or another,
  comes and goes between timer and subscriber (`DecisionIsDue`), and no agent
  waits forever: a lost early answer ends in the timeout (`WaitsEnd`).
* `interjections`. Overlapping calls neither share an item nor lose one between
  them (`KeepsMailboxes`); what the debounce drops is a repeat of something that
  *was* queued; a stop is in the queue before the flow is failed. Lost
  acknowledgements never cost an interjection, for they are lost only after it
  was looked at; restarts do, each one delivery, and with as many restarts as
  there are deliveries one in the consumer's hand is gone (`NoneIsLost`, and
  `AllAreHeard` for what follows from it under fairness).
* `cli_history`. What is sent in time is heard, wherever it falls between the
  creation of the consumers and the timer, by every command that listens before
  it asks (`InTimeIsHeard`). Whoever opened a flow ends it once, with the status
  its exit code tells (`FlowsAreEnded`); the exceptions in the formula are all
  real: broken connections, kills, and the two exits of `renotify ask` that leave
  its flow open. What was acted on is in the history under the request it names,
  although the rows come over two paths, the tool's own and the consumer's, in
  any order, repeated, refused by a foreign key (`AnswersAreKept`). It is the
  same that was acted on, when all who acted on an answer to that request took
  the first (`OneStory`). Both are about the request a response *names*: who
  acted on it may have asked something else. No wait needs an answer, the daemon
  or a connection to end (`WaitsEnd`).
* `stdio_relay`. A close that the daemon sees with its session in the map, and a
  session that ends by itself at any point of its own creation, leave neither
  entry nor subscription behind (`ClosedEnds`, `EndedIsReleased`). At no point
  is a subscription open that nobody is left to close, and a session in the map
  is open unless the SDK has given it up (`NothingLeaks`). A full channel
  holds up its own session only, drops nothing (`NoGaps`), and a callback that
  waits for it is released by the close (`CallbackReturns`).
* `mobile_client`. Lost acknowledgements do not show a notification twice to the
  user of one service (`RenderedOnce`), and no tap, and nothing that fails after
  it, makes a question disappear that is not answered, but "More…" and a swipe
  do (`TapIsNotLost`). What is acknowledged, and so
  will not come again, was handled by some instance (`AckedIsHandled`). Through broken links, failed
  attempts, destroyed services and killed processes the client ends up bound to
  its consumer (`Reconnects`) and shows what is there (`Delivered`): but for the
  leaked connection the premises name, and for a message whose three deliveries
  went into connections that were broken.
* `pairing`. Commands that change the registry one after the other never lose a
  device or bring one back, whatever kills them (`PairedUntilRevoked`). Commands
  save and then look for a daemon, daemons write their PID and then read the
  registry, so one of the two always sees the other and a daemon without a
  pending signal is up to date in all three places (`Agreement`). A revoke that
  has signalled a daemon has its way, whether the signal comes during the start
  or between the load and the end of another reload (`CutOff`). A reload forgets
  only who was revoked (`KeepsSeen`). All four assume that commands do not
  overlap, the second and the third also that nothing else fails; crashes of
  daemons are no exception.

### Bounds

Every bound is a constant named in its module and appears in a guard only.

* *Flows.* Flows meet in the consumer, in the sweeps' list and in the snapshot;
  two show it. `registry_faults` has one: its properties are about single flows
  and with faults the flows share only the order of events, which
  `registry_order` covers.
* *Clock.* `GracePeriod` 0 or 1, `DupWindow` 1, `Window` 1 against `MaxTime` 1
  to 3: a row is fresh and stale, a message ID and a debounce entry are live and
  expired within a run. Only comparisons of sums are made, so the sizes do not
  matter. `ActiveUntil` < `MaxTime` lets the owners fall silent, the premise of
  `NoPhantomFlows`.
* *Delivery.* `MaxDeliver` 2 where a fault can reach the last delivery, 3 as in
  the code where none occurs. `interjections` has as many restarts as deliveries,
  so that the last one is used up, too.
* *Calls, faults, restarts.* One each in the registry: an open, a call on the
  flow and the sweep's announcement are three events on the same flow, and one
  fault with one restart gives every pair of places. The proofs have no bound.
* *Asks.* Two asks in one or two flows (`flowOf` is any assignment), one answer
  to either ask on either flow, one stop, one
  fault or shutdown, one waiter since waiters do not interact. The proofs have no
  such bound.
* *Calls on a queue.* Two, the least that can compete for an item.
* *Commands.* One command of every kind and a call of the ask tool, in one flow
  or, beside `renotify ask`, in another: two commands that are not calls of the
  tool have different flows and meet only in the ledger, whose rows are per
  notification; any of them meets a call of the tool in its own flow, by answers
  sent to the wrong flow, and by the error response of the tool's timer. Two
  *incidents* among messages, interjections, troubles and timeouts of the tool
  (`MaxIncidents`): two answers that contradict each other or name each other's
  request, an answer and an error, two failed statements so that both paths of
  an answer fail. Three picks, the two fixed ones and a suggestion, where
  somebody looks at them (`MCPicks`); the second answer has another one. The
  proofs have none of these bounds. `MCFairness` asks for the steps of the
  command and the consumer only: a bound on incidents may stop the tool's timer.
* *Sessions.* Two, one of which sends: they meet in the callbacks of the open and
  close subscriptions. A channel for one line and three lines: one is read, one
  in the channel, one held by the callback. Two faults: a failed step and a stop,
  or a bad line and a restart.
* *Mobile.* One notification, since the pump works on one at a time and no
  property relates two; two instances of the service, an old one that leaks
  into a new one; two presses or swipes, such as a tap that is lost and one that is not; three faults, as many as
  there are deliveries.
* *Pairing.* Two devices, one of them paired at first (`MCInit`), two commands,
  two daemons and one fault: a pair beside another device, a pair and a revoke of
  either, `--all`, or one of them beside a status, against an old daemon that
  dies and a new one that starts. Two processes of a kind are what it takes to
  take a PID file away or to signal during a reload; devices do not interact but
  through the file, which is read and written as a whole. Commands and daemons
  start in the order of their numbers, which is only a matter of names.

Symmetry is used in `registry_order`, which has no liveness property.

`CHECK_DEADLOCK FALSE` everywhere: clocks, calls, answers, lines and commands are
bounded, and when they are used up the daemon is idle.

### Fairness

* Registry: weak fairness for the consumer, for each sweeper, for calls in
  progress, for the clock. The Go scheduler runs a runnable goroutine; the
  ticker ticks; a call does one publish or request with a timeout. Not for
  `OpenFlow` and `BeginCall` (users), `ConsumerQuits` and `Restart`.
* Asks: weak fairness for the rest of a handleAsk that has published, for
  subscriber and timer of each ask (time passes), for waking a waiter. Not for
  `Answer` (nobody need answer) and not for `AwaitTimeout`, so `WaitsEnd` does
  not lean on the caller's own time-out.
* Interjections: weak fairness for the consumer only.
* Commands: weak fairness for the steps of each process, its timer among them,
  and for the consumer while it runs. Not for users, interrupts or restarts.
  `WaitsEnd` is about the commands with a process of their own; for the calls of
  the tool it is AskDecision's.
* Relay: weak fairness for the daemon's goroutines: the open and close callbacks,
  Stop once it has begun, each session's callback and wait. A reader need not
  read, except that it notices a closed connection and closes the one of a session
  that failed. Nothing is asked of clients.
* Mobile: what has begun goes on. Blocking calls have timeouts, delays end, pump
  and server run. `DialFails` is a fault and bounded, so attempts are not refused
  forever. Not for `Start`: Android may leave the service dead.
* Pairing: none; its properties are about what never happens.

## The proofs

They hold for any number of flows, asks, commands, calls, answers, sessions,
lines, service instances, faults and restarts, and for any clock. The only assumptions are the modules' `ASSUME`s, which say
that bounds are natural numbers, that `MaxDeliver` is positive, that marks like
`Blank`, `Open`, `None`, `Nil`, `Broken` or `NoPid` are not what they mark the absence of, that
processes are numbered, and that a channel holds at least one line.

| Theorem | Says | Argument |
|---|---|---|
| `FlowRegistryProofs!TypeCorrect` | `Spec => []TypeOK` | One lemma per goroutine. `TypeOK` is inductive as it stands: it ties `job` to `cursor`, without which `stream[job[1]]` would mean nothing |
| `BirthsRecorded` | `Spec => []BirthRecorded` | Every step is one ledger transaction or none (`NextIsLedgerStep`), INSERT OR IGNORE leaves a row for its second whatever was there (`InsertEventKeeps`), so each transaction keeps the tie (`LedgerBirth`) |
| `DeliveriesInOrder` | `Spec => [](InOrder /\ OneReapedAtATime)` | All steps but the consumer's and Restart are `Background`: they leave the consumer alone and only append to the stream |
| `Fates` | `Spec => [](EndedStaysOut /\ LiveUnlessReaped)` | `FatesInv` with `TypeOK`, `InOrder` and `OneReapedAtATime` as the inductive invariant. A step applies no event, and the log's verdict stays (`SameLogSameFate`), or it applies the next one, which decides for its flow and no other (`NextLogFate`). Without `InOrder` an old event could be the one applied; without `OneReapedAtATime` a sweep could forget a flow. `EndedStayOut` states its first half by itself |
| `SilenceShows` | `Spec => []SilentAreStale` | `Stamps`, with `InOrder`: no row, no "active" event of the stream and no call in progress carries a timestamp after the owners' last second. The calls and the stream must be in it, for they can still stamp a row, by a redelivery after a restart at the latest; without `InOrder` the fallback to `RefreshFlow` could stamp one with a terminal event's time, the sweeper's own. The safety half of `NoPhantomFlows`: the rest is that a sweep comes |
| `AskDecisionProofs!TypeCorrect` | `Spec => []TypeOK` | inductive as it stands |
| `CrashesNeedStops` | `Spec => []OnlyStopsCrash` | strengthened by "without a stop, a decided ask has a subscriber that is done" (`SettledOnceInv`): a second resolution needs a second subscriber, and there is one per ask |
| `PromiseKept` | `Spec => KeepsPromise` | refinement: a resolution of an open decision is `Settle`, of a decided one is `GoDown`, a wait's steps are their namesakes, all else stutters. Needs `TypeOK` only |
| `AnswersAgree` | `Spec => []AgentsAgree` | of the promise (`PromiseMeans`), not of the component: an answer given to a caller is the one its promise was settled with, and promises are settled once. `PromiseKept` carries it over |
| `DecisionsAreDue` | `Spec => []DecisionIsDue` | `DueInv`: how far subscriber and timer are follows from how far handleAsk is (`Stages`); a subscriber keeps a message until it handles it, which decides its ask (`NothingMissed`); a timer that is over has decided its ask, or its message is there (`TimersAct`) |
| `InterjectionQueueProofs!TypeCorrect` | `Spec => []TypeOK` | inductive as it stands; one lemma per action over six groups of variables |
| `OneCallEach` | `Spec => []EachToOneCall` | `QueueInv`: of a flow with a queue, what was handed out followed by what is queued is what was put, in order. A flow without one has nothing in it, and one that was never opened has no history |
| `MailboxesKept` | `Spec => KeepsMailboxes` | refinement over `QueueInv`: `AppendItem` is `Put` on a flow with a queue, a drain is `TakeAll`, register, remove and restart their namesakes, all else stutters |
| `NoInterjectionIsLost` | `Spec => []NoneIsLost` | `LossInv`: the deliveries of a message that nobody has heard are no more than the restarts (`Spent`), since only a restart ends one before; and what is in hand after the check was heard (`HeardFirst`). So below `MaxDeliver` restarts what was in hand is delivered again |
| `ShownBeforeFailed` | `Spec => []StopIsShownFirst` | `StreamInv` (what is in a queue is in the stream) and `Halfway`: a stop that is put and not yet carried out is in the queue of its flow. No step takes back what was put (`Grows`) |
| `RepeatsOnly` | `Spec => []DroppedOnlyRepeats` | `DropInv`: what the debounce map remembers is in its queue or about to be (`Covered`), and so is what each judgement rests on (`Explained`) |
| `CliAskProofs!TypeCorrect` | `Spec => []TypeOK` | needs `Behind`: a message delivered again is looked up in the stream by its position, which has to exist |
| `Ended` | `Spec => []FlowsAreEnded` | `FlowInv`: what a flow has been told at each step of its command, as a sequence, and that an ended command told it its outcome |
| `Heard` | `Spec => []InTimeIsHeard` | `TimeInv`: a flow is known only after its command listens (`KnownInv`), so every message on it is behind `start`; a timer fires when none of those in time is under way, and what comes after that is late |
| `SameStory` | `Spec => []OneStory` | `StreamInv` (while the stream is not lost a request is in it before its responses, and who could hear the first of them, heard it) and `StoryInv` (the ledger has the first response, unless somebody who took a later one stored it); what the hook makes of a label is the pick it came from (`DecisionSays`) |
| `NothingUnrecorded` | `Spec => []AnswersAreKept` | `LedgerInv`: what the consumer has passed is in the ledger (`Passed`), and what the ask tool has told it (`Told`); a failed statement breaks one of the two, and an answer to a request not its own has only the first |
| `StdioRelayProofs!TypeCorrect` | `Spec => []TypeOK` | inductive as it stands; one lemma per action over five groups of variables |
| `NothingSkipped` | `Spec => NoGaps` | `Run`: while a session is open its channel, its callback's hand and its queue hold consecutive lines, up to the last one published. It begins with nothing under way (`Empty`), since no session is subscribed twice (`Once`) |
| `NoLeaks` | `Spec => []NothingLeaks` | `LeakInv`: the session the open callback works on is not in the map, so that nobody but the SDK closes what it has subscribed (`OwnOpen`), and the map is there until the sessions are stopped (`MapThere`). With `Once`, the callback replaces no connection |
| `MobileClientProofs!TypeCorrect` | `Spec => []TypeOK` | with "no job before its instance" and "a message that waits has deliveries left" |
| `NothingTwice` | `Spec => []RenderedOnce` | what was drawn is marked in `rendered`, which its manager never forgets |
| `NoTapLost` | `Spec => []TapIsNotLost` | only a published answer, "More…" and a swipe take a notification from the tray |
| `NothingAckedUnseen` | `Spec => []AckedIsHandled` | `AckInv`: what a manager has in `rendered`, and so acknowledges unseen when it comes again, and what a pump is about to acknowledge, was drawn or suppressed (`Settled`) |
| `PairingProofs!TypeCorrect` | `Spec => []TypeOK` | one lemma per group of steps. `TypeOK` ties who has users or was seen to the daemon's step and is inductive as it stands |
| `RegistryKept` | `Spec => []PairedUntilRevoked` | `RegistryInv`: while commands do not overlap, one change at most is in progress, of the file as it is (`ChangeInv`), and the temporary file holds of it what its command has got to. Then the rename replaces the file by exactly that change, and a command that dies leaves it alone |
| `RevokedAreCutOff` | `Spec => []CutOff` | `PromiseInv`, over `RegistryInv`: what a daemon has read and not yet applied has the device no more, or a signal is pending. Without `RegistryInv` a later load could bring the device back |
| `DaemonAgrees` | `Spec => []Agreement` | `AgreeInv`: a daemon the PID file names has at each of its steps read the present registry (`Fits`), or a signal is pending, or a command that has saved is still going to look for it. It needs `RegistryInv`, which says that between two saves nothing changes |
| `SeenIsKept` | `Spec => KeepsSeen` | `SeenInv`: a device that is tracked and not among those just read was revoked. Then what a reload intersects away is revoked |

Left to TLC: what is liveness under fairness (`NoPhantomFlows`, `WaitsEnd` of
asks and of commands, `AllAreHeard`, `ClosedEnds`, `EndedIsReleased`,
`CallbackReturns`, `Delivered`, `Reconnects`), which is out of the prover's
reach. What can be said of them without fairness, that what they wait for is
never lost on the way, is proved for five of them: `DecisionIsDue` for
`WaitsEnd` of asks, `NoneIsLost` for `AllAreHeard`, `NothingLeaks` for
`EndedIsReleased`, `AckedIsHandled` for `Delivered`, `SilentAreStale` for
`NoPhantomFlows`. Every invariant and every action property of a passing run is
also proved. `InOrder`, `OneReapedAtATime`, `EachToOneCall` and `AgentsAgree` are
stated by theorems only; TLC agrees with each of them under its module's config.

## Where code and documents disagree

Shown by a run, each with the shortest trace TLC finds:

1. `HeartbeatSettles`: two rebuilds overlap, the older list is set last, and the
   dashboard keeps an ended flow until the next rebuild (`workspace.go:17`
   against `docs/analysis-payload-schemas.md:926`).
2. `DecidedIsImmutable`: after a stop, the user's answer resolves the decision
   again, and the second close panics the daemon (`decisions.go:66` against
   `docs/analysis-payload-schemas.md:1223`).
3. `AnswerRoutesToItsAsk`: with two asks open in one flow, the first answer
   decides both (`subscriber.go:139` against
   `docs/renotify-architecture.md:49`).
4. `ParkedMeansEmpty`: an interjection between await's look and its wait is not
   noticed until the next one or the timeout (`tool_interject.go:101`).

Noticed while modelling, without a run of their own.

Registry and asks:

* A sweep terminates the rows it has read without looking again: a tool call
  between query and transaction does not save the flow (`registry.go:159`
  against `docs/analysis-payload-schemas.md:805`).
* The audit log drops the second event of a flow in the same second (the primary
  key), and has two terminal rows after a stop and the owner's own end.
* Activity may go backwards: timestamps are taken before the publish and written
  unconditionally, and a redelivered active event sets its own again.
* If the daemon stops between a sweep's transaction and its publish, nobody
  hears of the reaped flow.
* A stop of one flow settles the pending decisions of all flows: the store does
  not know the flow of a decision (`interject.go:216`).
* An answer that arrives before the subscriber is lost; one that arrives between
  a timer's expiry and its publish does not keep the flow from being failed.
* `renotify answer` is given a flow and a request and checks neither
  (`answer.go:48`), and no receiver compares the request with its own
  (`subscriber.go:139`, `ask.go:344`). An answer to the wrong flow decides an ask
  there, is recorded under the request it names, and keeps the right one out of
  the stream for two minutes, since its message ID names the request only.
  For two calls of the ask tool in one flow that happens without any mistake of
  the user (`AnswerRoutesToItsAsk`): the history then has the answer under one
  request, and the other shows none.
* The same subject carries the error response of a timer: it ends whatever else
  waits on the flow.
* A response that cannot be parsed ends the subscriber of a call of the ask tool
  (`subscriber.go:134`), and the next answer is not heard: the timer publishes
  to nobody, and the ask is never decided. That is one of the faults of
  `AskDecision` (`GiveUpListening`) and an action of `CliAsk` (`Garble`).
* An ask with a negative `timeout_sec` expires before anyone listens and is
  never decided.
* Redelivery comes after 30 s, the debounce window is 5 s: a stop whose
  acknowledgement was lost is handled twice.
* Two refresh_flow calls at a time both merge into the metadata they have looked
  up, and the one applied last drops the keys of the other (`tool_flow.go:174`).
* A restarted daemon still has the flows and no queues: their interjections are
  dropped. One that was in the consumer's hand at three stops is not delivered
  again, whether or not a daemon has looked at it. terminate_flow leaves a parked await_interjection parked until its
  timeout; a woken one that lost the race returns an empty list at once.

Commands and history:

* "The daemon is the sole timeout enforcer" (`command/ask.go:47`, R-CLI-17 in
  `docs/analysis-cli-contract.md:181`,
  `docs/analysis-nats-transport-design.md:220`), but nobody publishes the error
  response for an ask of the CLI: its own safety timer is what ends it.
* `renotify dispatch` does not listen for interjections: a stop fails the flow
  in the registry, and the hook goes on waiting.
* The texts on a permission request's buttons show the first rule of a
  suggestion, cut at 60 characters. Two suggestions with the same text are the
  same to the hook: the first one is applied. The models give each pick a label
  of its own only in the run; the theorems do not assume it.
* A request that cannot be published, an error response, and a response or an
  interjection that cannot be parsed, end `renotify ask` without ending its flow,
  which is left to the reaper (`ask.go:352`, `358`); the hook of dispatch fails
  its flow in all of these cases but the first (`dispatch.go:293`).
* A response that comes before its request is refused or stored depending on the
  connection of the pool the statement gets (`ledger.go:39`).
* The pages of the history come from three queries without a transaction: total
  and records may disagree, and a row that is inserted between two pages makes
  the second repeat one.

Relay:

* Lines that a client sends before the daemon has subscribed are lost: it
  flushes its open to the broker and does not wait for the daemon.
* "Each close terminates it" (`stdio_relay.go:33`), but a close that overtakes
  its open, or comes between the duplicate check and the insert, finds nothing,
  and the session stays until the daemon stops.
* An open that is still being handled when the daemon stops inserts into a nil
  map and panics.
* A client is not told when its session ends, be it for a line that does not
  parse or, on a shared broker, because the daemon was restarted ("exit
  immediately", `command/mcp.go:47`, is for a lost connection).
* After a Close, which of several lines still reach the reader is left to the
  scheduler's choice in a select: there may be gaps.
* Responses under way when the input ends are not printed.

Android:

* If the service is destroyed while Nats.connect blocks, nothing closes the
  connection: it binds the consumer, and no later service can until it breaks
  (`NatsConnectionManager.kt:91`, `141`). `Leaked` names that state.
* An attempt that connects and fails to bind leaves its connection open, unused
  (`NatsConnectionManager.kt:172`).
* "More…" dismisses the notification before there is an answer.
* "The notification remains until the user swipes it or responds"
  (`NatsService.kt:248`), and `setOngoing(true)` keeps a question from being
  swiped (`NotificationRenderer.kt:69`): since Android 14 it does not. A question
  that was acknowledged and swiped away is gone, and its asker waits for the
  timeout. `TapIsNotLost` names it as one of the two ways by the user's hand.
* A tap while the service is dead creates it without connecting it; the answer
  is dropped and the notification stays.
* A notification that cannot be rendered is acknowledged, and one whose three
  deliveries went into dead connections is not delivered again.
* A new service does not know what the old one rendered: an answered question
  whose acknowledgement was lost is shown again.

Pairing:

* "If a prior pairing exists, the old token is replaced by a new one", the daemon
  "disconnects any mobile client using the old token" (`pair.go:36`), "the old
  credentials are replaced" (`clients/android/docs/device-testing.md:124`, and
  similarly `347`): of one device, when there was only one. `AddDevice` appends
  (`devices.go:51`), as the requirement for several devices has it
  (R-MOB-11, `docs/renotify-refinements.md:778`), and the device that was paired
  before stays connected. `PairedUntilRevoked` is about what the code does: a
  device is paired until it is revoked.
* All commands write `devices.json` through the same `devices.json.tmp`, without
  a lock. One truncates what the other renames, and the registry is empty, or
  half of it, until somebody writes again (`daemonid.go:74` against
  `devices.go:40`). `PairedUntilRevoked` therefore speaks of commands that do
  not overlap.
* Two commands that change the registry at a time may also lose one change: a
  pair that has read before a revoke puts the revoked device back.
* The consumer of a revoked device is never deleted, though "lifecycle tied to
  device pairing" (`broker/jetstream.go:201`) and "until the device is revoked"
  (183) say it is.
* `pair` and `revoke` kill a daemon that has written its PID file and has not
  yet called signal.Notify: SIGHUP's default action is to terminate.
* A `status`, `reload` or second `start` that has seen a dead PID removes the
  PID file of a daemon that was started since. removePIDIfOwned avoids that for
  daemons that stop, except between its look and its removal.
* A daemon started while devices.json does not parse reports the error and
  exits; a running one keeps what it has.

## Not modelled

*No behaviour to model.* Configuration and payload types are data; identifiers
are random numbers and their encodings; the registry's query endpoints, the
history query and the CLI's query commands change nothing and take no decision;
the dashboard and the scanner are views.

*I/O and libraries.* The embedded broker's start-up, TLS material, discovery,
the HTTP server, Android's storage, crash reports and their upload (a file that
is deleted when the stream has it). NATS itself is modelled by what the code
relies on: message-ID deduplication, order, at-least-once delivery up to
MaxDeliver, one binding of a push consumer, core subscriptions that see only
what is published while they exist. The client library's own limits are not:
pending limits, beyond which a subscription drops messages (512 Ki messages or
64 MiB; a slow reader of `StdioRelay` would have to fall that far behind), and
the messages that the iterators of a JetStream consumer fetch ahead, whose
acknowledgement timer runs while they wait in the client.

*Of modelled parts.*

* Ledger: labels, metadata and searches; interjection records; the migrations,
  which run before anything else does; the pool but for its one pragma.
* Daemon: the start and the reverse stop of the six subsystems are one step of
  `Pairing` each. What a subsystem does when it is not ready in time (the
  controller does not stop it, `controller.go:164`) is hidden in that step. The
  process exits right after.
* MCP server: what it writes, tools that only read, the resource views.
* Commands: flags and the hook's input. An answer names a request that is in the
  stream or in the ledger: nobody answers one that was lost with the stream
  before it was recorded.
* Mobile: lifecycle notifications, dashboard queries, interjections sent from
  the phone, silent mode's timer.
* Pairing: the certificate, the single-token file of older versions and its
  migration, the shared broker (whose operator revokes there), the permissions
  of a user, the stale threshold of presence.

Abstracted everywhere: texts, labels but where an answer goes by one, metadata,
priorities, log lines.

## Plan

In the order of importance; everything up to the mobile client is done.

| Module | Properties | Proofs |
|---|---|---|
| `FlowLedger`, `FlowRegistry` | order, fate, phantom flows | done |
| `DecisionPromise`, `AskDecision` | refinement, settled once, waits end | done |
| `Mailbox`, `InterjectionQueue` | refinement, debounce, stop before failure, none lost | done |
| `Pairing`, with presence | kept, agreed, cut off | done |
| `NotificationLedger`, `CliAsk` | one story, heard in time, flows ended, answers recorded | done |
| `StdioRelay` | no gaps, no leaks, closed and ended sessions go | done |
| `MobileClient` | rendered once, taps kept, acknowledged after handling, reconnects | done |

Worth doing next: the subsystems of the controller as a module, with the
property that what was started is stopped; a composition of `AskDecision` with
`FlowRegistry` over the failed event that a timer or a stop publishes (a flow
that is failed for a timeout leaves the registry, and its other asks are still
decided); an abstract relay, a pipe per client, implemented by `StdioRelay` from
the subscription to the close.
