----------------------------- MODULE StdioRelay -----------------------------
(***************************************************************************)
(* The relay between `renotify mcp` (cli/internal/command/mcp.go), which   *)
(* publishes each line of its standard input, and the MCP server of the    *)
(* daemon (cli/internal/mcpserver/stdio_relay.go, nats_transport.go), which*)
(* keeps a session for each client.                                        *)
(*                                                                         *)
(* On the daemon's side every subscription has a goroutine and a queue of  *)
(* its own: one for opens, one for closes, one for the lines of each       *)
(* session.  The other goroutines are the reader of each session (the MCP  *)
(* SDK), the one that waits for its end, and Server.Stop.                  *)
(*                                                                         *)
(* A line is its number.  What the server writes goes the other way, by a  *)
(* subscription that exists before the open, and is left out.              *)
(***************************************************************************)
EXTENDS Naturals, Sequences, FiniteSets

CONSTANTS
    Sessions,       \* session IDs, a new one for each client
    Capacity,       \* of the channel from the callback to the reader (64)
    Nil,            \* the session map after Server.Stop
    \* Bounds of the model, none of them in the code:
    MaxLines,       \* lines of each client
    MaxFaults       \* failed calls, bad lines, clients that vanish, stops and
                    \* restarts of the daemon

ASSUME RelayAssumption ==
    /\ Capacity \in Nat \ {0}
    /\ \A S \in SUBSET Sessions : S # Nil
    /\ MaxLines \in [Sessions -> Nat] /\ MaxFaults \in Nat

VARIABLES
    client,         \* where each client is
    lines,          \* how many lines it has published
    opens, closes,  \* sessions whose open or close waits for its callback
    opener,         \* the open callback: where it is, for which session
    sessions,       \* stdioSessions, or Nil
    conn,           \* the natsConn of each session
    queue,          \* lines that wait for the callback of its subscription
    held,           \* the line the callback holds, 0 when it holds none
    incoming,       \* the channel
    reader,         \* the session of the MCP server
    waiter,         \* the goroutine that waits for its end
    got,            \* the lines it has read
    stopping,       \* how far Server.Stop is
    panicked,       \* the daemon has panicked
    missed,         \* sessions whose close found nothing
    faults

clientVars == <<client, lines>>
openVars == <<opens, opener>>
lineVars == <<queue, held, incoming, got>>
vars == <<clientVars, openVars, closes, sessions, conn, lineVars, reader,
          waiter, stopping, panicked, missed, faults>>

Lines == Nat \ {0}
Free == [at |-> "free", for |-> {}]

TypeOK ==
    /\ client \in [Sessions -> {"new", "open", "gone"}]
    /\ lines \in [Sessions -> Nat]
    /\ opens \in Seq(Sessions) /\ closes \in Seq(Sessions)
    /\ opener \in [at : {"free", "checked", "subscribed", "connected"},
                   for : SUBSET Sessions]
    /\ (opener.at = "free") = (opener.for = {})
    /\ sessions \in (SUBSET Sessions) \cup {Nil}
    /\ conn \in [Sessions -> {"none", "open", "closing", "closed"}]
    /\ queue \in [Sessions -> Seq(Lines)]
    /\ held \in [Sessions -> Nat]
    /\ incoming \in [Sessions -> Seq(Lines)]
    /\ \A s \in Sessions : Len(incoming[s]) <= Capacity
    /\ reader \in [Sessions -> {"none", "running", "failed", "ended"}]
    /\ waiter \in [Sessions -> {"none", "waiting", "done"}]
    /\ got \in [Sessions -> Seq(Lines)]
    /\ stopping \in {"no", "unsubscribed", "stopped"}
    /\ panicked \in BOOLEAN
    /\ missed \subseteq Sessions
    /\ faults \in 0..MaxFaults

Init ==
    /\ client = [s \in Sessions |-> "new"]
    /\ lines = [s \in Sessions |-> 0]
    /\ opens = <<>> /\ closes = <<>>
    /\ opener = Free
    /\ sessions = {}
    /\ conn = [s \in Sessions |-> "none"]
    /\ queue = [s \in Sessions |-> <<>>]
    /\ held = [s \in Sessions |-> 0]
    /\ incoming = [s \in Sessions |-> <<>>]
    /\ reader = [s \in Sessions |-> "none"]
    /\ waiter = [s \in Sessions |-> "none"]
    /\ got = [s \in Sessions |-> <<>>]
    /\ stopping = "no" /\ panicked = FALSE
    /\ missed = {} /\ faults = 0

Fault == faults < MaxFaults /\ faults' = faults + 1

-----------------------------------------------------------------------------
(* runMCP.                                                                 *)

\* A message on the open or the close subject reaches the daemon while it is
\* subscribed.
Deliver(q, s) == IF stopping = "no" /\ ~panicked THEN Append(q, s) ELSE q

\* Subscribe to the responses, publish the open, flush: the broker has it
\* then, and not yet the daemon.
Open(s) ==
    /\ client[s] = "new"
    /\ client' = [client EXCEPT ![s] = "open"]
    /\ opens' = Deliver(opens, s)
    /\ UNCHANGED <<lines, opener, closes, sessions, conn, lineVars, reader,
                   waiter, stopping, panicked, missed, faults>>

\* The next line of the standard input.  It is lost unless the subscription
\* of the session exists.
SendLine(s) ==
    /\ client[s] = "open" /\ lines[s] < MaxLines[s]
    /\ lines' = [lines EXCEPT ![s] = @ + 1]
    /\ queue' = [queue EXCEPT ![s] =
                    IF conn[s] \in {"open", "closing"} /\ ~panicked
                    THEN Append(@, lines[s] + 1) ELSE @]
    /\ UNCHANGED <<client, openVars, closes, sessions, conn, held, incoming,
                   got, reader, waiter, stopping, panicked, missed, faults>>

\* The end of the input, or a signal: publish the close, flush.
Leave(s) ==
    /\ client[s] = "open"
    /\ client' = [client EXCEPT ![s] = "gone"]
    /\ closes' = Deliver(closes, s)
    /\ UNCHANGED <<lines, openVars, sessions, conn, lineVars, reader, waiter,
                   stopping, panicked, missed, faults>>

\* It is killed, or loses its connection and exits: nobody is told.
Vanish(s) ==
    /\ client[s] = "open" /\ Fault
    /\ client' = [client EXCEPT ![s] = "gone"]
    /\ UNCHANGED <<lines, openVars, closes, sessions, conn, lineVars, reader,
                   waiter, stopping, panicked, missed>>

-----------------------------------------------------------------------------
(* handleStdioOpen, in the goroutine of the open subscription.             *)

\* The first critical section: is there such a session?
BeginOpen ==
    /\ opener.at = "free" /\ opens # <<>> /\ ~panicked
    /\ opens' = Tail(opens)
    /\ opener' = IF sessions # Nil /\ Head(opens) \in sessions
                 THEN Free ELSE [at |-> "checked", for |-> {Head(opens)}]
    /\ UNCHANGED <<clientVars, closes, sessions, conn, lineVars, reader,
                   waiter, stopping, panicked, missed, faults>>

\* newNATSConn.  The broker knows the subscription some time later; until
\* then no line arrives, and nothing else depends on it.
SubscribeLines(s) ==
    /\ opener = [at |-> "checked", for |-> {s}] /\ ~panicked
    /\ \/ /\ opener' = [opener EXCEPT !.at = "subscribed"]
          /\ conn' = [conn EXCEPT ![s] = "open"]
          /\ UNCHANGED faults
       \/ Fault /\ opener' = Free /\ UNCHANGED conn
    /\ UNCHANGED <<clientVars, opens, closes, sessions, lineVars, reader,
                   waiter, stopping, panicked, missed>>

\* mcpServer.Connect: the session starts to read.
ConnectSession(s) ==
    /\ opener = [at |-> "subscribed", for |-> {s}] /\ ~panicked
    /\ \/ /\ opener' = [opener EXCEPT !.at = "connected"]
          /\ reader' = [reader EXCEPT ![s] = "running"]
          /\ UNCHANGED <<conn, faults>>
       \/ /\ Fault /\ opener' = Free
          /\ conn' = [conn EXCEPT ![s] = "closing"]
          /\ UNCHANGED reader
    /\ UNCHANGED <<clientVars, opens, closes, sessions, lineVars, waiter,
                   stopping, panicked, missed>>

\* Mutant: the goroutine does not wait for a session that has ended already.
WaitIfRunning(s) ==
    /\ opener = [at |-> "connected", for |-> {s}] /\ ~panicked
    /\ opener' = Free
    /\ IF sessions = Nil
       THEN panicked' = TRUE /\ UNCHANGED <<sessions, waiter>>
       ELSE /\ sessions' = sessions \cup {s}
            /\ waiter' = [waiter EXCEPT ![s] =
                             IF reader[s] = "ended" THEN "done" ELSE "waiting"]
            /\ UNCHANGED panicked
    /\ UNCHANGED <<clientVars, opens, closes, conn, lineVars, reader, stopping,
                   missed, faults>>

\* The second critical section: the insert, which panics on a nil map, and
\* then the goroutine that waits for the end of the session.
InsertSession(s) ==
    /\ opener = [at |-> "connected", for |-> {s}] /\ ~panicked
    /\ opener' = Free
    /\ IF sessions = Nil
       THEN panicked' = TRUE /\ UNCHANGED <<sessions, waiter>>
       ELSE /\ sessions' = sessions \cup {s}
            /\ waiter' = [waiter EXCEPT ![s] = "waiting"]
            /\ UNCHANGED panicked
    /\ UNCHANGED <<clientVars, opens, closes, conn, lineVars, reader, stopping,
                   missed, faults>>

-----------------------------------------------------------------------------
(* The end of a session.                                                   *)

InMap(s) == sessions # Nil /\ s \in sessions

\* natsConn.Close, first half: the closed channel is closed.
Closing(S) ==
    conn' = [s \in Sessions |->
                IF s \in S /\ conn[s] = "open" THEN "closing" ELSE conn[s]]

\* Mutant: the session is taken out of the map and its connection stays.
ForgetSession(s) ==
    /\ sessions' = IF InMap(s) THEN sessions \ {s} ELSE sessions
    /\ UNCHANGED conn

\* removeStdioSession: who takes it out of the map also closes it.
removeStdioSession(s) ==
    IF InMap(s) THEN sessions' = sessions \ {s} /\ Closing({s})
                ELSE UNCHANGED <<sessions, conn>>

\* handleStdioClose, in the goroutine of the close subscription.
HandleClose ==
    /\ closes # <<>> /\ ~panicked
    /\ closes' = Tail(closes)
    /\ removeStdioSession(Head(closes))
    /\ missed' = IF InMap(Head(closes)) THEN missed
                 ELSE missed \cup {Head(closes)}
    /\ UNCHANGED <<clientVars, openVars, lineVars, reader, waiter, stopping,
                   panicked, faults>>

\* ss.Wait returns: who takes the session out of the map finds its connection
\* closed already.
WaitEnds(s) ==
    /\ waiter[s] = "waiting" /\ reader[s] = "ended" /\ ~panicked
    /\ waiter' = [waiter EXCEPT ![s] = "done"]
    /\ removeStdioSession(s)
    /\ UNCHANGED <<clientVars, openVars, closes, lineVars, reader, stopping,
                   panicked, missed, faults>>

\* natsConn.Close, second half: the subscription and what is queued for its
\* callback go.
Unsubscribe(s) ==
    /\ conn[s] = "closing" /\ ~panicked
    /\ conn' = [conn EXCEPT ![s] = "closed"]
    /\ queue' = [queue EXCEPT ![s] = <<>>]
    /\ UNCHANGED <<clientVars, openVars, closes, sessions, held, incoming, got,
                   reader, waiter, stopping, panicked, missed, faults>>

\* stopStdioRelay: first the two subscriptions, and with them what is queued;
\* a callback that runs is not waited for.
StopListening ==
    /\ stopping = "no" /\ ~panicked /\ Fault
    /\ stopping' = "unsubscribed"
    /\ opens' = <<>> /\ closes' = <<>>
    /\ UNCHANGED <<clientVars, opener, sessions, conn, lineVars, reader, waiter,
                   panicked, missed>>

\* Then the sessions.
StopSessions ==
    /\ stopping = "unsubscribed" /\ ~panicked
    /\ stopping' = "stopped"
    /\ sessions' = Nil /\ Closing(sessions)
    /\ UNCHANGED <<clientVars, openVars, closes, lineVars, reader, waiter,
                   panicked, missed, faults>>

\* The process ends, and another one starts.  If it runs the broker, the
\* clients lose their connection and exit; on a shared broker they stay.
Restart ==
    /\ Fault
    /\ opens' = <<>> /\ closes' = <<>> /\ opener' = Free
    /\ sessions' = {}
    /\ conn' = [s \in Sessions |-> "none"]
    /\ queue' = [s \in Sessions |-> <<>>]
    /\ held' = [s \in Sessions |-> 0]
    /\ incoming' = [s \in Sessions |-> <<>>]
    /\ reader' = [s \in Sessions |-> "none"]
    /\ waiter' = [s \in Sessions |-> "none"]
    /\ got' = [s \in Sessions |-> <<>>]
    /\ stopping' = "no" /\ panicked' = FALSE /\ missed' = {}
    /\ \/ UNCHANGED client
       \/ client' = [s \in Sessions |->
                        IF client[s] = "open" THEN "gone" ELSE client[s]]
    /\ UNCHANGED lines

-----------------------------------------------------------------------------
(* The lines of a session.                                                 *)

\* The callback of the subscription takes a line.
TakeLine(s) ==
    /\ conn[s] \in {"open", "closing"} /\ ~panicked
    /\ held[s] = 0 /\ queue[s] # <<>>
    /\ held' = [held EXCEPT ![s] = Head(queue[s])]
    /\ queue' = [queue EXCEPT ![s] = Tail(@)]
    /\ UNCHANGED <<clientVars, openVars, closes, sessions, conn, incoming, got,
                   reader, waiter, stopping, panicked, missed, faults>>

\* Mutant: what does not fit into the channel is dropped.
PassOrDrop(s) ==
    /\ held[s] # 0 /\ ~panicked
    /\ held' = [held EXCEPT ![s] = 0]
    /\ incoming' = IF Len(incoming[s]) < Capacity
                   THEN [incoming EXCEPT ![s] = Append(@, held[s])] ELSE incoming
    /\ UNCHANGED <<clientVars, openVars, closes, sessions, conn, queue, got,
                   reader, waiter, stopping, panicked, missed, faults>>

\* Mutant: a line more than the channel holds.
PassOneMore(s) ==
    /\ held[s] # 0 /\ ~panicked
    /\ held' = [held EXCEPT ![s] = 0]
    /\ \/ /\ Len(incoming[s]) <= Capacity
          /\ incoming' = [incoming EXCEPT ![s] = Append(@, held[s])]
       \/ conn[s] \in {"closing", "closed"} /\ UNCHANGED incoming
    /\ UNCHANGED <<clientVars, openVars, closes, sessions, conn, queue, got,
                   reader, waiter, stopping, panicked, missed, faults>>

\* Mutant: the callback waits for the channel only.
PassOnly(s) ==
    /\ held[s] # 0 /\ ~panicked
    /\ held' = [held EXCEPT ![s] = 0]
    /\ Len(incoming[s]) < Capacity
    /\ incoming' = [incoming EXCEPT ![s] = Append(@, held[s])]
    /\ UNCHANGED <<clientVars, openVars, closes, sessions, conn, queue, got,
                   reader, waiter, stopping, panicked, missed, faults>>

\* It waits until the line fits into the channel or the connection is closed;
\* if both, either happens.
PassLine(s) ==
    /\ held[s] # 0 /\ ~panicked
    /\ held' = [held EXCEPT ![s] = 0]
    /\ \/ /\ Len(incoming[s]) < Capacity
          /\ incoming' = [incoming EXCEPT ![s] = Append(@, held[s])]
       \/ conn[s] \in {"closing", "closed"} /\ UNCHANGED incoming
    /\ UNCHANGED <<clientVars, openVars, closes, sessions, conn, queue, got,
                   reader, waiter, stopping, panicked, missed, faults>>

\* natsConn.Read returns a line, even after Close.
ReadLine(s) ==
    /\ reader[s] = "running" /\ incoming[s] # <<>> /\ ~panicked
    /\ incoming' = [incoming EXCEPT ![s] = Tail(@)]
    /\ got' = [got EXCEPT ![s] = Append(@, Head(incoming[s]))]
    /\ UNCHANGED <<clientVars, openVars, closes, sessions, conn, queue, held,
                   reader, waiter, stopping, panicked, missed, faults>>

\* It returns an error, for a line that is no message or for a closed
\* connection: the SDK gives the session up.  The client is not told.
ReadError(s) ==
    /\ reader[s] = "running" /\ ~panicked
    /\ \/ /\ incoming[s] # <<>> /\ Fault
          /\ incoming' = [incoming EXCEPT ![s] = Tail(@)]
       \/ conn[s] \in {"closing", "closed"} /\ UNCHANGED <<incoming, faults>>
    /\ reader' = [reader EXCEPT ![s] = "failed"]
    /\ UNCHANGED <<clientVars, openVars, closes, sessions, conn, queue, held,
                   got, waiter, stopping, panicked, missed>>

\* So does a natsConn.Write that fails, and the end of the context.
WriteError(s) ==
    /\ reader[s] = "running" /\ Fault /\ ~panicked
    /\ reader' = [reader EXCEPT ![s] = "failed"]
    /\ UNCHANGED <<clientVars, openVars, closes, sessions, conn, lineVars,
                   waiter, stopping, panicked, missed>>

\* The SDK calls natsConn.Close, perhaps before the session is in the map.
CloseFailed(s) ==
    /\ reader[s] = "failed" /\ conn[s] = "open" /\ ~panicked
    /\ Closing({s})
    /\ UNCHANGED <<clientVars, openVars, closes, sessions, lineVars, reader,
                   waiter, stopping, panicked, missed, faults>>

\* Close has returned, whoever was first to call it, and the session ends.
SessionEnds(s) ==
    /\ reader[s] = "failed" /\ conn[s] = "closed" /\ ~panicked
    /\ reader' = [reader EXCEPT ![s] = "ended"]
    /\ UNCHANGED <<clientVars, openVars, closes, sessions, conn, lineVars,
                   waiter, stopping, panicked, missed, faults>>

-----------------------------------------------------------------------------

Opener == \/ BeginOpen
          \/ \E s \in Sessions : SubscribeLines(s) \/ ConnectSession(s)
                                 \/ InsertSession(s)
Callback(s) == TakeLine(s) \/ PassLine(s)
Serve(s) == ReadLine(s) \/ ReadError(s) \/ WriteError(s)
EndSession(s) == CloseFailed(s) \/ SessionEnds(s) \/ WaitEnds(s)

Next ==
    \/ \E s \in Sessions : Open(s) \/ SendLine(s) \/ Leave(s) \/ Vanish(s)
    \/ Opener \/ HandleClose \/ StopListening \/ StopSessions \/ Restart
    \/ \E s \in Sessions :
          Callback(s) \/ Serve(s) \/ EndSession(s) \/ Unsubscribe(s)

Spec == Init /\ [][Next]_vars

\* The goroutines of the daemon run while it does not panic.  No client needs
\* to send anything or to leave, and the MCP server need not read; it notices
\* that its connection is closed, and closes the one of a session that failed.
Fairness ==
    /\ WF_vars(Opener) /\ WF_vars(HandleClose) /\ WF_vars(StopSessions)
    /\ \A s \in Sessions :
          /\ WF_vars(Callback(s))
          /\ WF_vars(conn[s] \in {"closing", "closed"} /\ ReadError(s))
          /\ WF_vars(EndSession(s)) /\ WF_vars(Unsubscribe(s))

FairSpec == Spec /\ Fairness

-----------------------------------------------------------------------------
(* Properties.                                                             *)

Released(s) ==
    ~InMap(s) /\ s \notin opener.for /\ conn[s] \in {"none", "closed"}

\* Lines that come before the subscription are lost, and with the close what
\* is under way.  Between them nothing is: while the connection is open the
\* server reads the lines of its client in order, each once and without a
\* gap, however full the channel is.
NoGaps ==
    [][\A s \in Sessions :
          conn[s] = "open" /\ got[s] # <<>> /\ got'[s] # got[s] /\ got'[s] # <<>> =>
              got'[s] = Append(got[s], got[s][Len(got[s])] + 1)]_vars

\* A subscription that is open has somebody who will close it: the map, out of
\* which a close, the end of the session or Server.Stop takes it, or the open
\* callback that has just made it.  And a session in the map has a goroutine that
\* waits for its end, and is open unless the MCP server has given it up, although
\* opens, closes, ends and the stop run side by side, and the map is unlocked
\* between the two halves of an open.
NothingLeaks ==
    \A s \in Sessions :
        /\ conn[s] = "open" => InMap(s) \/ s \in opener.for \/ panicked
        /\ InMap(s) => /\ waiter[s] = "waiting"
                       /\ conn[s] = "open" \/ reader[s] \in {"failed", "ended"}

\* "Each close terminates it" (stdio_relay.go): a client that leaves takes
\* its session and subscription with it, unless its close overtakes its open
\* and finds nothing, or the daemon panics.
ClosedEnds ==
    \A s \in Sessions :
        (\E i \in 1..Len(closes) : closes[i] = s) ~>
            (Released(s) \/ s \in missed \/ panicked)

\* A session that fails on a bad line or a failed write, even before it is in the
\* map, does not stay in it and keeps no subscription.
EndedIsReleased ==
    \A s \in Sessions : reader[s] = "failed" ~> (Released(s) \/ panicked)

\* A callback that waits for a full channel waits no longer than the
\* connection is open.
CallbackReturns ==
    \A s \in Sessions :
        (held[s] # 0 /\ conn[s] = "closed") ~> (held[s] = 0 \/ panicked)

=============================================================================
