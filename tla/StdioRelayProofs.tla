-------------------------- MODULE StdioRelayProofs --------------------------
(***************************************************************************)
(* Proofs about StdioRelay, for any number of clients, lines and faults    *)
(* and any capacity of the channel.                                        *)
(*                                                                         *)
(* The types are kept in five groups, and each action is shown to keep the *)
(* groups it touches.  NoGaps needs an invariant: the place of every line  *)
(* under way follows from how many its client has published (Run), which   *)
(* holds from the subscription to the close.  It starts with a session     *)
(* that has nothing under way (Empty), because no session is subscribed    *)
(* twice (Once).                                                           *)
(***************************************************************************)
EXTENDS StdioRelay, SequenceTheorems, TLAPS

LEMMA Constants == Capacity \in Nat \ {0} /\ MaxFaults \in Nat
BY RelayAssumption

ClientTypes ==
    /\ client \in [Sessions -> {"new", "open", "gone"}]
    /\ lines \in [Sessions -> Nat]

OpenerTypes ==
    /\ opens \in Seq(Sessions) /\ closes \in Seq(Sessions)
    /\ opener \in [at : {"free", "checked", "subscribed", "connected"},
                   for : SUBSET Sessions]
    /\ (opener.at = "free") = (opener.for = {})

SessionTypes ==
    /\ sessions \in (SUBSET Sessions) \cup {Nil}
    /\ conn \in [Sessions -> {"none", "open", "closing", "closed"}]
    /\ reader \in [Sessions -> {"none", "running", "failed", "ended"}]
    /\ waiter \in [Sessions -> {"none", "waiting", "done"}]

LineTypes ==
    /\ queue \in [Sessions -> Seq(Lines)]
    /\ held \in [Sessions -> Nat]
    /\ incoming \in [Sessions -> Seq(Lines)]
    /\ \A s \in Sessions : Len(incoming[s]) <= Capacity
    /\ got \in [Sessions -> Seq(Lines)]

OtherTypes ==
    /\ stopping \in {"no", "unsubscribed", "stopped"}
    /\ panicked \in BOOLEAN
    /\ missed \subseteq Sessions
    /\ faults \in 0..MaxFaults

\* The type invariant is the five groups, before and after a step.
LEMMA Groups ==
    TypeOK <=>
        ClientTypes /\ OpenerTypes /\ SessionTypes /\ LineTypes /\ OtherTypes
BY DEF TypeOK, ClientTypes, OpenerTypes, SessionTypes, LineTypes, OtherTypes

LEMMA Groups2 ==
    TypeOK' <=>
        ClientTypes' /\ OpenerTypes' /\ SessionTypes' /\ LineTypes' /\ OtherTypes'
BY DEF TypeOK, ClientTypes, OpenerTypes, SessionTypes, LineTypes, OtherTypes

\* Facts about sequences.
LEMMA HeadTail ==
    ASSUME NEW S, NEW q \in Seq(S), q # <<>>
    PROVE  Head(q) \in S /\ Tail(q) \in Seq(S) /\ Len(Tail(q)) = Len(q) - 1
OBVIOUS

LEMMA Appended ==
    ASSUME NEW S, NEW q \in Seq(S), NEW x \in S
    PROVE  Append(q, x) \in Seq(S) /\ Len(Append(q, x)) = Len(q) + 1
OBVIOUS

LEMMA Shifted ==
    ASSUME NEW S, NEW q \in Seq(S), q # <<>>, NEW r, r = Tail(q)
    PROVE  /\ Len(r) = Len(q) - 1 /\ Len(q) \in Nat \ {0}
           /\ \A i \in 1..Len(r) : r[i] = q[i + 1] /\ i + 1 \in 1..Len(q)
OBVIOUS

\* The states of the open callback.
LEMMA OpenerStates ==
    ASSUME NEW s \in Sessions, NEW a \in {"checked", "subscribed", "connected"},
           NEW o \in {Free, [at |-> a, for |-> {s}]}
    PROVE  /\ o \in [at : {"free", "checked", "subscribed", "connected"},
                    for : SUBSET Sessions]
           /\ (o.at = "free") = (o.for = {})
<1>1. CASE o = Free
  BY <1>1 DEF Free
<1>2. CASE o = [at |-> a, for |-> {s}]
  <2>1. o.at # "free" /\ o.for # {}
    BY <1>2
  <2>2. QED
    BY <1>2, <2>1
<1>3. QED
  BY <1>1, <1>2

\* What a removal and a close leave.
LEMMA Removed ==
    ASSUME SessionTypes, NEW s \in Sessions, removeStdioSession(s)
    PROVE  /\ sessions' \in (SUBSET Sessions) \cup {Nil}
           /\ conn' \in [Sessions -> {"none", "open", "closing", "closed"}]
BY RelayAssumption DEF SessionTypes, removeStdioSession, InMap, Closing

LEMMA Closed ==
    ASSUME SessionTypes, NEW S, Closing(S)
    PROVE  conn' \in [Sessions -> {"none", "open", "closing", "closed"}]
BY DEF SessionTypes, Closing

\* A group of which nothing changes is kept.
LEMMA KeepClientTypes ==
    ClientTypes /\ UNCHANGED <<client, lines>> => ClientTypes'
BY DEF ClientTypes

LEMMA KeepOpenerTypes ==
    OpenerTypes /\ UNCHANGED <<opens, opener, closes>> => OpenerTypes'
BY DEF OpenerTypes

LEMMA KeepSessionTypes ==
    SessionTypes /\ UNCHANGED <<sessions, conn, reader, waiter>> =>
        SessionTypes'
BY DEF SessionTypes

LEMMA KeepLineTypes ==
    LineTypes /\ UNCHANGED <<queue, held, incoming, got>> => LineTypes'
BY DEF LineTypes

LEMMA KeepOtherTypes ==
    OtherTypes /\ UNCHANGED <<stopping, panicked, missed, faults>> =>
        OtherTypes'
BY DEF OtherTypes

\* One lemma for each action.
LEMMA OpenTypes == ASSUME TypeOK, NEW s \in Sessions, Open(s) PROVE TypeOK'
<1> USE Groups, Constants
<1>1. ClientTypes'
  BY SMT DEF ClientTypes, Open, Deliver
<1>2. OpenerTypes'
  BY SMT DEF OpenerTypes, Open, Deliver
<1>3. SessionTypes'
  BY KeepSessionTypes DEF Open, clientVars, openVars, lineVars
<1>4. LineTypes'
  BY KeepLineTypes DEF Open, clientVars, openVars, lineVars
<1>5. OtherTypes'
  BY KeepOtherTypes DEF Open, clientVars, openVars, lineVars
<1>6. QED
  BY <1>1, <1>2, <1>3, <1>4, <1>5, Groups2

LEMMA SendLineTypes ==
    ASSUME TypeOK, NEW s \in Sessions, SendLine(s)
    PROVE  TypeOK'
<1> USE Groups, Constants
<1>1. ClientTypes'
  BY SMT DEF ClientTypes, SendLine
<1>2. OpenerTypes'
  BY KeepOpenerTypes DEF SendLine, clientVars, openVars, lineVars
<1>3. SessionTypes'
  BY KeepSessionTypes DEF SendLine, clientVars, openVars, lineVars
<1>4. LineTypes'
  <2>1. lines[s] + 1 \in Lines
    BY DEF ClientTypes, Lines
  <2>2. Append(queue[s], lines[s] + 1) \in Seq(Lines)
    BY <2>1, Appended DEF LineTypes
  <2>3. QED
    BY <2>2 DEF LineTypes, SendLine
<1>5. OtherTypes'
  BY KeepOtherTypes DEF SendLine, clientVars, openVars, lineVars
<1>6. QED
  BY <1>1, <1>2, <1>3, <1>4, <1>5, Groups2

LEMMA LeaveTypes == ASSUME TypeOK, NEW s \in Sessions, Leave(s) PROVE TypeOK'
<1> USE Groups, Constants
<1>1. ClientTypes'
  BY SMT DEF ClientTypes, Leave, Deliver
<1>2. OpenerTypes'
  <2>1. closes' \in Seq(Sessions)
    BY Appended DEF OpenerTypes, Leave, Deliver
  <2>2. QED
    BY <2>1 DEF OpenerTypes, Leave, openVars
<1>3. SessionTypes'
  BY KeepSessionTypes DEF Leave, clientVars, openVars, lineVars
<1>4. LineTypes'
  BY KeepLineTypes DEF Leave, clientVars, openVars, lineVars
<1>5. OtherTypes'
  BY KeepOtherTypes DEF Leave, clientVars, openVars, lineVars
<1>6. QED
  BY <1>1, <1>2, <1>3, <1>4, <1>5, Groups2

LEMMA VanishTypes == ASSUME TypeOK, NEW s \in Sessions, Vanish(s) PROVE TypeOK'
<1> USE Groups, Constants
<1>1. ClientTypes'
  BY SMT DEF ClientTypes, Vanish, Fault
<1>2. OpenerTypes'
  BY KeepOpenerTypes DEF Vanish, clientVars, openVars, lineVars
<1>3. SessionTypes'
  BY KeepSessionTypes DEF Vanish, clientVars, openVars, lineVars
<1>4. LineTypes'
  BY KeepLineTypes DEF Vanish, clientVars, openVars, lineVars
<1>5. OtherTypes'
  BY SMT DEF OtherTypes, Vanish, Fault
<1>6. QED
  BY <1>1, <1>2, <1>3, <1>4, <1>5, Groups2

LEMMA BeginOpenTypes == ASSUME TypeOK, BeginOpen PROVE TypeOK'
<1> USE Groups, Constants
<1>1. ClientTypes'
  BY KeepClientTypes DEF BeginOpen, clientVars, openVars, lineVars
<1>2. OpenerTypes'
  <2>1. Head(opens) \in Sessions /\ Tail(opens) \in Seq(Sessions)
    BY HeadTail DEF OpenerTypes, BeginOpen
  <2>2. opens' \in Seq(Sessions) /\ closes' \in Seq(Sessions)
    BY <2>1 DEF OpenerTypes, BeginOpen
  <2>3. opener' \in {Free, [at |-> "checked", for |-> {Head(opens)}]}
    BY DEF BeginOpen
  <2>4. QED
    BY <2>1, <2>2, <2>3, OpenerStates DEF OpenerTypes
<1>3. SessionTypes'
  BY KeepSessionTypes DEF BeginOpen, clientVars, openVars, lineVars
<1>4. LineTypes'
  BY KeepLineTypes DEF BeginOpen, clientVars, openVars, lineVars
<1>5. OtherTypes'
  BY KeepOtherTypes DEF BeginOpen, clientVars, openVars, lineVars
<1>6. QED
  BY <1>1, <1>2, <1>3, <1>4, <1>5, Groups2

LEMMA SubscribeLinesTypes ==
    ASSUME TypeOK, NEW s \in Sessions, SubscribeLines(s)
    PROVE  TypeOK'
<1> USE Groups, Constants
<1>1. ClientTypes'
  BY KeepClientTypes DEF SubscribeLines, clientVars, openVars, lineVars
<1>2. OpenerTypes'
  <2>1. opener' \in {Free, [at |-> "subscribed", for |-> {s}]}
    BY DEF SubscribeLines
  <2>2. opens' = opens /\ closes' = closes
    BY DEF SubscribeLines
  <2>3. QED
    BY <2>1, <2>2, OpenerStates DEF OpenerTypes
<1>3. SessionTypes'
  BY SMT DEF SessionTypes, SubscribeLines, Fault, Free
<1>4. LineTypes'
  BY KeepLineTypes DEF SubscribeLines, clientVars, openVars, lineVars
<1>5. OtherTypes'
  BY SMT DEF OtherTypes, SubscribeLines, Fault, Free
<1>6. QED
  BY <1>1, <1>2, <1>3, <1>4, <1>5, Groups2

LEMMA ConnectSessionTypes ==
    ASSUME TypeOK, NEW s \in Sessions, ConnectSession(s)
    PROVE  TypeOK'
<1> USE Groups, Constants
<1>1. ClientTypes'
  BY KeepClientTypes DEF ConnectSession, clientVars, openVars, lineVars
<1>2. OpenerTypes'
  <2>1. opener' \in {Free, [at |-> "connected", for |-> {s}]}
    BY DEF ConnectSession
  <2>2. opens' = opens /\ closes' = closes
    BY DEF ConnectSession
  <2>3. QED
    BY <2>1, <2>2, OpenerStates DEF OpenerTypes
<1>3. SessionTypes'
  BY SMT DEF SessionTypes, ConnectSession, Fault, Free
<1>4. LineTypes'
  BY KeepLineTypes DEF ConnectSession, clientVars, openVars, lineVars
<1>5. OtherTypes'
  BY SMT DEF OtherTypes, ConnectSession, Fault, Free
<1>6. QED
  BY <1>1, <1>2, <1>3, <1>4, <1>5, Groups2

LEMMA InsertSessionTypes ==
    ASSUME TypeOK, NEW s \in Sessions, InsertSession(s)
    PROVE  TypeOK'
<1> USE Groups, Constants
<1>1. ClientTypes'
  BY KeepClientTypes DEF InsertSession, clientVars, openVars, lineVars
<1>2. OpenerTypes'
  BY SMT DEF OpenerTypes, InsertSession, Free
<1>3. SessionTypes'
  BY SMT DEF SessionTypes, InsertSession, Free
<1>4. LineTypes'
  BY KeepLineTypes DEF InsertSession, clientVars, openVars, lineVars
<1>5. OtherTypes'
  BY DEF OtherTypes, InsertSession
<1>6. QED
  BY <1>1, <1>2, <1>3, <1>4, <1>5, Groups2

LEMMA HandleCloseTypes == ASSUME TypeOK, HandleClose PROVE TypeOK'
<1> USE Groups, Constants
<1>1. ClientTypes'
  BY KeepClientTypes DEF HandleClose, clientVars, openVars, lineVars
<1>2. OpenerTypes'
  <2>1. Tail(closes) \in Seq(Sessions)
    BY HeadTail DEF OpenerTypes, HandleClose
  <2>2. QED
    BY <2>1 DEF OpenerTypes, HandleClose, openVars
<1>3. SessionTypes'
  <2>1. Head(closes) \in Sessions
    BY HeadTail DEF OpenerTypes, HandleClose
  <2>2. QED
    BY <2>1, Removed DEF SessionTypes, HandleClose
<1>4. LineTypes'
  BY KeepLineTypes DEF HandleClose, clientVars, openVars, lineVars
<1>5. OtherTypes'
  <2>1. Head(closes) \in Sessions
    BY HeadTail DEF OpenerTypes, HandleClose
  <2>2. QED
    BY <2>1 DEF OtherTypes, HandleClose
<1>6. QED
  BY <1>1, <1>2, <1>3, <1>4, <1>5, Groups2

LEMMA StopListeningTypes == ASSUME TypeOK, StopListening PROVE TypeOK'
<1> USE Groups, Constants
<1>1. ClientTypes'
  BY KeepClientTypes DEF StopListening, clientVars, openVars, lineVars
<1>2. OpenerTypes'
  BY SMT DEF OpenerTypes, StopListening, Fault
<1>3. SessionTypes'
  BY KeepSessionTypes DEF StopListening, clientVars, openVars, lineVars
<1>4. LineTypes'
  BY KeepLineTypes DEF StopListening, clientVars, openVars, lineVars
<1>5. OtherTypes'
  BY SMT DEF OtherTypes, StopListening, Fault
<1>6. QED
  BY <1>1, <1>2, <1>3, <1>4, <1>5, Groups2

LEMMA StopSessionsTypes == ASSUME TypeOK, StopSessions PROVE TypeOK'
<1> USE Groups, Constants
<1>1. ClientTypes'
  BY KeepClientTypes DEF StopSessions, clientVars, openVars, lineVars
<1>2. OpenerTypes'
  BY KeepOpenerTypes DEF StopSessions, clientVars, openVars, lineVars
<1>3. SessionTypes'
  <2>1. conn' \in [Sessions -> {"none", "open", "closing", "closed"}]
    BY Closed DEF StopSessions
  <2>2. sessions' = Nil /\ UNCHANGED <<reader, waiter>>
    BY DEF StopSessions
  <2>3. sessions' \in (SUBSET Sessions) \cup {Nil}
    BY <2>2
  <2>4. reader' \in [Sessions -> {"none", "running", "failed", "ended"}]
    BY <2>2 DEF SessionTypes
  <2>5. waiter' \in [Sessions -> {"none", "waiting", "done"}]
    BY <2>2 DEF SessionTypes
  <2>6. QED
    BY <2>1, <2>3, <2>4, <2>5 DEF SessionTypes
<1>4. LineTypes'
  BY KeepLineTypes DEF StopSessions, clientVars, openVars, lineVars
<1>5. OtherTypes'
  BY SMT DEF OtherTypes, StopSessions
<1>6. QED
  BY <1>1, <1>2, <1>3, <1>4, <1>5, Groups2

LEMMA RestartTypes == ASSUME TypeOK, Restart PROVE TypeOK'
<1> USE Groups, Constants
<1>1. ClientTypes'
  BY SMT DEF ClientTypes, Restart, Fault, Free
<1>2. OpenerTypes'
  BY SMT DEF OpenerTypes, Restart, Fault, Free
<1>3. SessionTypes'
  BY SMT DEF SessionTypes, Restart, Fault, Free
<1>4. LineTypes'
  BY SMT DEF LineTypes, Restart, Fault, Free
<1>5. OtherTypes'
  <2>1. faults' \in 0..MaxFaults
    BY DEF OtherTypes, Restart, Fault
  <2>2. stopping' = "no" /\ panicked' = FALSE /\ missed' = {}
    BY DEF Restart
  <2>3. QED
    BY <2>1, <2>2 DEF OtherTypes
<1>6. QED
  BY <1>1, <1>2, <1>3, <1>4, <1>5, Groups2

LEMMA WaitEndsTypes ==
    ASSUME TypeOK, NEW s \in Sessions, WaitEnds(s)
    PROVE  TypeOK'
<1> USE Groups, Constants
<1>1. ClientTypes'
  BY KeepClientTypes DEF WaitEnds, clientVars, openVars, lineVars
<1>2. OpenerTypes'
  BY KeepOpenerTypes DEF WaitEnds, clientVars, openVars, lineVars
<1>3. SessionTypes'
  BY Removed, SMT DEF SessionTypes, WaitEnds
<1>4. LineTypes'
  BY KeepLineTypes DEF WaitEnds, clientVars, openVars, lineVars
<1>5. OtherTypes'
  BY KeepOtherTypes DEF WaitEnds, clientVars, openVars, lineVars
<1>6. QED
  BY <1>1, <1>2, <1>3, <1>4, <1>5, Groups2

LEMMA WriteErrorTypes ==
    ASSUME TypeOK, NEW s \in Sessions, WriteError(s)
    PROVE  TypeOK'
<1> USE Groups, Constants
<1>1. ClientTypes' /\ OpenerTypes' /\ LineTypes'
  BY KeepClientTypes, KeepOpenerTypes, KeepLineTypes
     DEF WriteError, clientVars, openVars, lineVars
<1>2. SessionTypes'
  BY SMT DEF SessionTypes, WriteError, Fault
<1>3. OtherTypes'
  BY SMT DEF OtherTypes, WriteError, Fault
<1>4. QED
  BY <1>1, <1>2, <1>3, Groups2

LEMMA CloseFailedTypes ==
    ASSUME TypeOK, NEW s \in Sessions, CloseFailed(s)
    PROVE  TypeOK'
<1> USE Groups, Constants
<1>1. ClientTypes' /\ OpenerTypes' /\ LineTypes' /\ OtherTypes'
  BY KeepClientTypes, KeepOpenerTypes, KeepLineTypes, KeepOtherTypes
     DEF CloseFailed, clientVars, openVars, lineVars
<1>2. SessionTypes'
  BY Closed DEF SessionTypes, CloseFailed
<1>3. QED
  BY <1>1, <1>2, Groups2

LEMMA SessionEndsTypes ==
    ASSUME TypeOK, NEW s \in Sessions, SessionEnds(s)
    PROVE  TypeOK'
<1> USE Groups, Constants
<1>1. ClientTypes' /\ OpenerTypes' /\ LineTypes' /\ OtherTypes'
  BY KeepClientTypes, KeepOpenerTypes, KeepLineTypes, KeepOtherTypes
     DEF SessionEnds, clientVars, openVars, lineVars
<1>2. SessionTypes'
  BY SMT DEF SessionTypes, SessionEnds
<1>3. QED
  BY <1>1, <1>2, Groups2

LEMMA UnsubscribeTypes ==
    ASSUME TypeOK, NEW s \in Sessions, Unsubscribe(s)
    PROVE  TypeOK'
<1> USE Groups, Constants
<1>1. ClientTypes'
  BY KeepClientTypes DEF Unsubscribe, clientVars, openVars, lineVars
<1>2. OpenerTypes'
  BY KeepOpenerTypes DEF Unsubscribe, clientVars, openVars, lineVars
<1>3. SessionTypes'
  BY SMT DEF SessionTypes, Unsubscribe
<1>4. LineTypes'
  BY SMT DEF LineTypes, Unsubscribe
<1>5. OtherTypes'
  BY KeepOtherTypes DEF Unsubscribe, clientVars, openVars, lineVars
<1>6. QED
  BY <1>1, <1>2, <1>3, <1>4, <1>5, Groups2

LEMMA TakeLineTypes ==
    ASSUME TypeOK, NEW s \in Sessions, TakeLine(s)
    PROVE  TypeOK'
<1> USE Groups, Constants
<1>1. ClientTypes'
  BY KeepClientTypes DEF TakeLine, clientVars, openVars, lineVars
<1>2. OpenerTypes'
  BY KeepOpenerTypes DEF TakeLine, clientVars, openVars, lineVars
<1>3. SessionTypes'
  BY KeepSessionTypes DEF TakeLine, clientVars, openVars, lineVars
<1>4. LineTypes'
  <2>1. Head(queue[s]) \in Nat /\ Tail(queue[s]) \in Seq(Lines)
    BY HeadTail DEF LineTypes, TakeLine, Lines
  <2>2. QED
    BY <2>1 DEF LineTypes, TakeLine
<1>5. OtherTypes'
  BY KeepOtherTypes DEF TakeLine, clientVars, openVars, lineVars
<1>6. QED
  BY <1>1, <1>2, <1>3, <1>4, <1>5, Groups2

LEMMA PassLineTypes ==
    ASSUME TypeOK, NEW s \in Sessions, PassLine(s)
    PROVE  TypeOK'
<1> USE Groups, Constants
<1>1. ClientTypes'
  BY KeepClientTypes DEF PassLine, clientVars, openVars, lineVars
<1>2. OpenerTypes'
  BY KeepOpenerTypes DEF PassLine, clientVars, openVars, lineVars
<1>3. SessionTypes'
  BY KeepSessionTypes DEF PassLine, clientVars, openVars, lineVars
<1>4. LineTypes'
  <2>1. held[s] \in Lines
    BY DEF LineTypes, PassLine, Lines
  <2>2. /\ Append(incoming[s], held[s]) \in Seq(Lines)
        /\ Len(Append(incoming[s], held[s])) = Len(incoming[s]) + 1
    BY <2>1, Appended DEF LineTypes
  <2>3. Len(incoming[s]) \in Nat
    BY DEF LineTypes
  <2>4. QED
    <3>1. CASE UNCHANGED incoming
      BY <3>1 DEF LineTypes, PassLine
    <3>2. CASE /\ Len(incoming[s]) < Capacity
               /\ incoming' = [incoming EXCEPT ![s] = Append(@, held[s])]
      <4>1. incoming' \in [Sessions -> Seq(Lines)]
        BY <2>2, <3>2 DEF LineTypes
      <4>2. \A t \in Sessions : Len(incoming'[t]) <= Capacity
        BY <2>2, <2>3, <3>2 DEF LineTypes
      <4>3. QED
        BY <4>1, <4>2 DEF LineTypes, PassLine
    <3>3. QED
      BY <3>1, <3>2 DEF PassLine
<1>5. OtherTypes'
  BY KeepOtherTypes DEF PassLine, clientVars, openVars, lineVars
<1>6. QED
  BY <1>1, <1>2, <1>3, <1>4, <1>5, Groups2

LEMMA ReadLineTypes ==
    ASSUME TypeOK, NEW s \in Sessions, ReadLine(s)
    PROVE  TypeOK'
<1> USE Groups, Constants
<1>1. ClientTypes'
  BY KeepClientTypes DEF ReadLine, clientVars, openVars, lineVars
<1>2. OpenerTypes'
  BY KeepOpenerTypes DEF ReadLine, clientVars, openVars, lineVars
<1>3. SessionTypes'
  BY KeepSessionTypes DEF ReadLine, clientVars, openVars, lineVars
<1>4. LineTypes'
  BY SMT DEF LineTypes, ReadLine
<1>5. OtherTypes'
  BY KeepOtherTypes DEF ReadLine, clientVars, openVars, lineVars
<1>6. QED
  BY <1>1, <1>2, <1>3, <1>4, <1>5, Groups2

LEMMA ReadErrorTypes ==
    ASSUME TypeOK, NEW s \in Sessions, ReadError(s)
    PROVE  TypeOK'
<1> USE Groups, Constants
<1>1. ClientTypes'
  BY KeepClientTypes DEF ReadError, clientVars, openVars, lineVars
<1>2. OpenerTypes'
  BY KeepOpenerTypes DEF ReadError, clientVars, openVars, lineVars
<1>3. SessionTypes'
  BY SMT DEF SessionTypes, ReadError, Fault
<1>4. LineTypes'
  <2>1. incoming[s] # <<>> => /\ Tail(incoming[s]) \in Seq(Lines)
                              /\ Len(Tail(incoming[s])) = Len(incoming[s]) - 1
    BY HeadTail DEF LineTypes
  <2>2. Len(incoming[s]) \in Nat
    BY DEF LineTypes
  <2>3. QED
    <3>1. CASE UNCHANGED incoming
      BY <3>1 DEF LineTypes, ReadError
    <3>2. CASE incoming[s] # <<>> /\ incoming' = [incoming EXCEPT ![s] = Tail(@)]
      <4>1. incoming' \in [Sessions -> Seq(Lines)]
        BY <2>1, <3>2 DEF LineTypes
      <4>2. \A t \in Sessions : Len(incoming'[t]) <= Capacity
        BY <2>1, <2>2, <3>2 DEF LineTypes
      <4>3. QED
        BY <4>1, <4>2 DEF LineTypes, ReadError
    <3>3. QED
      BY <3>1, <3>2 DEF ReadError
<1>5. OtherTypes'
  BY SMT DEF OtherTypes, ReadError, Fault
<1>6. QED
  BY <1>1, <1>2, <1>3, <1>4, <1>5, Groups2

\* Every step keeps the types.
LEMMA TypesAreKept == TypeOK /\ [Next]_vars => TypeOK'
<1> SUFFICES ASSUME TypeOK, [Next]_vars PROVE TypeOK'
  OBVIOUS
<1>1. CASE \E s \in Sessions : Open(s) \/ SendLine(s) \/ Leave(s) \/ Vanish(s)
  BY <1>1, OpenTypes, SendLineTypes, LeaveTypes, VanishTypes
<1>2. CASE Opener
  BY <1>2, BeginOpenTypes, SubscribeLinesTypes, ConnectSessionTypes,
     InsertSessionTypes
     DEF Opener
<1>3. CASE HandleClose \/ StopListening \/ StopSessions \/ Restart
  BY <1>3, HandleCloseTypes, StopListeningTypes, StopSessionsTypes, RestartTypes
<1>4. CASE \E s \in Sessions :
             Callback(s) \/ Serve(s) \/ EndSession(s) \/ Unsubscribe(s)
  BY <1>4, TakeLineTypes, PassLineTypes, ReadLineTypes, ReadErrorTypes,
     WriteErrorTypes, CloseFailedTypes, SessionEndsTypes, WaitEndsTypes,
     UnsubscribeTypes DEF Callback, Serve, EndSession
<1>5. CASE UNCHANGED vars
  BY <1>5 DEF TypeOK, vars, clientVars, openVars, lineVars
<1>6. QED
  BY <1>1, <1>2, <1>3, <1>4, <1>5 DEF Next

LEMMA InitTypes == Init => TypeOK
<1> SUFFICES ASSUME Init PROVE TypeOK
  OBVIOUS
<1>1. ClientTypes /\ SessionTypes
  BY DEF Init, ClientTypes, SessionTypes
<1>2. OpenerTypes
  BY DEF Init, OpenerTypes, Free
<1>3. LineTypes
  BY Constants DEF Init, LineTypes
<1>4. OtherTypes
  <2>1. stopping = "no" /\ panicked = FALSE /\ missed = {} /\ faults = 0
    BY DEF Init
  <2>2. 0 \in 0..MaxFaults
    BY Constants
  <2>3. QED
    BY <2>1, <2>2 DEF OtherTypes
<1>5. QED
  BY <1>1, <1>2, <1>3, <1>4, Groups

\* Every variable keeps its type; no more lines than it holds are in the
\* channel, and the callback of an open works on one session.
THEOREM TypeCorrect == Spec => []TypeOK
BY InitTypes, TypesAreKept, PTL DEF Spec

(***************************************************************************)
(* A session is subscribed once: its open is delivered once, and until the *)
(* callback has subscribed it there is no connection, no reader and no     *)
(* line.                                                                   *)
(***************************************************************************)

Queued(s) == \E i \in 1..Len(opens) : opens[i] = s

Once ==
    /\ \A s \in Sessions :
         /\ client[s] = "new" => ~Queued(s) /\ s \notin opener.for /\ conn[s] = "none"
         /\ Queued(s) => s \notin opener.for /\ conn[s] = "none"
         /\ opener.at = "checked" /\ s \in opener.for => conn[s] = "none"
         /\ opener.at = "subscribed" /\ s \in opener.for =>
              reader[s] = "none" /\ conn[s] # "none"
         /\ conn[s] = "none" => reader[s] = "none"
    /\ \A i, j \in 1..Len(opens) : opens[i] = opens[j] => i = j

Empty ==
    \A s \in Sessions :
      /\ conn[s] = "none" =>
           queue[s] = <<>> /\ held[s] = 0 /\ incoming[s] = <<>> /\ got[s] = <<>>
      /\ reader[s] = "none" => got[s] = <<>>

(***************************************************************************)
(* While it is open, the lines under way are the last ones published, in   *)
(* order: Before(s) is the line before the channel's first one.            *)
(***************************************************************************)

InCallback(s) == IF held[s] = 0 THEN 0 ELSE 1

AtCallback(s) == lines[s] - Len(queue[s])

Before(s) == AtCallback(s) - InCallback(s) - Len(incoming[s])

Run(s) ==
    /\ \A i \in 1..Len(queue[s]) : queue[s][i] = AtCallback(s) + i
    /\ held[s] # 0 => held[s] = AtCallback(s)
    /\ \A i \in 1..Len(incoming[s]) : incoming[s][i] = Before(s) + i
    /\ got[s] # <<>> /\ reader[s] = "running" => got[s][Len(got[s])] = Before(s)

InOrder == \A s \in Sessions : conn[s] = "open" /\ ~panicked => Run(s)

IInv == TypeOK /\ Once /\ Empty /\ InOrder

\* At first no session is open.
LEMMA InitHolds == Init => Once /\ Empty /\ InOrder
BY DEF Init, Once, Empty, InOrder, Queued, Free

\* Once, by the actions it is about.
LEMMA OnceStays ==
    ASSUME Once, UNCHANGED <<opens, opener, reader>>,
           \A s \in Sessions : /\ client'[s] = "new" => client[s] = "new"
                               /\ conn'[s] = "none" <=> conn[s] = "none"
    PROVE  Once'
BY DEF Once, Queued

\* An open leaves the queue when the callback takes it up, and the callback
\* lets go of its session when it has a connection.
LEMMA OnceIsKept == TypeOK /\ Once /\ [Next]_vars => Once'
<1> SUFFICES ASSUME TypeOK, Once, [Next]_vars PROVE Once'
  OBVIOUS
<1> USE DEF clientVars, openVars, lineVars
<1>1. ASSUME NEW s \in Sessions, Open(s) PROVE Once'
  <2>1. opens' = opens \/ opens' = Append(opens, s)
    BY <1>1 DEF Open, Deliver
  <2>a. opens \in Seq(Sessions) /\ Len(opens) \in Nat /\ ~Queued(s)
    BY <1>1 DEF Open, Once, TypeOK
  <2>b. ASSUME opens' = Append(opens, s)
        PROVE  /\ \A t \in Sessions : Queued(t)' => Queued(t) \/ t = s
               /\ \A i, j \in 1..Len(opens') : opens'[i] = opens'[j] => i = j
    <3>1. /\ Len(opens') = Len(opens) + 1 /\ opens'[Len(opens) + 1] = s
          /\ \A i \in 1..Len(opens) : opens'[i] = opens[i]
      BY <2>a, <2>b
    <3>2. \A i \in 1..Len(opens') : i \in 1..Len(opens) \/ i = Len(opens) + 1
      BY <2>a, <3>1
    <3>3. \A t \in Sessions : Queued(t)' => Queued(t) \/ t = s
      BY <3>1, <3>2 DEF Queued
    <3>4. \A i, j \in 1..Len(opens') : opens'[i] = opens'[j] => i = j
      BY <2>a, <3>1, <3>2 DEF Once, Queued
    <3>5. QED
      BY <3>3, <3>4
  <2>2. \A t \in Sessions : Queued(t)' => Queued(t) \/ t = s
    BY <2>1, <2>b DEF Queued
  <2>3. \A i, j \in 1..Len(opens') : opens'[i] = opens'[j] => i = j
    BY <2>1, <2>b DEF Once
  <2>4. \A t \in Sessions : client'[t] = "new" => client[t] = "new" /\ t # s
    BY <1>1 DEF Open, TypeOK
  <2>5. client[s] = "new" /\ UNCHANGED <<opener, conn, reader>>
    BY <1>1 DEF Open
  <2>6. QED
    BY <2>2, <2>3, <2>4, <2>5 DEF Once
<1>2. ASSUME NEW s \in Sessions, SendLine(s) \/ Leave(s) \/ Vanish(s) PROVE Once'
  BY <1>2, OnceStays DEF SendLine, Leave, Vanish, TypeOK
<1>3. CASE BeginOpen
  <2> DEFINE h == Head(opens)
  <2>1. /\ opens # <<>> /\ opens' = Tail(opens) /\ opens \in Seq(Sessions)
        /\ opener' \in {Free, [at |-> "checked", for |-> {h}]}
        /\ UNCHANGED <<client, conn, reader>>
    BY <1>3 DEF BeginOpen, TypeOK
  <2>2. /\ Len(opens') = Len(opens) - 1
        /\ \A i \in 1..Len(opens') : opens'[i] = opens[i + 1] /\ i + 1 \in 1..Len(opens)
        /\ h = opens[1] /\ 1 \in 1..Len(opens) /\ Len(opens) \in Nat
    BY <2>1
  <2>3. \A t \in Sessions : Queued(t)' => Queued(t) /\ t # h
    BY <2>2 DEF Queued, Once
  <2>4. \A i, j \in 1..Len(opens') : opens'[i] = opens'[j] => i = j
    BY <2>2 DEF Once
  <2>5. Queued(h)
    BY <2>2 DEF Queued
  <2>6. \A t \in opener'.for : t = h /\ opener'.at = "checked"
    BY <2>1 DEF Free
  <2>7. QED
    BY <2>1, <2>3, <2>4, <2>5, <2>6 DEF Once
<1>4. ASSUME NEW s \in Sessions, SubscribeLines(s) PROVE Once'
  <2>1. /\ opener = [at |-> "checked", for |-> {s}]
        /\ UNCHANGED <<client, opens, reader>>
        /\ \/ opener' = [at |-> "subscribed", for |-> {s}] /\
              conn' = [conn EXCEPT ![s] = "open"]
           \/ opener' = Free /\ UNCHANGED conn
    BY <1>4 DEF SubscribeLines
  <2>2. CASE opener' = [at |-> "subscribed", for |-> {s}] /\
             conn' = [conn EXCEPT ![s] = "open"]
    <3>1. /\ conn'[s] = "open" /\ s \in opener.for /\ opener.at = "checked"
          /\ \A t \in Sessions : t # s => conn'[t] = conn[t]
          /\ opener'.at = "subscribed" /\ opener'.for = opener.for
      BY <2>1, <2>2 DEF TypeOK
    <3>2. ~Queued(s) /\ client[s] # "new" /\ reader[s] = "none"
      BY <3>1 DEF Once
    <3>3. \A t \in Sessions : Queued(t)' = Queued(t)
      BY <2>1 DEF Queued
    <3>4. \A t \in opener'.for : t = s
      BY <2>2
    <3>5. QED
      BY <2>1, <3>1, <3>2, <3>3, <3>4 DEF Once
  <2>3. CASE opener' = Free /\ UNCHANGED conn
    BY <2>1, <2>3 DEF Once, Queued, Free
  <2>4. QED
    BY <2>1, <2>2, <2>3
<1>5. ASSUME NEW s \in Sessions, ConnectSession(s) PROVE Once'
  <2>1. /\ opener = [at |-> "subscribed", for |-> {s}]
        /\ UNCHANGED <<client, opens>>
        /\ \/ /\ opener' = [at |-> "connected", for |-> {s}]
              /\ reader' = [reader EXCEPT ![s] = "running"] /\ UNCHANGED conn
           \/ /\ opener' = Free
              /\ conn' = [conn EXCEPT ![s] = "closing"] /\ UNCHANGED reader
    BY <1>5 DEF ConnectSession
  <2>2. conn[s] # "none"
    BY <2>1 DEF Once
  <2>3. \A t \in Sessions : conn'[t] = "none" <=> conn[t] = "none"
    BY <2>1, <2>2 DEF TypeOK
  <2>4. \A t \in Sessions : t # s => reader'[t] = reader[t]
    BY <2>1 DEF TypeOK
  <2>5. opener'.at \in {"connected", "free"} /\ \A t \in opener'.for : t = s
    BY <2>1 DEF Free
  <2>6. s \in opener.for /\ opener.at = "subscribed"
    BY <2>1
  <2>7. \A t \in Sessions : Queued(t)' = Queued(t)
    BY <2>1 DEF Queued
  <2>8. QED
    BY <2>1, <2>2, <2>3, <2>4, <2>5, <2>6, <2>7 DEF Once
<1>6. ASSUME NEW s \in Sessions, InsertSession(s) PROVE Once'
  BY <1>6 DEF InsertSession, Once, Queued, Free
<1>7. CASE HandleClose
  <2>1. UNCHANGED <<client, opens, opener, reader>>
    BY <1>7 DEF HandleClose
  <2>2. \A t \in Sessions : conn'[t] = "none" <=> conn[t] = "none"
    BY <1>7 DEF HandleClose, removeStdioSession, Closing
  <2>3. QED
    BY <2>1, <2>2, OnceStays
<1>8. CASE StopListening
  <2>1. opens' = <<>> /\ UNCHANGED <<client, opener, reader, conn>>
    BY <1>8 DEF StopListening
  <2>2. \A t \in Sessions : ~Queued(t)'
    BY <2>1 DEF Queued
  <2>3. QED
    BY <2>1, <2>2 DEF Once
<1>9. CASE StopSessions
  <2>1. UNCHANGED <<client, opens, opener, reader>>
    BY <1>9 DEF StopSessions
  <2>2. \A t \in Sessions : conn'[t] = "none" <=> conn[t] = "none"
    BY <1>9 DEF StopSessions, Closing
  <2>3. QED
    BY <2>1, <2>2, OnceStays
<1>10. CASE Restart
  <2>1. opens' = <<>> /\ opener' = Free
    BY <1>10 DEF Restart
  <2>2. \A t \in Sessions : conn'[t] = "none" /\ reader'[t] = "none"
    BY <1>10 DEF Restart
  <2>3. \A t \in Sessions : ~Queued(t)'
    BY <2>1 DEF Queued
  <2>4. QED
    BY <2>1, <2>2, <2>3 DEF Once, Free
<1>11. ASSUME NEW s \in Sessions, WaitEnds(s) \/ CloseFailed(s) PROVE Once'
  <2>1. UNCHANGED <<client, opens, opener, reader>>
    BY <1>11 DEF WaitEnds, CloseFailed
  <2>2. \A t \in Sessions : conn'[t] = "none" <=> conn[t] = "none"
    BY <1>11 DEF WaitEnds, CloseFailed, removeStdioSession, Closing
  <2>3. QED
    BY <2>1, <2>2, OnceStays
<1>12. ASSUME NEW s \in Sessions, Unsubscribe(s) PROVE Once'
  <2>1. UNCHANGED <<client, opens, opener, reader>>
    BY <1>12 DEF Unsubscribe
  <2>2. \A t \in Sessions : conn'[t] = "none" <=> conn[t] = "none"
    BY <1>12 DEF Unsubscribe, TypeOK
  <2>3. QED
    BY <2>1, <2>2, OnceStays
<1>13. ASSUME NEW s \in Sessions, TakeLine(s) \/ PassLine(s) \/ ReadLine(s) PROVE Once'
  BY <1>13, OnceStays DEF TakeLine, PassLine, ReadLine
<1>14. ASSUME NEW s \in Sessions, ReadError(s) \/ WriteError(s) \/ SessionEnds(s)
       PROVE  Once'
  <2>1. /\ reader[s] \in {"running", "failed"}
        /\ \E e \in {"failed", "ended"} : reader' = [reader EXCEPT ![s] = e]
        /\ UNCHANGED <<client, opens, opener, conn>>
    BY <1>14 DEF ReadError, WriteError, SessionEnds
  <2>2. \A t \in Sessions : reader'[t] = "none" <=> reader[t] = "none"
    BY <2>1 DEF TypeOK
  <2>3. QED
    BY <2>1, <2>2 DEF Once, Queued
<1>15. CASE UNCHANGED vars
  BY <1>15, OnceStays DEF vars
<1>16. QED
  BY <1>1, <1>2, <1>3, <1>4, <1>5, <1>6, <1>7, <1>8, <1>9, <1>10, <1>11, <1>12,
     <1>13, <1>14, <1>15 DEF Next, Opener, Callback, Serve, EndSession

\* Empty, by the actions that disturb no session without a connection.
LEMMA EmptyStays ==
    ASSUME Empty,
           \A s \in Sessions :
             /\ conn'[s] = "none" =>
                  /\ conn[s] = "none" /\ queue'[s] = queue[s] /\ held'[s] = held[s]
                  /\ incoming'[s] = incoming[s] /\ got'[s] = got[s]
             /\ reader'[s] = "none" => reader[s] = "none" /\ got'[s] = got[s]
    PROVE  Empty'
BY DEF Empty

\* Lines are queued, held, buffered and read in a session with a connection.
LEMMA EmptyIsKept == TypeOK /\ Once /\ Empty /\ [Next]_vars => Empty'
<1> SUFFICES ASSUME TypeOK, Once, Empty, [Next]_vars PROVE Empty'
  OBVIOUS
<1> USE DEF clientVars, openVars, lineVars
<1>1. ASSUME NEW s \in Sessions, Open(s) \/ Leave(s) \/ Vanish(s) PROVE Empty'
  BY <1>1, EmptyStays DEF Open, Leave, Vanish
<1>2. ASSUME NEW s \in Sessions, SendLine(s) PROVE Empty'
  <2>1. \A t \in Sessions : conn[t] = "none" => queue'[t] = queue[t]
    BY <1>2 DEF SendLine, TypeOK
  <2>2. UNCHANGED <<conn, held, incoming, got, reader>>
    BY <1>2 DEF SendLine
  <2>3. QED
    BY <2>1, <2>2, EmptyStays
<1>3. CASE BeginOpen
  BY <1>3, EmptyStays DEF BeginOpen
<1>4. ASSUME NEW s \in Sessions, SubscribeLines(s) PROVE Empty'
  <2>1. \A t \in Sessions : conn'[t] = "none" => conn[t] = "none"
    BY <1>4 DEF SubscribeLines, TypeOK
  <2>2. UNCHANGED <<lineVars, reader>>
    BY <1>4 DEF SubscribeLines
  <2>3. QED
    BY <2>1, <2>2, EmptyStays
<1>5. ASSUME NEW s \in Sessions, ConnectSession(s) PROVE Empty'
  <2>1. \A t \in Sessions : /\ conn'[t] = "none" => conn[t] = "none"
                            /\ reader'[t] = "none" => reader[t] = "none"
    BY <1>5 DEF ConnectSession, TypeOK
  <2>2. UNCHANGED lineVars
    BY <1>5 DEF ConnectSession
  <2>3. QED
    BY <2>1, <2>2, EmptyStays
<1>6. ASSUME NEW s \in Sessions, InsertSession(s) PROVE Empty'
  BY <1>6, EmptyStays DEF InsertSession
<1>7. CASE HandleClose
  <2>1. \A t \in Sessions : conn'[t] = "none" => conn[t] = "none"
    BY <1>7 DEF HandleClose, removeStdioSession, Closing
  <2>2. UNCHANGED <<lineVars, reader>>
    BY <1>7 DEF HandleClose
  <2>3. QED
    BY <2>1, <2>2, EmptyStays
<1>8. CASE StopListening
  BY <1>8, EmptyStays DEF StopListening
<1>9. CASE StopSessions
  <2>1. \A t \in Sessions : conn'[t] = "none" => conn[t] = "none"
    BY <1>9 DEF StopSessions, Closing
  <2>2. UNCHANGED <<lineVars, reader>>
    BY <1>9 DEF StopSessions
  <2>3. QED
    BY <2>1, <2>2, EmptyStays
<1>10. CASE Restart
  BY <1>10 DEF Restart, Empty
<1>11. ASSUME NEW s \in Sessions, WaitEnds(s) \/ CloseFailed(s) PROVE Empty'
  <2>1. \A t \in Sessions : conn'[t] = "none" => conn[t] = "none"
    BY <1>11 DEF WaitEnds, CloseFailed, removeStdioSession, Closing
  <2>2. UNCHANGED <<lineVars, reader>>
    BY <1>11 DEF WaitEnds, CloseFailed
  <2>3. QED
    BY <2>1, <2>2, EmptyStays
<1>12. ASSUME NEW s \in Sessions, Unsubscribe(s) PROVE Empty'
  <2>1. \A t \in Sessions : conn'[t] = "none" => conn[t] = "none" /\ queue'[t] = queue[t]
    BY <1>12 DEF Unsubscribe, TypeOK
  <2>2. UNCHANGED <<held, incoming, got, reader>>
    BY <1>12 DEF Unsubscribe
  <2>3. QED
    BY <2>1, <2>2, EmptyStays
<1>13. ASSUME NEW s \in Sessions, TakeLine(s) \/ PassLine(s) PROVE Empty'
  <2>1. conn[s] # "none"
    BY <1>13 DEF TakeLine, PassLine, Empty
  <2>2. \A t \in Sessions : t # s =>
           queue'[t] = queue[t] /\ held'[t] = held[t] /\ incoming'[t] = incoming[t]
    BY <1>13 DEF TakeLine, PassLine, TypeOK
  <2>3. UNCHANGED <<conn, got, reader>>
    BY <1>13 DEF TakeLine, PassLine
  <2>4. QED
    BY <2>1, <2>2, <2>3, EmptyStays
<1>14. ASSUME NEW s \in Sessions, ReadLine(s) \/ ReadError(s) PROVE Empty'
  <2>1. reader[s] = "running" /\ conn[s] # "none"
    BY <1>14 DEF ReadLine, ReadError, Once
  <2>2. reader'[s] # "none"
    BY <1>14 DEF ReadLine, ReadError, TypeOK
  <2>3. \A t \in Sessions : t # s =>
           incoming'[t] = incoming[t] /\ got'[t] = got[t] /\ reader'[t] = reader[t]
    BY <1>14 DEF ReadLine, ReadError, TypeOK
  <2>4. UNCHANGED <<conn, queue, held>>
    BY <1>14 DEF ReadLine, ReadError
  <2>5. QED
    BY <2>1, <2>2, <2>3, <2>4, EmptyStays
<1>15. ASSUME NEW s \in Sessions, WriteError(s) \/ SessionEnds(s) PROVE Empty'
  <2>1. \A t \in Sessions : reader'[t] = "none" => reader[t] = "none"
    BY <1>15 DEF WriteError, SessionEnds, TypeOK
  <2>2. UNCHANGED <<conn, lineVars>>
    BY <1>15 DEF WriteError, SessionEnds
  <2>3. QED
    BY <2>1, <2>2, EmptyStays
<1>16. CASE UNCHANGED vars
  BY <1>16, EmptyStays DEF vars
<1>17. QED
  BY <1>1, <1>2, <1>3, <1>4, <1>5, <1>6, <1>7, <1>8, <1>9, <1>10, <1>11, <1>12,
     <1>13, <1>14, <1>15, <1>16 DEF Next, Opener, Callback, Serve, EndSession

Same(s) ==
    /\ lines'[s] = lines[s] /\ queue'[s] = queue[s] /\ held'[s] = held[s]
    /\ incoming'[s] = incoming[s] /\ got'[s] = got[s]

\* Nothing of the session moves.
LEMMA RunStays ==
    ASSUME NEW s \in Sessions, Run(s), Same(s),
           reader'[s] = "running" => reader[s] = "running"
    PROVE  Run(s)'
BY DEF Run, Same, AtCallback, Before, InCallback

\* A line is published.
LEMMA RunOfSendLine ==
    ASSUME TypeOK, NEW s \in Sessions, Run(s), SendLine(s), conn[s] = "open", ~panicked
    PROVE  Run(s)'
<1>1. /\ lines'[s] = lines[s] + 1 /\ queue'[s] = Append(queue[s], lines[s] + 1)
      /\ UNCHANGED <<held, incoming, got, reader>>
  BY DEF SendLine, TypeOK
<1>2. lines[s] \in Nat /\ queue[s] \in Seq(Lines)
  BY DEF TypeOK
<1>3. /\ Len(queue'[s]) = Len(queue[s]) + 1 /\ Len(queue[s]) \in Nat
      /\ \A i \in 1..Len(queue[s]) : queue'[s][i] = queue[s][i]
      /\ queue'[s][Len(queue[s]) + 1] = lines[s] + 1
  BY <1>1, <1>2 DEF Lines
<1>4. AtCallback(s)' = AtCallback(s) /\ Before(s)' = Before(s)
  <2>1. AtCallback(s)' = AtCallback(s)
    BY <1>1, <1>2, <1>3 DEF AtCallback
  <2>2. QED
    BY <1>1, <2>1 DEF Before, InCallback
<1>5. \A i \in 1..Len(queue'[s]) : queue'[s][i] = AtCallback(s) + i
  <2>1. TAKE i \in 1..Len(queue'[s])
  <2>2. i \in 1..Len(queue[s]) \/ i = Len(queue[s]) + 1
    BY <1>3
  <2>3. QED
    BY <2>2, <1>2, <1>3 DEF Run, AtCallback
<1>6. QED
  BY <1>1, <1>4, <1>5 DEF Run

\* The callback takes the first line of its queue.
LEMMA RunOfTakeLine ==
    ASSUME TypeOK, NEW s \in Sessions, Run(s), TakeLine(s)
    PROVE  Run(s)'
<1>1. /\ held[s] = 0 /\ held'[s] = Head(queue[s]) /\ queue'[s] = Tail(queue[s])
      /\ queue[s] # <<>> /\ UNCHANGED <<lines, incoming, got, reader>>
  BY DEF TakeLine, TypeOK, clientVars
<1>2. lines[s] \in Nat /\ queue[s] \in Seq(Lines)
  BY DEF TypeOK
<1>3. /\ Len(queue'[s]) = Len(queue[s]) - 1 /\ Len(queue[s]) \in Nat \ {0}
      /\ \A i \in 1..Len(queue'[s]) : /\ queue'[s][i] = queue[s][i + 1]
                                      /\ i + 1 \in 1..Len(queue[s])
      /\ held'[s] = queue[s][1] /\ held'[s] \in Lines /\ 1 \in 1..Len(queue[s])
  BY <1>1, <1>2
<1>4. AtCallback(s)' = AtCallback(s) + 1 /\ held'[s] = AtCallback(s) + 1 /\ held'[s] # 0
  BY <1>1, <1>2, <1>3 DEF AtCallback, Run, Lines
<1>5. AtCallback(s) \in Int /\ Len(incoming[s]) \in Nat
  BY <1>2, <1>3 DEF AtCallback, TypeOK
<1>6. Before(s)' = Before(s)
  BY <1>1, <1>4, <1>5 DEF Before, InCallback
<1>7. \A i \in 1..Len(queue'[s]) : queue'[s][i] = AtCallback(s)' + i
  BY <1>3, <1>4, <1>5 DEF Run
<1>8. QED
  BY <1>1, <1>4, <1>6, <1>7 DEF Run

\* It passes the line on: while the connection is open, into the channel.
LEMMA RunOfPassLine ==
    ASSUME TypeOK, NEW s \in Sessions, Run(s), PassLine(s), conn[s] = "open"
    PROVE  Run(s)'
<1>1. /\ held[s] # 0 /\ held'[s] = 0 /\ incoming'[s] = Append(incoming[s], held[s])
      /\ UNCHANGED <<lines, queue, got, reader>>
  BY DEF PassLine, TypeOK, clientVars
<1>2. /\ lines[s] \in Nat /\ Len(queue[s]) \in Nat /\ held[s] \in Lines
      /\ incoming[s] \in Seq(Lines)
  BY <1>1 DEF TypeOK, Lines
<1>3. /\ Len(incoming'[s]) = Len(incoming[s]) + 1 /\ Len(incoming[s]) \in Nat
      /\ \A i \in 1..Len(incoming[s]) : incoming'[s][i] = incoming[s][i]
      /\ incoming'[s][Len(incoming[s]) + 1] = held[s]
  BY <1>1, <1>2
<1>4. /\ AtCallback(s)' = AtCallback(s) /\ AtCallback(s) \in Int
      /\ held[s] = AtCallback(s)
  BY <1>1, <1>2 DEF AtCallback, Run
<1>5. /\ Before(s) = AtCallback(s) - 1 - Len(incoming[s])
      /\ Before(s)' = AtCallback(s) - 0 - (Len(incoming[s]) + 1)
  BY <1>1, <1>3, <1>4 DEF Before, InCallback
<1>6. Before(s)' = Before(s) /\ Before(s) \in Int /\ held[s] = Before(s) + Len(incoming[s]) + 1
  BY <1>3, <1>4, <1>5
<1>7. \A i \in 1..Len(incoming'[s]) : incoming'[s][i] = Before(s) + i
  <2>1. TAKE i \in 1..Len(incoming'[s])
  <2>2. i \in 1..Len(incoming[s]) \/ i = Len(incoming[s]) + 1
    BY <1>3
  <2>3. QED
    BY <2>2, <1>3, <1>6 DEF Run
<1>8. \A i \in 1..Len(queue'[s]) : queue'[s][i] = AtCallback(s)' + i
  BY <1>1, <1>4 DEF Run
<1>9. QED
  BY <1>1, <1>6, <1>7, <1>8 DEF Run

\* The server reads the line after the one it has read last.
LEMMA RunOfReadLine ==
    ASSUME TypeOK, NEW s \in Sessions, Run(s), ReadLine(s)
    PROVE  Run(s)' /\ got'[s] = Append(got[s], Before(s) + 1)
<1>1. /\ incoming[s] # <<>> /\ reader[s] = "running"
      /\ incoming'[s] = Tail(incoming[s]) /\ got'[s] = Append(got[s], Head(incoming[s]))
      /\ UNCHANGED <<lines, queue, held, reader>>
  BY DEF ReadLine, TypeOK, clientVars
<1>2. /\ lines[s] \in Nat /\ Len(queue[s]) \in Nat /\ InCallback(s) \in Nat
      /\ incoming[s] \in Seq(Lines) /\ got[s] \in Seq(Lines)
  BY DEF TypeOK, InCallback
<1>3. /\ Len(incoming'[s]) = Len(incoming[s]) - 1 /\ Len(incoming[s]) \in Nat \ {0}
      /\ \A i \in 1..Len(incoming'[s]) : /\ incoming'[s][i] = incoming[s][i + 1]
                                         /\ i + 1 \in 1..Len(incoming[s])
      /\ Head(incoming[s]) = incoming[s][1] /\ 1 \in 1..Len(incoming[s])
  BY <1>1, <1>2
<1>4. /\ AtCallback(s)' = AtCallback(s) /\ AtCallback(s) \in Int
      /\ InCallback(s)' = InCallback(s)
  BY <1>1, <1>2 DEF AtCallback, InCallback
<1>5. Before(s)' = Before(s) + 1 /\ Before(s) \in Int
  BY <1>2, <1>3, <1>4 DEF Before
<1>6. Head(incoming[s]) = Before(s) + 1
  BY <1>3 DEF Run
<1>7. \A i \in 1..Len(incoming'[s]) : incoming'[s][i] = Before(s)' + i
  BY <1>3, <1>5 DEF Run
<1>8. got'[s] # <<>> /\ got'[s][Len(got'[s])] = Before(s)'
  <2>1. Before(s) + 1 \in Lines
    BY <1>1, <1>2, <1>6
  <2>2. /\ got'[s] = Append(got[s], Before(s) + 1)
        /\ Len(got'[s]) = Len(got[s]) + 1 /\ Len(got[s]) \in Nat
    BY <1>1, <1>2, <1>6, <2>1
  <2>3. got'[s][Len(got[s]) + 1] = Before(s) + 1
    BY <2>1, <2>2, <1>2
  <2>4. QED
    BY <2>2, <2>3, <1>5
<1>9. \A i \in 1..Len(queue'[s]) : queue'[s][i] = AtCallback(s)' + i
  BY <1>1, <1>4 DEF Run
<1>10. held'[s] # 0 => held'[s] = AtCallback(s)'
  BY <1>1, <1>4 DEF Run
<1>11. QED
  BY <1>1, <1>6, <1>7, <1>8, <1>9, <1>10 DEF Run

\* A session that is open after a step was open before it, or starts with
\* nothing under way.
LEMMA InOrderIsKept ==
    TypeOK /\ Once /\ Empty /\ InOrder /\ [Next]_vars => InOrder'
<1> SUFFICES ASSUME TypeOK, Once, Empty, InOrder, [Next]_vars,
                    NEW t \in Sessions, conn'[t] = "open", ~panicked'
             PROVE  Run(t)'
  BY DEF InOrder
<1> USE DEF clientVars, openVars, lineVars
<1> DEFINE Still == /\ conn[t] = "open" /\ ~panicked /\ Same(t)
                    /\ reader'[t] = "running" => reader[t] = "running"
<1>0. ASSUME Still PROVE Run(t)'
  BY <1>0, RunStays DEF InOrder
<1>1. ASSUME NEW s \in Sessions, Open(s) \/ Leave(s) \/ Vanish(s) PROVE Run(t)'
  BY <1>1, <1>0 DEF Open, Leave, Vanish, Same
<1>2. ASSUME NEW s \in Sessions, SendLine(s) PROVE Run(t)'
  <2>1. conn[t] = "open" /\ ~panicked
    BY <1>2 DEF SendLine
  <2>2. CASE t = s
    BY <1>2, <2>1, <2>2, RunOfSendLine DEF InOrder
  <2>3. CASE t # s
    BY <1>2, <2>1, <2>3, <1>0 DEF SendLine, Same, TypeOK
  <2>4. QED
    BY <2>2, <2>3
<1>3. CASE BeginOpen
  BY <1>3, <1>0 DEF BeginOpen, Same
<1>4. ASSUME NEW s \in Sessions, SubscribeLines(s) PROVE Run(t)'
  <2>1. UNCHANGED <<lines, lineVars, reader, panicked>>
    BY <1>4 DEF SubscribeLines
  <2>2. CASE conn[t] = "open"
    BY <2>1, <2>2, <1>0 DEF Same
  <2>3. CASE conn[t] # "open"
    <3>1. t = s /\ conn[t] = "none"
      BY <1>4, <2>3 DEF SubscribeLines, Once, TypeOK
    <3>2. queue'[t] = <<>> /\ held'[t] = 0 /\ incoming'[t] = <<>> /\ got'[t] = <<>>
      BY <2>1, <3>1 DEF Empty
    <3>3. QED
      BY <3>2 DEF Run
  <2>4. QED
    BY <2>2, <2>3
<1>5. ASSUME NEW s \in Sessions, ConnectSession(s) PROVE Run(t)'
  <2>1. conn[t] = "open" /\ ~panicked /\ Same(t)
    BY <1>5 DEF ConnectSession, TypeOK, Same
  <2>2. CASE t = s
    <3>1. got'[t] = <<>>
      BY <1>5, <2>1, <2>2 DEF ConnectSession, Once, Empty, Same
    <3>2. QED
      BY <2>1, <3>1 DEF InOrder, Run, Same, AtCallback, Before, InCallback
  <2>3. CASE t # s
    BY <1>5, <2>1, <2>3, <1>0 DEF ConnectSession, TypeOK
  <2>4. QED
    BY <2>2, <2>3
<1>6. ASSUME NEW s \in Sessions, InsertSession(s) PROVE Run(t)'
  BY <1>6, <1>0 DEF InsertSession, Same
<1>7. CASE HandleClose
  <2>1. conn[t] = "open"
    BY <1>7 DEF HandleClose, removeStdioSession, Closing
  <2>2. QED
    BY <1>7, <2>1, <1>0 DEF HandleClose, Same
<1>8. CASE StopListening
  BY <1>8, <1>0 DEF StopListening, Same
<1>9. CASE StopSessions
  <2>1. conn[t] = "open"
    BY <1>9 DEF StopSessions, Closing
  <2>2. QED
    BY <1>9, <2>1, <1>0 DEF StopSessions, Same
<1>10. CASE Restart
  BY <1>10 DEF Restart
<1>11. ASSUME NEW s \in Sessions, EndSession(s) \/ WriteError(s) PROVE Run(t)'
  <2>1. conn[t] = "open" /\ ~panicked /\ Same(t)
    BY <1>11 DEF EndSession, WaitEnds, CloseFailed, SessionEnds, WriteError,
                 removeStdioSession, Closing, Same
  <2>2. reader'[t] = "running" => reader[t] = "running"
    BY <1>11 DEF EndSession, WaitEnds, CloseFailed, SessionEnds, WriteError, TypeOK
  <2>3. QED
    BY <2>1, <2>2, <1>0
<1>12. ASSUME NEW s \in Sessions, Unsubscribe(s) PROVE Run(t)'
  <2>1. conn[t] = "open" /\ t # s
    BY <1>12 DEF Unsubscribe, TypeOK
  <2>2. QED
    BY <1>12, <2>1, <1>0 DEF Unsubscribe, Same, TypeOK
<1>13. ASSUME NEW s \in Sessions, TakeLine(s) \/ PassLine(s) \/ ReadLine(s)
       PROVE  Run(t)'
  <2>1. conn[t] = "open" /\ ~panicked
    BY <1>13 DEF TakeLine, PassLine, ReadLine
  <2>2. CASE t = s
    BY <1>13, <2>1, <2>2, RunOfTakeLine, RunOfPassLine, RunOfReadLine
       DEF InOrder
  <2>3. CASE t # s
    BY <1>13, <2>1, <2>3, <1>0 DEF TakeLine, PassLine, ReadLine, Same, TypeOK
  <2>4. QED
    BY <2>2, <2>3
<1>14. ASSUME NEW s \in Sessions, ReadError(s) PROVE Run(t)'
  <2>1. conn[t] = "open" /\ ~panicked /\ UNCHANGED <<lines, queue, held, got>>
    BY <1>14 DEF ReadError
  <2>2. CASE t = s
    <3>1. reader'[t] = "failed"
      BY <1>14, <2>2 DEF ReadError, TypeOK
    <3>2. CASE UNCHANGED incoming
      BY <2>1, <3>1, <3>2, <1>0 DEF Same
    <3>3. CASE incoming[t] # <<>> /\ incoming' = [incoming EXCEPT ![t] = Tail(@)]
      <4>1. /\ incoming[t] \in Seq(Lines) /\ incoming'[t] = Tail(incoming[t])
            /\ lines[t] \in Nat /\ Len(queue[t]) \in Nat /\ InCallback(t) \in Nat
        BY <3>3 DEF TypeOK, InCallback
      <4>2. /\ Len(incoming'[t]) = Len(incoming[t]) - 1 /\ Len(incoming[t]) \in Nat \ {0}
            /\ \A i \in 1..Len(incoming'[t]) : /\ incoming'[t][i] = incoming[t][i + 1]
                                               /\ i + 1 \in 1..Len(incoming[t])
        BY <3>3, <4>1, Shifted
      <4>3. /\ AtCallback(t)' = AtCallback(t) /\ AtCallback(t) \in Int
            /\ InCallback(t)' = InCallback(t)
        BY <2>1, <4>1 DEF AtCallback, InCallback
      <4>4. Before(t)' = Before(t) + 1 /\ Before(t) \in Int
        BY <4>1, <4>2, <4>3 DEF Before
      <4>5. Run(t)
        BY <2>1 DEF InOrder
      <4>6. \A i \in 1..Len(incoming'[t]) : incoming'[t][i] = Before(t)' + i
        BY <4>2, <4>4, <4>5 DEF Run
      <4>7. QED
        BY <2>1, <3>1, <4>3, <4>5, <4>6 DEF Run
    <3>4. QED
      BY <1>14, <2>2, <3>2, <3>3 DEF ReadError
  <2>3. CASE t # s
    <3>1. Same(t) /\ reader'[t] = reader[t]
      BY <1>14, <2>1, <2>3 DEF ReadError, TypeOK, Same
    <3>2. QED
      BY <2>1, <3>1, <1>0
  <2>4. QED
    BY <2>2, <2>3
<1>15. CASE UNCHANGED vars
  BY <1>15, <1>0 DEF vars, Same
<1>16. QED
  BY <1>1, <1>2, <1>3, <1>4, <1>5, <1>6, <1>7, <1>8, <1>9, <1>10, <1>11, <1>12,
     <1>13, <1>14, <1>15 DEF Next, Opener, Callback, Serve

\* IInv is inductive.
LEMMA Inductive == IInv /\ [Next]_vars => IInv'
BY TypesAreKept, OnceIsKept, EmptyIsKept, InOrderIsKept DEF IInv

\* A session is subscribed once, and while it is open every line under way is
\* where its number says.
THEOREM Invariant == Spec => []IInv
<1>1. Init => IInv
  BY InitTypes, InitHolds DEF IInv
<1>2. QED
  BY <1>1, Inductive, PTL DEF Spec

\* What a step does to the lines the server has read.
Reads == \A s \in Sessions :
            conn[s] = "open" /\ got[s] # <<>> /\ got'[s] # got[s] /\ got'[s] # <<>> =>
                got'[s] = Append(got[s], got[s][Len(got[s])] + 1)

\* A line is read by ReadLine only, and the lines are forgotten by Restart only.
LEMMA ReadsInOrder == IInv /\ [Next]_vars => [Reads]_vars
<1> SUFFICES ASSUME IInv, [Next]_vars, NEW s \in Sessions, conn[s] = "open",
                    got'[s] # got[s], got[s] # <<>>, got'[s] # <<>>
             PROVE  got'[s] = Append(got[s], got[s][Len(got[s])] + 1)
  BY DEF Reads
<1> USE DEF clientVars, openVars, lineVars
<1>1. got' = [t \in Sessions |-> <<>>] \/ UNCHANGED got \/ \E t \in Sessions : ReadLine(t)
  <2>1. CASE Restart
    BY <2>1 DEF Restart
  <2>2. CASE \E t \in Sessions : Serve(t)
    BY <2>2 DEF Serve, ReadError, WriteError, lineVars
  <2>3. CASE ~Restart /\ ~ \E t \in Sessions : Serve(t)
    <3>1. UNCHANGED got
      BY <2>3
         DEF Next, Open, SendLine, Leave, Vanish, Opener, BeginOpen,
             SubscribeLines, ConnectSession, InsertSession, HandleClose,
             StopListening, StopSessions, Callback, TakeLine, PassLine,
             EndSession, CloseFailed, SessionEnds, WaitEnds, Unsubscribe, vars
    <3>2. QED
      BY <3>1
  <2>4. QED
    BY <2>1, <2>2, <2>3
<1>2. PICK t \in Sessions : ReadLine(t)
  BY <1>1
<1>3. t = s
  BY <1>2 DEF ReadLine, IInv, TypeOK
<1>4. Run(s) /\ reader[s] = "running" /\ ReadLine(s)
  BY <1>2, <1>3 DEF ReadLine, IInv, InOrder
<1>5. got[s][Len(got[s])] = Before(s)
  BY <1>4 DEF Run
<1>6. QED
  BY <1>4, <1>5, RunOfReadLine DEF IInv

\* While its connection is open, the server reads the lines of a client in
\* order, each once and without a gap.
THEOREM NothingSkipped == Spec => NoGaps
<1>1. NoGaps <=> [][Reads]_vars
  BY DEF NoGaps, Reads
<1>2. QED
  BY <1>1, Invariant, ReadsInOrder, PTL DEF Spec

(***************************************************************************)
(* No subscription is left behind.  For the induction: the session of the  *)
(* open callback is not in the map, so that nobody else closes what the    *)
(* callback has subscribed before it is there.                             *)
(***************************************************************************)

GivenUp(s) == reader[s] \in {"failed", "ended"}

OwnOpen ==
    \A s \in opener.for :
        /\ ~InMap(s)
        /\ opener.at = "subscribed" => conn[s] = "open"
        /\ opener.at = "connected" => conn[s] = "open" \/ GivenUp(s)

\* The map is there until the sessions are stopped.
MapThere == stopping # "stopped" => sessions # Nil

LeakInv == OwnOpen /\ NothingLeaks /\ MapThere

\* The actions that leave the sessions alone.
LEMMA LeakStays ==
    ASSUME LeakInv, TypeOK, UNCHANGED <<opener, sessions, conn, waiter>>,
           panicked => panicked', stopping' = "stopped" <=> stopping = "stopped",
           \A s \in Sessions : GivenUp(s) => GivenUp(s)'
    PROVE  LeakInv'
<1>1. opener.for \subseteq Sessions
  BY DEF TypeOK
<1>2. QED
  BY <1>1 DEF LeakInv, OwnOpen, NothingLeaks, InMap, MapThere, GivenUp

\* A session is subscribed once (Once): the callback replaces no connection.
LEMMA LeakOpener ==
    ASSUME IInv, LeakInv, Opener
    PROVE  LeakInv'
<1> USE DEF LeakInv, OwnOpen, NothingLeaks, InMap, MapThere, GivenUp, clientVars,
            lineVars
<1>0. TypeOK /\ Once
  BY DEF IInv
<1>1. CASE BeginOpen
  <2>1. UNCHANGED <<sessions, conn, reader, waiter, panicked, stopping>>
        /\ opener.for = {}
    BY <1>0, <1>1 DEF BeginOpen, TypeOK
  <2>2. \/ opener' = Free
        \/ opener' = [at |-> "checked", for |-> {Head(opens)}] /\ ~InMap(Head(opens))
    BY <1>1 DEF BeginOpen
  <2>3. opener'.at \notin {"subscribed", "connected"} /\ \A s \in opener'.for : ~InMap(s)
    BY <2>2 DEF Free
  <2>4. QED
    BY <2>1, <2>3
<1>2. ASSUME NEW s \in Sessions, SubscribeLines(s) PROVE LeakInv'
  <2>1. opener.for = {s} /\ ~InMap(s)
        /\ UNCHANGED <<sessions, reader, waiter, panicked, stopping>>
    BY <1>2 DEF SubscribeLines
  <2>2. CASE /\ opener' = [opener EXCEPT !.at = "subscribed"]
             /\ conn' = [conn EXCEPT ![s] = "open"]
    <3>1. opener'.for = {s} /\ \A t \in Sessions : conn'[t] = IF t = s THEN "open" ELSE conn[t]
      BY <1>0, <1>2, <2>1, <2>2 DEF SubscribeLines, TypeOK
    <3>2. QED
      BY <2>1, <3>1
  <2>3. CASE opener' = Free /\ UNCHANGED conn
    <3>1. conn[s] # "open"
      BY <1>0, <1>2, <2>1 DEF SubscribeLines, Once
    <3>2. QED
      BY <2>1, <2>3, <3>1 DEF Free
  <2>4. QED
    BY <1>2, <2>2, <2>3 DEF SubscribeLines
<1>3. ASSUME NEW s \in Sessions, ConnectSession(s) PROVE LeakInv'
  <2>1. opener.for = {s} /\ ~InMap(s) /\ conn[s] = "open"
        /\ UNCHANGED <<sessions, waiter, panicked, stopping>>
    BY <1>3 DEF ConnectSession
  <2>2. CASE /\ opener' = [opener EXCEPT !.at = "connected"] /\ UNCHANGED conn
             /\ reader' = [reader EXCEPT ![s] = "running"]
    <3>1. opener'.for = {s} /\ \A t \in Sessions : t # s => reader'[t] = reader[t]
      BY <1>0, <2>1, <2>2, <1>3 DEF ConnectSession, TypeOK
    <3>2. QED
      BY <2>1, <2>2, <3>1
  <2>3. CASE opener' = Free /\ conn' = [conn EXCEPT ![s] = "closing"] /\ UNCHANGED reader
    <3>1. \A t \in Sessions : conn'[t] = IF t = s THEN "closing" ELSE conn[t]
      BY <1>0, <2>3 DEF TypeOK
    <3>2. QED
      BY <2>1, <2>3, <3>1 DEF Free
  <2>4. QED
    BY <1>3, <2>2, <2>3 DEF ConnectSession
<1>4. ASSUME NEW s \in Sessions, InsertSession(s) PROVE LeakInv'
  <2>1. opener.for = {s} /\ ~InMap(s) /\ (conn[s] = "open" \/ GivenUp(s))
        /\ opener' = Free /\ UNCHANGED <<conn, reader, stopping>>
    BY <1>4 DEF InsertSession
  <2>2. CASE sessions = Nil
    BY <1>4, <2>1, <2>2 DEF InsertSession, Free
  <2>3. CASE sessions # Nil
    <3>1. /\ sessions' = sessions \cup {s} /\ UNCHANGED panicked
          /\ \A t \in Sessions : waiter'[t] = IF t = s THEN "waiting" ELSE waiter[t]
      BY <1>0, <1>4, <2>3 DEF InsertSession, TypeOK
    <3>2. sessions' # Nil
      BY <1>0, <2>3, <3>1, RelayAssumption DEF TypeOK
    <3>3. QED
      BY <2>1, <2>3, <3>1, <3>2 DEF Free
  <2>4. QED
    BY <2>2, <2>3
<1>5. QED
  BY <1>1, <1>2, <1>3, <1>4 DEF Opener

\* What is taken out of the map is closed, and what is closed was in it.
LEMMA LeakRemove ==
    ASSUME TypeOK, LeakInv, NEW s \in Sessions, removeStdioSession(s),
           UNCHANGED <<opener, reader, panicked, stopping>>,
           \A t \in Sessions : t # s => waiter'[t] = waiter[t]
    PROVE  LeakInv' \/ (~InMap(s) /\ waiter' # waiter)
<1> USE DEF LeakInv, OwnOpen, NothingLeaks, MapThere, GivenUp
<1>1. CASE InMap(s)
  <2>1. /\ sessions # Nil /\ sessions' = sessions \ {s} /\ sessions \subseteq Sessions
        /\ \A t \in Sessions : conn'[t] = IF t = s /\ conn[t] = "open" THEN "closing"
                                                                       ELSE conn[t]
    BY <1>1 DEF removeStdioSession, Closing, InMap, TypeOK
  <2>2. sessions' # Nil
    BY <2>1, RelayAssumption
  <2>3. \A t \in Sessions : InMap(t)' <=> InMap(t) /\ t # s
    BY <2>1, <2>2 DEF InMap
  <2>4. s \notin opener.for
    BY <1>1
  <2>5. opener.for \subseteq Sessions
    BY DEF TypeOK
  <2>6. QED
    BY <1>1, <2>1, <2>2, <2>3, <2>4, <2>5
<1>2. CASE ~InMap(s) /\ waiter' = waiter
  BY <1>2, LeakStays DEF removeStdioSession
<1>3. QED
  BY <1>1, <1>2

LEMMA LeakIsKept == IInv /\ LeakInv /\ [Next]_vars => LeakInv'
<1> SUFFICES ASSUME IInv, TypeOK, LeakInv, [Next]_vars PROVE LeakInv'
  BY DEF IInv
<1> USE DEF clientVars, openVars, lineVars
<1>1. ASSUME NEW s \in Sessions,
             \/ Open(s) \/ SendLine(s) \/ Leave(s) \/ Vanish(s)
             \/ Callback(s) \/ Serve(s) \/ SessionEnds(s)
      PROVE  LeakInv'
  <2>1. UNCHANGED <<opener, sessions, conn, waiter, panicked, stopping>>
    BY <1>1 DEF Open, SendLine, Leave, Vanish, Callback, TakeLine, PassLine, Serve,
                ReadLine, ReadError, WriteError, SessionEnds
  <2>2. \A t \in Sessions : GivenUp(t) => GivenUp(t)'
    BY <1>1 DEF Open, SendLine, Leave, Vanish, Callback, TakeLine, PassLine, Serve,
                ReadLine, ReadError, WriteError, SessionEnds, GivenUp, TypeOK
  <2>3. QED
    BY <2>1, <2>2, LeakStays
<1>2. CASE StopListening \/ UNCHANGED vars
  BY <1>2, LeakStays DEF StopListening, vars, GivenUp
<1>3. CASE HandleClose
  <2>1. Head(closes) \in Sessions
    BY <1>3, HeadTail DEF HandleClose, TypeOK
  <2>2. QED
    BY <1>3, <2>1, LeakRemove DEF HandleClose
<1>4. ASSUME NEW s \in Sessions, WaitEnds(s) PROVE LeakInv'
  <2>1. /\ removeStdioSession(s) /\ UNCHANGED <<opener, reader, panicked, stopping>>
        /\ \A t \in Sessions : t # s => waiter'[t] = waiter[t]
    BY <1>4 DEF WaitEnds, TypeOK
  <2>2. CASE InMap(s)
    BY <2>1, <2>2, LeakRemove
  <2>3. CASE ~InMap(s)
    BY <2>1, <2>3
       DEF removeStdioSession, LeakInv, OwnOpen, NothingLeaks, InMap, MapThere, GivenUp
  <2>4. QED
    BY <2>2, <2>3
<1>5. ASSUME NEW s \in Sessions, Unsubscribe(s) PROVE LeakInv'
  <2>1. /\ conn[s] = "closing"
        /\ UNCHANGED <<opener, sessions, reader, waiter, panicked, stopping>>
        /\ \A t \in Sessions : conn'[t] = IF t = s THEN "closed" ELSE conn[t]
    BY <1>5 DEF Unsubscribe, TypeOK
  <2>2. opener.for \subseteq Sessions
    BY DEF TypeOK
  <2>3. QED
    BY <2>1, <2>2 DEF LeakInv, OwnOpen, NothingLeaks, InMap, MapThere, GivenUp
<1>6. CASE StopSessions
  <2>1. /\ UNCHANGED <<opener, reader, waiter, panicked>> /\ sessions' = Nil /\ sessions # Nil
        /\ stopping' = "stopped"
        /\ \A t \in Sessions : conn'[t] = IF t \in sessions /\ conn[t] = "open"
                                          THEN "closing" ELSE conn[t]
    BY <1>6 DEF StopSessions, Closing, LeakInv, MapThere
  <2>2. \A t \in Sessions : ~InMap(t)'
    BY <2>1 DEF InMap
  <2>3. opener.for \subseteq Sessions
    BY DEF TypeOK
  <2>4. QED
    BY <2>1, <2>2, <2>3 DEF LeakInv, OwnOpen, NothingLeaks, InMap, MapThere, GivenUp
<1>7. CASE Restart
  BY <1>7, RelayAssumption DEF Restart, LeakInv, OwnOpen, NothingLeaks, InMap, MapThere, Free
<1>8. ASSUME NEW s \in Sessions, CloseFailed(s) PROVE LeakInv'
  <2>1. /\ GivenUp(s) /\ UNCHANGED <<opener, sessions, reader, waiter, panicked, stopping>>
        /\ \A t \in Sessions : conn'[t] = IF t = s THEN "closing" ELSE conn[t]
    BY <1>8 DEF CloseFailed, Closing, GivenUp
  <2>2. ~(opener.at = "subscribed" /\ s \in opener.for)
    BY <2>1 DEF IInv, Once, GivenUp
  <2>3. opener.for \subseteq Sessions
    BY DEF TypeOK
  <2>4. QED
    BY <2>1, <2>2, <2>3 DEF LeakInv, OwnOpen, NothingLeaks, InMap, MapThere, GivenUp
<1> HIDE DEF clientVars, openVars, lineVars
<1>9. QED
  BY <1>1, <1>2, <1>3, <1>4, <1>5, <1>6, <1>7, <1>8, LeakOpener DEF Next, EndSession

\* Every open subscription has somebody who will close it, and every session in
\* the map is watched, and open unless the MCP server has given it up.
THEOREM NoLeaks == Spec => []NothingLeaks
<1>1. Init => LeakInv
  BY RelayAssumption DEF Init, LeakInv, OwnOpen, NothingLeaks, InMap, MapThere, Free
<1>2. LeakInv => NothingLeaks
  BY DEF LeakInv
<1>3. QED
  BY <1>1, <1>2, Invariant, LeakIsKept, PTL DEF Spec
=============================================================================
