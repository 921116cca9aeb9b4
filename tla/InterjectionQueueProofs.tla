----------------------- MODULE InterjectionQueueProofs -----------------------
(***************************************************************************)
(* Proofs about InterjectionQueue, for any number of flows, calls,         *)
(* interjections, faults and restarts, and any clock.                      *)
(***************************************************************************)
EXTENDS InterjectionQueue, SequenceTheorems, TLAPS

LEMMA Constants == MaxDeliver \in Nat \ {0} /\ Window \in Nat
BY InterjectionAssumption

StreamTypes ==
    /\ opened \subseteq Flows
    /\ stream \in Seq(Command)
    /\ cursor \in 0..Len(stream)
    /\ unacked \subseteq (1..cursor) \X (1..(MaxDeliver - 1))
    /\ heard \subseteq 1..Len(stream)

JobTypes ==
    /\ job \in ((1..cursor) \X (1..MaxDeliver)) \cup {NoJob}
    /\ pc \in {"next", "check", "append", "finish", "done"}
    /\ pc \in {"check", "append", "finish"} => job # NoJob

StoreTypes ==
    /\ registered \subseteq opened
    /\ queue \in [Flows -> Seq(Nat)]
    /\ put \in [Flows -> Seq(Timed)]
    /\ handed \in [Flows -> Seq(Nat)]

OtherTypes ==
    /\ debounce \subseteq Stamp
    /\ stopped \subseteq Flows
    /\ judged \subseteq Timed

CallTypes ==
    /\ at \in [Callers -> {"idle", "drained", "parked", "woken"}]
    /\ on \in [Callers -> Flows]

CountTypes == now \in Nat /\ faults \in Nat /\ restarts \in Nat

\* The type invariant is these groups.
LEMMA Groups ==
    TypeOK <=>
        /\ StreamTypes /\ JobTypes /\ StoreTypes
        /\ OtherTypes /\ CallTypes /\ CountTypes
BY DEF TypeOK, StreamTypes, JobTypes, StoreTypes, OtherTypes, CallTypes, CountTypes

LEMMA Groups2 ==
    TypeOK' <=>
        /\ StreamTypes' /\ JobTypes' /\ StoreTypes'
        /\ OtherTypes' /\ CallTypes' /\ CountTypes'
BY DEF TypeOK, StreamTypes, JobTypes, StoreTypes, OtherTypes, CallTypes, CountTypes

\* A group of which nothing changes is kept.
LEMMA KeepStream ==
    StreamTypes /\ UNCHANGED <<opened, stream, cursor, unacked, heard>> => StreamTypes'
BY DEF StreamTypes

LEMMA KeepJob == JobTypes /\ UNCHANGED <<job, pc, cursor>> => JobTypes'
BY DEF JobTypes

LEMMA KeepStore ==
    StoreTypes /\ UNCHANGED <<opened, registered, queue, put, handed>> => StoreTypes'
BY DEF StoreTypes

LEMMA KeepOther == OtherTypes /\ UNCHANGED <<debounce, stopped, judged>> => OtherTypes'
BY DEF OtherTypes

LEMMA KeepCalls == CallTypes /\ UNCHANGED <<at, on>> => CallTypes'
BY DEF CallTypes

LEMMA KeepCounts == CountTypes /\ UNCHANGED <<now, faults, restarts>> => CountTypes'
BY DEF CountTypes

\* Facts about sequences.
LEMMA Appended ==
    ASSUME NEW S, NEW q \in Seq(S), NEW x \in S
    PROVE  /\ Append(q, x) \in Seq(S) /\ Len(Append(q, x)) = Len(q) + 1
           /\ \A i \in 1..Len(q) : Append(q, x)[i] = q[i]
           /\ Append(q, x)[Len(q) + 1] = x
OBVIOUS

\* The message in hand.
LEMMA InHand ==
    ASSUME StreamTypes, JobTypes, pc \in {"check", "append", "finish"}
    PROVE  /\ job[1] \in 1..cursor /\ job[2] \in 1..MaxDeliver
           /\ job = <<job[1], job[2]>>
           /\ job[1] \in 1..Len(stream) /\ job[1] \in Nat
           /\ stream[job[1]] \in Command
           /\ stream[job[1]].flow \in Flows
           /\ stream[job[1]].action \in Actions
<1>1. job \in (1..cursor) \X (1..MaxDeliver)
  BY DEF JobTypes
<1>2. job[1] \in 1..cursor /\ job[2] \in 1..MaxDeliver /\ job = <<job[1], job[2]>>
  BY <1>1
<1>3. cursor \in 0..Len(stream) /\ Len(stream) \in Nat
  BY DEF StreamTypes
<1>4. job[1] \in 1..Len(stream) /\ job[1] \in Nat
  BY <1>2, <1>3
<1>5. stream[job[1]] \in Command
  BY <1>4, ElementOfSeq DEF StreamTypes
<1>6. QED
  BY <1>2, <1>4, <1>5 DEF Command

\* A delivery that is tried again has one left.
LEMMA RequeueTypes ==
    ASSUME StreamTypes, JobTypes, job # NoJob
    PROVE  Requeue(job) \subseteq (1..cursor) \X (1..(MaxDeliver - 1))
<1>1. job[1] \in 1..cursor /\ job[2] \in 1..MaxDeliver /\ job = <<job[1], job[2]>>
  BY DEF JobTypes
<1>2. job[2] < MaxDeliver => job \in (1..cursor) \X (1..(MaxDeliver - 1))
  <2>1. job[2] < MaxDeliver => job[2] \in 1..(MaxDeliver - 1)
    BY <1>1, Constants
  <2>2. QED
    BY <1>1, <2>1
<1>3. QED
  BY <1>2 DEF Requeue, StreamTypes

LEMMA AckTypes ==
    ASSUME StreamTypes, JobTypes, CountTypes, pc \in {"check", "append", "finish"}, Ack
    PROVE  /\ job' = NoJob /\ pc' = "next"
           /\ unacked' \subseteq (1..cursor) \X (1..(MaxDeliver - 1))
           /\ faults' \in Nat
<1>1. job' = NoJob /\ pc' = "next"
  BY DEF Ack
<1>2. unacked' \subseteq (1..cursor) \X (1..(MaxDeliver - 1))
  BY RequeueTypes DEF Ack, StreamTypes, JobTypes
<1>3. faults' \in Nat
  BY DEF Ack, NoFault, Fault, CountTypes
<1>4. QED
  BY <1>1, <1>2, <1>3

LEMMA DrainTypes ==
    ASSUME StoreTypes, NEW f \in Flows, Drain(f)
    PROVE  queue' \in [Flows -> Seq(Nat)] /\ handed' \in [Flows -> Seq(Nat)]
<1>1. handed[f] \in Seq(Nat) /\ queue[f] \in Seq(Nat) /\ <<>> \in Seq(Nat)
  BY DEF StoreTypes
<1>2. handed[f] \o queue[f] \in Seq(Nat)
  BY <1>1, ConcatProperties
<1>3. QED
  BY <1>1, <1>2 DEF Drain, StoreTypes

(***************************************************************************)
(* Every action keeps the types.                                           *)
(***************************************************************************)

LEMMA RegisterTypes ==
    ASSUME TypeOK, NEW f \in Flows, Register(f) \/ Remove(f)
    PROVE  TypeOK'
<1> USE DEF Register, Remove, consumerVars, callVars, historyVars
<1>1. StreamTypes /\ JobTypes /\ StoreTypes /\ OtherTypes /\ CallTypes /\ CountTypes
  BY Groups
<1>2. StreamTypes'
  BY <1>1 DEF StreamTypes
<1>3. JobTypes'
  BY <1>1, KeepJob
<1>4. StoreTypes'
  <2>1. queue' \in [Flows -> Seq(Nat)]
    <3>1. <<>> \in Seq(Nat)
      OBVIOUS
    <3>2. QED
      BY <1>1, <3>1 DEF StoreTypes
  <2>2. registered' \subseteq opened'
    BY <1>1 DEF StoreTypes
  <2>3. QED
    BY <1>1, <2>1, <2>2 DEF StoreTypes
<1>5. OtherTypes'
  BY <1>1, KeepOther
<1>6. CallTypes' /\ CountTypes'
  BY <1>1, KeepCalls, KeepCounts
<1>7. QED
  BY <1>2, <1>3, <1>4, <1>5, <1>6, Groups2

LEMMA FetchTypes ==
    ASSUME TypeOK, FetchNew \/ FetchRedelivered \/ ConsumerQuits
    PROVE  TypeOK'
<1> USE DEF storeVars, callVars, historyVars
<1>1. StreamTypes /\ JobTypes /\ StoreTypes /\ OtherTypes /\ CallTypes /\ CountTypes
  BY Groups
<1>2. Len(stream) \in Nat /\ cursor \in 0..Len(stream)
  BY <1>1 DEF StreamTypes
<1>3. CASE FetchNew
  <2>1. cursor' = cursor + 1 /\ cursor' \in 1..Len(stream) /\ UNCHANGED stream
    BY <1>2, <1>3 DEF FetchNew
  <2>2. unacked \subseteq (1..cursor') \X (1..(MaxDeliver - 1))
    BY <1>1, <1>2, <2>1 DEF StreamTypes
  <2>3. job' \in (1..cursor') \X (1..MaxDeliver) /\ pc' = "check"
    <3>1. cursor + 1 \in 1..cursor' /\ 1 \in 1..MaxDeliver
      BY <1>2, <2>1, Constants
    <3>2. QED
      BY <1>3, <3>1 DEF FetchNew
  <2>4. job' # NoJob
    <3>1. job'[1] # 0
      BY <1>2, <1>3 DEF FetchNew
    <3>2. QED
      BY <3>1 DEF NoJob
  <2>5. StreamTypes'
    BY <1>1, <1>3, <2>1, <2>2 DEF FetchNew, StreamTypes
  <2>6. JobTypes'
    BY <2>3, <2>4 DEF JobTypes
  <2>7. StoreTypes' /\ OtherTypes' /\ CallTypes' /\ CountTypes'
    BY <1>1, <1>3, KeepStore, KeepOther, KeepCalls, KeepCounts DEF FetchNew
  <2>8. QED
    BY <2>5, <2>6, <2>7, Groups2
<1>4. CASE FetchRedelivered
  <2>1. PICK u \in unacked : unacked' = unacked \ {u} /\ job' = <<u[1], u[2] + 1>>
    BY <1>4 DEF FetchRedelivered
  <2>2. u[1] \in 1..cursor /\ u[2] \in 1..(MaxDeliver - 1)
    BY <1>1 DEF StreamTypes
  <2>3. u[2] + 1 \in 1..MaxDeliver /\ u[1] # 0
    BY <1>2, <2>2, Constants
  <2>4. job' \in (1..cursor) \X (1..MaxDeliver) /\ job' # NoJob
    BY <2>1, <2>2, <2>3 DEF NoJob
  <2>5. StreamTypes'
    BY <1>1, <1>4, <2>1 DEF FetchRedelivered, StreamTypes
  <2>6. JobTypes'
    BY <1>4, <2>4 DEF FetchRedelivered, JobTypes
  <2>7. StoreTypes' /\ OtherTypes' /\ CallTypes' /\ CountTypes'
    BY <1>1, <1>4, KeepStore, KeepOther, KeepCalls, KeepCounts DEF FetchRedelivered
  <2>8. QED
    BY <2>5, <2>6, <2>7, Groups2
<1>5. CASE ConsumerQuits
  <2>1. JobTypes'
    BY <1>1, <1>5 DEF ConsumerQuits, JobTypes
  <2>2. CountTypes'
    BY <1>1, <1>5 DEF ConsumerQuits, CountTypes, Fault
  <2>3. StreamTypes' /\ StoreTypes' /\ OtherTypes' /\ CallTypes'
    BY <1>1, <1>5, KeepStream, KeepStore, KeepOther, KeepCalls DEF ConsumerQuits
  <2>4. QED
    BY <2>1, <2>2, <2>3, Groups2
<1>6. QED
  BY <1>3, <1>4, <1>5

LEMMA CheckDebounceTypes == ASSUME TypeOK, CheckDebounce PROVE TypeOK'
<1> DEFINE m == stream[job[1]]
<1>1. StreamTypes /\ JobTypes /\ StoreTypes /\ OtherTypes /\ CallTypes /\ CountTypes
  BY Groups
<1>2. pc = "check" /\ pc \in {"check", "append", "finish"}
  BY DEF CheckDebounce
<1>3. job[1] \in 1..Len(stream) /\ job[1] \in Nat /\ m.flow \in Flows /\ m.action \in Actions
  BY <1>1, <1>2, InHand
<1>4. /\ heard' = heard \cup {job[1]}
      /\ judged' = judged \cup {[msg |-> job[1], at |-> now]} \/ judged' = judged
      /\ \/ Ack /\ UNCHANGED <<debounce, stopped>>
         \/ LetBy(m)
      /\ UNCHANGED <<now, opened, stream, cursor, registered, queue, at, on, put,
                     handed, restarts>>
  BY DEF CheckDebounce, storeVars, callVars
<1> HIDE DEF m
<1>5. StoreTypes' /\ CallTypes'
  BY <1>1, <1>4, KeepStore, KeepCalls
<1>6. judged' \subseteq Timed
  <2>1. [msg |-> job[1], at |-> now] \in Timed
    BY <1>1, <1>3 DEF Timed, CountTypes
  <2>2. QED
    BY <1>1, <1>4, <2>1 DEF OtherTypes
<1>7. heard' \subseteq 1..Len(stream)
  BY <1>1, <1>3, <1>4 DEF StreamTypes
<1>8. CASE Ack /\ UNCHANGED <<debounce, stopped>>
  <2>1. /\ job' = NoJob /\ pc' = "next"
        /\ unacked' \subseteq (1..cursor) \X (1..(MaxDeliver - 1))
        /\ faults' \in Nat
    BY <1>1, <1>2, <1>8, AckTypes
  <2>2. StreamTypes'
    BY <1>1, <1>4, <1>7, <2>1 DEF StreamTypes
  <2>3. JobTypes' /\ CountTypes'
    BY <1>1, <1>4, <2>1 DEF JobTypes, CountTypes
  <2>4. OtherTypes'
    BY <1>1, <1>6, <1>8 DEF OtherTypes
  <2>5. QED
    BY <1>5, <2>2, <2>3, <2>4, Groups2
<1>9. CASE LetBy(m)
  <2>1. StreamTypes'
    BY <1>1, <1>4, <1>7, <1>9 DEF StreamTypes, LetBy
  <2>2. JobTypes'
    BY <1>1, <1>2, <1>4, <1>9 DEF JobTypes, LetBy
  <2>3. CountTypes'
    BY <1>1, <1>4, <1>9 DEF CountTypes, LetBy, NoFault
  <2>4. debounce' \subseteq Stamp
    <3>1. [flow |-> m.flow, action |-> m.action, at |-> now] \in Stamp
      BY <1>1, <1>3 DEF Stamp, CountTypes
    <3>2. QED
      BY <1>1, <1>9, <3>1 DEF LetBy, Remember, OtherTypes
  <2>5. OtherTypes'
    BY <1>1, <1>6, <1>9, <2>4 DEF OtherTypes, LetBy
  <2>6. QED
    BY <1>5, <2>1, <2>2, <2>3, <2>5, Groups2
<1>10. QED
  BY <1>4, <1>8, <1>9

LEMMA PutTypes ==
    ASSUME StoreTypes, CallTypes, CountTypes, NEW f \in Flows, NEW i \in Nat, Put(f, i)
    PROVE  /\ queue' \in [Flows -> Seq(Nat)] /\ put' \in [Flows -> Seq(Timed)]
           /\ at' \in [Callers -> {"idle", "drained", "parked", "woken"}]
<1>1. CASE f \in registered
  <2>1. [msg |-> i, at |-> now] \in Timed
    BY DEF Timed, CountTypes
  <2>2. /\ Append(queue[f], i) \in Seq(Nat)
        /\ Append(put[f], [msg |-> i, at |-> now]) \in Seq(Timed)
    BY <2>1, Appended DEF StoreTypes
  <2>3. QED
    BY <1>1, <2>2 DEF Put, StoreTypes, CallTypes
<1>2. CASE f \notin registered
  BY <1>2 DEF Put, StoreTypes, CallTypes
<1>3. QED
  BY <1>1, <1>2

LEMMA AppendItemTypes == ASSUME TypeOK, AppendItem PROVE TypeOK'
<1>1. StreamTypes /\ JobTypes /\ StoreTypes /\ OtherTypes /\ CallTypes /\ CountTypes
  BY Groups
<1>2. pc = "append" /\ pc \in {"check", "append", "finish"}
  BY DEF AppendItem
<1>3. job[1] \in Nat /\ stream[job[1]].flow \in Flows
  BY <1>1, <1>2, InHand
<1>4. /\ queue' \in [Flows -> Seq(Nat)] /\ put' \in [Flows -> Seq(Timed)]
      /\ at' \in [Callers -> {"idle", "drained", "parked", "woken"}]
  BY <1>1, <1>3, PutTypes DEF AppendItem
<1>5. StreamTypes' /\ OtherTypes' /\ CountTypes'
  BY <1>1, KeepStream, KeepOther, KeepCounts DEF AppendItem
<1>6. JobTypes'
  BY <1>1, <1>2 DEF AppendItem, JobTypes
<1>7. StoreTypes' /\ CallTypes'
  BY <1>1, <1>4 DEF AppendItem, StoreTypes, CallTypes
<1>8. QED
  BY <1>5, <1>6, <1>7, Groups2

LEMMA FinishTypes == ASSUME TypeOK, Finish PROVE TypeOK'
<1>1. StreamTypes /\ JobTypes /\ StoreTypes /\ OtherTypes /\ CallTypes /\ CountTypes
  BY Groups
<1>2. pc \in {"check", "append", "finish"} /\ Ack
  BY DEF Finish
<1>3. stream[job[1]].flow \in Flows
  BY <1>1, <1>2, InHand
<1>4. /\ job' = NoJob /\ pc' = "next"
      /\ unacked' \subseteq (1..cursor) \X (1..(MaxDeliver - 1))
      /\ faults' \in Nat
  BY <1>1, <1>2, AckTypes
<1>5. StreamTypes'
  BY <1>1, <1>4 DEF Finish, StreamTypes, historyVars
<1>6. JobTypes' /\ CountTypes'
  BY <1>1, <1>4 DEF Finish, JobTypes, CountTypes
<1>7. OtherTypes'
  BY <1>1, <1>3 DEF Finish, Fail, OtherTypes, historyVars
<1>8. StoreTypes' /\ CallTypes'
  BY <1>1, KeepStore, KeepCalls DEF Finish, storeVars, callVars, historyVars
<1>9. QED
  BY <1>5, <1>6, <1>7, <1>8, Groups2

LEMMA CallTypesKept ==
    ASSUME TypeOK, NEW c \in Callers, Calls(c)
    PROVE  TypeOK'
<1> USE DEF consumerVars, storeVars, callVars, historyVars
<1>1. StreamTypes /\ JobTypes /\ StoreTypes /\ OtherTypes /\ CallTypes /\ CountTypes
  BY Groups
<1>2. opened \subseteq Flows /\ on[c] \in Flows
  BY <1>1 DEF StreamTypes, CallTypes
<1>3. StreamTypes' /\ JobTypes' /\ OtherTypes' /\ CountTypes'
  <2>1. UNCHANGED <<opened, stream, cursor, unacked, heard>> /\ UNCHANGED <<job, pc>>
        /\ UNCHANGED <<debounce, stopped, judged>> /\ UNCHANGED <<now, faults, restarts>>
    BY DEF Calls, Check, AwaitDrain, AwaitPark, AwaitWake, AwaitTimeout
  <2>2. QED
    BY <1>1, <2>1, KeepStream, KeepJob, KeepOther, KeepCounts
<1>4. StoreTypes'
  <2>1. UNCHANGED <<opened, registered, put>>
    BY DEF Calls, Check, AwaitDrain, AwaitPark, AwaitWake, AwaitTimeout
  <2>2. UNCHANGED <<queue, handed>> \/ \E f \in Flows : Drain(f)
    BY <1>2 DEF Calls, Check, AwaitDrain, AwaitPark, AwaitWake, AwaitTimeout
  <2>3. QED
    BY <1>1, <2>1, <2>2, DrainTypes DEF StoreTypes
<1>5. CallTypes'
  <2>1. ASSUME NEW f \in opened, Check(c, f) PROVE CallTypes'
    BY <1>1, <2>1, KeepCalls DEF Check
  <2>2. ASSUME NEW f \in opened, AwaitDrain(c, f) PROVE CallTypes'
    BY <1>1, <1>2, <2>2 DEF AwaitDrain, CallTypes
  <2>3. CASE AwaitPark(c)
    BY <1>1, <2>3 DEF AwaitPark, CallTypes
  <2>4. CASE AwaitWake(c) \/ AwaitTimeout(c)
    BY <1>1, <2>4 DEF AwaitWake, AwaitTimeout, CallTypes
  <2>5. QED
    BY <2>1, <2>2, <2>3, <2>4 DEF Calls
<1>6. QED
  BY <1>3, <1>4, <1>5, Groups2

LEMMA SendTypes ==
    ASSUME TypeOK, (\E m \in Command : Send(m)) \/ Tick
    PROVE  TypeOK'
<1> USE DEF consumerVars, storeVars, callVars, historyVars
<1>1. StreamTypes /\ JobTypes /\ StoreTypes /\ OtherTypes /\ CallTypes /\ CountTypes
  BY Groups
<1>2. ASSUME NEW m \in Command, Send(m) PROVE TypeOK'
  <2>1. /\ stream' \in Seq(Command) /\ Len(stream') = Len(stream) + 1
        /\ Len(stream) \in Nat
    BY <1>1, <1>2, Appended DEF Send, StreamTypes
  <2>2. 0..Len(stream) \subseteq 0..Len(stream') /\ 1..Len(stream) \subseteq 1..Len(stream')
    BY <2>1
  <2>3. StreamTypes'
    BY <1>1, <1>2, <2>1, <2>2 DEF Send, StreamTypes
  <2>4. JobTypes' /\ StoreTypes' /\ OtherTypes' /\ CallTypes' /\ CountTypes'
    BY <1>1, <1>2, KeepJob, KeepStore, KeepOther, KeepCalls, KeepCounts DEF Send
  <2>5. QED
    BY <2>3, <2>4, Groups2
<1>3. CASE Tick
  <2>1. CountTypes'
    BY <1>1, <1>3 DEF Tick, CountTypes
  <2>2. StreamTypes' /\ JobTypes' /\ StoreTypes' /\ OtherTypes' /\ CallTypes'
    BY <1>1, <1>3, KeepStream, KeepJob, KeepStore, KeepOther, KeepCalls DEF Tick
  <2>3. QED
    BY <2>1, <2>2, Groups2
<1>4. QED
  BY <1>2, <1>3

LEMMA RestartTypes == ASSUME TypeOK, Restart PROVE TypeOK'
<1>1. StreamTypes /\ JobTypes /\ StoreTypes /\ OtherTypes /\ CallTypes /\ CountTypes
  BY Groups
<1>2. StreamTypes'
  <2>1. CASE LoseStream
    <3>1. stream' = <<>> /\ stream' \in Seq(Command) /\ Len(stream') = 0
      BY <2>1 DEF LoseStream
    <3>2. cursor' \in 0..Len(stream') /\ heard' = {} /\ unacked' = {}
      BY <2>1, <3>1 DEF LoseStream
    <3>3. QED
      BY <1>1, <3>1, <3>2 DEF Restart, StreamTypes
  <2>2. CASE KeepPosition
    <3>1. unacked' \subseteq (1..cursor) \X (1..(MaxDeliver - 1))
      BY <1>1, <2>2, RequeueTypes DEF KeepPosition, StreamTypes
    <3>2. QED
      BY <1>1, <2>2, <3>1 DEF Restart, KeepPosition, StreamTypes
  <2>3. CASE LosePosition
    <3>1. Len(stream) \in Nat
      BY <1>1 DEF StreamTypes
    <3>2. 0 \in 0..Len(stream)
      BY <3>1
    <3>3. QED
      BY <1>1, <2>3, <3>2 DEF Restart, LosePosition, StreamTypes
  <2>4. QED
    BY <2>1, <2>2, <2>3 DEF Restart
<1>3. JobTypes'
  BY DEF Restart, JobTypes
<1>4. StoreTypes'
  <2>1. Empty \in [Flows -> Seq(Nat)] /\ Empty \in [Flows -> Seq(Timed)]
    BY DEF Empty
  <2>2. QED
    BY <2>1 DEF Restart, StoreTypes
<1>5. OtherTypes' /\ CallTypes' /\ CountTypes'
  BY <1>1 DEF Restart, OtherTypes, CallTypes, CountTypes
<1>6. QED
  BY <1>2, <1>3, <1>4, <1>5, Groups2

LEMMA InitTypes == Init => TypeOK
<1> SUFFICES ASSUME Init PROVE TypeOK
  OBVIOUS
<1>1. Empty \in [Flows -> Seq(Nat)] /\ Empty \in [Flows -> Seq(Timed)]
  BY DEF Empty
<1>2. stream \in Seq(Command) /\ Len(stream) = 0
  BY EmptySeq DEF Init
<1>3. StreamTypes
  BY <1>2 DEF Init, StreamTypes
<1>4. JobTypes
  BY DEF Init, JobTypes
<1>5. StoreTypes
  BY <1>1 DEF Init, StoreTypes
<1>6. OtherTypes /\ CallTypes /\ CountTypes
  BY DEF Init, OtherTypes, CallTypes, CountTypes
<1>7. QED
  BY <1>3, <1>4, <1>5, <1>6, Groups

LEMMA TypesAreKept == TypeOK /\ [Next]_vars => TypeOK'
<1>1. ASSUME TypeOK, UNCHANGED vars PROVE TypeOK'
  BY <1>1 DEF vars, consumerVars, storeVars, callVars, historyVars, TypeOK
<1>2. ASSUME TypeOK, Next PROVE TypeOK'
  BY <1>2, RegisterTypes, FetchTypes, CheckDebounceTypes, AppendItemTypes,
     FinishTypes, CallTypesKept, SendTypes, RestartTypes DEF Next, Consumer
<1>3. QED
  BY <1>1, <1>2

\* Types, and with them: a delivery is of a message that has been sent, and no
\* message is delivered more than MaxDeliver times.
THEOREM TypeCorrect == Spec => []TypeOK
BY InitTypes, TypesAreKept, PTL DEF Spec

(***************************************************************************)
(* An item goes to one call.  For the induction: a flow without a queue    *)
(* has no items, and one that was never opened no history, so that         *)
(* registering it starts both at nothing.                                  *)
(***************************************************************************)

Msgs(q) == [k \in DOMAIN q |-> q[k].msg]

QueueInv ==
    /\ \A f \in registered : handed[f] \o queue[f] = Msgs(put[f])
    /\ \A f \in Flows \ registered : queue[f] = <<>>
    /\ \A f \in Flows \ opened : put[f] = <<>> /\ handed[f] = <<>>

LEMMA MsgsEmpty == Msgs(<<>>) = <<>>
BY DEF Msgs

LEMMA MsgsTypes ==
    ASSUME NEW q \in Seq(Timed)
    PROVE  /\ Msgs(q) \in Seq(Nat) /\ Len(Msgs(q)) = Len(q)
           /\ \A k \in 1..Len(q) : Msgs(q)[k] = q[k].msg
<1>1. DOMAIN q = 1..Len(q) /\ Len(q) \in Nat
  BY LenProperties
<1>2. \A k \in 1..Len(q) : q[k].msg \in Nat
  <2>1. \A k \in 1..Len(q) : q[k] \in Timed
    BY ElementOfSeq
  <2>2. QED
    BY <2>1 DEF Timed
<1>3. Msgs(q) = [k \in 1..Len(q) |-> q[k].msg]
  BY <1>1 DEF Msgs
<1>4. QED
  BY <1>1, <1>2, <1>3

LEMMA MsgsAppend ==
    ASSUME NEW q \in Seq(Timed), NEW x \in Timed
    PROVE  Msgs(Append(q, x)) = Append(Msgs(q), x.msg)
<1>1. Append(q, x) \in Seq(Timed) /\ x.msg \in Nat /\ Len(q) \in Nat
  BY Appended, LenProperties DEF Timed
<1> DEFINE new == Append(q, x)
           s == Msgs(new)
           u == Append(Msgs(q), x.msg)
<1>2. /\ Len(new) = Len(q) + 1 /\ new[Len(q) + 1] = x
      /\ \A k \in 1..Len(q) : new[k] = q[k]
  BY Appended
<1>3. /\ s \in Seq(Nat) /\ Len(s) = Len(q) + 1
      /\ \A k \in 1..(Len(q) + 1) : s[k] = new[k].msg
  BY <1>1, <1>2, MsgsTypes
<1>4. /\ u \in Seq(Nat) /\ Len(u) = Len(q) + 1 /\ u[Len(q) + 1] = x.msg
      /\ \A k \in 1..Len(q) : u[k] = q[k].msg
  BY <1>1, MsgsTypes, Appended
<1>5. ASSUME NEW k \in 1..(Len(q) + 1) PROVE s[k] = u[k]
  <2>1. CASE k = Len(q) + 1
    BY <1>2, <1>3, <1>4, <2>1
  <2>2. CASE k \in 1..Len(q)
    BY <1>2, <1>3, <1>4, <2>2
  <2>3. k = Len(q) + 1 \/ k \in 1..Len(q)
    BY <1>1
  <2>4. QED
    BY <2>1, <2>2, <2>3
<1> HIDE DEF new, s, u
<1>6. s = u
  BY <1>3, <1>4, <1>5, SeqEqual
<1>7. QED
  BY <1>6 DEF s, u, new

LEMMA ConcatAppend ==
    ASSUME NEW s \in Seq(Nat), NEW u \in Seq(Nat), NEW x \in Nat
    PROVE  s \o Append(u, x) = Append(s \o u, x)
<1> DEFINE a == s \o Append(u, x)
           b == Append(s \o u, x)
<1>1. Len(s) \in Nat /\ Len(u) \in Nat
  BY LenProperties
<1>2. /\ Append(u, x) \in Seq(Nat) /\ Len(Append(u, x)) = Len(u) + 1
      /\ \A i \in 1..Len(u) : Append(u, x)[i] = u[i]
      /\ Append(u, x)[Len(u) + 1] = x
  BY Appended
<1>3. /\ s \o u \in Seq(Nat) /\ Len(s \o u) = Len(s) + Len(u)
      /\ \A i \in 1..(Len(s) + Len(u)) :
            (s \o u)[i] = IF i <= Len(s) THEN s[i] ELSE u[i - Len(s)]
  BY ConcatProperties
<1>4. /\ a \in Seq(Nat) /\ Len(a) = Len(s) + (Len(u) + 1)
      /\ \A i \in 1..(Len(s) + (Len(u) + 1)) :
            a[i] = IF i <= Len(s) THEN s[i] ELSE Append(u, x)[i - Len(s)]
  <2> DEFINE w == Append(u, x)
  <2>1. w \in Seq(Nat) /\ Len(w) = Len(u) + 1
    BY <1>2
  <2> HIDE DEF w
  <2>2. /\ s \o w \in Seq(Nat) /\ Len(s \o w) = Len(s) + Len(w)
        /\ \A i \in 1..(Len(s) + Len(w)) :
              (s \o w)[i] = IF i <= Len(s) THEN s[i] ELSE w[i - Len(s)]
    BY <2>1, ConcatProperties
  <2>3. QED
    BY <2>1, <2>2 DEF w
<1>5. /\ b \in Seq(Nat) /\ Len(b) = Len(s) + Len(u) + 1
      /\ \A i \in 1..(Len(s) + Len(u)) : b[i] = (s \o u)[i]
      /\ b[Len(s) + Len(u) + 1] = x
  BY <1>3, Appended
<1> HIDE DEF a, b
<1>6. Len(a) = Len(b)
  BY <1>1, <1>4, <1>5
<1>7. ASSUME NEW i \in 1..Len(a) PROVE a[i] = b[i]
  <2>1. i \in 1..(Len(s) + (Len(u) + 1)) /\ i \in Int
    BY <1>4
  <2>2. CASE i <= Len(s)
    <3>1. i \in 1..(Len(s) + Len(u))
      BY <1>1, <2>1, <2>2
    <3>2. b[i] = s[i]
      BY <1>3, <1>5, <2>2, <3>1
    <3>3. a[i] = s[i]
      BY <1>4, <2>1, <2>2
    <3>4. QED
      BY <3>2, <3>3
  <2>3. CASE i > Len(s) /\ i <= Len(s) + Len(u)
    <3>1. i - Len(s) \in 1..Len(u)
      BY <1>1, <2>1, <2>3
    <3>2. a[i] = u[i - Len(s)]
      BY <1>1, <1>2, <1>4, <2>1, <2>3, <3>1
    <3>3. b[i] = u[i - Len(s)]
      BY <1>1, <1>3, <1>5, <2>1, <2>3
    <3>4. QED
      BY <3>2, <3>3
  <2>4. CASE i = Len(s) + Len(u) + 1
    <3>1. i - Len(s) = Len(u) + 1 /\ ~(i <= Len(s))
      BY <1>1, <2>4
    <3>2. a[i] = x
      BY <1>2, <1>4, <2>1, <3>1
    <3>3. QED
      BY <1>5, <2>4, <3>2
  <2>5. QED
    BY <1>1, <2>1, <2>2, <2>3, <2>4
<1>8. a = b
  BY <1>4, <1>5, <1>6, <1>7, SeqEqual
<1>9. QED
  BY <1>8 DEF a, b

\* A call takes the whole queue.
LEMMA DrainKeeps ==
    ASSUME TypeOK, QueueInv, NEW f \in Flows, Drain(f),
           UNCHANGED <<opened, registered, put>>
    PROVE  QueueInv'
<1>1. handed \in [Flows -> Seq(Nat)] /\ queue \in [Flows -> Seq(Nat)] /\ registered \subseteq opened
      /\ opened \subseteq Flows
  BY DEF TypeOK
<1>2. /\ handed' = [handed EXCEPT ![f] = handed[f] \o queue[f]]
      /\ queue' = [queue EXCEPT ![f] = <<>>]
  BY DEF Drain
<1>3. handed[f] \o queue[f] \in Seq(Nat)
  BY <1>1, ConcatProperties
<1>4. \A g \in registered : handed'[g] \o queue'[g] = handed[g] \o queue[g]
  <2>1. SUFFICES ASSUME NEW g \in registered
                 PROVE  handed'[g] \o queue'[g] = handed[g] \o queue[g]
    OBVIOUS
  <2>2. CASE g = f
    <3>1. handed'[f] = handed[f] \o queue[f] /\ queue'[f] = <<>>
      BY <1>1, <1>2
    <3>2. QED
      BY <1>3, <2>2, <3>1, ConcatEmptySeq
  <2>3. CASE g # f
    <3>1. handed'[g] = handed[g] /\ queue'[g] = queue[g]
      BY <1>1, <1>2, <2>3
    <3>2. QED
      BY <3>1
  <2>4. QED
    BY <2>2, <2>3
<1>5. \A g \in Flows \ registered : queue'[g] = <<>>
  BY <1>1, <1>2 DEF QueueInv
<1>6. ASSUME NEW g \in Flows \ opened PROVE handed'[g] = <<>>
  <2>1. handed[g] = <<>> /\ queue[g] = <<>>
    BY <1>1 DEF QueueInv
  <2>2. handed[g] \o queue[g] = <<>>
    BY <2>1, EmptySeq, ConcatEmptySeq
  <2>3. QED
    BY <1>1, <1>2, <2>1, <2>2
<1>7. QED
  BY <1>4, <1>5, <1>6 DEF QueueInv

LEMMA PutKeeps ==
    ASSUME TypeOK, QueueInv, NEW f \in Flows, NEW i \in Nat, Put(f, i),
           UNCHANGED <<opened, registered, handed>>
    PROVE  QueueInv'
<1>1. /\ handed \in [Flows -> Seq(Nat)] /\ queue \in [Flows -> Seq(Nat)]
      /\ put \in [Flows -> Seq(Timed)]
      /\ registered \subseteq opened /\ opened \subseteq Flows /\ now \in Nat
  BY DEF TypeOK
<1>2. CASE f \in registered
  <2> DEFINE x == [msg |-> i, at |-> now]
  <2>1. x \in Timed /\ x.msg = i
    BY <1>1 DEF Timed
  <2>2. /\ queue' = [queue EXCEPT ![f] = Append(queue[f], i)]
        /\ put' = [put EXCEPT ![f] = Append(put[f], x)]
    BY <1>2 DEF Put
  <2> HIDE DEF x
  <2>3. handed[f] \o Append(queue[f], i) = Append(handed[f] \o queue[f], i)
    BY <1>1, ConcatAppend
  <2>4. handed[f] \o Append(queue[f], i) = Msgs(Append(put[f], x))
    <3>1. Msgs(Append(put[f], x)) = Append(Msgs(put[f]), i)
      BY <1>1, <2>1, MsgsAppend
    <3>2. handed[f] \o queue[f] = Msgs(put[f])
      BY <1>2 DEF QueueInv
    <3>3. QED
      BY <2>3, <3>1, <3>2
  <2>5. \A g \in registered : handed[g] \o queue'[g] = Msgs(put'[g])
    <3>1. SUFFICES ASSUME NEW g \in registered
                   PROVE  handed[g] \o queue'[g] = Msgs(put'[g])
      OBVIOUS
    <3>2. CASE g = f
      <4>1. queue'[f] = Append(queue[f], i) /\ put'[f] = Append(put[f], x)
        BY <1>1, <2>2
      <4>2. QED
        BY <2>4, <3>2, <4>1
    <3>3. CASE g # f
      <4>1. queue'[g] = queue[g] /\ put'[g] = put[g]
        BY <1>1, <2>2, <3>3
      <4>2. QED
        BY <4>1 DEF QueueInv
    <3>4. QED
      BY <3>2, <3>3
  <2>6. \A g \in Flows \ registered : queue'[g] = queue[g] /\ put'[g] = put[g]
    BY <1>1, <1>2, <2>2
  <2>7. QED
    BY <1>1, <2>5, <2>6 DEF QueueInv
<1>3. CASE f \notin registered
  BY <1>3 DEF Put, QueueInv
<1>4. QED
  BY <1>2, <1>3

\* The steps that leave the queues and their histories alone.
StoreSame == UNCHANGED <<opened, registered, queue, put, handed>>

LEMMA StoreKept ==
    ASSUME \/ FetchNew \/ FetchRedelivered \/ ConsumerQuits \/ CheckDebounce \/ Finish
           \/ \E c \in Callers : AwaitPark(c) \/ AwaitTimeout(c)
           \/ \E m \in Command : Send(m)
           \/ Tick
           \/ UNCHANGED vars
    PROVE  StoreSame
BY DEF FetchNew, FetchRedelivered, ConsumerQuits, CheckDebounce, Finish, AwaitPark,
       AwaitTimeout, Send, Tick, vars, storeVars, historyVars, StoreSame

LEMMA QueueIsKept == TypeOK /\ QueueInv /\ [Next]_vars => QueueInv'
<1> SUFFICES ASSUME TypeOK, QueueInv, [Next]_vars PROVE QueueInv'
  OBVIOUS
<1>1. /\ opened \subseteq Flows /\ registered \subseteq opened
      /\ queue \in [Flows -> Seq(Nat)]
  BY DEF TypeOK
<1>2. ASSUME NEW f \in Flows, Register(f) PROVE QueueInv'
  <2>1. /\ f \notin opened /\ opened' = opened \cup {f}
        /\ registered' = registered \cup {f}
        /\ UNCHANGED <<queue, put, handed>>
    BY <1>2 DEF Register, historyVars
  <2>2. handed[f] \o queue[f] = Msgs(put[f])
    <3>1. handed[f] = <<>> /\ put[f] = <<>> /\ queue[f] = <<>>
      BY <1>1, <2>1 DEF QueueInv
    <3>2. QED
      BY <3>1, MsgsEmpty, EmptySeq, ConcatEmptySeq
  <2>3. QED
    BY <2>1, <2>2 DEF QueueInv
<1>3. ASSUME NEW f \in Flows, Remove(f) PROVE QueueInv'
  <2>1. /\ registered' = registered \ {f} /\ queue' = [queue EXCEPT ![f] = <<>>]
        /\ UNCHANGED <<opened, put, handed>>
    BY <1>3 DEF Remove, historyVars
  <2>2. \A g \in Flows : g # f => queue'[g] = queue[g]
    BY <1>1, <2>1
  <2>3. queue'[f] = <<>>
    BY <1>1, <2>1
  <2>4. QED
    BY <1>1, <2>1, <2>2, <2>3 DEF QueueInv
<1>4. ASSUME NEW c \in Callers,
             AwaitWake(c) \/ \E f \in opened : Check(c, f) \/ AwaitDrain(c, f)
      PROVE  QueueInv'
  <2>1. on[c] \in Flows
    BY DEF TypeOK
  <2>2. PICK f \in Flows : Drain(f)
    BY <1>1, <1>4, <2>1 DEF AwaitWake, Check, AwaitDrain
  <2>3. UNCHANGED <<opened, registered, put>>
    BY <1>4 DEF AwaitWake, Check, AwaitDrain
  <2>4. QED
    BY <2>2, <2>3, DrainKeeps
<1>5. CASE AppendItem
  <2>1. job[1] \in Nat /\ stream[job[1]].flow \in Flows
    BY <1>5, Groups, InHand DEF AppendItem
  <2>2. Put(stream[job[1]].flow, job[1]) /\ UNCHANGED <<opened, registered, handed>>
    BY <1>5 DEF AppendItem
  <2>3. QED
    BY <2>1, <2>2, PutKeeps
<1>6. CASE Restart
  <2>1. /\ registered' = {} /\ queue' = Empty /\ put' = Empty /\ handed' = Empty
    BY <1>6 DEF Restart
  <2>2. QED
    BY <2>1 DEF QueueInv, Empty
<1>7. ASSUME StoreSame PROVE QueueInv'
  BY <1>7 DEF StoreSame, QueueInv
<1>8. QED
  BY <1>2, <1>3, <1>4, <1>5, <1>6, <1>7, StoreKept DEF Next, Consumer, Calls

LEMMA InitQueue == Init => QueueInv
BY DEF Init, QueueInv, Empty

\* What is put into a queue goes to one call, in order, or is still there,
\* for any calls that overlap in any way.
THEOREM OneCallEach == Spec => []EachToOneCall
<1>1. QueueInv => EachToOneCall
  BY DEF QueueInv, EachToOneCall, Msgs
<1>2. QED
  BY <1>1, InitTypes, InitQueue, TypesAreKept, QueueIsKept, PTL DEF Spec

(***************************************************************************)
(* Stops are shown first and only repeats are dropped.  Both hold because, *)
(* between two restarts, messages and items are only added, and a flow     *)
(* that has been opened never gets a queue again.                          *)
(***************************************************************************)

StreamInv ==
    /\ \A i \in 1..Len(stream) : stream[i].flow \in opened
    /\ stopped \subseteq opened
    /\ \A f \in Flows : \A k \in DOMAIN put[f] : put[f][k].msg \in 1..Len(stream)

Grows ==
    /\ \A i \in 1..Len(stream) : i \in 1..Len(stream') /\ stream'[i] = stream[i]
    /\ \A f \in Flows : \A k \in DOMAIN put[f] :
          k \in DOMAIN put'[f] /\ put'[f][k] = put[f][k]
    /\ opened \subseteq opened'
    /\ registered' \subseteq registered \cup (Flows \ opened)
    /\ now <= now'

\* What Put does to the items of the flows.
LEMMA PutGrows ==
    ASSUME TypeOK, NEW f \in Flows, NEW i \in Nat, Put(f, i)
    PROVE  /\ \A g \in Flows : \A k \in DOMAIN put[g] :
                 k \in DOMAIN put'[g] /\ put'[g][k] = put[g][k]
           /\ \A g \in Flows : \A k \in DOMAIN put'[g] :
                 k \in DOMAIN put[g] \/ put'[g][k].msg = i
           /\ f \in registered =>
                 \E k \in DOMAIN put'[f] : put'[f][k] = [msg |-> i, at |-> now]
<1>1. put \in [Flows -> Seq(Timed)] /\ now \in Nat
  BY DEF TypeOK
<1>2. CASE f \in registered
  <2> DEFINE x == [msg |-> i, at |-> now]
             q == put[f]
  <2>1. x \in Timed /\ x.msg = i /\ q \in Seq(Timed)
    BY <1>1 DEF Timed
  <2>2. put' = [put EXCEPT ![f] = Append(q, x)]
    BY <1>2 DEF Put
  <2>3. put'[f] = Append(q, x) /\ \A g \in Flows : g # f => put'[g] = put[g]
    BY <1>1, <2>2
  <2> HIDE DEF x
  <2>4. /\ Append(q, x) \in Seq(Timed) /\ Len(Append(q, x)) = Len(q) + 1
        /\ \A k \in 1..Len(q) : Append(q, x)[k] = q[k]
        /\ Append(q, x)[Len(q) + 1] = x
    BY <2>1, Appended
  <2>5. DOMAIN q = 1..Len(q) /\ DOMAIN Append(q, x) = 1..(Len(q) + 1) /\ Len(q) \in Nat
    BY <2>1, <2>4, LenProperties
  <2>6. \A k \in DOMAIN q : k \in DOMAIN Append(q, x) /\ Append(q, x)[k] = q[k]
    BY <2>4, <2>5
  <2>7. \A k \in DOMAIN Append(q, x) : k \in DOMAIN q \/ Append(q, x)[k] = x
    BY <2>4, <2>5
  <2>8. \E k \in DOMAIN Append(q, x) : Append(q, x)[k] = x
    BY <2>4, <2>5
  <2>9. QED
    BY <2>1, <2>3, <2>6, <2>7, <2>8 DEF x
<1>3. CASE f \notin registered
  BY <1>3 DEF Put
<1>4. QED
  BY <1>2, <1>3

\* What the consumer has in hand is handled by the consumer only.
Elsewhere ==
    /\ UNCHANGED <<pc, job, debounce, judged, stopped>>
    /\ put' = put

LEMMA SendGrows ==
    ASSUME TypeOK, NEW m \in Command, Send(m)
    PROVE  Grows /\ Elsewhere
           /\ \A i \in 1..Len(stream') : i \in 1..Len(stream) \/ stream'[i] = m
<1>1. stream \in Seq(Command) /\ stream' = Append(stream, m) /\ now \in Nat
  BY DEF Send, TypeOK
<1>2. Len(stream) \in Nat
  BY <1>1, LenProperties
<1>3. /\ Len(stream') = Len(stream) + 1 /\ stream'[Len(stream) + 1] = m
      /\ \A i \in 1..Len(stream) : stream'[i] = stream[i]
  BY <1>1, Appended
<1>4. UNCHANGED <<opened, now, registered, put>> /\ Elsewhere
  BY DEF Send, consumerVars, storeVars, historyVars, Elsewhere
<1>5. \A i \in 1..Len(stream) : i \in 1..Len(stream')
  BY <1>2, <1>3
<1>6. \A i \in 1..Len(stream') : i \in 1..Len(stream) \/ stream'[i] = m
  BY <1>2, <1>3
<1>7. now <= now'
  BY <1>1, <1>4
<1>8. QED
  BY <1>3, <1>4, <1>5, <1>6, <1>7 DEF Grows

LEMMA CallsElsewhere ==
    ASSUME TypeOK,
           \/ \E c \in Callers : Calls(c)
           \/ \E f \in Flows : Register(f) \/ Remove(f)
           \/ Tick
           \/ UNCHANGED vars
    PROVE  Grows /\ Elsewhere /\ stream' = stream
<1>1. UNCHANGED <<stream, put>> /\ Elsewhere
  BY DEF Calls, Check, AwaitDrain, AwaitPark, AwaitWake, AwaitTimeout, Register, Remove,
         Tick, vars, consumerVars, storeVars, historyVars, Elsewhere
<1>2. opened \subseteq opened'
  BY DEF Calls, Check, AwaitDrain, AwaitPark, AwaitWake, AwaitTimeout, Register, Remove,
         Tick, vars
<1>3. registered' \subseteq registered \cup (Flows \ opened)
  BY DEF Calls, Check, AwaitDrain, AwaitPark, AwaitWake, AwaitTimeout, Register, Remove,
         Tick, vars, storeVars
<1>4. now' = now \/ now' = now + 1
  BY DEF Calls, Check, AwaitDrain, AwaitPark, AwaitWake, AwaitTimeout, Register, Remove,
         Tick, vars
<1>5. now <= now'
  BY <1>4 DEF TypeOK
<1>6. QED
  BY <1>1, <1>2, <1>3, <1>5 DEF Grows

LEMMA ConsumerGrows ==
    ASSUME TypeOK, Consumer \/ ConsumerQuits
    PROVE  Grows /\ UNCHANGED <<now, stream, opened, registered>>
<1>1. UNCHANGED <<now, stream, opened, registered>>
  BY DEF Consumer, ConsumerQuits, FetchNew, FetchRedelivered, CheckDebounce, AppendItem,
         Finish, storeVars
<1>2. \A f \in Flows : \A k \in DOMAIN put[f] : k \in DOMAIN put'[f] /\ put'[f][k] = put[f][k]
  <2>1. CASE AppendItem
    <3>1. job[1] \in Nat /\ stream[job[1]].flow \in Flows
      BY <2>1, Groups, InHand DEF AppendItem
    <3>2. QED
      BY <2>1, <3>1, PutGrows DEF AppendItem
  <2>2. CASE ~AppendItem
    <3>1. put' = put
      BY <2>2 DEF Consumer, ConsumerQuits, FetchNew, FetchRedelivered, CheckDebounce,
                  Finish, historyVars
    <3>2. QED
      BY <3>1
  <2>3. QED
    BY <2>1, <2>2
<1>3. now <= now'
  BY <1>1 DEF TypeOK
<1>4. QED
  BY <1>1, <1>2, <1>3 DEF Grows

LEMMA StreamIsKept == TypeOK /\ StreamInv /\ [Next]_vars => StreamInv'
<1> SUFFICES ASSUME TypeOK, StreamInv, [Next]_vars PROVE StreamInv'
  OBVIOUS
<1>1. ASSUME NEW m \in Command, Send(m) PROVE StreamInv'
  <2>1. Grows /\ Elsewhere /\ opened' = opened /\ m.flow \in opened
        /\ \A i \in 1..Len(stream') : i \in 1..Len(stream) \/ stream'[i] = m
    BY <1>1, SendGrows DEF Send
  <2>2. \A i \in 1..Len(stream') : stream'[i].flow \in opened
    BY <2>1 DEF StreamInv, Grows
  <2>3. \A f \in Flows : \A k \in DOMAIN put[f] : put[f][k].msg \in 1..Len(stream')
    BY <2>1 DEF StreamInv, Grows
  <2>4. QED
    BY <2>1, <2>2, <2>3 DEF StreamInv, Elsewhere
<1>2. ASSUME Grows, Elsewhere, stream' = stream PROVE StreamInv'
  BY <1>2 DEF Grows, Elsewhere, StreamInv
<1>3. CASE Consumer \/ ConsumerQuits
  <2>1. UNCHANGED <<stream, opened>>
    BY <1>3, ConsumerGrows
  <2>2. stopped' \subseteq opened
    <3>1. CASE Finish
      <4>1. stream[job[1]].flow \in opened
        BY <3>1, Groups, InHand DEF Finish, StreamInv
      <4>2. QED
        BY <3>1, <4>1 DEF Finish, Fail, StreamInv
    <3>2. CASE ~Finish
      <4>1. stopped' = stopped
        BY <1>3, <3>2 DEF Consumer, ConsumerQuits, FetchNew, FetchRedelivered,
                          CheckDebounce, LetBy, AppendItem
      <4>2. QED
        BY <4>1 DEF StreamInv
    <3>3. QED
      BY <3>1, <3>2
  <2>3. \A f \in Flows : \A k \in DOMAIN put'[f] : put'[f][k].msg \in 1..Len(stream)
    <3>1. CASE AppendItem
      <4>1. /\ job[1] \in Nat /\ job[1] \in 1..Len(stream)
            /\ stream[job[1]].flow \in Flows
        BY <3>1, Groups, InHand DEF AppendItem
      <4>2. /\ \A g \in Flows : \A k \in DOMAIN put[g] : put'[g][k] = put[g][k]
            /\ \A g \in Flows : \A k \in DOMAIN put'[g] :
                  k \in DOMAIN put[g] \/ put'[g][k].msg = job[1]
        BY <3>1, <4>1, PutGrows DEF AppendItem
      <4>3. QED
        BY <4>1, <4>2 DEF StreamInv
    <3>2. CASE ~AppendItem
      <4>1. put' = put
        BY <1>3, <3>2 DEF Consumer, ConsumerQuits, FetchNew, FetchRedelivered,
                          CheckDebounce, Finish, historyVars
      <4>2. QED
        BY <4>1 DEF StreamInv
    <3>3. QED
      BY <3>1, <3>2
  <2>4. QED
    BY <2>1, <2>2, <2>3 DEF StreamInv
<1>4. CASE Restart
  <2>1. put' = Empty /\ UNCHANGED <<opened, stopped>>
    BY <1>4 DEF Restart
  <2>2. \A f \in Flows : put'[f] = <<>>
    BY <2>1 DEF Empty
  <2>3. \A i \in 1..Len(stream') : stream'[i].flow \in opened
    <3>1. stream' = stream \/ stream' = <<>>
      BY <1>4 DEF Restart, LoseStream, KeepPosition, LosePosition
    <3>2. CASE stream' = <<>>
      BY <3>2
    <3>3. QED
      BY <3>1, <3>2 DEF StreamInv
  <2>4. QED
    BY <2>1, <2>2, <2>3 DEF StreamInv
<1>5. QED
  BY <1>1, <1>2, <1>3, <1>4, CallsElsewhere DEF Next

(***************************************************************************)
(* A stop between its two halves is in the queue of its flow.              *)
(***************************************************************************)

Halfway ==
    pc = "finish" /\ stream[job[1]].flow \in registered =>
        \E k \in DOMAIN put[stream[job[1]].flow] : put[stream[job[1]].flow][k].msg = job[1]

StopInv == Halfway /\ StopIsShownFirst

\* What was shown stays shown.
LEMMA ShownStays ==
    ASSUME TypeOK, StreamInv, StopIsShownFirst, Grows
    PROVE  \A f \in stopped \cap registered' :
               \E k \in DOMAIN put'[f] : stream'[put'[f][k].msg].action = "stop"
<1>1. SUFFICES ASSUME NEW f \in stopped \cap registered'
               PROVE  \E k \in DOMAIN put'[f] : stream'[put'[f][k].msg].action = "stop"
  OBVIOUS
<1>2. f \in Flows /\ f \in registered
  BY DEF Grows, StreamInv, TypeOK
<1>3. PICK k \in DOMAIN put[f] : stream[put[f][k].msg].action = "stop"
  BY <1>2 DEF StopIsShownFirst
<1>4. put[f][k].msg \in 1..Len(stream)
  BY <1>2 DEF StreamInv
<1>5. k \in DOMAIN put'[f] /\ put'[f][k] = put[f][k]
  BY <1>2 DEF Grows
<1>6. stream'[put[f][k].msg] = stream[put[f][k].msg]
  BY <1>4 DEF Grows
<1>7. QED
  BY <1>3, <1>5, <1>6

LEMMA HalfwayStays ==
    ASSUME TypeOK, StreamInv, Halfway, Grows, pc' = "finish" => pc = "finish" /\ job' = job
    PROVE  Halfway'
<1> SUFFICES ASSUME pc' = "finish", stream'[job'[1]].flow \in registered'
             PROVE  \E k \in DOMAIN put'[stream'[job'[1]].flow] :
                        put'[stream'[job'[1]].flow][k].msg = job'[1]
  BY DEF Halfway
<1> DEFINE f == stream[job[1]].flow
<1>1. pc = "finish" /\ job' = job
  OBVIOUS
<1>2. job[1] \in 1..Len(stream) /\ f \in Flows
  BY <1>1, Groups, InHand
<1>3. stream'[job'[1]] = stream[job[1]]
  BY <1>1, <1>2 DEF Grows
<1>4. f \in registered
  BY <1>2, <1>3 DEF Grows, StreamInv
<1>5. PICK k \in DOMAIN put[f] : put[f][k].msg = job[1]
  BY <1>1, <1>4 DEF Halfway
<1>6. k \in DOMAIN put'[f] /\ put'[f][k] = put[f][k]
  BY <1>2, <1>5 DEF Grows
<1>7. QED
  BY <1>1, <1>3, <1>5, <1>6

LEMMA StopIsKept == TypeOK /\ StreamInv /\ StopInv /\ [Next]_vars => StopInv'
<1> SUFFICES ASSUME TypeOK, StreamInv, StopInv, [Next]_vars PROVE StopInv'
  OBVIOUS
<1>1. ASSUME Grows, Elsewhere PROVE StopInv'
  <2>1. Halfway'
    BY <1>1, HalfwayStays DEF Elsewhere, StopInv
  <2>2. StopIsShownFirst'
    BY <1>1, ShownStays DEF Elsewhere, StopIsShownFirst, StopInv
  <2>3. QED
    BY <2>1, <2>2 DEF StopInv
<1>2. CASE FetchNew \/ FetchRedelivered \/ ConsumerQuits \/ CheckDebounce
  <2>1. Grows
    BY <1>2, ConsumerGrows DEF Consumer
  <2>2. pc' # "finish" /\ stopped' = stopped
    BY <1>2 DEF FetchNew, FetchRedelivered, ConsumerQuits, CheckDebounce, Ack, LetBy
  <2>3. StopIsShownFirst'
    BY <2>1, <2>2, ShownStays DEF StopIsShownFirst, StopInv
  <2>4. QED
    BY <2>2, <2>3 DEF StopInv, Halfway
<1>3. CASE AppendItem
  <2> DEFINE f == stream[job[1]].flow
  <2>1. Grows /\ stopped' = stopped /\ UNCHANGED <<stream, job, registered, now>>
    BY <1>3, ConsumerGrows DEF Consumer, AppendItem
  <2>2. job[1] \in Nat /\ f \in Flows
    BY <1>3, Groups, InHand DEF AppendItem
  <2>3. f \in registered =>
            \E k \in DOMAIN put'[f] : put'[f][k] = [msg |-> job[1], at |-> now]
    BY <1>3, <2>2, PutGrows DEF AppendItem
  <2>4. Halfway'
    BY <2>1, <2>3 DEF Halfway
  <2>5. StopIsShownFirst'
    BY <2>1, ShownStays DEF StopIsShownFirst, StopInv
  <2>6. QED
    BY <2>4, <2>5 DEF StopInv
<1>4. CASE Finish
  <2> DEFINE f == stream[job[1]].flow
  <2>1. Grows /\ UNCHANGED <<stream, registered, put>> /\ pc = "finish" /\ pc' = "next"
    BY <1>4, ConsumerGrows DEF Consumer, Finish, Ack, historyVars
  <2>2. stopped' \subseteq stopped \cup {f} /\ (f \in stopped' => f \in stopped \/ stream[job[1]].action = "stop")
    BY <1>4 DEF Finish, Fail
  <2>3. StopIsShownFirst'
    <3>1. \A g \in stopped \cap registered' :
              \E k \in DOMAIN put'[g] : stream'[put'[g][k].msg].action = "stop"
      BY <2>1, ShownStays DEF StopInv
    <3>2. f \in registered /\ stream[job[1]].action = "stop" =>
              \E k \in DOMAIN put[f] : stream[put[f][k].msg].action = "stop"
      BY <2>1 DEF StopInv, Halfway
    <3>3. QED
      BY <2>1, <2>2, <3>1, <3>2 DEF StopIsShownFirst
  <2>4. QED
    BY <2>1, <2>3 DEF StopInv, Halfway
<1>5. CASE Restart
  BY <1>5 DEF Restart, StopInv, Halfway, StopIsShownFirst
<1>6. QED
  BY <1>1, <1>2, <1>3, <1>4, <1>5, SendGrows, CallsElsewhere DEF Next, Consumer

LEMMA InitStop == Init => StreamInv /\ StopInv
BY DEF Init, StreamInv, StopInv, Halfway, StopIsShownFirst, Empty

\* A flow is not failed for a stop that no call of the agent could find.
THEOREM ShownBeforeFailed == Spec => []StopIsShownFirst
<1>1. StopInv => StopIsShownFirst
  BY DEF StopInv
<1>2. QED
  BY <1>1, InitTypes, InitStop, TypesAreKept, StreamIsKept, StopIsKept, PTL DEF Spec

(***************************************************************************)
(* What the debounce map remembers is in the queue, or about to be.        *)
(***************************************************************************)

Covered(d) ==
    /\ d.at <= now /\ d.flow \in opened
    /\ \/ d.flow \notin registered
       \/ /\ pc = "append"
          /\ stream[job[1]].flow = d.flow /\ stream[job[1]].action = d.action
       \/ \E k \in DOMAIN put[d.flow] :
             /\ stream[put[d.flow][k].msg].action = d.action
             /\ d.at <= put[d.flow][k].at /\ put[d.flow][k].at <= now

Explained(j) ==
    \/ stream[j.msg].flow \notin registered
    \/ pc = "append" /\ job[1] = j.msg
    \/ \E k \in DOMAIN put[stream[j.msg].flow] :
          LET p == put[stream[j.msg].flow][k] IN
          /\ stream[p.msg].action = stream[j.msg].action
          /\ p.msg = j.msg \/ (p.at <= j.at /\ j.at < p.at + Window)

DropInv ==
    /\ \A d \in debounce : Covered(d)
    /\ \A j \in judged : j.msg \in 1..Len(stream) /\ Explained(j)

\* The times in the queues and the map are numbers.
LEMMA Times ==
    ASSUME TypeOK
    PROVE  /\ now \in Nat
           /\ \A d \in debounce : d.at \in Nat /\ d.flow \in Flows /\ d.action \in Actions
           /\ \A f \in Flows : \A k \in DOMAIN put[f] : put[f][k].at \in Nat
<1>1. ASSUME NEW f \in Flows, NEW k \in DOMAIN put[f] PROVE put[f][k].at \in Nat
  <2>1. put[f] \in Seq(Timed)
    BY DEF TypeOK
  <2>2. put[f][k] \in Timed
    BY <2>1, LenProperties, ElementOfSeq
  <2>3. QED
    BY <2>2 DEF Timed
<1>2. QED
  BY <1>1 DEF TypeOK, Stamp

LEMMA CoveredStays ==
    ASSUME TypeOK, TypeOK', StreamInv, Grows,
           pc = "append" => pc' = "append" /\ job' = job,
           NEW d \in debounce, Covered(d)
    PROVE  Covered(d)'
<1>1. d.at <= now' /\ d.flow \in opened' /\ d.flow \in Flows
  <2>1. now \in Nat /\ now' \in Nat /\ d.at \in Nat /\ d.flow \in Flows
    BY Times DEF TypeOK
  <2>2. d.at <= now /\ now <= now' /\ d.flow \in opened'
    BY DEF Covered, Grows
  <2>3. QED
    BY <2>1, <2>2
<1>2. CASE d.flow \notin registered
  <2>1. d.flow \notin registered'
    BY <1>2 DEF Grows, Covered
  <2>2. QED
    BY <1>1, <2>1 DEF Covered
<1>3. CASE /\ pc = "append"
           /\ stream[job[1]].flow = d.flow /\ stream[job[1]].action = d.action
  <2>1. job[1] \in 1..Len(stream)
    BY <1>3, Groups, InHand
  <2>2. stream'[job'[1]] = stream[job[1]] /\ pc' = "append"
    BY <1>3, <2>1 DEF Grows
  <2>3. QED
    BY <1>1, <1>3, <2>2 DEF Covered
<1>4. CASE \E k \in DOMAIN put[d.flow] :
               /\ stream[put[d.flow][k].msg].action = d.action
               /\ d.at <= put[d.flow][k].at /\ put[d.flow][k].at <= now
  <2>1. PICK k \in DOMAIN put[d.flow] :
            /\ stream[put[d.flow][k].msg].action = d.action
            /\ d.at <= put[d.flow][k].at /\ put[d.flow][k].at <= now
    BY <1>4
  <2>2. k \in DOMAIN put'[d.flow] /\ put'[d.flow][k] = put[d.flow][k]
    BY <1>1, <2>1 DEF Grows
  <2>3. put[d.flow][k].msg \in 1..Len(stream)
    BY <1>1, <2>1 DEF StreamInv
  <2>4. stream'[put[d.flow][k].msg] = stream[put[d.flow][k].msg]
    BY <2>3 DEF Grows
  <2>5. put[d.flow][k].at <= now'
    <3>1. now \in Nat /\ now' \in Nat /\ put[d.flow][k].at \in Nat /\ now <= now'
      BY <1>1, <2>1, Times DEF Grows, TypeOK
    <3>2. QED
      BY <2>1, <3>1
  <2>6. /\ stream'[put'[d.flow][k].msg].action = d.action
        /\ d.at <= put'[d.flow][k].at /\ put'[d.flow][k].at <= now'
    BY <2>1, <2>2, <2>4, <2>5
  <2>7. QED
    BY <1>1, <2>2, <2>6 DEF Covered
<1>5. QED
  BY <1>2, <1>3, <1>4 DEF Covered

LEMMA ExplainedStays ==
    ASSUME TypeOK, StreamInv, Grows,
           NEW j \in judged, j.msg \in 1..Len(stream), Explained(j),
           pc = "append" /\ job[1] = j.msg => pc' = "append" /\ job' = job
    PROVE  j.msg \in 1..Len(stream') /\ Explained(j)'
<1> DEFINE f == stream[j.msg].flow
<1>1. j.msg \in 1..Len(stream') /\ stream'[j.msg] = stream[j.msg]
  BY DEF Grows
<1>2. f \in opened /\ f \in Flows
  BY DEF StreamInv, TypeOK
<1>3. CASE f \notin registered
  <2>1. stream'[j.msg].flow \notin registered'
    BY <1>1, <1>2, <1>3 DEF Grows
  <2>2. QED
    BY <1>1, <2>1 DEF Explained
<1>4. CASE pc = "append" /\ job[1] = j.msg
  BY <1>1, <1>4 DEF Explained
<1>5. CASE \E k \in DOMAIN put[f] :
               LET p == put[f][k] IN
               /\ stream[p.msg].action = stream[j.msg].action
               /\ p.msg = j.msg \/ (p.at <= j.at /\ j.at < p.at + Window)
  <2>1. PICK k \in DOMAIN put[f] :
            /\ stream[put[f][k].msg].action = stream[j.msg].action
            /\ \/ put[f][k].msg = j.msg
               \/ put[f][k].at <= j.at /\ j.at < put[f][k].at + Window
    BY <1>5
  <2>2. k \in DOMAIN put'[f] /\ put'[f][k] = put[f][k]
    BY <1>2, <2>1 DEF Grows
  <2>3. put[f][k].msg \in 1..Len(stream)
    BY <1>2, <2>1 DEF StreamInv
  <2>4. stream'[put[f][k].msg] = stream[put[f][k].msg]
    BY <2>3 DEF Grows
  <2>5. /\ stream'[put'[f][k].msg].action = stream'[j.msg].action
        /\ \/ put'[f][k].msg = j.msg
           \/ put'[f][k].at <= j.at /\ j.at < put'[f][k].at + Window
    BY <1>1, <2>1, <2>2, <2>4
  <2>6. stream'[j.msg].flow = f
    BY <1>1
  <2> HIDE DEF f
  <2>7. QED
    BY <1>1, <2>2, <2>5, <2>6 DEF Explained
<1>6. QED
  BY <1>3, <1>4, <1>5 DEF Explained

\* The check: what is dropped repeats what the map remembers.
LEMMA CheckKeepsDrop ==
    ASSUME TypeOK, TypeOK', StreamInv, DropInv, CheckDebounce
    PROVE  DropInv'
<1> DEFINE m == stream[job[1]]
<1> PICK j : j = [msg |-> job[1], at |-> now]
  OBVIOUS
<1>1. Grows /\ UNCHANGED <<now, stream, opened, registered, put>> /\ pc = "check"
  BY ConsumerGrows DEF Consumer, CheckDebounce
<1>2. job[1] \in 1..Len(stream) /\ m.flow \in opened /\ m.flow \in Flows /\ now \in Nat
  BY <1>1, Groups, InHand, Times DEF StreamInv
<1>3. judged' \subseteq judged \cup {j} /\ (m.flow \notin registered => judged' = judged)
  BY DEF CheckDebounce
<1>4. \A i \in judged : i.msg \in 1..Len(stream') /\ Explained(i)'
  BY <1>1, ExplainedStays DEF DropInv
<1>5. \A d \in debounce : Covered(d)'
  BY <1>1, CoveredStays DEF DropInv
<1>6. j.msg \in 1..Len(stream') /\ j.msg = job[1] /\ j.at = now
  BY <1>1, <1>2
<1>7. CASE Repeat(m) /\ Ack /\ UNCHANGED <<debounce, stopped>>
  <2>1. ASSUME m.flow \in registered PROVE Explained(j)'
    <3>1. PICK d \in debounce :
              d.flow = m.flow /\ d.action = m.action /\ now - d.at < Window
      BY <1>7 DEF Repeat
    <3>2. PICK k \in DOMAIN put[m.flow] :
              /\ stream[put[m.flow][k].msg].action = m.action
              /\ d.at <= put[m.flow][k].at /\ put[m.flow][k].at <= now
      BY <1>1, <2>1, <3>1 DEF DropInv, Covered
    <3>3. now < put[m.flow][k].at + Window
      <4>1. d.at \in Nat /\ put[m.flow][k].at \in Nat
        BY <1>2, Times
      <4>2. QED
        BY <1>2, <3>1, <3>2, <4>1, Constants
    <3>4. /\ stream'[j.msg].flow = m.flow /\ stream'[j.msg].action = m.action
          /\ k \in DOMAIN put'[m.flow]
          /\ stream'[put'[m.flow][k].msg].action = m.action
          /\ put'[m.flow][k].at <= j.at /\ j.at < put'[m.flow][k].at + Window
      BY <1>1, <1>6, <3>2, <3>3
    <3> HIDE DEF m
    <3>5. QED
      BY <3>4 DEF Explained
  <2>2. \A i \in judged' : i.msg \in 1..Len(stream') /\ Explained(i)'
    BY <1>3, <1>4, <1>6, <2>1
  <2>3. \A d \in debounce' : Covered(d)'
    BY <1>5, <1>7
  <2>4. QED
    BY <2>2, <2>3 DEF DropInv
<1>8. CASE LetBy(m)
  <2>1. pc' = "append" /\ job' = job
    BY <1>8 DEF LetBy
  <2>2. Explained(j)'
    BY <1>6, <2>1 DEF Explained
  <2>3. \A i \in judged' : i.msg \in 1..Len(stream') /\ Explained(i)'
    BY <1>3, <1>4, <1>6, <2>2
  <2>4. \A d \in debounce' : d \in debounce \/ d = [flow |-> m.flow, action |-> m.action, at |-> now]
    BY <1>8 DEF LetBy, Remember
  <2>5. ASSUME NEW d, d = [flow |-> m.flow, action |-> m.action, at |-> now]
        PROVE  Covered(d)'
    <3>1. d.flow = m.flow /\ d.action = m.action /\ d.at = now /\ now <= now
      BY <1>2, <2>5
    <3>2. /\ d.at <= now' /\ d.flow \in opened'
          /\ stream'[job'[1]].flow = d.flow /\ stream'[job'[1]].action = d.action
      BY <1>1, <1>2, <2>1, <3>1
    <3>3. QED
      BY <2>1, <3>2 DEF Covered
  <2>6. QED
    BY <1>5, <2>3, <2>4, <2>5 DEF DropInv
<1>9. QED
  BY <1>7, <1>8 DEF CheckDebounce

\* The queue gets what the map already has.
LEMMA AppendKeepsDrop ==
    ASSUME TypeOK, TypeOK', StreamInv, DropInv, AppendItem
    PROVE  DropInv'
<1> DEFINE f == stream[job[1]].flow
           x == [msg |-> job[1], at |-> now]
<1>1. Grows /\ UNCHANGED <<now, stream, opened, registered, job, debounce, judged>>
  BY ConsumerGrows DEF Consumer, AppendItem
<1>2. job[1] \in 1..Len(stream) /\ job[1] \in Nat /\ f \in Flows /\ now \in Nat
  BY Groups, InHand, Times DEF AppendItem
<1>3. f \in registered => \E k \in DOMAIN put'[f] : put'[f][k] = x
  BY <1>2, PutGrows DEF AppendItem
<1>4. x.msg = job[1] /\ x.at = now
  OBVIOUS
<1> HIDE DEF x
<1>5. ASSUME NEW d \in debounce PROVE Covered(d)'
  <2>1. d.at <= now /\ d.flow \in opened /\ Covered(d) /\ d.at \in Nat /\ d.flow \in Flows
    BY Times DEF DropInv, Covered
  <2>2. CASE stream[job[1]].flow = d.flow /\ stream[job[1]].action = d.action /\ f \in registered
    <3>1. PICK k \in DOMAIN put'[f] : put'[f][k] = x
      BY <1>3, <2>2
    <3>2. /\ d.flow = f
          /\ stream'[put'[f][k].msg].action = d.action
          /\ d.at <= put'[f][k].at /\ put'[f][k].at <= now'
      BY <1>1, <1>2, <1>4, <2>1, <2>2, <3>1
    <3>3. d.at <= now' /\ d.flow \in opened'
      BY <1>1, <2>1
    <3> HIDE DEF f
    <3>4. QED
      BY <3>1, <3>2, <3>3 DEF Covered
  <2>3. CASE d.flow \notin registered
    BY <1>1, <2>1, <2>3 DEF Covered
  <2>4. CASE \E k \in DOMAIN put[d.flow] :
               /\ stream[put[d.flow][k].msg].action = d.action
               /\ d.at <= put[d.flow][k].at /\ put[d.flow][k].at <= now
    <3>1. PICK k \in DOMAIN put[d.flow] :
               /\ stream[put[d.flow][k].msg].action = d.action
               /\ d.at <= put[d.flow][k].at /\ put[d.flow][k].at <= now
      BY <2>4
    <3>2. k \in DOMAIN put'[d.flow] /\ put'[d.flow][k] = put[d.flow][k]
      BY <1>1, <2>1, <3>1 DEF Grows
    <3>3. QED
      BY <1>1, <2>1, <3>1, <3>2 DEF Covered
  <2>5. QED
    BY <2>1, <2>2, <2>3, <2>4 DEF Covered
<1>6. ASSUME NEW j \in judged PROVE j.msg \in 1..Len(stream') /\ Explained(j)'
  <2>1. j.msg \in 1..Len(stream) /\ Explained(j)
    BY DEF DropInv
  <2>2. CASE job[1] = j.msg
    <3>1. stream'[j.msg].flow = f
      BY <1>1, <2>2
    <3>2. CASE f \notin registered
      BY <1>1, <2>1, <3>1, <3>2 DEF Explained
    <3>3. CASE f \in registered
      <4>1. PICK k \in DOMAIN put'[f] : put'[f][k] = x
        BY <1>3, <3>3
      <4>2. put'[f][k].msg = j.msg /\ stream'[put'[f][k].msg].action = stream'[j.msg].action
        BY <1>4, <2>2, <4>1
      <4> HIDE DEF f
      <4>3. QED
        BY <1>1, <2>1, <3>1, <4>1, <4>2 DEF Explained
    <3>4. QED
      BY <3>2, <3>3
  <2>3. CASE job[1] # j.msg
    BY <1>1, <2>1, <2>3, ExplainedStays
  <2>4. QED
    BY <2>2, <2>3
<1>7. QED
  BY <1>1, <1>5, <1>6 DEF DropInv

LEMMA DropIsKept ==
    TypeOK /\ StreamInv /\ DropInv /\ [Next]_vars /\ TypeOK' => DropInv'
<1> SUFFICES ASSUME TypeOK, TypeOK', StreamInv, DropInv, [Next]_vars PROVE DropInv'
  OBVIOUS
<1>1. ASSUME Grows, pc = "append" => pc' = "append" /\ job' = job,
             UNCHANGED <<debounce, judged>>
      PROVE  DropInv'
  BY <1>1, CoveredStays, ExplainedStays DEF DropInv
<1>2. ASSUME Grows, Elsewhere PROVE DropInv'
  BY <1>1, <1>2 DEF Elsewhere
<1>3. CASE FetchNew \/ FetchRedelivered \/ ConsumerQuits \/ Finish
  <2>1. Grows
    BY <1>3, ConsumerGrows DEF Consumer
  <2>2. pc # "append" /\ UNCHANGED <<debounce, judged>>
    BY <1>3 DEF FetchNew, FetchRedelivered, ConsumerQuits, Finish, historyVars
  <2>3. QED
    BY <1>1, <2>1, <2>2
<1>4. CASE Restart
  BY <1>4 DEF Restart, DropInv
<1>5. QED
  BY <1>2, <1>3, <1>4, SendGrows, CallsElsewhere, CheckKeepsDrop, AppendKeepsDrop
     DEF Next, Consumer

LEMMA InitDrop == Init => DropInv
BY DEF Init, DropInv

\* An interjection to a flow with a queue is dropped only when the same action
\* was put into that queue less than a window before.
THEOREM RepeatsOnly == Spec => []DroppedOnlyRepeats
<1>1. DropInv => DroppedOnlyRepeats
  BY DEF DropInv, Explained, DroppedOnlyRepeats
<1>2. QED
  BY <1>1, InitTypes, InitStop, InitDrop, TypesAreKept, StreamIsKept, DropIsKept,
     PTL DEF Spec

(***************************************************************************)
(* The queues are mailboxes: every step is one of the mailboxes' steps, or *)
(* none.                                                                   *)
(***************************************************************************)

\* What is put into a mailbox is one of the items it may get.
Bounded == Len(stream) <= MaxSends

LEMMA InitBounded == Init => Bounded
BY InterjectionAssumption DEF Init, Bounded

LEMMA BoundedIsKept == TypeOK /\ Bounded /\ [Next]_vars => Bounded'
<1> SUFFICES ASSUME TypeOK, Bounded, [Next]_vars PROVE Bounded'
  OBVIOUS
<1>1. ASSUME NEW m \in Command, Send(m) PROVE Bounded'
  <2>1. stream \in Seq(Command) /\ stream' = Append(stream, m) /\ Len(stream) < MaxSends
    BY <1>1 DEF Send, TypeOK
  <2>2. Len(stream') = Len(stream) + 1 /\ Len(stream) \in Nat /\ MaxSends \in Nat
    BY <2>1, Appended, LenProperties, InterjectionAssumption
  <2>3. QED
    BY <2>1, <2>2 DEF Bounded
<1>2. CASE stream' = stream
  BY <1>2 DEF Bounded
<1>3. CASE Restart
  <2>1. stream' = stream \/ (stream' = <<>> /\ Len(stream') = 0)
    BY <1>3 DEF Restart, LoseStream, KeepPosition, LosePosition
  <2>2. QED
    BY <1>2, <2>1, InterjectionAssumption DEF Bounded
<1>4. QED
  BY <1>1, <1>2, <1>3, CallsElsewhere, ConsumerGrows DEF Next

LEMMA RegisterIsOpen ==
    ASSUME NEW f \in Flows, Register(f) PROVE Box!Next
<1>1. Box!Open(f)
  BY DEF Register, historyVars, Box!Open
<1>2. QED
  BY <1>1 DEF Box!Next

LEMMA RemoveIsClose ==
    ASSUME NEW f \in Flows, Remove(f) PROVE Box!Next
<1>1. Box!Close(f)
  BY DEF Remove, historyVars, Box!Close
<1>2. QED
  BY <1>1 DEF Box!Next

LEMMA DrainIsTakeAll ==
    ASSUME NEW f \in Flows, Drain(f), UNCHANGED <<registered, opened>> PROVE Box!Next
<1>1. Box!TakeAll(f)
  BY DEF Drain, Box!TakeAll
<1>2. QED
  BY <1>1 DEF Box!Next

LEMMA AppendIsPut ==
    ASSUME TypeOK, Bounded, AppendItem
    PROVE  Box!Next \/ UNCHANGED Box!vars
<1> DEFINE f == stream[job[1]].flow
<1>1. job[1] \in 1..Len(stream) /\ f \in Flows
  BY Groups, InHand DEF AppendItem
<1>2. job[1] \in 1..MaxSends
  <2>1. Len(stream) \in Nat /\ MaxSends \in Nat
    BY InterjectionAssumption DEF TypeOK
  <2>2. QED
    BY <1>1, <2>1 DEF Bounded
<1>3. Put(f, job[1]) /\ UNCHANGED <<registered, opened, handed>>
  BY DEF AppendItem
<1> HIDE DEF f
<1>4. CASE f \in registered
  <2>1. Box!Put(f, job[1])
    BY <1>3, <1>4 DEF Put, Box!Put
  <2>2. QED
    BY <1>1, <1>2, <2>1 DEF Box!Next
<1>5. CASE f \notin registered
  BY <1>3, <1>5 DEF Put, Box!vars
<1>6. QED
  BY <1>4, <1>5

LEMMA RestartIsLose == Restart => Box!Next
<1>1. Restart => Box!Lose
  BY DEF Restart, Empty, Box!Lose, Box!Bare
<1>2. QED
  BY <1>1 DEF Box!Next

LEMMA StepsAreBoxSteps == TypeOK /\ Bounded /\ [Next]_vars => [Box!Next]_(Box!vars)
<1> SUFFICES ASSUME TypeOK, Bounded, [Next]_vars PROVE Box!Next \/ UNCHANGED Box!vars
  OBVIOUS
<1>1. ASSUME NEW c \in Callers, Calls(c) PROVE Box!Next \/ UNCHANGED Box!vars
  <2>1. opened \subseteq Flows /\ on[c] \in Flows
    BY DEF TypeOK
  <2>2. CASE AwaitPark(c) \/ AwaitTimeout(c)
    BY <2>2, StoreKept DEF StoreSame, Box!vars
  <2>3. CASE AwaitWake(c)
    BY <2>1, <2>3, DrainIsTakeAll DEF AwaitWake
  <2>4. ASSUME NEW f \in opened, Check(c, f) \/ AwaitDrain(c, f) PROVE Box!Next
    BY <2>1, <2>4, DrainIsTakeAll DEF Check, AwaitDrain
  <2>5. QED
    BY <1>1, <2>2, <2>3, <2>4 DEF Calls
<1>2. ASSUME StoreSame PROVE UNCHANGED Box!vars
  BY <1>2 DEF StoreSame, Box!vars
<1>3. QED
  BY <1>1, <1>2, StoreKept, RegisterIsOpen, RemoveIsClose, AppendIsPut, RestartIsLose
     DEF Next, Consumer

\* The daemon's queues, its consumer and the overlapping calls keep what the
\* mailbox promises: it is there once, and all that is in it goes, in order, to
\* the call that looks first.
THEOREM MailboxesKept == Spec => KeepsMailboxes
<1>1. Init => Box!Init
  BY DEF Init, Empty, Box!Init, Box!Bare
<1>2. QED
  BY <1>1, InitTypes, TypesAreKept, InitBounded, BoundedIsKept, StepsAreBoxSteps, PTL
     DEF Spec, KeepsMailboxes, Box!Spec

(***************************************************************************)
(* None is lost unheard.  For the induction: the deliveries an unheard     *)
(* interjection has used up are no more than the restarts, since only a    *)
(* restart ends a delivery before the interjection is heard.               *)
(***************************************************************************)

Spent ==
    /\ \A u \in unacked : u[1] \in heard \/ u[2] <= restarts
    /\ pc = "check" => job[1] \in heard \/ job[2] <= restarts + 1

HeardFirst ==
    /\ pc \in {"append", "finish"} => job[1] \in heard
    /\ pc \in {"next", "done"} => job = NoJob

LossInv == Spent /\ HeardFirst /\ NoneIsLost

Undelivered(i) ==
    \/ i \in heard \/ i > cursor
    \/ pc = "check" /\ job[1] = i
    \/ \E u \in unacked : u[1] = i

LEMMA LossNumbers ==
    ASSUME TypeOK
    PROVE  /\ restarts \in Nat /\ MaxDeliver \in Nat /\ cursor \in Nat
           /\ Len(stream) \in Nat /\ DOMAIN stream = 1..Len(stream)
           /\ \A u \in unacked : u[2] \in Nat
BY InterjectionAssumption, LenProperties DEF TypeOK

\* The steps that deliver, hear and acknowledge nothing.
LEMMA LossElsewhere ==
    ASSUME TypeOK, LossInv,
           UNCHANGED <<stream, cursor, unacked, job, pc, heard, restarts>>
    PROVE  LossInv'
BY DEF LossInv, Spent, HeardFirst, NoneIsLost

LEMMA SendLoses ==
    ASSUME TypeOK, LossInv, NEW m \in Command, Send(m)
    PROVE  LossInv'
<1>1. UNCHANGED <<cursor, unacked, job, pc, heard, restarts>>
  BY DEF Send, consumerVars, historyVars
<1>2. stream \in Seq(Command) /\ stream' = Append(stream, m)
  BY DEF Send, TypeOK
<1>3. /\ stream' \in Seq(Command) /\ Len(stream') = Len(stream) + 1
      /\ DOMAIN stream' = 1..Len(stream')
  BY <1>2, Appended, LenProperties
<1>4. \A i \in DOMAIN stream' : i \in DOMAIN stream \/ i > cursor
  <2>1. cursor \in 0..Len(stream)
    BY DEF TypeOK
  <2>2. QED
    BY <1>3, <2>1, LossNumbers
<1>5. NoneIsLost'
  BY <1>1, <1>4 DEF LossInv, NoneIsLost
<1>6. QED
  BY <1>1, <1>5 DEF LossInv, Spent, HeardFirst

LEMMA FetchLoses ==
    ASSUME TypeOK, LossInv, FetchNew \/ FetchRedelivered
    PROVE  LossInv'
<1>1. UNCHANGED <<stream, heard, restarts>> /\ pc' = "check" /\ pc = "next"
  BY DEF FetchNew, FetchRedelivered, historyVars
<1>2. CASE FetchNew
  <2>1. cursor' = cursor + 1 /\ job' = <<cursor + 1, 1>> /\ unacked' = unacked
    BY <1>2 DEF FetchNew
  <2>2. job'[1] = cursor + 1 /\ job'[2] = 1 /\ 1 <= restarts + 1
    BY <2>1, LossNumbers
  <2>3. Spent'
    BY <1>1, <2>1, <2>2 DEF LossInv, Spent
  <2>4. NoneIsLost'
    <3>1. \A i \in DOMAIN stream : i > cursor => i > cursor + 1 \/ i = cursor + 1
      BY LossNumbers
    <3>2. QED
      BY <1>1, <2>1, <2>2, <3>1 DEF LossInv, NoneIsLost
  <2>5. QED
    BY <1>1, <2>3, <2>4 DEF LossInv, HeardFirst
<1>3. CASE FetchRedelivered
  <2>1. PICK u \in unacked : unacked' = unacked \ {u} /\ job' = <<u[1], u[2] + 1>>
    BY <1>3 DEF FetchRedelivered
  <2>2. job'[1] = u[1] /\ job'[2] = u[2] + 1 /\ cursor' = cursor
    BY <1>3, <2>1 DEF FetchRedelivered
  <2>3. Spent'
    <3>1. u[1] \in heard \/ u[2] + 1 <= restarts + 1
      BY LossNumbers DEF LossInv, Spent
    <3>2. QED
      BY <1>1, <2>1, <2>2, <3>1 DEF LossInv, Spent
  <2>4. NoneIsLost'
    BY <1>1, <2>1, <2>2 DEF LossInv, NoneIsLost
  <2>5. QED
    BY <1>1, <2>3, <2>4 DEF LossInv, HeardFirst
<1>4. QED
  BY <1>2, <1>3

\* An acknowledgement is lost when the interjection has been heard.
LEMMA HeardLoses ==
    ASSUME TypeOK, LossInv, CheckDebounce \/ AppendItem \/ Finish
    PROVE  LossInv'
<1>1. /\ UNCHANGED <<stream, cursor, restarts>> /\ job[1] \in heard' /\ heard \subseteq heard'
      /\ pc' # "check" /\ pc' # "done"
  BY DEF CheckDebounce, AppendItem, Finish, LetBy, Ack, historyVars, LossInv, HeardFirst
<1>2. unacked \subseteq unacked' /\ unacked' \subseteq unacked \cup {job}
  BY DEF CheckDebounce, AppendItem, Finish, LetBy, Ack, Requeue
<1>3. \/ pc' = "next" /\ job' = NoJob
      \/ pc' \in {"append", "finish"} /\ job' = job
  BY DEF CheckDebounce, AppendItem, Finish, LetBy, Ack
<1>4. Spent'
  BY <1>1, <1>2 DEF LossInv, Spent
<1>5. HeardFirst'
  BY <1>1, <1>3 DEF HeardFirst
<1>6. NoneIsLost'
  <2>1. pc = "check" => job[1] \in heard'
    BY <1>1
  <2>2. QED
    BY <1>1, <1>2, <2>1 DEF LossInv, NoneIsLost
<1>7. QED
  BY <1>4, <1>5, <1>6 DEF LossInv

\* A restart ends a delivery, and is counted.
LEMMA RestartLoses ==
    ASSUME TypeOK, LossInv, Restart
    PROVE  LossInv'
<1>1. restarts' = restarts + 1 /\ job' = NoJob /\ pc' = "next"
  BY DEF Restart
<1>2. HeardFirst'
  BY <1>1 DEF HeardFirst
<1>3. CASE LoseStream
  <2>1. stream' = <<>> /\ unacked' = {}
    BY <1>3 DEF LoseStream
  <2>2. DOMAIN stream' = {}
    BY <2>1
  <2>3. QED
    BY <1>1, <1>2, <2>1, <2>2 DEF LossInv, Spent, NoneIsLost
<1>4. CASE LosePosition
  <2>1. UNCHANGED <<stream, heard>> /\ cursor' = 0 /\ unacked' = {}
    BY <1>4 DEF LosePosition
  <2>2. \A i \in DOMAIN stream : i > 0
    BY LossNumbers
  <2>3. QED
    BY <1>1, <1>2, <2>1, <2>2 DEF LossInv, Spent, NoneIsLost
<1>5. CASE KeepPosition
  <2>1. /\ UNCHANGED <<stream, cursor, heard>>
        /\ unacked' = IF job = NoJob THEN unacked ELSE Requeue(job)
    BY <1>5 DEF KeepPosition
  <2>2. unacked \subseteq unacked' /\ unacked' \subseteq unacked \cup {job}
    BY <2>1 DEF Requeue
  <2>3. job \in unacked' => job[1] \in heard \/ job[2] <= restarts + 1
    <3>1. CASE job = NoJob
      <4>1. unacked' = unacked /\ job[1] = 0
        BY <2>1, <3>1 DEF NoJob
      <4>2. \A u \in unacked : u[1] # 0
        BY LossNumbers DEF TypeOK
      <4>3. QED
        BY <4>1, <4>2
    <3>2. CASE job # NoJob
      BY <3>2 DEF LossInv, Spent, HeardFirst, TypeOK
    <3>3. QED
      BY <3>1, <3>2
  <2>4. Spent'
    <3>1. \A u \in unacked : u[2] <= restarts => u[2] <= restarts + 1
      BY LossNumbers
    <3>2. \A u \in unacked' : u[1] \in heard \/ u[2] <= restarts + 1
      BY <2>2, <2>3, <3>1 DEF LossInv, Spent
    <3>3. QED
      BY <1>1, <2>1, <3>2 DEF Spent
  <2>5. NoneIsLost'
    <3>1. SUFFICES ASSUME restarts + 1 < MaxDeliver, NEW i \in DOMAIN stream
                   PROVE  i \in heard \/ i > cursor \/ \E u \in unacked' : u[1] = i
      BY <1>1, <2>1 DEF NoneIsLost
    <3>2. Undelivered(i)
      BY <3>1, LossNumbers DEF LossInv, NoneIsLost, Undelivered
    <3>3. CASE pc = "check" /\ job[1] = i /\ i \notin heard
      <4>1. job # NoJob /\ job[2] <= restarts + 1 /\ job[2] \in Nat
        BY <3>3, Groups, InHand DEF LossInv, Spent, TypeOK
      <4>2. job[2] < MaxDeliver
        BY <3>1, <4>1, LossNumbers
      <4>3. job \in unacked'
        BY <2>1, <4>1, <4>2 DEF Requeue
      <4>4. QED
        BY <3>3, <4>3
    <3>4. QED
      BY <2>2, <3>2, <3>3 DEF Undelivered
  <2>6. QED
    BY <1>2, <2>4, <2>5 DEF LossInv
<1>6. QED
  BY <1>3, <1>4, <1>5 DEF Restart

LEMMA LossIsKept == TypeOK /\ LossInv /\ [Next]_vars => LossInv'
<1> SUFFICES ASSUME TypeOK, LossInv, [Next]_vars PROVE LossInv'
  OBVIOUS
<1>1. ASSUME \/ \E c \in Callers : Calls(c)
             \/ \E f \in Flows : Register(f) \/ Remove(f)
             \/ Tick \/ UNCHANGED vars
      PROVE  LossInv'
  <2>1. UNCHANGED <<stream, cursor, unacked, job, pc, heard, restarts>>
    BY <1>1 DEF Calls, Check, AwaitDrain, AwaitPark, AwaitWake, AwaitTimeout, Register,
                Remove, Tick, vars, consumerVars, historyVars
  <2>2. QED
    BY <2>1, LossElsewhere
<1>2. CASE ConsumerQuits
  BY <1>2 DEF ConsumerQuits, historyVars, LossInv, Spent, HeardFirst, NoneIsLost
<1>3. QED
  BY <1>1, <1>2, SendLoses, FetchLoses, HeardLoses, RestartLoses DEF Next, Consumer

LEMMA InitLoss == Init => LossInv
<1>1. Init => DOMAIN stream = {}
  BY DEF Init
<1>2. QED
  BY <1>1 DEF Init, LossInv, Spent, HeardFirst, NoneIsLost

\* An interjection the consumer has not looked at comes to it yet, whatever
\* acknowledgements are lost, until restarts have used up its deliveries.
THEOREM NoInterjectionIsLost == Spec => []NoneIsLost
<1>1. LossInv => NoneIsLost
  BY DEF LossInv
<1>2. QED
  BY <1>1, InitTypes, InitLoss, TypesAreKept, LossIsKept, PTL DEF Spec
=============================================================================
