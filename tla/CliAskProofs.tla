---------------------------- MODULE CliAskProofs ----------------------------
(***************************************************************************)
(* Proofs about CliAsk, for any number of commands, flows, picks, messages *)
(* and faults.                                                             *)
(*                                                                         *)
(* The invariant IInv has, beside the types, a part for each question:     *)
(*   FlowInv    what each command has said of its flow so far              *)
(*   KnownInv   messages are in flows that are known                       *)
(*   TimeInv    where the messages of a flow are, against the consumers    *)
(*              and the timeout of its command                             *)
(*   StreamInv  while the stream is not lost, requests come before their   *)
(*              responses, and what was heard first is what is there first *)
(*   LedgerInv  what the consumer has passed and the ask tool has told is  *)
(*              in the ledger; one failed statement is of one path only    *)
(*   StoryInv   what the ledger shows is the first response, unless a      *)
(*              command took a later one                                   *)
(***************************************************************************)
EXTENDS CliAsk, SequenceTheorems, TLAPS

Statuses == {"active", "completed", "failed"}

\* The type invariant in three parts.
CmdTypes ==
    /\ kind \in Kinds
    /\ flowOf \in [Notifications -> Flows]
    /\ step \in [Notifications -> Steps]
    /\ outcome \in [Notifications -> Outcomes]
    /\ start \in [Notifications -> Nat]
    /\ patience \subseteq Notifications
    /\ due \in [Notifications -> Nat]
    /\ cut \subseteq Notifications

MessageTypes ==
    /\ heard \in [Notifications -> Response \cup Refusal \cup {None}]
    /\ interjects \in [Notifications -> Seq(Interjections)]
    /\ events \in [Notifications -> Seq(Statuses)]
    /\ log \in Seq(Message)

ConsumerTypes ==
    /\ LedgerTypeOK
    /\ consumer \in {"running", "quit"}
    /\ pos \in 0..Len(log)
    /\ unacked \subseteq 1..pos
    /\ interjected \in [Notifications -> Nat]
    /\ sent \in Nat /\ errors \in Nat /\ lostAcks \in Nat
    /\ faults \in Nat /\ restarts \in Nat

LEMMA Groups == TypeOK <=> CmdTypes /\ MessageTypes /\ ConsumerTypes
BY DEF TypeOK, CmdTypes, MessageTypes, ConsumerTypes, Statuses

LEMMA GroupsNext == TypeOK' <=> CmdTypes' /\ MessageTypes' /\ ConsumerTypes'
BY DEF TypeOK, CmdTypes, MessageTypes, ConsumerTypes, Statuses

\* A kind for each command.
LEMMA KindsOf ==
    ASSUME TypeOK, NEW n \in Notifications PROVE kind[n] \in AllKinds
BY CliAssumption DEF TypeOK

(***************************************************************************)
(* What the steps touch.                                                   *)
(***************************************************************************)

\* A step of command n, of its user or of its connection.
Act(n) == Command(n) \/ Interrupt(n) \/ Kill(n) \/ Disconnect(n)

\* The rest of Next.
Users ==
    \/ \E f \in Flows, r \in Notifications, p \in Picks : Answer(f, r, p)
    \/ \E f \in Flows : Garble(f)
Interjects == \E n \in Notifications, i \in Interjections : Interject(n, i)

LEMMA Alternatives ==
    [Next]_vars <=>
        \/ \E n \in Notifications : Act(n)
        \/ Users \/ Interjects \/ Consumer \/ ConsumerQuits \/ Restart
        \/ UNCHANGED vars
BY DEF Next, Proceeds, Act, Users, Interjects

\* A command moves itself only; its outcome is final.
LEMMA ActSteps ==
    ASSUME TypeOK, NEW n \in Notifications, Act(n)
    PROVE  /\ \E s \in Steps : step' = [step EXCEPT ![n] = s]
           /\ \E o \in Outcomes : outcome' = [outcome EXCEPT ![n] = o]
           /\ step[n] = "done" => UNCHANGED <<step, outcome>>
<1> DEFINE Moves ==
           /\ \E s \in Steps : step' = [step EXCEPT ![n] = s]
           /\ \E o \in Outcomes : outcome' = [outcome EXCEPT ![n] = o]
<1>1. step = [step EXCEPT ![n] = step[n]] /\ outcome = [outcome EXCEPT ![n] = outcome[n]]
      /\ step[n] \in Steps /\ outcome[n] \in Outcomes
  BY DEF TypeOK
<1>2. ASSUME UNCHANGED <<step, outcome>> PROVE Moves
  BY <1>1, <1>2
<1>3. ASSUME NEW s \in Steps, To(n, s) PROVE Moves
  BY <1>1, <1>3 DEF To
<1>4. ASSUME NEW o \in Outcomes, End(n, o) PROVE Moves
  BY <1>4 DEF End, Steps
<1>5. Moves
  <2>1. \/ UNCHANGED <<step, outcome>>
        \/ \E s \in Steps : To(n, s)
        \/ \E o \in Outcomes : End(n, o)
    BY DEF Act, Command, Listen, Open, PublishRequest, ClosePost, Deliver,
       HandleResponse, GiveUp, HandleInterjection, Impatience, SafetyTimer,
       McpRequest, McpInsertRequest, McpListen, McpHandleResponse, McpTimeout,
       Interrupt, Kill, Disconnect, Steps, Outcomes
  <2>2. QED
    BY <2>1, <1>2, <1>3, <1>4
<1>6. ASSUME step[n] = "done" PROVE UNCHANGED <<step, outcome>>
  BY <1>6 DEF Act, Command, Listen, Open, PublishRequest, ClosePost, Deliver,
     HandleResponse, HandleInterjection, Impatience, SafetyTimer, Waits,
     McpRequest, McpInsertRequest, McpListen, McpHandleResponse, McpTimeout,
     Interrupt, Kill, Disconnect
<1>7. QED
  BY <1>5, <1>6

\* Its other variables.
LEMMA ActTimes ==
    ASSUME TypeOK, NEW n \in Notifications, Act(n)
    PROVE  /\ UNCHANGED <<kind, flowOf>>
           /\ start' = start \/ start' = [start EXCEPT ![n] = Len(log)]
           /\ due' = due \/ due' = [due EXCEPT ![n] = Len(log)]
           /\ patience' = patience \/ patience' = patience \ {n}
           /\ cut' = cut \/ cut' = cut \cup {n}
BY DEF Act, Command, Listen, Open, PublishRequest, ClosePost, Deliver,
   HandleResponse, HandleInterjection, Impatience, SafetyTimer, McpRequest,
   McpInsertRequest, McpListen, McpHandleResponse, McpTimeout, Interrupt, Kill,
   Disconnect, fixedVars

LEMMA ActEvents ==
    ASSUME TypeOK, NEW n \in Notifications, Act(n)
    PROVE  \/ events' = events
           \/ \E s \in Statuses : events' = [events EXCEPT ![n] = Append(events[n], s)]
BY DEF Act, Command, Listen, Open, PublishRequest, ClosePost, Deliver,
   HandleResponse, GiveUp, Announce, HandleInterjection, Impatience, SafetyTimer,
   McpRequest, McpInsertRequest, McpListen, McpHandleResponse, McpTimeout,
   Interrupt, Kill, Disconnect, Statuses

\* What a command puts into the stream: its request, or the error of a timer.
LEMMA ActLog ==
    ASSUME TypeOK, NEW n \in Notifications, Act(n)
    PROVE  \/ UNCHANGED log /\ (UNCHANGED heard \/ Deliver(n))
           \/ log' = Append(log, RequestOf(n)) /\ UNCHANGED heard
           \/ /\ log' = Append(log, [type |-> "error", flow |-> flowOf[n]])
              /\ Broadcast([type |-> "error", flow |-> flowOf[n]])
BY DEF Act, Command, Listen, Open, PublishRequest, ClosePost, Deliver,
   HandleResponse, HandleInterjection, Impatience, SafetyTimer, McpRequest,
   McpInsertRequest, McpListen, McpHandleResponse, McpTimeout, Interrupt, Kill,
   Disconnect

\* What it does to the consumer and the bounds.
LEMMA ActRest ==
    ASSUME TypeOK, NEW n \in Notifications, Act(n)
    PROVE  /\ UNCHANGED <<consumerVars, sent, interjected, lostAcks, restarts>>
           /\ faults' = faults \/ faults' = faults + 1
           /\ interjects' = interjects \/
                  (interjects[n] # <<>> /\ interjects' = [interjects EXCEPT ![n] = Tail(interjects[n])])
           /\ \/ UNCHANGED <<ledgerVars, errors>>
              \/ McpInsertRequest(n) \/ McpHandleResponse(n)
BY DEF Act, Command, Listen, Open, PublishRequest, ClosePost, Deliver,
   HandleResponse, GiveUp, Announce, HandleInterjection, Impatience, SafetyTimer,
   McpRequest, McpInsertRequest, McpListen, McpHandleResponse, McpTimeout,
   Interrupt, Kill, Disconnect, Reaches, Misses, Fault, NoFault, consumerVars,
   boundVars

(***************************************************************************)
(* Messages, and the statements of the ledger.                             *)
(***************************************************************************)

LEMMA Appended ==
    ASSUME NEW S, NEW q \in Seq(S), NEW x \in S
    PROVE  /\ Append(q, x) \in Seq(S)
           /\ Len(Append(q, x)) = Len(q) + 1 /\ Len(q) \in Nat
           /\ Append(q, x)[Len(q) + 1] = x
           /\ \A i \in 1..Len(q) : Append(q, x)[i] = q[i]
OBVIOUS

LEMMA Tails ==
    ASSUME NEW S, NEW q \in Seq(S), q # <<>>
    PROVE  Head(q) \in S /\ Tail(q) \in Seq(S)
OBVIOUS

\* The messages that are made.
LEMMA Made ==
    ASSUME NEW f \in Flows, NEW r \in Notifications
    PROVE  /\ RequestOf(r) \in Message /\ RequestOf(r).type = "request"
           /\ RequestOf(r).of = r
           /\ [type |-> "error", flow |-> f] \in Refusal
           /\ [type |-> "garbled", flow |-> f] \in Refusal
           /\ \A p \in Picks :
                 [type |-> "response", flow |-> f, of |-> r, pick |-> p] \in Response
BY DEF RequestOf, Message, Request, Response, Refusal

LEMMA Kinds3 ==
    ASSUME NEW m \in Message
    PROVE  /\ m \in Request \/ m \in Response \/ m \in Refusal
           /\ m \in Request <=> m.type = "request"
           /\ m \in Response <=> m.type = "response"
           /\ m \in Refusal <=> m.type \in {"error", "garbled"}
           /\ m \in Request => m.of \in Notifications /\ m = RequestOf(m.of)
           /\ m \in Response => m.of \in Notifications /\ m.pick \in Picks
           /\ m \in Response \cup Refusal => m.flow \in Flows /\ m # None
<1>1. CASE m \in Request
  BY <1>1 DEF Request, Response, Refusal, RequestOf
<1>2. CASE m \in Response
  BY <1>2, CliAssumption DEF Request, Response, Refusal
<1>3. CASE m \in Refusal
  BY <1>3, CliAssumption DEF Request, Response, Refusal
<1>4. QED
  BY <1>1, <1>2, <1>3 DEF Message

\* A statement, executed or not, does not take anything away.
Grows ==
    /\ requests \subseteq requests'
    /\ \A r \in Notifications : responses[r] # None => responses'[r] = responses[r]

LEMMA RequestStatement ==
    ASSUME TypeOK, NEW n \in Notifications, Statement(InsertRequest(n))
    PROVE  /\ LedgerTypeOK' /\ Grows /\ responses' = responses
           /\ requests' \subseteq requests \cup {n}
           /\ \/ errors' = errors /\ n \in requests'
              \/ errors' = errors + 1
BY DEF Grows, TypeOK, LedgerTypeOK, Statement, InsertRequest, StatementFails, ledgerVars

LEMMA ResponseStatement ==
    ASSUME TypeOK, NEW n \in Notifications, NEW v \in Answers, NEW checked \in BOOLEAN,
           Statement(InsertResponse(n, v, checked))
    PROVE  /\ LedgerTypeOK' /\ Grows /\ requests' = requests
           /\ \/ responses' = responses
              \/ responses[n] = None /\ responses' = [responses EXCEPT ![n] = v]
           /\ \/ errors' = errors + 1
              \/ errors' = errors /\ (n \in requests => responses'[n] # None)
BY LedgerAssumption
   DEF Grows, TypeOK, LedgerTypeOK, Statement, InsertResponse, StatementFails, ledgerVars

\* What the consumer stores of a message.
LEMMA StoreStatement ==
    ASSUME TypeOK, NEW m \in Message, Store(m)
    PROVE  /\ LedgerTypeOK' /\ Grows
           /\ errors' = errors \/ errors' = errors + 1
           /\ \/ responses' = responses
              \/ /\ m.type = "response" /\ responses[m.of] = None
                 /\ responses' = [responses EXCEPT ![m.of] = LabelOf[m.pick]]
           /\ requests' = requests \/
                  (m.type = "request" /\ requests' \subseteq requests \cup {m.of})
           /\ m.type = "request" /\ errors' = errors => m.of \in requests'
           /\ m.type = "response" /\ errors' = errors /\ m.of \in requests
                  => responses'[m.of] # None
<1>1. CASE m.type = "request"
  <2>1. m.of \in Notifications /\ Statement(InsertRequest(m.of))
    BY <1>1, Kinds3 DEF Store
  <2>2. /\ LedgerTypeOK' /\ Grows /\ responses' = responses
        /\ requests' \subseteq requests \cup {m.of}
        /\ (errors' = errors /\ m.of \in requests') \/ errors' = errors + 1
    BY <2>1, RequestStatement
  <2>3. errors' = errors + 1 => errors' # errors
    BY DEF TypeOK
  <2>4. QED
    BY <1>1, <2>2, <2>3
<1>2. CASE m.type = "response"
  <2>1. m.of \in Notifications /\ LabelOf[m.pick] \in Answers
    BY <1>2, Kinds3, CliAssumption
  <2>2. PICK checked \in BOOLEAN :
            Statement(InsertResponse(m.of, LabelOf[m.pick], checked))
    BY <1>2 DEF Store
  <2>3. /\ LedgerTypeOK' /\ Grows /\ requests' = requests
        /\ \/ responses' = responses
           \/ /\ responses[m.of] = None
              /\ responses' = [responses EXCEPT ![m.of] = LabelOf[m.pick]]
        /\ \/ errors' = errors + 1
           \/ errors' = errors /\ (m.of \in requests => responses'[m.of] # None)
    BY <2>1, <2>2, ResponseStatement
  <2>4. errors' = errors + 1 => errors' # errors
    BY DEF TypeOK
  <2>5. QED
    BY <1>2, <2>3, <2>4
<1>3. CASE m.type \in {"error", "garbled"}
  BY <1>3 DEF Store, Grows, TypeOK, LedgerTypeOK, ledgerVars
<1>4. QED
  BY <1>1, <1>2, <1>3, Kinds3

\* What an ask tool stores.
LEMMA ToolStatement ==
    ASSUME TypeOK, NEW n \in Notifications,
           McpInsertRequest(n) \/ McpHandleResponse(n)
    PROVE  /\ LedgerTypeOK' /\ Grows
           /\ errors' = errors \/ errors' = errors + 1
           /\ \/ responses' = responses
              \/ /\ heard[n] # None /\ heard[n].type = "response"
                 /\ responses[heard[n].of] = None
                 /\ responses' = [responses EXCEPT ![heard[n].of] = LabelOf[heard[n].pick]]
                 /\ step[n] = "waiting" /\ outcome' = [outcome EXCEPT ![n] = "answered"]
           /\ requests' = requests \/
                  (step[n] = "requested" /\ requests' \subseteq requests \cup {n})
<1>1. CASE McpInsertRequest(n)
  BY <1>1, RequestStatement DEF McpInsertRequest
<1>2. CASE McpHandleResponse(n)
  <2>1. heard[n] \in Message /\ step[n] = "waiting" /\ heard[n] # None
    BY <1>2 DEF McpHandleResponse, TypeOK, Message
  <2>2. CASE heard[n].type = "response"
    <3>1. heard[n].of \in Notifications /\ LabelOf[heard[n].pick] \in Answers
      BY <2>1, <2>2, Kinds3, CliAssumption
    <3>2. PICK checked \in BOOLEAN :
              Statement(InsertResponse(heard[n].of, LabelOf[heard[n].pick], checked))
      BY <1>2, <2>2 DEF McpHandleResponse
    <3>3. outcome' = [outcome EXCEPT ![n] = "answered"]
      BY <1>2, <2>2 DEF McpHandleResponse, End
    <3>4. QED
      BY <2>1, <2>2, <3>1, <3>2, <3>3, ResponseStatement
  <2>3. CASE heard[n].type # "response"
    BY <1>2, <2>3 DEF McpHandleResponse, Grows, TypeOK, LedgerTypeOK, ledgerVars
  <2>4. QED
    BY <2>2, <2>3
<1>3. QED
  BY <1>1, <1>2

(***************************************************************************)
(* The types.                                                              *)
(***************************************************************************)

\* Typed messages that are heard.
LEMMA Hears ==
    ASSUME TypeOK, NEW m \in Response \cup Refusal, Broadcast(m)
    PROVE  heard' \in [Notifications -> Response \cup Refusal \cup {None}]
BY DEF TypeOK, Broadcast

LEMMA DeliverHears ==
    ASSUME TypeOK, NEW n \in Notifications, Deliver(n)
    PROVE  heard' \in [Notifications -> Response \cup Refusal \cup {None}]
<1>1. PICK i \in Replies(flowOf[n]) : heard' = [heard EXCEPT ![n] = log[i]]
  BY DEF Deliver
<1>2. log[i] \in Message /\ log[i].type # "request"
  BY <1>1 DEF Replies, TypeOK
<1>3. log[i] \in Response \cup Refusal
  BY <1>2, Kinds3
<1>4. QED
  BY <1>1, <1>3 DEF TypeOK

LEMMA ActTypes ==
    ASSUME TypeOK, NEW n \in Notifications, Act(n)
    PROVE  TypeOK'
<1>1. /\ RequestOf(n) \in Message
      /\ [type |-> "error", flow |-> flowOf[n]] \in Refusal
  BY Made DEF TypeOK
<1>2. log' \in Seq(Message) /\ Len(log') \in {Len(log), Len(log) + 1}
  <2>1. log \in Seq(Message)
    BY DEF TypeOK
  <2>2. \E m \in Message : log' = log \/ log' = Append(log, m)
    BY <1>1, ActLog DEF Message
  <2>3. QED
    BY <2>1, <2>2, Appended
<1>3. CmdTypes'
  <2>1. /\ step' \in [Notifications -> Steps]
        /\ outcome' \in [Notifications -> Outcomes]
    BY ActSteps DEF TypeOK
  <2>2. /\ kind' \in Kinds /\ flowOf' \in [Notifications -> Flows]
        /\ start' \in [Notifications -> Nat] /\ due' \in [Notifications -> Nat]
        /\ patience' \subseteq Notifications /\ cut' \subseteq Notifications
    <3>1. Len(log) \in Nat
      BY DEF TypeOK
    <3>2. /\ UNCHANGED <<kind, flowOf>>
          /\ start' = start \/ start' = [start EXCEPT ![n] = Len(log)]
          /\ due' = due \/ due' = [due EXCEPT ![n] = Len(log)]
          /\ patience' = patience \/ patience' = patience \ {n}
          /\ cut' = cut \/ cut' = cut \cup {n}
      BY ActTimes
    <3>3. QED
      BY <3>1, <3>2, Groups DEF CmdTypes
  <2>3. QED
    BY <2>1, <2>2 DEF CmdTypes
<1>4. MessageTypes'
  <2>1. events' \in [Notifications -> Seq(Statuses)]
    <3>1. \A s \in Statuses : Append(events[n], s) \in Seq(Statuses)
      BY Groups, Appended DEF MessageTypes
    <3>2. QED
      BY <3>1, ActEvents, Groups DEF MessageTypes
  <2>2. interjects' \in [Notifications -> Seq(Interjections)]
    <3>1. interjects[n] # <<>> => Tail(interjects[n]) \in Seq(Interjections)
      BY Tails, Groups DEF MessageTypes
    <3>2. QED
      BY <3>1, ActRest, Groups DEF MessageTypes
  <2>3. heard' \in [Notifications -> Response \cup Refusal \cup {None}]
    BY <1>1, ActLog, Hears, DeliverHears DEF TypeOK
  <2>4. QED
    BY <1>2, <2>1, <2>2, <2>3 DEF MessageTypes
<1>5. ConsumerTypes'
  <2>1. LedgerTypeOK' /\ errors' \in Nat
    <3>1. CASE UNCHANGED <<ledgerVars, errors>>
      BY <3>1 DEF TypeOK, LedgerTypeOK, ledgerVars
    <3>2. CASE McpInsertRequest(n) \/ McpHandleResponse(n)
      <4>1. LedgerTypeOK' /\ (errors' = errors \/ errors' = errors + 1)
        BY <3>2, ToolStatement
      <4>2. QED
        BY <4>1, Groups DEF ConsumerTypes
    <3>3. QED
      BY <3>1, <3>2, ActRest
  <2>2. UNCHANGED <<consumer, pos, unacked>>
    BY ActRest DEF consumerVars
  <2>3. pos' \in 0..Len(log')
    BY <1>2, <2>2 DEF TypeOK
  <2>4. faults' \in Nat
    BY ActRest DEF TypeOK
  <2>5. QED
    BY <2>1, <2>2, <2>3, <2>4, ActRest DEF ConsumerTypes, TypeOK
<1>6. QED
  BY <1>3, <1>4, <1>5, GroupsNext

LEMMA UsersTypes ==
    ASSUME TypeOK, Users
    PROVE  TypeOK'
<1>1. /\ UNCHANGED <<fixedVars, step, outcome, start, patience, due, cut, interjects,
                     events, consumerVars, ledgerVars, interjected, errors,
                     lostAcks, faults, restarts>>
      /\ sent' = sent + 1
  BY DEF Users, Answer, Garble
<1>2. PICK m \in Response \cup Refusal :
          Broadcast(m) /\ (log' = log \/ log' = Append(log, m))
  <2>1. ASSUME NEW f \in Flows, NEW r \in Notifications, NEW p \in Picks,
               Answer(f, r, p)
        PROVE  \E m \in Response \cup Refusal :
                   Broadcast(m) /\ (log' = log \/ log' = Append(log, m))
    BY <2>1, Made DEF Answer
  <2>2. ASSUME NEW f \in Flows, Garble(f)
        PROVE  \E m \in Response \cup Refusal :
                   Broadcast(m) /\ (log' = log \/ log' = Append(log, m))
    <3>1. [type |-> "garbled", flow |-> f] \in Refusal
      BY DEF Refusal
    <3>2. QED
      BY <2>2, <3>1 DEF Garble
  <2>3. QED
    BY <2>1, <2>2 DEF Users
<1>3. CmdTypes'
  BY <1>1 DEF CmdTypes, TypeOK, fixedVars
<1>4. m \in Message
  BY DEF Message
<1>5. log' \in Seq(Message)
  <2>1. log \in Seq(Message)
    BY DEF TypeOK
  <2>2. QED
    BY <1>2, <1>4, <2>1, Appended
<1>6. MessageTypes'
  BY <1>1, <1>2, <1>5, Hears, Groups DEF MessageTypes
<1>7. pos' \in 0..Len(log')
  <2>1. Len(log') = Len(log) \/ Len(log') = Len(log) + 1
    BY <1>2, <1>4, Appended DEF TypeOK
  <2>2. QED
    BY <1>1, <2>1 DEF TypeOK, consumerVars
<1>8. ConsumerTypes'
  BY <1>1, <1>7 DEF ConsumerTypes, TypeOK, LedgerTypeOK, consumerVars, ledgerVars
<1>9. QED
  BY <1>3, <1>6, <1>8, GroupsNext

LEMMA InterjectsTypes ==
    ASSUME TypeOK, Interjects
    PROVE  TypeOK'
<1>1. PICK n \in Notifications, i \in Interjections : Interject(n, i)
  BY DEF Interjects
<1>2. CmdTypes'
  BY <1>1 DEF Interject, CmdTypes, TypeOK, fixedVars
<1>3. Append(interjects[n], i) \in Seq(Interjections)
  BY Appended DEF TypeOK
<1>4. MessageTypes'
  BY <1>1, <1>3, Groups DEF Interject, MessageTypes
<1>5. ConsumerTypes'
  BY <1>1 DEF Interject, ConsumerTypes, TypeOK, LedgerTypeOK, consumerVars, ledgerVars
<1>6. QED
  BY <1>2, <1>4, <1>5, GroupsNext

\* The consumer takes the next message, or one that it has taken before.
LEMMA Takes ==
    ASSUME TypeOK, Consumer
    PROVE  /\ UNCHANGED <<fixedVars, cmdVars, log, consumer, sent, interjected,
                          faults, restarts>>
           /\ pos' \in pos..Len(log) /\ unacked' \subseteq 1..pos' /\ lostAcks' \in Nat
           /\ \E i \in 1..Len(log) :
                 /\ Store(log[i])
                 /\ \/ i = pos + 1 /\ pos' = i
                    \/ i <= pos /\ pos' = pos
<1>0. pos \in Nat /\ Len(log) \in Nat /\ pos <= Len(log) /\ unacked \subseteq 1..pos
      /\ lostAcks \in Nat
  BY DEF TypeOK
<1>1. CASE Process
  <2>1. pos + 1 \in 1..Len(log) /\ Store(log[pos + 1]) /\ pos' = pos + 1
    BY <1>0, <1>1 DEF Process
  <2>2. unacked' \subseteq 1..pos' /\ lostAcks' \in Nat
    <3>1. \/ UNCHANGED <<unacked, lostAcks>>
          \/ lostAcks' = lostAcks + 1 /\ unacked' = unacked \cup {pos + 1}
      BY <1>1 DEF Process
    <3>2. pos + 1 \in 1..pos' /\ 1..pos \subseteq 1..pos'
      BY <1>0, <2>1
    <3>3. unacked' \subseteq unacked \cup {pos + 1}
      BY <3>1
    <3>4. unacked' \subseteq 1..pos'
      BY <1>0, <3>2, <3>3, Zenon
    <3>5. lostAcks' \in Nat
      BY <1>0, <3>1
    <3>6. QED
      BY <3>4, <3>5
  <2>3. QED
    BY <1>0, <1>1, <2>1, <2>2 DEF Process
<1>2. ASSUME NEW i \in unacked, Reprocess(i)
      PROVE  /\ i \in 1..Len(log) /\ i <= pos /\ pos' = pos
             /\ unacked' \subseteq 1..pos' /\ lostAcks' \in Nat
  BY <1>0, <1>2 DEF Reprocess
<1>3. CASE \E i \in unacked : Reprocess(i)
  BY <1>0, <1>2, <1>3 DEF Reprocess
<1>4. QED
  BY <1>1, <1>3 DEF Consumer

LEMMA ConsumerKeepsTypes ==
    ASSUME TypeOK, Consumer
    PROVE  TypeOK'
<1> USE Takes
<1>1. CmdTypes'
  BY DEF CmdTypes, TypeOK, fixedVars, cmdVars
<1>2. MessageTypes'
  BY Groups DEF MessageTypes, cmdVars
<1>3. LedgerTypeOK' /\ errors' \in Nat
  <2>1. PICK i \in 1..Len(log) : Store(log[i])
    OBVIOUS
  <2>2. log[i] \in Message
    BY DEF TypeOK
  <2>3. QED
    BY <2>1, <2>2, StoreStatement DEF TypeOK
<1>4. ConsumerTypes'
  BY <1>3 DEF ConsumerTypes, TypeOK
<1>5. QED
  BY <1>1, <1>2, <1>4, GroupsNext

LEMMA RestartTypes ==
    ASSUME TypeOK, Restart
    PROVE  TypeOK'
<1>1. CmdTypes'
  BY DEF Restart, CmdTypes, TypeOK, fixedVars, Steps, Outcomes
<1>2. MessageTypes'
  <2>1. log' = <<>> \/ log' = log
    BY DEF Restart
  <2>2. log' \in Seq(Message)
    <3>1. <<>> \in Seq(Message)
      OBVIOUS
    <3>2. QED
      BY <2>1, <3>1, Groups DEF MessageTypes
  <2>3. QED
    BY <2>2, Groups DEF Restart, MessageTypes
<1>3. ConsumerTypes'
  <2>1. \/ log' = <<>> /\ pos' = 0 /\ unacked' = {}
        \/ UNCHANGED <<log, pos, unacked>>
    BY DEF Restart
  <2>2. pos' \in 0..Len(log') /\ unacked' \subseteq 1..pos'
    <3>2. CASE log' = <<>> /\ pos' = 0 /\ unacked' = {}
      BY <3>2
    <3>3. CASE UNCHANGED <<log, pos, unacked>>
      BY <3>3 DEF TypeOK
    <3>4. QED
      BY <2>1, <3>2, <3>3
  <2>3. QED
    BY <2>2 DEF Restart, ConsumerTypes, TypeOK, LedgerTypeOK, ledgerVars
<1>4. QED
  BY <1>1, <1>2, <1>3, GroupsNext

LEMMA TypesAtFirst == Init => TypeOK
BY DEF Init, LedgerInit, TypeOK, LedgerTypeOK, Steps, Outcomes

\* Every step keeps the types.
LEMMA TypesAreKept == TypeOK /\ [Next]_vars => TypeOK'
<1> SUFFICES ASSUME TypeOK, [Next]_vars PROVE TypeOK'
  OBVIOUS
<1>1. CASE ConsumerQuits
  BY <1>1 DEF ConsumerQuits, Fault, TypeOK, LedgerTypeOK, fixedVars, cmdVars, ledgerVars
<1>2. CASE UNCHANGED vars
  BY <1>2 DEF vars, TypeOK, LedgerTypeOK, fixedVars, cmdVars, consumerVars,
     boundVars, ledgerVars
<1>3. QED
  BY <1>1, <1>2, Alternatives, ActTypes, UsersTypes, InterjectsTypes,
     ConsumerKeepsTypes, RestartTypes

(***************************************************************************)
(* The invariant.                                                          *)
(***************************************************************************)

StepsOf(k) ==
    CASE k \in {"ask", "permission"} -> {"new", "listening", "announced", "waiting", "done"}
      [] k = "post" -> {"new", "announced", "requested", "done"}
      [] k = "mcp" -> {"new", "requested", "recorded", "waiting", "done"}

\* How a flow was ended.
Closed(n) ==
    events[n] = <<"active", IF outcome[n] \in {"answered", "sent"}
                            THEN "completed" ELSE "failed">>

\* What the flow of a command has been told at each of its steps.
Tells(n) ==
    /\ step[n] \in {"new", "listening"} => events[n] = <<>>
    /\ step[n] \in {"announced", "requested", "waiting"} => events[n] = <<"active">>
    /\ /\ step[n] = "done" /\ events[n] # <<>>
       /\ faults = 0 /\ n \notin cut /\ ~LeavesOpen(n)
       => Closed(n)

FlowInv ==
    \A n \in Notifications :
        /\ step[n] \in StepsOf(kind[n])
        /\ step[n] = "done" \/ outcome[n] = "none"
        /\ interjects[n] # <<>> => kind[n] = "ask"
        /\ kind[n] # "mcp" => Tells(n)

\* Nobody answers in a flow that is not known.
KnownInv ==
    /\ \A f \in Flows : Replies(f) # {} => Known(f)
    /\ \A n \in Notifications :
          kind[n] = "mcp" /\ step[n] # "new" => Known(flowOf[n])

\* The consumers of a command are older than the answers in its flow.
InTime(n) ==
    /\ start[n] <= Len(log) /\ due[n] <= Len(log)
    /\ step[n] = "new" => start[n] = 0 /\ due[n] = 0
    /\ step[n] \in {"listening", "announced", "waiting"} =>
          \A i \in Replies(flowOf[n]) : i > start[n]
    /\ outcome[n] = "timeout" => \A i \in Replies(flowOf[n]) : i > due[n]

TimeInv ==
    \A n \in Notifications : kind[n] # "mcp" /\ n \notin cut => InTime(n)

\* While the stream is not lost: requests come before their responses, in the
\* stream and in the ledger.
Asked(r) == \E q \in 1..Len(log) : log[q] = RequestOf(r)

First(i, r) == i \in Responses(r) /\ \A j \in Responses(r) : i <= j

Ordered(r) ==
    /\ \A i \in Responses(r) :
          \E q \in 1..Len(log) : log[q] = RequestOf(r) /\ q < i
    /\ r \in requests => Asked(r)
    /\ kind[r] = "mcp" /\ step[r] # "new" => Asked(r)

\* The first response to r, when a command could hear it, is what it heard.
Right(n, r) ==
    HeardFirst(n, r) => \A i \in Nat : First(i, r) => heard[n].pick = log[i].pick

\* What a command has heard, and that a call of the ask tool hears whatever
\* comes first after it has subscribed.
Heeds(n) ==
    /\ heard[n] # None => step[n] \in {"waiting", "done"}
    /\ \A r \in Notifications :
          heard[n] # None /\ heard[n].type = "response" /\ heard[n].of = r =>
             Responses(r) # {} /\ Right(n, r)
    /\ outcome[n] = "answered" => heard[n] # None /\ heard[n].type = "response"
    /\ kind[n] = "mcp" /\ step[n] = "waiting" =>
          /\ start[n] <= Len(log)
          /\ heard[n] = None => \A i \in Replies(flowOf[n]) : i <= start[n]

StreamInv == restarts = 0 => \A n \in Notifications : Ordered(n) /\ Heeds(n)

\* What the consumer has passed is in the ledger, ...
Passed(r) ==
    /\ \A q \in 1..pos : log[q] = RequestOf(r) => r \in requests
    /\ \A i \in Responses(r) : i <= pos => responses[r] # None

\* ... and what a call of the ask tool has stored itself.
Told(n) ==
    kind[n] = "mcp" =>
        /\ step[n] \in {"recorded", "waiting"} => n \in requests
        /\ outcome[n] = "answered" /\ heard[n].of = n =>
              n \in requests /\ responses[n] # None

\* A statement that fails is of one or of the other.
LedgerInv ==
    restarts = 0 =>
        \A n \in Notifications :
            /\ errors = 0 => Passed(n) /\ Told(n)
            /\ errors <= 1 /\ kind[n] = "mcp" => Passed(n) \/ Told(n)

\* The ledger has the first response, unless a command took a later one.
StoryInv ==
    restarts = 0 /\ errors = 0 =>
        \A r \in Notifications :
            responses[r] # None =>
                \/ \E i \in Nat : First(i, r) /\ responses[r] = LabelOf[log[i].pick]
                \/ \E n \in ActedFor(r) : ~HeardFirst(n, r)

IInv ==
    TypeOK /\ FlowInv /\ KnownInv /\ TimeInv /\ StreamInv /\ LedgerInv /\ StoryInv

(***************************************************************************)
(* FlowInv.                                                                *)
(***************************************************************************)

\* FlowInv for one command.
Goes(n) ==
    /\ step[n] \in StepsOf(kind[n])
    /\ step[n] = "done" \/ outcome[n] = "none"
    /\ interjects[n] # <<>> => kind[n] = "ask"
    /\ kind[n] # "mcp" => Tells(n)

\* The faults and the broken connections only grow.
LEMMA FlowFrame ==
    ASSUME TypeOK, TypeOK', NEW n \in Notifications, Goes(n),
           UNCHANGED kind, step'[n] = step[n], outcome'[n] = outcome[n],
           events'[n] = events[n],
           interjects'[n] = interjects[n] \/ kind[n] = "ask",
           faults' = 0 => faults = 0, n \in cut => n \in cut'
    PROVE  Goes(n)'
BY DEF Goes, Tells, Closed, LeavesOpen, StepsOf

LEMMA Words ==
    /\ Append(<<>>, "active") = <<"active">>
    /\ \A s \in Statuses : Append(<<"active">>, s) = <<"active", s>>
    /\ <<"active">> # <<>>
<1>1. Append(<<>>, "active") = <<"active">>
  OBVIOUS
<1>2. ASSUME NEW s \in Statuses PROVE Append(<<"active">>, s) = <<"active", s>>
  <2> DEFINE a == Append(<<"active">>, s)
             b == <<"active", s>>
  <2>1. "active" \in Statuses
    BY DEF Statuses
  <2>2. a \in Seq(Statuses) /\ Len(a) = 2 /\ a[1] = "active" /\ a[2] = s
    BY <2>1
  <2>3. b \in Seq(Statuses) /\ Len(b) = 2 /\ b[1] = "active" /\ b[2] = s
    BY <2>1
  <2> HIDE DEF a, b
  <2>4. \A i \in 1..Len(a) : a[i] = b[i]
    <3>1. \A i \in 1..2 : i = 1 \/ i = 2
      OBVIOUS
    <3>2. QED
      BY <2>2, <2>3, <3>1
  <2>5. a = b
    BY <2>2, <2>3, <2>4, SeqEqual
  <2>6. QED
    BY <2>5 DEF a, b
<1>3. Len(<<"active">>) = 1 /\ Len(<<>>) = 0
  OBVIOUS
<1>4. QED
  BY <1>1, <1>2, <1>3

\* The last word of a command to its flow.
LEMMA LastWord ==
    ASSUME TypeOK, NEW n \in Notifications, Goes(n), kind[n] # "mcp",
           step[n] \in {"announced", "requested", "waiting"},
           NEW s \in Statuses, Announce(n, s)
    PROVE  events'[n] = <<"active", s>> \/ n \in cut \/ faults' # 0
<1>1. CASE Reaches(n)
  <2>1. events[n] = <<"active">> /\ events \in [Notifications -> Seq(Statuses)]
    BY Groups DEF Goes, Tells, MessageTypes
  <2>2. CASE events' = [events EXCEPT ![n] = Append(@, s)]
    BY <2>1, <2>2, Words
  <2>3. CASE UNCHANGED events /\ Misses(n)
    BY <2>3 DEF Misses, Fault, TypeOK
  <2>4. QED
    BY <2>2, <2>3 DEF Announce
<1>2. CASE Misses(n)
  BY <1>2 DEF Misses, Fault, TypeOK
<1>3. QED
  BY <1>1, <1>2 DEF Announce

\* A command that ends with it.
LEMMA Ends ==
    ASSUME TypeOK, NEW n \in Notifications, Goes(n), kind[n] # "mcp",
           UNCHANGED <<kind, cut>>, interjects'[n] # <<>> => kind[n] = "ask",
           NEW o \in Outcomes, End(n, o),
           \/ events'[n] = <<"active", IF o \in {"answered", "sent"}
                                      THEN "completed" ELSE "failed">>
           \/ n \in cut \/ faults' # 0
           \/ kind[n] = "ask" /\ o \in {"refused", "error"}
    PROVE  Goes(n)'
<1>1. step'[n] = "done" /\ outcome'[n] = o
  BY DEF End, TypeOK
<1>2. "done" \in StepsOf(kind[n])
  BY KindsOf DEF StepsOf, AllKinds
<1>3. QED
  BY <1>1, <1>2 DEF Goes, Tells, Closed, LeavesOpen

LEMMA ActFlow ==
    ASSUME TypeOK, TypeOK', FlowInv, NEW n \in Notifications, Act(n)
    PROVE  Goes(n)'
<1>1. Goes(n) /\ kind[n] \in AllKinds /\ faults \in Nat /\ n \in DOMAIN step
      /\ step \in [Notifications -> Steps] /\ outcome \in [Notifications -> Outcomes]
      /\ events \in [Notifications -> Seq(Statuses)]
      /\ cut \subseteq Notifications
  BY KindsOf, Groups DEF FlowInv, Goes, CmdTypes, MessageTypes, ConsumerTypes
<1> USE <1>1, Words DEF Goes, Tells, Closed, LeavesOpen, StepsOf, AllKinds, Statuses,
        To, End, Announce, Reaches, Misses, Fault, NoFault, fixedVars, Waits
<1>2. CASE Listen(n)
  BY <1>2 DEF Listen
<1>3. CASE Open(n)
  BY <1>3 DEF Open
<1>4. CASE PublishRequest(n)
  BY <1>4 DEF PublishRequest
<1>5. CASE ClosePost(n)
  <2>1. PICK o \in {"sent", "error"} : End(n, o)
    BY <1>5 DEF ClosePost
  <2>2. Announce(n, "completed") /\ (UNCHANGED events \/ o = "sent")
    BY <1>5, <2>1 DEF ClosePost
  <2>3. QED
    BY <1>5, <2>1, <2>2, LastWord, Ends DEF ClosePost
<1>6. CASE Deliver(n) \/ Impatience(n)
  BY <1>6 DEF Deliver, Impatience, boundVars
<1>7. CASE HandleResponse(n)
  <2>1. CASE heard[n].type = "response"
    <3>1. Announce(n, "completed") /\ End(n, "answered")
      BY <1>7, <2>1 DEF HandleResponse
    <3>2. QED
      BY <1>7, <3>1, LastWord, Ends DEF HandleResponse, Outcomes
  <2>2. ASSUME NEW o \in {"refused", "error"}, GiveUp(n, o) PROVE Goes(n)'
    <3>1. End(n, o) /\ (kind[n] = "ask" \/ Announce(n, "failed"))
      BY <2>2 DEF GiveUp
    <3>2. QED
      BY <1>7, <3>1, LastWord, Ends DEF HandleResponse, Outcomes
  <2>3. QED
    BY <1>7, <2>1, <2>2 DEF HandleResponse
<1>8. CASE HandleInterjection(n)
  <2>1. kind[n] = "ask"
    BY <1>8 DEF HandleInterjection
  <2>2. CASE Announce(n, "failed") /\ End(n, "stopped")
    BY <1>8, <2>1, <2>2, LastWord, Ends DEF HandleInterjection, Outcomes
  <2>3. CASE UNCHANGED <<step, outcome, events, faults>>
    BY <1>8, <2>1, <2>3, FlowFrame DEF HandleInterjection
  <2>4. CASE End(n, "error")
    BY <1>8, <2>1, <2>4, Ends DEF HandleInterjection, Outcomes
  <2>5. QED
    BY <1>8, <2>2, <2>3, <2>4 DEF HandleInterjection
<1>9. CASE SafetyTimer(n)
  BY <1>9, LastWord, Ends DEF SafetyTimer, Outcomes
<1>10. CASE Interrupt(n)
  BY <1>10, LastWord, Ends DEF Interrupt, Outcomes
<1>11. CASE Kill(n)
  BY <1>11 DEF Kill
<1>12. CASE Disconnect(n)
  BY <1>12 DEF Disconnect
<1>13. CASE McpRequest(n) \/ McpInsertRequest(n) \/ McpListen(n)
  BY <1>13 DEF McpRequest, McpInsertRequest, McpListen, boundVars
<1>14. CASE McpHandleResponse(n) \/ McpTimeout(n)
  BY <1>14 DEF McpHandleResponse, McpTimeout
<1>15. QED
  BY <1>2, <1>3, <1>4, <1>5, <1>6, <1>7, <1>8, <1>9, <1>10, <1>11, <1>12, <1>13,
     <1>14 DEF Act, Command

\* What a command leaves alone.
LEMMA Others ==
    ASSUME TypeOK, NEW n \in Notifications, Act(n), NEW m \in Notifications, m # n
    PROVE  /\ step'[m] = step[m] /\ outcome'[m] = outcome[m]
           /\ start'[m] = start[m] /\ due'[m] = due[m]
           /\ events'[m] = events[m] /\ interjects'[m] = interjects[m]
<1>1. step'[m] = step[m] /\ outcome'[m] = outcome[m]
  BY ActSteps, Groups DEF CmdTypes
<1>2. start'[m] = start[m] /\ due'[m] = due[m]
  BY ActTimes, Groups DEF CmdTypes
<1>3. events'[m] = events[m]
  BY ActEvents, Groups DEF MessageTypes
<1>4. interjects'[m] = interjects[m]
  BY ActRest, Groups DEF MessageTypes
<1>5. QED
  BY <1>1, <1>2, <1>3, <1>4

\* What the rest of Next leaves to the commands, but for a restart.
LEMMA Bystanders ==
    ASSUME Users \/ Interjects \/ Consumer \/ ConsumerQuits \/ UNCHANGED vars, TypeOK
    PROVE  /\ UNCHANGED <<kind, flowOf, step, outcome, start, patience, due, cut, events, restarts>>
           /\ faults' = faults \/ faults' = faults + 1
           /\ UNCHANGED interjects \/ Interjects
<1>1. CASE Users
  BY <1>1 DEF Users, Answer, Garble, fixedVars
<1>2. CASE Interjects
  BY <1>2 DEF Interjects, Interject, fixedVars
<1>3. CASE Consumer
  BY <1>3, Takes DEF fixedVars, cmdVars
<1>4. CASE ConsumerQuits
  BY <1>4 DEF ConsumerQuits, Fault, fixedVars, cmdVars
<1>5. CASE UNCHANGED vars
  BY <1>5 DEF vars, fixedVars, cmdVars, boundVars
<1>6. QED
  BY <1>1, <1>2, <1>3, <1>4, <1>5

LEMMA FlowIsKept == TypeOK /\ TypeOK' /\ FlowInv /\ [Next]_vars => FlowInv'
<1> SUFFICES ASSUME TypeOK, TypeOK', FlowInv, [Next]_vars, NEW m \in Notifications
             PROVE  Goes(m)'
  BY DEF FlowInv, Goes
<1>1. Goes(m) /\ faults \in Nat
  BY DEF FlowInv, Goes, TypeOK
<1>2. ASSUME NEW n \in Notifications, Act(n) PROVE Goes(m)'
  <2>1. CASE n # m
    <3>1. faults' = 0 => faults = 0
      BY <1>1, <1>2, ActRest
    <3>2. UNCHANGED kind /\ (m \in cut => m \in cut')
      BY <1>2, ActTimes
    <3>3. QED
      BY <1>1, <1>2, <2>1, <3>1, <3>2, Others, FlowFrame
  <2>2. CASE n = m
    BY <1>2, <2>2, ActFlow
  <2>3. QED
    BY <2>1, <2>2
<1>3. CASE Users \/ Interjects \/ Consumer \/ ConsumerQuits \/ UNCHANGED vars
  <2>1. interjects'[m] = interjects[m] \/ kind[m] = "ask"
    BY <1>3, Bystanders, Groups DEF Interjects, Interject, MessageTypes
  <2>2. faults' = 0 => faults = 0
    BY <1>1, <1>3, Bystanders
  <2>3. QED
    BY <1>1, <1>3, <2>1, <2>2, Bystanders, FlowFrame
<1>4. CASE Restart
  <2>1. CASE kind[m] = "mcp"
    <3>1. /\ step'[m] \in {step[m], "done"} /\ UNCHANGED <<kind, interjects>>
          /\ step'[m] = "done" \/ outcome'[m] = outcome[m]
      BY <1>4 DEF Restart, fixedVars
    <3>2. QED
      BY <1>1, <2>1, <3>1 DEF Goes, StepsOf
  <2>2. CASE kind[m] # "mcp"
    <3>1. /\ UNCHANGED <<kind, faults, events, interjects>> /\ (m \in cut => m \in cut')
          /\ step'[m] = step[m] /\ outcome'[m] = outcome[m]
      BY <1>4, <2>2 DEF Restart, fixedVars
    <3>2. QED
      BY <1>1, <3>1, FlowFrame
  <2>3. QED
    BY <2>1, <2>2
<1>5. QED
  BY <1>2, <1>3, <1>4, Alternatives

LEMMA FlowAtFirst == Init => FlowInv
<1> SUFFICES ASSUME Init, NEW n \in Notifications PROVE Goes(n)
  BY DEF FlowInv, Goes
<1>1. kind[n] \in AllKinds
  BY KindsOf, TypesAtFirst
<1>2. QED
  BY <1>1 DEF Init, Goes, Tells, StepsOf, AllKinds

(***************************************************************************)
(* The stream, and KnownInv.                                               *)
(***************************************************************************)

\* A flow that has been announced has been.
LEMMA KnownStays ==
    ASSUME TypeOK, [Next]_vars, NEW f, Known(f)
    PROVE  Known(f)'
<1>1. UNCHANGED <<kind, flowOf>>
  BY Alternatives, ActTimes, Bystanders DEF Restart, fixedVars
<1>2. ASSUME NEW n \in Notifications, events[n] # <<>> PROVE events'[n] # <<>>
  <2>1. \A s \in Statuses : Append(events[n], s) # <<>>
    <3>1. events[n] \in Seq(Statuses)
      BY Groups DEF MessageTypes
    <3>2. \A s \in Statuses : Len(Append(events[n], s)) = Len(events[n]) + 1 /\ Len(events[n]) \in Nat
      BY <3>1, Appended
    <3>3. Len(<<>>) = 0
      OBVIOUS
    <3>4. QED
      BY <3>2, <3>3
  <2>2. ASSUME NEW m \in Notifications, Act(m) PROVE events'[n] # <<>>
    BY <1>2, <2>1, <2>2, ActEvents, Groups DEF MessageTypes
  <2>3. QED
    BY <1>2, <2>2, Alternatives, Bystanders DEF Restart
<1>3. QED
  BY <1>1, <1>2 DEF Known

\* A step with a message to the flows.
Says(m) ==
    /\ Broadcast(m) /\ Known(m.flow)
    /\ m.type = "response" => m.of \in requests \/ Asked(m.of)
    /\ \/ log' = Append(log, m)
       \/ log' = log /\ m.type = "response" /\ Responses(m.of) # {}
    /\ UNCHANGED <<flowOf, step, outcome, start>>

\* What is put into the stream, and heard, by anybody.
LEMMA Traffic ==
    ASSUME TypeOK, FlowInv, KnownInv, [Next]_vars, ~Restart
    PROVE  \/ UNCHANGED <<log, heard>>
           \/ UNCHANGED log /\ \E n \in Notifications : Deliver(n)
           \/ \E n \in Notifications : log' = Append(log, RequestOf(n)) /\ UNCHANGED heard
           \/ \E m \in Response \cup Refusal : Says(m)
<1>1. ASSUME NEW n \in Notifications, McpTimeout(n)
      PROVE  \/ UNCHANGED <<log, heard>>
             \/ \E m \in Response \cup Refusal : Says(m)
  <2>1. step[n] # "new" /\ kind[n] = "mcp"
    BY <1>1 DEF McpTimeout, FlowInv
  <2> DEFINE m == [type |-> "error", flow |-> flowOf[n]]
  <2>2. m \in Refusal /\ m.type = "error" /\ m.flow = flowOf[n]
    BY Made DEF TypeOK
  <2>3. \/ UNCHANGED <<log, heard>>
        \/ log' = Append(log, m) /\ Broadcast(m)
    BY <1>1 DEF McpTimeout
  <2>4. UNCHANGED <<flowOf, step, outcome, start>>
    BY <1>1 DEF McpTimeout, fixedVars
  <2> HIDE DEF m
  <2>5. Known(m.flow)
    BY <2>1, <2>2 DEF KnownInv
  <2>6. QED
    BY <2>2, <2>3, <2>4, <2>5 DEF Says
<1>2. ASSUME NEW n \in Notifications, Act(n)
      PROVE  \/ UNCHANGED <<log, heard>>
             \/ UNCHANGED log /\ Deliver(n)
             \/ log' = Append(log, RequestOf(n)) /\ UNCHANGED heard
             \/ McpTimeout(n)
  BY <1>2 DEF Act, Command, Listen, Open, PublishRequest, ClosePost, Deliver,
     HandleResponse, HandleInterjection, Impatience, SafetyTimer, McpRequest,
     McpInsertRequest, McpListen, McpHandleResponse, McpTimeout, Interrupt, Kill,
     Disconnect
<1>3. CASE Users
  <2>1. ASSUME NEW f \in Flows, NEW r \in Notifications, NEW p \in Picks,
               Answer(f, r, p)
        PROVE  \E m \in Response \cup Refusal : Says(m)
    <3> DEFINE m == [type |-> "response", flow |-> f, of |-> r, pick |-> p]
    <3>1. m \in Response /\ m.type = "response" /\ m.flow = f /\ m.of = r
      BY Made
    <3>2. /\ Known(f) /\ Broadcast(m) /\ (r \in requests \/ Asked(r))
          /\ log' = Append(log, m) \/ (log' = log /\ Responses(r) # {})
          /\ UNCHANGED <<flowOf, step, outcome, start>>
      BY <2>1 DEF Answer, Asked, fixedVars
    <3> HIDE DEF m
    <3>3. QED
      BY <3>1, <3>2 DEF Says
  <2>2. ASSUME NEW f \in Flows, Garble(f)
        PROVE  \E m \in Response \cup Refusal : Says(m)
    <3> DEFINE m == [type |-> "garbled", flow |-> f]
    <3>1. m \in Refusal /\ m.type = "garbled" /\ m.flow = f
      BY DEF Refusal
    <3>2. /\ Known(f) /\ Broadcast(m) /\ log' = Append(log, m)
          /\ UNCHANGED <<flowOf, step, outcome, start>>
      BY <2>2 DEF Garble, fixedVars
    <3> HIDE DEF m
    <3>3. QED
      BY <3>1, <3>2 DEF Says
  <2>3. QED
    BY <1>3, <2>1, <2>2 DEF Users
<1>4. CASE Interjects \/ Consumer \/ ConsumerQuits \/ UNCHANGED vars
  BY <1>4, Takes DEF Interjects, Interject, ConsumerQuits, vars, cmdVars
<1>5. QED
  BY <1>1, <1>2, <1>3, <1>4, Alternatives

\* As far as the stream is concerned.
LEMMA Publishes ==
    ASSUME TypeOK, FlowInv, KnownInv, [Next]_vars, ~Restart
    PROVE  \/ log' = log
           \/ \E m \in Message :
                 /\ log' = Append(log, m)
                 /\ m.type # "request" => Known(m.flow)
<1>1. ASSUME NEW n \in Notifications
      PROVE  RequestOf(n) \in Message /\ RequestOf(n).type = "request"
  BY Made DEF TypeOK, RequestOf, Message, Request
<1>2. Response \cup Refusal \subseteq Message
  BY DEF Message
<1>3. QED
  BY <1>1, <1>2, Traffic DEF Says

\* Where the messages are, after one more.
LEMMA Positions ==
    ASSUME TypeOK, NEW m \in Message, log' = Append(log, m), UNCHANGED flowOf
    PROVE  /\ Len(log') = Len(log) + 1 /\ Len(log) \in Nat
           /\ log'[Len(log) + 1] = m
           /\ \A i \in 1..Len(log) : log'[i] = log[i]
           /\ \A f : Replies(f)' = Replies(f) \cup
                {i \in {Len(log) + 1} : m.type # "request" /\ m.flow = f}
           /\ \A r : Responses(r)' = Responses(r) \cup
                {i \in {Len(log) + 1} : m.type = "response" /\ m.of = r}
           /\ \A f : Replies(f) \subseteq 1..Len(log)
           /\ \A r : Responses(r) \subseteq 1..Len(log)
<1>1. /\ Len(log') = Len(log) + 1 /\ Len(log) \in Nat
      /\ log'[Len(log) + 1] = m
      /\ \A i \in 1..Len(log) : log'[i] = log[i]
  BY Appended DEF TypeOK
<1>2. 1..Len(log') = (1..Len(log)) \cup {Len(log) + 1}
  BY <1>1
<1>3. QED
  BY <1>1, <1>2 DEF Replies, Responses

LEMMA KnownIsKept ==
    TypeOK /\ FlowInv /\ KnownInv /\ [Next]_vars => KnownInv'
<1> SUFFICES ASSUME TypeOK, FlowInv, KnownInv, [Next]_vars PROVE KnownInv'
  OBVIOUS
<1>0. UNCHANGED <<kind, flowOf>>
  BY Alternatives, ActTimes, Bystanders DEF Restart, fixedVars
<1>1. ASSUME NEW f \in Flows, Replies(f)' # {} PROVE Known(f)'
  <2>1. CASE Restart
    <3>1. Replies(f)' = {} \/ Replies(f)' = Replies(f)
      BY <2>1 DEF Restart, Replies
    <3>2. QED
      BY <1>1, <3>1, KnownStays DEF KnownInv
  <2>2. CASE log' = log
    BY <1>1, <2>2, KnownStays DEF KnownInv, Replies
  <2>3. ASSUME NEW m \in Message, log' = Append(log, m),
               m.type # "request" => Known(m.flow)
        PROVE  Known(f)'
    BY <1>0, <1>1, <2>3, Positions, KnownStays DEF KnownInv
  <2>4. QED
    BY <2>1, <2>2, <2>3, Publishes
<1>2. ASSUME NEW n \in Notifications, kind[n] = "mcp", step'[n] # "new",
             NEW f \in Flows, f = flowOf[n]
      PROVE  Known(f)'
  <2>1. CASE step[n] # "new"
    BY <1>2, <2>1, KnownStays DEF KnownInv
  <2>2. CASE step[n] = "new"
    <3>1. ASSUME NEW k \in Notifications, Act(k) PROVE McpRequest(n)
      <4>1. k = n
        BY <1>2, <2>2, <3>1, Others
      <4>2. QED
        BY <1>2, <2>2, <3>1, <4>1 DEF Act, Command, Listen, Open, PublishRequest,
           ClosePost, Deliver, HandleResponse, HandleInterjection, Impatience,
           SafetyTimer, Waits, McpInsertRequest, McpListen, McpHandleResponse,
           McpTimeout, Interrupt, Kill, Disconnect
    <3>2. McpRequest(n)
      BY <1>2, <2>2, <3>1, Alternatives, Bystanders DEF Restart
    <3>3. Known(flowOf[n])
      BY <3>2 DEF McpRequest
    <3>4. Known(f)
      BY <1>2, <3>3
    <3>5. QED
      BY <3>4, KnownStays
  <2>3. QED
    BY <2>1, <2>2
<1>3. QED
  <2>1. ASSUME NEW n \in Notifications, kind'[n] = "mcp", step'[n] # "new"
        PROVE  Known(flowOf[n])'
    <3>1. PICK f \in Flows : f = flowOf[n]
      BY DEF TypeOK
    <3>2. Known(f)'
      BY <1>0, <1>2, <2>1, <3>1
    <3>3. QED
      BY <1>0, <3>1, <3>2 DEF Known
  <2>2. QED
    BY <1>1, <2>1 DEF KnownInv

LEMMA KnownAtFirst == Init => KnownInv
BY DEF Init, KnownInv, Replies

(***************************************************************************)
(* TimeInv.                                                                *)
(***************************************************************************)

\* A restart is none of the other steps.
LEMMA RestartCounts ==
    ASSUME TypeOK, Restart PROVE restarts' # restarts
BY DEF Restart, TypeOK

\* A request is no message to a flow.
LEMMA RequestPositions ==
    ASSUME TypeOK, NEW n \in Notifications, log' = Append(log, RequestOf(n)),
           UNCHANGED flowOf
    PROVE  /\ Len(log') = Len(log) + 1
           /\ \A f : Replies(f)' = Replies(f)
           /\ \A r : Responses(r)' = Responses(r)
<1>1. RequestOf(n) \in Message /\ RequestOf(n).type = "request"
  BY Made DEF TypeOK, RequestOf, Message, Request
<1> DEFINE m == RequestOf(n)
<1>2. /\ Len(log') = Len(log) + 1
      /\ \A f : Replies(f)' = Replies(f) \cup
              {i \in {Len(log) + 1} : m.type # "request" /\ m.flow = f}
      /\ \A r : Responses(r)' = Responses(r) \cup
              {i \in {Len(log) + 1} : m.type = "response" /\ m.of = r}
  BY <1>1, Positions
<1> HIDE DEF m
<1>3. m.type = "request"
  BY <1>1 DEF m
<1>4. QED
  BY <1>2, <1>3

\* One more message is not earlier than the time a command began or stopped
\* to listen.
LEMMA TimeFrame ==
    ASSUME TypeOK, NEW n \in Notifications, InTime(n),
           UNCHANGED flowOf, step'[n] = step[n], outcome'[n] = outcome[n],
           start'[n] = start[n], due'[n] = due[n],
           log' = log \/ \E m \in Message : log' = Append(log, m)
    PROVE  InTime(n)'
<1>1. start[n] \in Nat /\ due[n] \in Nat /\ Len(log) \in Nat /\ flowOf[n] \in Flows
  BY DEF TypeOK
<1>2. CASE log' = log
  BY <1>2 DEF InTime, Replies
<1>3. CASE \E m \in Message : log' = Append(log, m)
  <2>1. Len(log') = Len(log) + 1
    BY <1>3, Positions
  <2>2. \A i \in Replies(flowOf[n])' : i \in Replies(flowOf[n]) \/ i = Len(log) + 1
    BY <1>3, Positions
  <2>3. QED
    BY <1>1, <2>1, <2>2 DEF InTime
<1>4. QED
  BY <1>2, <1>3

\* Before its command has opened a flow, no message is in it.
LEMMA Unopened ==
    ASSUME TypeOK, FlowInv, KnownInv, NEW n \in Notifications, kind[n] # "mcp",
           step[n] \in {"new", "listening"}
    PROVE  Replies(flowOf[n]) = {}
<1>1. events[n] = <<>> /\ flowOf[n] \in Flows
  BY DEF FlowInv, Tells, TypeOK
<1>2. QED
  BY <1>1 DEF KnownInv, Known

LEMMA TimeIsKept ==
    TypeOK /\ TypeOK' /\ FlowInv /\ KnownInv /\ TimeInv /\ [Next]_vars => TimeInv'
<1> SUFFICES ASSUME TypeOK, TypeOK', FlowInv, KnownInv, TimeInv, [Next]_vars,
                    NEW m \in Notifications, kind'[m] # "mcp", m \notin cut'
             PROVE  InTime(m)'
  BY DEF TimeInv
<1>0. /\ start[m] \in Nat /\ due[m] \in Nat /\ Len(log) \in Nat /\ flowOf[m] \in Flows
      /\ step[m] \in StepsOf(kind[m]) /\ (step[m] = "done" \/ outcome[m] = "none")
  BY DEF TypeOK, FlowInv
<1>1. UNCHANGED <<kind, flowOf>> /\ m \notin cut
  BY Alternatives, ActTimes, Bystanders DEF Restart, fixedVars
<1>2. InTime(m)
  BY <1>1 DEF TimeInv
<1>3. ~Restart => log' = log \/ \E k \in Message : log' = Append(log, k)
  BY Publishes
<1>4. CASE Restart
  <2>1. step'[m] = step[m] /\ outcome'[m] = outcome[m] /\ UNCHANGED <<start, due>>
    BY <1>1, <1>4 DEF Restart
  <2>2. CASE log' = log
    BY <1>1, <1>2, <2>1, <2>2, TimeFrame
  <2>3. CASE log' = <<>> /\ step[m] = "new"
    BY <1>0, <1>2, <2>1, <2>3 DEF InTime, Replies
  <2>4. QED
    BY <1>1, <1>4, <2>2, <2>3 DEF Restart
<1>5. ASSUME NEW n \in Notifications, Act(n) PROVE InTime(m)'
  <2>0. ~Restart
    BY <1>5, ActRest, RestartCounts
  <2>1. CASE n # m
    BY <1>1, <1>2, <1>3, <1>5, <2>0, <2>1, Others, TimeFrame
  <2>2. CASE n = m
    <3>1. CASE Listen(m)
      <4>1. Replies(flowOf[m]) = {} /\ UNCHANGED <<log, due>> /\ start'[m] = Len(log)
        BY <1>1, <3>1, Unopened, Groups DEF Listen, CmdTypes
      <4>2. step'[m] \in {"listening", "done"} /\ outcome'[m] # "timeout"
        BY <1>0, <3>1, Groups DEF Listen, To, End, CmdTypes
      <4>3. QED
        BY <1>0, <1>1, <1>2, <4>1, <4>2 DEF InTime, Replies
    <3>2. CASE Open(m)
      <4>1. Replies(flowOf[m]) = {} /\ UNCHANGED <<log, start, due>>
        BY <1>1, <3>2, Unopened DEF Open
      <4>2. step'[m] \in {"announced", "done"} /\ outcome'[m] # "timeout"
        BY <1>0, <3>2, Groups DEF Open, To, End, CmdTypes
      <4>3. QED
        BY <1>0, <1>1, <1>2, <4>1, <4>2 DEF InTime, Replies
    <3>3. CASE PublishRequest(m)
      <4>1. step[m] = "announced" /\ outcome[m] = "none" /\ UNCHANGED <<start, due>>
        BY <1>0, <3>3 DEF PublishRequest
      <4>2. step'[m] \in {"waiting", "requested", "done"} /\ outcome'[m] # "timeout"
        BY <4>1, <3>3, Groups DEF PublishRequest, To, End, CmdTypes
      <4>3. CASE log' = log
        BY <1>0, <1>1, <1>2, <4>1, <4>2, <4>3 DEF InTime, Replies
      <4>4. CASE log' = Append(log, RequestOf(m))
        <5>1. Len(log') = Len(log) + 1 /\ \A f : Replies(f)' = Replies(f)
          BY <1>1, <4>4, RequestPositions
        <5>2. QED
          BY <1>0, <1>1, <1>2, <4>1, <4>2, <5>1 DEF InTime
      <4>5. QED
        BY <3>3, <4>3, <4>4 DEF PublishRequest
    <3>4. CASE Impatience(m)
      <4>1. /\ step[m] = "waiting" /\ due'[m] = Len(log)
            /\ UNCHANGED <<step, outcome, start, log>>
        BY <1>0, <3>4, Groups DEF Impatience, Waits, CmdTypes
      <4>2. QED
        BY <1>0, <1>1, <1>2, <4>1 DEF InTime, Replies
    <3>5. CASE SafetyTimer(m)
      <4>1. /\ step[m] = "waiting" /\ UnderWay(m) = {} /\ UNCHANGED <<start, due, log>>
            /\ step'[m] = "done"
        BY <1>1, <3>5, Groups DEF SafetyTimer, Waits, End, CmdTypes
      <4>2. Replies(flowOf[m]) \subseteq 1..Len(log)
        BY DEF Replies
      <4>3. \A i \in Replies(flowOf[m]) : i > due[m]
        BY <1>0, <1>2, <4>1, <4>2 DEF InTime, UnderWay
      <4>4. QED
        BY <1>0, <1>1, <1>2, <4>1, <4>3 DEF InTime, Replies
    <3>6. CASE Deliver(m) \/ Disconnect(m)
      BY <1>1, <1>2, <3>6, TimeFrame DEF Deliver, Disconnect
    <3>7. CASE ClosePost(m) \/ HandleResponse(m) \/ HandleInterjection(m)
               \/ Interrupt(m) \/ Kill(m)
      <4>1. /\ UNCHANGED <<start, due, log>>
            /\ UNCHANGED <<step, outcome>> \/ (step'[m] = "done" /\ outcome'[m] # "timeout")
        BY <1>0, <3>7, Groups DEF ClosePost, HandleResponse, GiveUp,
           HandleInterjection, Interrupt, Kill, End, CmdTypes
      <4>2. step[m] # "new"
        BY <3>7 DEF ClosePost, HandleResponse, HandleInterjection, Interrupt, Kill, Waits
      <4>3. QED
        BY <1>0, <1>1, <1>2, <4>1, <4>2 DEF InTime, Replies
    <3>8. ~(McpRequest(m) \/ McpInsertRequest(m) \/ McpListen(m)
            \/ McpHandleResponse(m) \/ McpTimeout(m))
      BY <1>0, <1>1, KindsOf DEF McpRequest, McpInsertRequest, McpListen,
         McpHandleResponse, McpTimeout, StepsOf, AllKinds
    <3>9. QED
      BY <1>5, <2>2, <3>1, <3>2, <3>3, <3>4, <3>5, <3>6, <3>7, <3>8 DEF Act, Command
  <2>3. QED
    BY <2>1, <2>2
<1>6. CASE Users \/ Interjects \/ Consumer \/ ConsumerQuits \/ UNCHANGED vars
  <2>1. ~Restart
    BY <1>6, Bystanders, RestartCounts
  <2>2. QED
    BY <1>1, <1>2, <1>3, <1>6, <2>1, Bystanders, TimeFrame
<1>7. QED
  BY <1>4, <1>5, <1>6, Alternatives

LEMMA TimeAtFirst == Init => TimeInv
BY DEF Init, TimeInv, InTime, Replies

(***************************************************************************)
(* StreamInv.                                                              *)
(***************************************************************************)

\* While nothing is restarted the stream grows.
LEMMA StreamGrows ==
    ASSUME TypeOK, FlowInv, KnownInv, [Next]_vars, ~Restart
    PROVE  /\ Len(log) <= Len(log') /\ Len(log) \in Nat /\ Len(log') \in Nat
           /\ \A i \in 1..Len(log) : log'[i] = log[i]
           /\ \A r : Responses(r) \subseteq Responses(r)' /\ Responses(r) \subseteq 1..Len(log)
           /\ \A r : \A i \in Responses(r)' : i \in Responses(r) \/ i > Len(log)
           /\ \A r \in Notifications : Asked(r) => Asked(r)'
<1>0. UNCHANGED flowOf
  BY Alternatives, ActTimes, Bystanders
<1>1. CASE log' = log
  BY <1>1 DEF Responses, Asked, TypeOK
<1>2. ASSUME NEW m \in Message, log' = Append(log, m) 
      PROVE  /\ Len(log) <= Len(log') /\ Len(log) \in Nat /\ Len(log') \in Nat
             /\ \A i \in 1..Len(log) : log'[i] = log[i]
             /\ \A r : Responses(r) \subseteq Responses(r)' /\ Responses(r) \subseteq 1..Len(log)
             /\ \A r : \A i \in Responses(r)' : i \in Responses(r) \/ i > Len(log)
  <2>1. /\ Len(log') = Len(log) + 1 /\ Len(log) \in Nat
        /\ \A i \in 1..Len(log) : log'[i] = log[i]
        /\ \A r : Responses(r)' = Responses(r) \cup
                {i \in {Len(log) + 1} : m.type = "response" /\ m.of = r}
        /\ \A r : Responses(r) \subseteq 1..Len(log)
    BY <1>0, <1>2, Positions
  <2>2. QED
    BY <2>1
<1>3. ASSUME NEW m \in Message, log' = Append(log, m)
      PROVE  \A r \in Notifications : Asked(r) => Asked(r)'
  BY <1>2, <1>3 DEF Asked, RequestOf
<1>4. QED
  BY <1>1, <1>2, <1>3, Publishes

\* Nobody hears twice, or before the time.
LEMMA HeardStays ==
    ASSUME TypeOK, FlowInv, KnownInv, [Next]_vars, ~Restart, NEW n \in Notifications
    PROVE  \/ heard'[n] = heard[n]
           \/ heard[n] = None /\ Deliver(n)
           \/ /\ heard[n] = None /\ kind[n] = "mcp" /\ step[n] = "waiting"
              /\ \E m \in Response \cup Refusal :
                    Says(m) /\ flowOf[n] = m.flow /\ heard'[n] = m
BY Traffic, Groups DEF Says, Broadcast, Deliver, MessageTypes

\* Who waits ends, and who has ended has.
LEMMA StaysOn ==
    ASSUME TypeOK, [Next]_vars, NEW n \in Notifications,
           step[n] \in {"waiting", "done"}
    PROVE  /\ step'[n] \in {"waiting", "done"} /\ start'[n] = start[n]
           /\ step[n] = "done" => step'[n] = "done"
<1>1. ASSUME NEW k \in Notifications, Act(k)
      PROVE  /\ step'[n] \in {"waiting", "done"} /\ start'[n] = start[n]
             /\ step[n] = "done" => step'[n] = "done"
  <2>1. CASE k # n
    BY <1>1, <2>1, Others
  <2>2. CASE k = n
    BY <1>1, <2>2, Groups DEF CmdTypes, To, End, Act, Command, Listen, Open, PublishRequest,
       ClosePost, Deliver, HandleResponse, GiveUp, HandleInterjection, Impatience,
       SafetyTimer, Waits, McpRequest, McpInsertRequest, McpListen,
       McpHandleResponse, McpTimeout, Interrupt, Kill, Disconnect
  <2>3. QED
    BY <2>1, <2>2
<1>2. CASE Restart
  BY <1>2 DEF Restart
<1>3. QED
  BY <1>1, <1>2, Alternatives, Bystanders

\* The request of a call of the ask tool, and the ledger's requests.
LEMMA OrderedIsKept ==
    ASSUME TypeOK, FlowInv, KnownInv, [Next]_vars, ~Restart, NEW r \in Notifications,
           \A n \in Notifications : Ordered(n)
    PROVE  Ordered(r)'
<1>1. ASSUME NEW i \in Responses(r)'
      PROVE  \E q \in 1..Len(log') : log'[q] = RequestOf(r) /\ q < i
  <2>1. CASE i \in Responses(r)
    <3>1. PICK q \in 1..Len(log) : log[q] = RequestOf(r) /\ q < i
      BY <2>1 DEF Ordered
    <3>2. QED
      BY <3>1, StreamGrows
  <2>2. CASE i > Len(log)
    <3>1. log' # log
      BY <1>1, <2>2, StreamGrows DEF Responses
    <3>2. ASSUME NEW n \in Notifications, log' = Append(log, RequestOf(n)) PROVE FALSE
      <4>1. i \in Responses(r)
        BY <1>1, <3>2, RequestPositions, Alternatives, ActTimes, Bystanders
      <4>2. QED
        BY <2>2, <4>1, StreamGrows
    <3>3. PICK m \in Response \cup Refusal : Says(m) /\ log' = Append(log, m)
      BY <3>1, <3>2, Traffic DEF Says
    <3>4. i = Len(log) + 1 /\ m.type = "response" /\ m.of = r
      <4>1. m \in Message
        BY DEF Message
      <4>2. /\ Responses(r)' = Responses(r) \cup
                 {k \in {Len(log) + 1} : m.type = "response" /\ m.of = r}
            /\ Responses(r) \subseteq 1..Len(log) /\ Len(log) \in Nat
        BY <3>3, <4>1, Positions DEF Says
      <4>3. QED
        BY <1>1, <2>2, <4>2
    <3>5. Asked(r)
      BY <3>3, <3>4 DEF Says, Ordered
    <3>6. PICK q \in 1..Len(log) : log[q] = RequestOf(r)
      BY <3>5 DEF Asked
    <3>7. QED
      BY <3>4, <3>6, StreamGrows
  <2>3. QED
    BY <1>1, <2>1, <2>2, StreamGrows
<1>2. ASSUME r \in requests' PROVE Asked(r)'
  <2>1. ASSUME NEW n \in Notifications, Act(n) PROVE r \in requests \/ Asked(r)
    <3>1. CASE requests' = requests
      BY <1>2, <3>1
    <3>2. CASE McpInsertRequest(n) \/ McpHandleResponse(n)
      <4>1. requests' = requests \/ (step[n] = "requested" /\ requests' \subseteq requests \cup {n})
        BY <3>2, ToolStatement
      <4>2. kind[n] = "mcp"
        BY <3>2 DEF McpInsertRequest, McpHandleResponse
      <4>3. QED
        BY <1>2, <4>1, <4>2 DEF Ordered
    <3>3. QED
      BY <2>1, <3>1, <3>2, ActRest DEF ledgerVars
  <2>2. CASE Consumer
    <3>1. PICK i \in 1..Len(log) : Store(log[i])
      BY <2>2, Takes
    <3>2. log[i] \in Message
      BY DEF TypeOK
    <3>3. \/ requests' = requests
          \/ log[i].type = "request" /\ requests' \subseteq requests \cup {log[i].of}
      BY <3>1, <3>2, StoreStatement
    <3>4. log[i].type = "request" => log[i] = RequestOf(log[i].of)
      BY <3>2, Kinds3
    <3>5. r \in requests \/ Asked(r)
      BY <1>2, <3>3, <3>4 DEF Asked
    <3>6. QED
      BY <3>5, StreamGrows DEF Ordered
  <2>3. CASE Users \/ Interjects \/ ConsumerQuits \/ UNCHANGED vars
    <3>1. requests' = requests
      BY <2>3 DEF Users, Answer, Garble, Interjects, Interject, ConsumerQuits, vars, ledgerVars
    <3>2. QED
      BY <1>2, <3>1, StreamGrows DEF Ordered
  <2>4. QED
    BY <2>1, <2>2, <2>3, Alternatives, StreamGrows DEF Ordered
<1>3. ASSUME kind'[r] = "mcp", step'[r] # "new" PROVE Asked(r)'
  <2>1. kind[r] = "mcp"
    BY <1>3, Alternatives, ActTimes, Bystanders
  <2>2. CASE step[r] # "new"
    BY <2>1, <2>2, StreamGrows DEF Ordered
  <2>3. CASE step[r] = "new"
    <3>1. ASSUME NEW n \in Notifications, Act(n) PROVE McpRequest(r)
      <4>1. n = r
        BY <1>3, <2>3, <3>1, Others
      <4>2. QED
        BY <1>3, <2>1, <2>3, <3>1, <4>1 DEF Act, Command, Listen, Open, PublishRequest,
           ClosePost, Deliver, HandleResponse, HandleInterjection, Impatience,
           SafetyTimer, Waits, McpInsertRequest, McpListen, McpHandleResponse,
           McpTimeout, Interrupt, Kill, Disconnect
    <3>2. McpRequest(r)
      BY <1>3, <2>3, <3>1, Alternatives, Bystanders
    <3>3. log' = Append(log, RequestOf(r)) /\ RequestOf(r) \in Message
      BY <3>2 DEF McpRequest, RequestOf, Message, Request
    <3>4. Len(log') = Len(log) + 1 /\ Len(log) \in Nat /\ log'[Len(log) + 1] = RequestOf(r)
      BY <3>3, Appended DEF TypeOK
    <3>5. QED
      BY <3>4 DEF Asked, RequestOf
  <2>4. QED
    BY <2>2, <2>3
<1>4. QED
  BY <1>1, <1>2, <1>3 DEF Ordered, RequestOf

\* The first response stays the first.
LEMMA FirstStays ==
    ASSUME TypeOK, FlowInv, KnownInv, [Next]_vars, ~Restart,
           NEW r, Responses(r) # {}, NEW i \in Nat
    PROVE  First(i, r)' => First(i, r) /\ i \in 1..Len(log) /\ log'[i] = log[i]
<1> SUFFICES ASSUME First(i, r)' PROVE First(i, r) /\ i \in 1..Len(log) /\ log'[i] = log[i]
  OBVIOUS
<1>1. PICK j \in Responses(r) : TRUE
  OBVIOUS
<1>2. i <= j /\ j \in 1..Len(log)
  BY <1>1, StreamGrows DEF First
<1>3. i \in Responses(r)
  BY <1>2, StreamGrows DEF First
<1>4. QED
  BY <1>3, StreamGrows DEF First

\* What was heard stays right.
LEMMA RightStays ==
    ASSUME TypeOK, FlowInv, KnownInv, [Next]_vars, ~Restart,
           NEW n \in Notifications, NEW r, Responses(r) # {},
           heard'[n] = heard[n], start'[n] = start[n], UNCHANGED flowOf, Right(n, r)
    PROVE  Right(n, r)'
<1> SUFFICES ASSUME HeardFirst(n, r)', NEW i \in Nat, First(i, r)'
             PROVE  heard[n].pick = log'[i].pick
  BY DEF Right
<1>1. First(i, r) /\ log'[i] = log[i]
  BY FirstStays
<1>2. PICK k \in Responses(r)' :
         /\ \A j \in Responses(r)' : k <= j
         /\ k > start[n] /\ log'[k].flow = flowOf[n]
  BY DEF HeardFirst
<1>3. k \in Nat
  BY DEF Responses
<1>4. First(k, r) /\ log'[k] = log[k]
  BY <1>2, <1>3, FirstStays DEF First
<1>5. HeardFirst(n, r)
  BY <1>2, <1>4 DEF First, HeardFirst
<1>6. QED
  BY <1>1, <1>5 DEF Right

\* What a command takes from its consumer is right.
LEMMA DeliverIsRight ==
    ASSUME TypeOK, NEW n \in Notifications, Deliver(n), heard'[n].type = "response",
           NEW r, r = heard'[n].of
    PROVE  Responses(r)' # {} /\ Right(n, r)'
<1>1. PICK i \in Replies(flowOf[n]) :
         /\ i > start[n]
         /\ \A j \in Replies(flowOf[n]) : j > start[n] => i <= j
         /\ heard' = [heard EXCEPT ![n] = log[i]]
  BY DEF Deliver
<1>2. UNCHANGED <<log, start, flowOf>> /\ heard'[n] = log[i] /\ i \in 1..Len(log)
  BY <1>1, Groups DEF Deliver, fixedVars, MessageTypes, Replies
<1>3. i \in Responses(r)
  BY <1>2 DEF Responses
<1>4. ASSUME NEW k \in Responses(r), \A j \in Responses(r) : k <= j,
             k > start[n], log[k].flow = flowOf[n]
      PROVE  k = i
  <2>1. k \in Replies(flowOf[n])
    BY <1>4 DEF Responses, Replies
  <2>2. i <= k /\ k <= i
    BY <1>1, <1>3, <1>4, <2>1
  <2>3. k \in Nat /\ i \in Nat
    BY <1>2 DEF Responses
  <2>4. QED
    BY <2>2, <2>3
<1>5. ASSUME NEW k \in Nat, First(k, r), HeardFirst(n, r) PROVE k = i
  <2>1. i \in Responses(r) /\ \A j \in Responses(r) : i <= j
    BY <1>4, <1>5 DEF HeardFirst
  <2>2. i <= k /\ k <= i /\ i \in Nat
    BY <1>2, <1>5, <2>1 DEF First
  <2>3. QED
    BY <2>2
<1>6. Responses(r)' = Responses(r)
  BY <1>2 DEF Responses
<1>7. QED
  BY <1>2, <1>3, <1>5, <1>6 DEF Right, HeardFirst, First

\* And so is what a call of the ask tool hears.
LEMMA SaidIsRight ==
    ASSUME TypeOK, NEW n \in Notifications, NEW m \in Response \cup Refusal, Says(m),
           flowOf[n] = m.flow, heard'[n] = m, m.type = "response",
           \A i \in Replies(flowOf[n]) : i <= start[n],
           NEW r, r = m.of
    PROVE  Responses(r)' # {} /\ Right(n, r)'
<1>0. m \in Message /\ start[n] \in Nat /\ Len(log) \in Nat
  BY DEF Message, TypeOK
<1>1. UNCHANGED <<start, flowOf>>
  BY DEF Says
<1>2. ASSUME NEW k \in Responses(r), k > start[n], log[k].flow = flowOf[n] PROVE FALSE
  <2>1. k \in Replies(flowOf[n]) /\ k \in Nat
    BY <1>2 DEF Responses, Replies
  <2>2. QED
    BY <1>0, <1>2, <2>1
<1>3. CASE log' = log /\ Responses(r) # {}
  <2>1. Responses(r)' = Responses(r)
    BY <1>3 DEF Responses
  <2>2. ~HeardFirst(n, r)'
    BY <1>1, <1>2, <1>3, <2>1 DEF HeardFirst
  <2>3. QED
    BY <1>3, <2>1, <2>2 DEF Right
<1>4. CASE log' = Append(log, m)
  <2>1. /\ Responses(r)' = Responses(r) \cup {Len(log) + 1}
        /\ Responses(r) \subseteq 1..Len(log) /\ log'[Len(log) + 1] = m
        /\ \A i \in 1..Len(log) : log'[i] = log[i]
    BY <1>0, <1>1, <1>4, Positions
  <2>2. ASSUME HeardFirst(n, r)', NEW i \in Nat, First(i, r)'
        PROVE  i = Len(log) + 1
    <3>1. PICK k \in Responses(r)' :
             /\ \A j \in Responses(r)' : k <= j
             /\ k > start[n] /\ log'[k].flow = flowOf[n]
      BY <1>1, <2>2 DEF HeardFirst
    <3>2. k = Len(log) + 1
      BY <1>2, <2>1, <3>1
    <3>3. i <= k /\ k <= i
      BY <2>2, <3>1 DEF First
    <3>4. QED
      BY <1>0, <3>2, <3>3
  <2>3. QED
    BY <2>1, <2>2 DEF Right
<1>5. QED
  BY <1>3, <1>4 DEF Says

\* An ask tool that waits has heard the first message after it subscribed.
Listens(n) ==
    kind[n] = "mcp" /\ step[n] = "waiting" =>
        /\ start[n] <= Len(log)
        /\ heard[n] = None => \A i \in Replies(flowOf[n]) : i <= start[n]

LEMMA ListensIsKept ==
    ASSUME TypeOK, FlowInv, KnownInv, [Next]_vars, ~Restart, NEW n \in Notifications,
           Listens(n)
    PROVE  Listens(n)'
<1> SUFFICES ASSUME kind'[n] = "mcp", step'[n] = "waiting"
             PROVE  /\ start'[n] <= Len(log')
                    /\ heard'[n] = None => \A i \in Replies(flowOf[n])' : i <= start'[n]
  BY DEF Listens, Replies
<1>0. UNCHANGED <<kind, flowOf>> /\ kind[n] = "mcp" /\ start[n] \in Nat /\ flowOf[n] \in Flows
  BY Alternatives, ActTimes, Bystanders DEF TypeOK
<1>1. CASE step[n] = "waiting"
  <2>1. start'[n] = start[n] /\ start[n] <= Len(log')
    BY <1>0, <1>1, StaysOn, StreamGrows DEF Listens
  <2>2. ASSUME heard'[n] = None, NEW i \in Replies(flowOf[n])' PROVE i <= start[n]
    <3>1. heard[n] = None
      BY <2>2, HeardStays, CliAssumption DEF Deliver, Waits
    <3>2. CASE log' = log
      BY <1>0, <1>1, <2>2, <3>1, <3>2 DEF Listens, Replies
    <3>3. ASSUME NEW k \in Notifications, log' = Append(log, RequestOf(k))
          PROVE  i <= start[n]
      BY <1>0, <1>1, <2>2, <3>1, <3>3, RequestPositions DEF Listens
    <3>4. ASSUME NEW m \in Response \cup Refusal, Says(m), log' = Append(log, m)
          PROVE  i <= start[n]
      <4>1. m \in Message /\ m # None
        BY CliAssumption DEF Message
      <4>2. m.flow # flowOf[n]
        BY <1>0, <1>1, <2>2, <3>1, <3>4, <4>1 DEF Says, Broadcast
      <4>3. Replies(flowOf[n])' = Replies(flowOf[n]) \cup
                {k \in {Len(log) + 1} : m.type # "request" /\ m.flow = flowOf[n]}
        BY <1>0, <3>4, <4>1, Positions
      <4>4. QED
        BY <1>0, <1>1, <2>2, <3>1, <4>2, <4>3 DEF Listens
    <3>5. QED
      BY <3>2, <3>3, <3>4, Traffic DEF Says
  <2>3. QED
    BY <1>0, <2>1, <2>2
<1>2. CASE step[n] # "waiting"
  <2>1. ASSUME NEW k \in Notifications, Act(k) PROVE McpListen(n)
    <3>1. k = n
      BY <1>2, <2>1, Others
    <3>2. QED
      BY <1>0, <1>2, <2>1, <3>1, Groups DEF CmdTypes, To, End, Act, Command, Listen, Open,
         PublishRequest, ClosePost, Deliver, HandleResponse, HandleInterjection,
         Impatience, SafetyTimer, Waits, McpRequest, McpInsertRequest,
         McpHandleResponse, McpTimeout, Interrupt, Kill, Disconnect, FlowInv, StepsOf
  <2>2. McpListen(n)
    BY <1>2, <2>1, Alternatives, Bystanders
  <2>3. start'[n] = Len(log) /\ log' = log
    BY <2>2, Groups DEF McpListen, CmdTypes
  <2>4. QED
    BY <1>0, <2>3 DEF Replies, TypeOK
<1>3. QED
  BY <1>1, <1>2

LEMMA HeedsIsKept ==
    ASSUME TypeOK, FlowInv, KnownInv, [Next]_vars, ~Restart, NEW n \in Notifications,
           Heeds(n)
    PROVE  Heeds(n)'
<1>0. UNCHANGED flowOf
  BY Alternatives, ActTimes, Bystanders
<1>1. heard'[n] # None => step'[n] \in {"waiting", "done"}
  <2>1. CASE heard'[n] = heard[n]
    BY <2>1, StaysOn DEF Heeds
  <2>2. CASE Deliver(n)
    BY <2>2, StaysOn DEF Deliver, Waits
  <2>3. CASE step[n] = "waiting"
    BY <2>3, StaysOn
  <2>4. QED
    BY <2>1, <2>2, <2>3, HeardStays
<1>2. ASSUME NEW r \in Notifications,
             heard'[n] # None, heard'[n].type = "response", heard'[n].of = r
      PROVE  Responses(r)' # {} /\ Right(n, r)'
  <2>1. CASE heard'[n] = heard[n]
    <3>1. start'[n] = start[n]
      BY <1>2, <2>1, StaysOn DEF Heeds
    <3>2. Responses(r) # {} /\ Right(n, r)
      BY <1>2, <2>1 DEF Heeds
    <3>3. QED
      BY <1>0, <2>1, <3>1, <3>2, RightStays, StreamGrows
  <2>2. CASE Deliver(n)
    BY <1>2, <2>2, DeliverIsRight
  <2>3. ASSUME heard[n] = None, kind[n] = "mcp", step[n] = "waiting",
               NEW m \in Response \cup Refusal, Says(m), flowOf[n] = m.flow, heard'[n] = m
        PROVE  Responses(r)' # {} /\ Right(n, r)'
    <3>1. \A i \in Replies(flowOf[n]) : i <= start[n]
      BY <2>3 DEF Heeds
    <3>2. QED
      BY <1>2, <2>3, <3>1, SaidIsRight
  <2>4. QED
    BY <2>1, <2>2, <2>3, HeardStays
<1>3. outcome'[n] = "answered" => heard'[n] # None /\ heard'[n].type = "response"
  <2>1. CASE outcome[n] = "answered"
    BY <2>1, HeardStays DEF Heeds
  <2>2. CASE outcome[n] # "answered" /\ outcome'[n] = "answered"
    <3>1. ASSUME NEW k \in Notifications, Act(k)
          PROVE  heard[n] # None /\ heard[n].type = "response"
      <4>1. k = n
        BY <2>2, <3>1, Others
      <4>2. QED
        BY <2>2, <3>1, <4>1, Groups DEF CmdTypes, To, End, Act, Command, Listen, Open,
           PublishRequest, ClosePost, Deliver, HandleResponse, GiveUp,
           HandleInterjection, Impatience, SafetyTimer, McpRequest, McpInsertRequest,
           McpListen, McpHandleResponse, McpTimeout, Interrupt, Kill, Disconnect
    <3>2. QED
      BY <2>2, <3>1, Alternatives, Bystanders, HeardStays
  <2>3. QED
    BY <2>1, <2>2
<1>4. Listens(n)'
  BY ListensIsKept DEF Heeds, Listens
<1>5. QED
  BY <1>1, <1>2, <1>3, <1>4 DEF Heeds, Listens

LEMMA StreamIsKept ==
    TypeOK /\ FlowInv /\ KnownInv /\ StreamInv /\ [Next]_vars => StreamInv'
<1> SUFFICES ASSUME TypeOK, FlowInv, KnownInv, StreamInv, [Next]_vars, restarts' = 0,
                    NEW n \in Notifications
             PROVE  Ordered(n)' /\ Heeds(n)'
  BY DEF StreamInv
<1>1. ~Restart
  BY DEF Restart, TypeOK
<1>2. restarts = 0
  BY <1>1, Alternatives, ActRest, Bystanders
<1>3. \A k \in Notifications : Ordered(k) /\ Heeds(k)
  BY <1>2 DEF StreamInv
<1>4. QED
  BY <1>1, <1>3, OrderedIsKept, HeedsIsKept

LEMMA StreamAtFirst == Init => StreamInv
<1> SUFFICES ASSUME Init, NEW n \in Notifications PROVE Ordered(n) /\ Heeds(n)
  BY DEF StreamInv
<1>1. /\ log = <<>> /\ heard[n] = None /\ requests = {} /\ step[n] = "new"
      /\ outcome[n] = "none"
  BY DEF Init, LedgerInit
<1>2. Len(log) = 0
  BY <1>1
<1>3. QED
  BY <1>1, <1>2 DEF Ordered, Heeds, Responses

(***************************************************************************)
(* LedgerInv.                                                              *)
(***************************************************************************)

LEMMA LedgerGrows == TypeOK /\ [Next]_vars => Grows
<1> SUFFICES ASSUME TypeOK, [Next]_vars PROVE Grows
  OBVIOUS
<1>1. CASE UNCHANGED ledgerVars
  BY <1>1 DEF ledgerVars, Grows
<1>2. ASSUME NEW n \in Notifications, Act(n) PROVE Grows
  BY <1>1, <1>2, ActRest, ToolStatement
<1>3. CASE Consumer
  <2>1. PICK i \in 1..Len(log) : Store(log[i])
    BY <1>3, Takes
  <2>2. log[i] \in Message
    BY DEF TypeOK
  <2>3. QED
    BY <2>1, <2>2, StoreStatement
<1>4. CASE Users \/ Interjects \/ ConsumerQuits \/ Restart \/ UNCHANGED vars
  BY <1>1, <1>4 DEF Users, Answer, Garble, Interjects, Interject, ConsumerQuits,
     Restart, vars
<1>5. QED
  BY <1>2, <1>3, <1>4, Alternatives

\* A step fails one statement at most, of the consumer or of a command.
LEMMA OneFails ==
    ASSUME TypeOK, [Next]_vars, ~Restart
    PROVE  \/ errors' = errors
           \/ /\ errors' = errors + 1
              /\ UNCHANGED pos \/ UNCHANGED <<step, outcome, heard>>
<1>1. ASSUME NEW n \in Notifications, Act(n)
      PROVE  errors' = errors \/ (errors' = errors + 1 /\ UNCHANGED pos)
  <2>1. UNCHANGED pos
    BY <1>1, ActRest DEF consumerVars
  <2>2. errors' = errors \/ errors' = errors + 1
    BY <1>1, ActRest, ToolStatement
  <2>3. QED
    BY <2>1, <2>2
<1>2. CASE Consumer
  <2>1. PICK i \in 1..Len(log) : Store(log[i])
    BY <1>2, Takes
  <2>2. log[i] \in Message
    BY DEF TypeOK
  <2>3. QED
    BY <1>2, <2>1, <2>2, StoreStatement, Takes DEF cmdVars
<1>3. CASE Users \/ Interjects \/ ConsumerQuits \/ UNCHANGED vars
  BY <1>3 DEF Users, Answer, Garble, Interjects, Interject, ConsumerQuits, vars, boundVars
<1>4. QED
  BY <1>1, <1>2, <1>3, Alternatives

\* What the consumer passes is stored, unless a statement of it fails.
LEMMA PassedIsKept ==
    ASSUME TypeOK, FlowInv, KnownInv, [Next]_vars, ~Restart,
           NEW r \in Notifications, Ordered(r), Passed(r),
           errors' = errors \/ UNCHANGED pos
    PROVE  Passed(r)'
<1>0. /\ pos \in Nat /\ pos <= Len(log) /\ Len(log) \in Nat
      /\ requests \subseteq requests' /\ (responses[r] # None => responses'[r] # None)
  <2>1. pos \in Nat /\ pos <= Len(log) /\ Len(log) \in Nat
    BY DEF TypeOK
  <2>2. QED
    BY <2>1, LedgerGrows DEF Grows
<1>1. CASE pos' = pos
  <2>1. ASSUME NEW q \in 1..pos, log'[q] = RequestOf(r)' PROVE r \in requests'
    <3>1. log[q] = RequestOf(r)
      BY <1>0, <2>1, StreamGrows DEF RequestOf
    <3>2. QED
      BY <1>0, <3>1 DEF Passed
  <2>2. ASSUME NEW i \in Responses(r)', i <= pos PROVE responses'[r] # None
    <3>1. i \in Responses(r)
      <4>1. i \in Responses(r) \/ i > Len(log)
        BY StreamGrows
      <4>2. i \in Nat
        BY DEF Responses
      <4>3. QED
        BY <1>0, <2>2, <4>1, <4>2
    <3>2. QED
      BY <1>0, <2>2, <3>1 DEF Passed
  <2>3. QED
    BY <1>1, <2>1, <2>2 DEF Passed
<1>2. CASE pos' # pos
  <2>1. Consumer
    <3>1. ASSUME NEW n \in Notifications, Act(n) PROVE FALSE
      BY <1>2, <3>1, ActRest DEF consumerVars
    <3>2. CASE Users \/ Interjects \/ ConsumerQuits \/ UNCHANGED vars
      BY <1>2, <3>2 DEF Users, Answer, Garble, Interjects, Interject, ConsumerQuits,
         vars, consumerVars
    <3>3. QED
      BY <3>1, <3>2, Alternatives
  <2>2. /\ pos + 1 \in 1..Len(log) /\ Store(log[pos + 1]) /\ pos' = pos + 1
        /\ log' = log
    BY <1>2, <2>1, Takes
  <2> DEFINE m == log[pos + 1]
  <2>3. m \in Message /\ errors' = errors
    BY <1>2, <2>2 DEF TypeOK
  <2>4. /\ m.type = "request" => m.of \in requests'
        /\ m.type = "response" /\ m.of \in requests => responses'[m.of] # None
    BY <2>2, <2>3, StoreStatement
  <2>5. ASSUME NEW q \in 1..pos', log[q] = RequestOf(r) PROVE r \in requests'
    <3>1. CASE q = pos + 1
      BY <2>4, <2>5, <3>1 DEF RequestOf
    <3>2. CASE q \in 1..pos
      BY <1>0, <2>5, <3>2 DEF Passed
    <3>3. QED
      BY <1>0, <2>2, <3>1, <3>2
  <2>6. ASSUME NEW i \in Responses(r), i <= pos' PROVE responses'[r] # None
    <3>0. i \in Nat
      BY DEF Responses
    <3>1. CASE i = pos + 1
      <4>1. m.type = "response" /\ m.of = r
        BY <2>6, <3>1 DEF Responses
      <4>2. PICK q \in 1..Len(log) : log[q] = RequestOf(r) /\ q < i
        BY <2>6 DEF Ordered
      <4>3. r \in requests
        BY <1>0, <3>1, <4>2 DEF Passed
      <4>4. QED
        BY <2>4, <4>1, <4>3
    <3>2. CASE i <= pos
      BY <1>0, <2>6, <3>2 DEF Passed
    <3>3. QED
      BY <1>0, <2>2, <2>6, <3>0, <3>1, <3>2
  <2>7. QED
    BY <2>2, <2>5, <2>6 DEF Passed, Responses, RequestOf
<1>3. QED
  BY <1>1, <1>2

\* What a call of the ask tool stores is stored, unless a statement of it fails.
LEMMA ToldIsKept ==
    ASSUME TypeOK, FlowInv, KnownInv, [Next]_vars, ~Restart,
           NEW n \in Notifications, Heeds(n), Told(n),
           errors' = errors \/ UNCHANGED <<step, outcome, heard>>
    PROVE  Told(n)'
<1> SUFFICES ASSUME kind'[n] = "mcp"
             PROVE  /\ step'[n] \in {"recorded", "waiting"} => n \in requests'
                    /\ outcome'[n] = "answered" /\ heard'[n].of = n =>
                          n \in requests' /\ responses'[n] # None
  BY DEF Told
<1>0. /\ kind[n] = "mcp"
      /\ requests \subseteq requests' /\ (responses[n] # None => responses'[n] # None)
  BY LedgerGrows, Alternatives, ActTimes, Bystanders DEF Grows
<1>1. CASE UNCHANGED <<step, outcome, heard>>
  BY <1>0, <1>1 DEF Told
<1>2. CASE errors' = errors /\ McpInsertRequest(n)
  <2>1. step[n] = "requested" /\ step' = [step EXCEPT ![n] = "recorded"] /\ outcome' = outcome
    BY <1>2 DEF McpInsertRequest, To
  <2>2. outcome[n] = "none" /\ errors \in Nat
    BY <2>1 DEF FlowInv, TypeOK
  <2>3. n \in requests'
    BY <1>2, <2>2, RequestStatement DEF McpInsertRequest
  <2>4. QED
    BY <2>1, <2>2, <2>3
<1>3. CASE errors' = errors /\ McpHandleResponse(n)
  <2>1. /\ step[n] = "waiting" /\ heard' = heard /\ step'[n] = "done"
        /\ heard[n] \in Message /\ errors \in Nat
    BY <1>3, Groups DEF McpHandleResponse, End, CmdTypes, MessageTypes, Message, ConsumerTypes
  <2>2. n \in requests /\ n \in requests'
    BY <1>0, <2>1 DEF Told
  <2>3. ASSUME outcome'[n] = "answered", heard[n].of = n PROVE responses'[n] # None
    <3>1. heard[n].type = "response"
      BY <1>3, <2>3, Groups DEF McpHandleResponse, End, CmdTypes
    <3>2. LabelOf[heard[n].pick] \in Answers
      BY <2>1, <3>1, Kinds3, CliAssumption
    <3>3. PICK checked \in BOOLEAN :
              Statement(InsertResponse(n, LabelOf[heard[n].pick], checked))
      BY <1>3, <2>3, <3>1 DEF McpHandleResponse
    <3>4. QED
      BY <1>3, <2>1, <2>2, <3>2, <3>3, ResponseStatement
  <2>4. QED
    BY <2>1, <2>2, <2>3
<1>4. CASE ~McpInsertRequest(n) /\ ~McpHandleResponse(n)
  <2>1. /\ step'[n] \in {"recorded", "waiting"} => step[n] \in {"recorded", "waiting"}
        /\ outcome'[n] = "answered" => outcome[n] = "answered"
    <3>1. ASSUME NEW k \in Notifications, Act(k)
          PROVE  /\ step'[n] \in {"recorded", "waiting"} => step[n] \in {"recorded", "waiting"}
                 /\ outcome'[n] = "answered" => outcome[n] = "answered"
      <4>1. CASE k # n
        BY <3>1, <4>1, Others
      <4>2. CASE k = n
        BY <1>0, <1>4, <3>1, <4>2, Groups DEF CmdTypes, To, End, Act, Command, Listen,
           Open, PublishRequest, ClosePost, Deliver, HandleResponse,
           HandleInterjection, Impatience, SafetyTimer, Waits, McpRequest, McpListen,
           McpTimeout, Interrupt, Kill, Disconnect, FlowInv, StepsOf
      <4>3. QED
        BY <4>1, <4>2
    <3>2. QED
      BY <3>1, Alternatives, Bystanders
  <2>2. outcome[n] = "answered" => heard'[n] = heard[n]
    BY HeardStays DEF Heeds
  <2>3. QED
    BY <1>0, <2>1, <2>2 DEF Told
<1>5. QED
  BY <1>1, <1>2, <1>3, <1>4

LEMMA LedgerIsKept ==
    TypeOK /\ FlowInv /\ KnownInv /\ StreamInv /\ LedgerInv /\ [Next]_vars => LedgerInv'
<1> SUFFICES ASSUME TypeOK, FlowInv, KnownInv, StreamInv, LedgerInv, [Next]_vars,
                    restarts' = 0, NEW n \in Notifications
             PROVE  /\ errors' = 0 => Passed(n)' /\ Told(n)'
                    /\ errors' <= 1 /\ kind'[n] = "mcp" => Passed(n)' \/ Told(n)'
  BY DEF LedgerInv
<1>1. ~Restart /\ errors \in Nat /\ kind' = kind
  <2>1. ~Restart /\ errors \in Nat
    BY DEF Restart, TypeOK
  <2>2. QED
    BY <2>1, Alternatives, ActTimes, Bystanders
<1>2. restarts = 0
  BY <1>1, Alternatives, ActRest, Bystanders
<1>3. /\ Ordered(n) /\ Heeds(n)
      /\ errors = 0 => Passed(n) /\ Told(n)
      /\ errors <= 1 /\ kind[n] = "mcp" => Passed(n) \/ Told(n)
  BY <1>2 DEF StreamInv, LedgerInv
<1>4. CASE errors' = errors
  <2>1. Passed(n) => Passed(n)'
    BY <1>1, <1>3, <1>4, PassedIsKept
  <2>2. Told(n) => Told(n)'
    BY <1>1, <1>3, <1>4, ToldIsKept
  <2>3. QED
    BY <1>1, <1>3, <1>4, <2>1, <2>2
<1>5. CASE errors' = errors + 1 /\ UNCHANGED pos
  <2>1. Passed(n) => Passed(n)'
    BY <1>1, <1>3, <1>5, PassedIsKept
  <2>2. QED
    BY <1>1, <1>3, <1>5, <2>1
<1>6. CASE errors' = errors + 1 /\ UNCHANGED <<step, outcome, heard>>
  <2>1. Told(n) => Told(n)'
    BY <1>1, <1>3, <1>6, ToldIsKept
  <2>2. QED
    BY <1>1, <1>3, <1>6, <2>1
<1>7. QED
  BY <1>1, <1>4, <1>5, <1>6, OneFails

LEMMA LedgerAtFirst == Init => LedgerInv
<1> SUFFICES ASSUME Init, NEW n \in Notifications PROVE Passed(n) /\ Told(n)
  BY DEF LedgerInv
<1>1. log = <<>> /\ pos = 0 /\ step[n] = "new" /\ outcome[n] = "none"
  BY DEF Init
<1>2. Len(log) = 0
  BY <1>1
<1>3. QED
  BY <1>1, <1>2 DEF Passed, Told, Responses

(***************************************************************************)
(* StoryInv.                                                               *)
(***************************************************************************)

\* Where the first response is, when a command could hear it.
LEMMA HeardFirstIs ==
    ASSUME NEW n, NEW r, HeardFirst(n, r)
    PROVE  \E i \in Nat : First(i, r)
BY DEF HeardFirst, First, Responses

\* What the ledger has of a request, and why.
Why(r) ==
    \/ \E i \in Nat : First(i, r) /\ responses[r] = LabelOf[log[i].pick]
    \/ \E n \in ActedFor(r) : ~HeardFirst(n, r)

LEMMA StoryIsKept ==
    TypeOK /\ FlowInv /\ KnownInv /\ StreamInv /\ LedgerInv /\ StoryInv /\ [Next]_vars
        => StoryInv'
<1> SUFFICES ASSUME TypeOK, FlowInv, KnownInv, StreamInv, LedgerInv, StoryInv, [Next]_vars,
                    restarts' = 0, errors' = 0, NEW r \in Notifications,
                    responses'[r] # None
             PROVE  Why(r)'
  BY DEF StoryInv, Why
<1>1. ~Restart
  BY DEF Restart, TypeOK
<1>2. restarts = 0
  BY <1>1, Alternatives, ActRest, Bystanders
<1>3. errors = 0
  BY <1>1, OneFails DEF TypeOK
<1>4. \A n \in Notifications : Ordered(n) /\ Heeds(n) /\ Passed(n) /\ Told(n)
  BY <1>2, <1>3 DEF StreamInv, LedgerInv
<1>5. UNCHANGED flowOf
  BY <1>1, Alternatives, ActTimes, Bystanders
<1>6. CASE responses[r] # None
  <2>1. responses'[r] = responses[r] /\ Why(r)
    BY <1>2, <1>3, <1>6, LedgerGrows DEF Grows, StoryInv, Why
  <2>2. ASSUME NEW i \in Nat, First(i, r), responses[r] = LabelOf[log[i].pick]
        PROVE  Why(r)'
    <3>1. i \in Responses(r)' /\ i \in 1..Len(log)
      BY <1>1, <2>2, StreamGrows DEF First
    <3>2. \A j \in Responses(r)' : i <= j
      <4>1. \A j \in Responses(r)' : (j \in Responses(r) \/ j > Len(log)) /\ j \in Nat
        BY <1>1, StreamGrows DEF Responses
      <4>2. i <= Len(log) /\ Len(log) \in Nat
        BY <1>1, <3>1, StreamGrows
      <4>3. QED
        BY <2>2, <4>1, <4>2 DEF First
    <3>3. log'[i] = log[i]
      BY <1>1, <3>1, StreamGrows
    <3>4. QED
      BY <2>1, <2>2, <3>1, <3>2, <3>3 DEF Why, First
  <2>3. ASSUME NEW n \in ActedFor(r), ~HeardFirst(n, r) PROVE Why(r)'
    <3>1. n \in Notifications /\ outcome[n] = "answered" /\ heard[n].of = r
      BY <2>3 DEF ActedFor
    <3>2. heard[n] # None /\ heard[n].type = "response"
      BY <1>4, <3>1 DEF Heeds
    <3>3. Responses(r) # {} /\ step[n] = "done"
      BY <1>4, <3>1, <3>2 DEF Heeds, FlowInv
    <3>4. heard'[n] = heard[n] /\ start'[n] = start[n]
      BY <1>1, <3>1, <3>2, <3>3, HeardStays, StaysOn
    <3>5. outcome'[n] = outcome[n]
      BY <1>1, <3>1, <3>3, ActSteps, Others, Alternatives, Bystanders
    <3>6. n \in ActedFor(r)'
      BY <3>1, <3>4, <3>5 DEF ActedFor
    <3>7. ~HeardFirst(n, r)'
      <4> SUFFICES ASSUME HeardFirst(n, r)' PROVE FALSE
        OBVIOUS
      <4>1. PICK k \in Responses(r)' :
               /\ \A j \in Responses(r)' : k <= j
               /\ k > start[n] /\ log'[k].flow = flowOf[n]
        BY <1>5, <3>4 DEF HeardFirst
      <4>2. k \in Nat
        BY DEF Responses
      <4>3. First(k, r) /\ log'[k] = log[k]
        BY <1>1, <3>3, <4>1, <4>2, FirstStays DEF First
      <4>4. QED
        BY <2>3, <4>1, <4>3 DEF First, HeardFirst
    <3>8. QED
      BY <3>6, <3>7 DEF Why
  <2>4. QED
    BY <2>1, <2>2, <2>3 DEF Why
<1>7. CASE responses[r] = None
  <2>1. ASSUME Consumer PROVE Why(r)'
    <3>1. PICK i \in 1..Len(log) :
             Store(log[i]) /\ (i = pos + 1 \/ i <= pos)
      BY <2>1, Takes
    <3>2. log[i] \in Message /\ log' = log /\ pos \in Nat
      BY <2>1, Takes DEF TypeOK
    <3>3. /\ log[i].type = "response" /\ log[i].of = r
          /\ responses' = [responses EXCEPT ![r] = LabelOf[log[i].pick]]
      BY <1>7, <3>1, <3>2, StoreStatement, Groups DEF ConsumerTypes, LedgerTypeOK
    <3>4. responses'[r] = LabelOf[log[i].pick] /\ i \in Responses(r)
      BY <3>1, <3>3, Groups DEF Responses, ConsumerTypes, LedgerTypeOK
    <3>5. \A j \in Responses(r) : ~(j <= pos) /\ j \in Nat
      BY <1>4, <1>7 DEF Passed, Responses
    <3>6. \A j \in Responses(r) : i <= j
      BY <3>1, <3>2, <3>4, <3>5
    <3>7. i \in Nat
      BY <3>1
    <3>8. Responses(r)' = Responses(r)
      BY <3>2 DEF Responses
    <3>9. QED
      BY <3>2, <3>4, <3>6, <3>7, <3>8 DEF Why, First
  <2>2. ASSUME NEW n \in Notifications, Act(n) PROVE Why(r)'
    <3>1. McpInsertRequest(n) \/ McpHandleResponse(n)
      BY <1>7, <2>2, ActRest DEF ledgerVars
    <3>2. /\ heard[n] # None /\ heard[n].type = "response" /\ heard[n].of = r
          /\ responses'[r] = LabelOf[heard[n].pick] /\ outcome'[n] = "answered"
      BY <1>7, <3>1, ToolStatement, Groups DEF ConsumerTypes, LedgerTypeOK, CmdTypes
    <3>3. UNCHANGED <<log, heard, start>>
      BY <3>1, <3>2 DEF McpInsertRequest, McpHandleResponse, FlowInv
    <3>4. Right(n, r)
      BY <1>4, <3>2 DEF Heeds
    <3>5. n \in ActedFor(r)'
      BY <3>2, <3>3 DEF ActedFor
    <3>6. CASE HeardFirst(n, r)
      <4>1. PICK i \in Nat : First(i, r)
        BY <3>6, HeardFirstIs
      <4>2. heard[n].pick = log[i].pick
        BY <3>4, <3>6, <4>1 DEF Right
      <4>3. First(i, r)'
        BY <3>3, <4>1 DEF First, Responses
      <4>4. QED
        BY <3>2, <3>3, <4>2, <4>3 DEF Why
    <3>7. CASE ~HeardFirst(n, r)
      <4>1. ~HeardFirst(n, r)'
        BY <1>5, <3>3, <3>7 DEF HeardFirst, Responses
      <4>2. QED
        BY <3>5, <4>1 DEF Why
    <3>8. QED
      BY <3>6, <3>7
  <2>3. CASE Users \/ Interjects \/ ConsumerQuits \/ UNCHANGED vars
    BY <1>7, <2>3 DEF Users, Answer, Garble, Interjects, Interject, ConsumerQuits,
       vars, ledgerVars
  <2>4. QED
    BY <1>1, <2>1, <2>2, <2>3, Alternatives
<1>8. QED
  BY <1>6, <1>7

LEMMA StoryAtFirst == Init => StoryInv
BY DEF Init, LedgerInit, StoryInv

(***************************************************************************)
(* The theorems.                                                           *)
(***************************************************************************)

THEOREM Invariant == Spec => []IInv
<1>1. Init => IInv
  BY TypesAtFirst, FlowAtFirst, KnownAtFirst, TimeAtFirst, StreamAtFirst,
     LedgerAtFirst, StoryAtFirst DEF IInv
<1>2. IInv /\ [Next]_vars => IInv'
  BY TypesAreKept, FlowIsKept, KnownIsKept, TimeIsKept, StreamIsKept, LedgerIsKept,
     StoryIsKept DEF IInv
<1>3. QED
  BY <1>1, <1>2, PTL DEF Spec

\* The types, with the place of the consumer: it is never ahead of the stream.
THEOREM TypeCorrect == Spec => []TypeOK
<1>1. IInv => TypeOK
  BY DEF IInv
<1>2. QED
  BY <1>1, Invariant, PTL

\* A command that has opened a flow also ends it, once, with the status its
\* exit code tells.
THEOREM Ended == Spec => []FlowsAreEnded
<1>1. IInv => FlowsAreEnded
  BY DEF IInv, FlowInv, Tells, Closed, FlowsAreEnded
<1>2. QED
  BY <1>1, Invariant, PTL

\* No message that came in time is in the stream for the flow of a command that
\* timed out, unless its connection broke.
THEOREM Heard == Spec => []InTimeIsHeard
<1>1. IInv => InTimeIsHeard
  BY DEF IInv, TimeInv, InTime, InTimeIsHeard
<1>2. QED
  BY <1>1, Invariant, PTL

\* The decision printed for the hook has the label of the answer.
LEMMA DecisionSays ==
    ASSUME NEW p \in Picks PROVE LabelOf[Decision(LabelOf[p])] = LabelOf[p]
<1>1. CASE p \in {Deny, AllowOnce}
  BY <1>1 DEF Decision
<1>2. CASE p \in Suggestions
  <2>1. LabelOf[matchSuggestion(LabelOf[p])] = LabelOf[p]
    BY <1>2 DEF matchSuggestion
  <2>2. QED
    BY <2>1 DEF Decision
<1>3. QED
  BY <1>1, <1>2 DEF Suggestions

\* When everybody who acted on an answer to a request took the first, the history
\* shows that one, while no statement fails and the daemon is not restarted:
\* whatever was answered on whatever flow, in whatever order it was stored.
THEOREM SameStory == Spec => []OneStory
<1>1. IInv => OneStory
  <2> SUFFICES ASSUME IInv, NEW r \in Notifications, Recorded(r),
                      \A n \in ActedFor(r) : HeardFirst(n, r),
                      NEW n \in ActedFor(r)
               PROVE  ShownAnswer(r) = ActedOn(n)
    BY DEF OneStory
  <2>1. /\ ShownAnswer(r) = responses[r] /\ responses[r] # None
        /\ restarts = 0 /\ errors = 0
    BY DEF Recorded, ShownAnswer
  <2>2. PICK i \in Nat : First(i, r) /\ responses[r] = LabelOf[log[i].pick]
    BY <2>1 DEF IInv, StoryInv
  <2>3. n \in Notifications /\ outcome[n] = "answered" /\ heard[n].of = r
    BY DEF ActedFor
  <2>4. heard[n] # None /\ heard[n].type = "response" /\ Right(n, r)
    BY <2>1, <2>3 DEF IInv, StreamInv, Heeds
  <2>5. heard[n].pick = log[i].pick
    BY <2>2, <2>4 DEF Right
  <2>6. heard[n].pick \in Picks
    <3>1. heard[n] \in Message
      BY <2>3, <2>4 DEF IInv, TypeOK, Message
    <3>2. QED
      BY <2>4, <3>1, Kinds3
  <2>7. QED
    BY <2>1, <2>2, <2>5, <2>6, DecisionSays DEF ActedOn
<1>2. QED
  BY <1>1, Invariant, PTL

\* An answer that a command has acted on is in the history when the consumer has
\* taken the answers to the request it names, unless every path to it lost a
\* statement or the daemon was restarted.
THEOREM NothingUnrecorded == Spec => []AnswersAreKept
<1>1. IInv => AnswersAreKept
  <2> SUFFICES ASSUME IInv, NEW n \in Notifications, outcome[n] = "answered",
                      ~(errors >= Paths(n)), ~(restarts > 0),
                      ~\E i \in Responses(heard[n].of) : i > pos
               PROVE  ShownAnswer(heard[n].of) # None
    BY DEF AnswersAreKept
  <2> DEFINE r == heard[n].of
  <2> HIDE DEF r
  <2>0. /\ errors < Paths(n) /\ restarts = 0 /\ r = heard[n].of
        /\ \A i \in Responses(r) : i <= pos
    <3>1. errors \in Nat /\ restarts \in Nat /\ pos \in Nat /\ Paths(n) \in Nat
      BY DEF IInv, TypeOK, Paths
    <3>2. \A i \in Responses(r) : i \in Nat
      BY DEF Responses
    <3>3. QED
      BY <3>1, <3>2 DEF r
  <2>1. heard[n] # None /\ heard[n].type = "response" /\ r \in Notifications
    <3>1. heard[n] # None /\ heard[n].type = "response"
      BY <2>0 DEF IInv, StreamInv, Heeds
    <3>2. heard[n] \in Message
      BY <3>1 DEF IInv, TypeOK, Message
    <3>3. QED
      BY <2>0, <3>1, <3>2, Kinds3
  <2>2. Responses(r) # {} /\ Ordered(r)
    BY <2>0, <2>1 DEF IInv, StreamInv, Heeds
  <2>3. PICK i \in Responses(r) : i <= pos
    BY <2>0, <2>2
  <2>4. PICK q \in 1..Len(log) : log[q] = RequestOf(r) /\ q < i
    BY <2>2 DEF Ordered
  <2>5. q \in 1..pos
    <3>1. i \in Nat /\ pos \in Nat
      BY DEF IInv, TypeOK, Responses
    <3>2. QED
      BY <2>3, <2>4, <3>1
  <2>6. CASE Passed(r)
    BY <2>0, <2>1, <2>3, <2>4, <2>5, <2>6 DEF Passed, ShownAnswer
  <2>7. CASE kind[n] = "mcp" /\ r = n /\ Told(n)
    BY <2>0, <2>1, <2>7 DEF Told, ShownAnswer
  <2>8. Passed(r) \/ (kind[n] = "mcp" /\ r = n /\ Told(n))
    <3>1. errors \in Nat
      BY DEF IInv, TypeOK
    <3>2. CASE errors = 0
      BY <2>0, <2>1, <3>2 DEF IInv, LedgerInv
    <3>3. CASE errors # 0
      <4>1. kind[n] = "mcp" /\ r = n /\ errors <= 1
        BY <2>0, <3>1, <3>3 DEF Paths
      <4>2. QED
        BY <2>0, <4>1 DEF IInv, LedgerInv
    <3>4. QED
      BY <3>2, <3>3
  <2>9. QED
    BY <2>0, <2>6, <2>7, <2>8
<1>2. QED
  BY <1>1, Invariant, PTL

=============================================================================
