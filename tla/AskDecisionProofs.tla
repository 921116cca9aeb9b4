------------------------- MODULE AskDecisionProofs --------------------------
(***************************************************************************)
(* Proofs about AskDecision, for any sets of asks, flows, waiters and      *)
(* choices and any bounds.                                                 *)
(***************************************************************************)
EXTENDS AskDecision, TLAPS

-----------------------------------------------------------------------------
(* Type correctness.                                                       *)

\* A message is an answer or a timeout, and no answer is Open or Blank.
LEMMA MessageType ==
    /\ Message = Response \cup Timeout
    /\ [code |-> "timeout"] \in Timeout
    /\ \A a \in Asks, c \in Choices : [ask |-> a, choice |-> c] \in Response
    /\ \A m \in Response : m.ask \in Asks /\ m # Blank /\ m # Open
BY AskAssumption DEF Message, Response, Timeout

\* Both ways to settle a decision keep the type of the store.
LEMMA SettleType ==
    ASSUME TypeOK, NEW a \in Asks,
           (\E v \in Response : Resolve(a, v)) \/ ResolveTimeout(a)
    PROVE  /\ verdict' \in [Asks -> Response \cup {Blank, Open}]
           /\ crashed' \in BOOLEAN
BY DEF TypeOK, Resolve, ResolveTimeout, Decided

\* Deliveries put messages into inboxes.
LEMMA DeliverType ==
    ASSUME TypeOK, NEW f \in Flows, NEW m \in Message, Deliver(f, m)
    PROVE  inbox' \in [Asks -> SUBSET Message]
BY DEF TypeOK, Deliver

\* The steps of the ask tool keep the types.
LEMMA HandleAskType ==
    ASSUME TypeOK, NEW a \in Asks, HandleAsk(a)
    PROVE  TypeOK'
<1> USE DEF TypeOK, decisionVars, subVars, stopVars, waitVars
<1>1. CASE Publish(a)
  BY <1>1 DEF Publish, AskSteps
<1>2. CASE Register(a)
  BY <1>2 DEF Register, AskSteps
<1>3. CASE StartSubscriber(a)
  BY <1>3 DEF StartSubscriber, AskSteps, SubStates
<1>4. CASE StartTimer(a)
  BY <1>4 DEF StartTimer, AskSteps, TimerStates
<1> QED
  BY <1>1, <1>2, <1>3, <1>4 DEF HandleAsk

\* What a subscriber does with the message it takes: an answer resolves its
\* ask, a timeout resolves it without one.
LEMMA HandledMessage ==
    ASSUME TypeOK, NEW a \in Asks, HandleResponse(a)
    PROVE  \E m \in inbox[a] : \/ m \in Response /\ Resolve(a, m)
                               \/ m \in Timeout /\ ResolveTimeout(a)
BY MessageType DEF HandleResponse, TypeOK

\* The steps of a subscriber keep the types.
LEMMA SubscriberType ==
    ASSUME TypeOK, NEW a \in Asks, Subscriber(a)
    PROVE  TypeOK'
<1> USE DEF TypeOK, decisionVars, subVars, stopVars, waitVars
<1>1. CASE Subscribe(a)
  BY <1>1 DEF Subscribe, SubStates, NoFault, Fault
<1>2. CASE HandleResponse(a)
  <2>1. /\ verdict' \in [Asks -> Response \cup {Blank, Open}]
        /\ crashed' \in BOOLEAN
    BY <1>2, HandledMessage, SettleType
  <2> QED
    BY <1>2, <2>1 DEF HandleResponse, SubStates
<1>3. CASE GiveUpListening(a)
  BY <1>3 DEF GiveUpListening, SubStates, NoFault, Fault
<1> QED
  BY <1>1, <1>2, <1>3 DEF Subscriber

\* The steps of a timer keep the types.
LEMMA TimerType ==
    ASSUME TypeOK, NEW a \in Asks, Timer(a)
    PROVE  TypeOK'
<1> USE DEF TypeOK, decisionVars, subVars, stopVars, waitVars
<1>1. CASE Expire(a)
  BY <1>1 DEF Expire, TimerStates
<1>2. CASE CancelTimer(a)
  BY <1>2 DEF CancelTimer, TimerStates
<1>3. CASE PublishTimeout(a)
  <2>1. flowOf[a] \in Flows /\ [code |-> "timeout"] \in Message
    BY MessageType
  <2>2. inbox' \in [Asks -> SUBSET Message] /\ faults' \in Nat
    BY <1>3, <2>1, DeliverType DEF PublishTimeout, NoFault, Fault
  <2> QED
    BY <1>3, <2>2 DEF PublishTimeout, TimerStates
<1>4. CASE PublishFailed(a)
  BY <1>4 DEF PublishFailed, TimerStates
<1> QED
  BY <1>1, <1>2, <1>3, <1>4 DEF Timer

\* The steps of a stop keep the types.
LEMMA StopType ==
    ASSUME TypeOK, Stop
    PROVE  TypeOK'
<1> USE DEF TypeOK, decisionVars, subVars, stopVars, waitVars
<1>1. ASSUME NEW f \in Flows, CollectPending(f)
      PROVE  TypeOK'
  BY <1>1 DEF CollectPending
<1>2. ASSUME NEW a \in Asks, ResolveCollected(a)
      PROVE  TypeOK'
  <2>1. /\ verdict' \in [Asks -> Response \cup {Blank, Open}]
        /\ crashed' \in BOOLEAN
    BY <1>2, SettleType DEF ResolveCollected
  <2> QED
    BY <1>2, <2>1 DEF ResolveCollected
<1>3. CASE EndStop
  BY <1>3 DEF EndStop
<1> QED
  BY <1>1, <1>2, <1>3 DEF Stop

\* The steps of the waiting calls keep the types.
LEMMA WaiterType ==
    ASSUME TypeOK, NEW w \in Waiters,
           (\E a \in Asks : Await(w, a)) \/ Wake(w) \/ AwaitTimeout(w)
    PROVE  TypeOK'
<1> USE DEF TypeOK, decisionVars, subVars, stopVars, waitVars
<1>1. ASSUME NEW a \in Asks, Await(w, a)
      PROVE  TypeOK'
  BY <1>1 DEF Await
<1>2. CASE Wake(w)
  BY <1>2 DEF Wake
<1>3. CASE AwaitTimeout(w)
  BY <1>3 DEF AwaitTimeout
<1> QED
  BY <1>1, <1>2, <1>3

\* The steps of users and of a shutdown keep the types.
LEMMA EnvironmentType ==
    ASSUME TypeOK,
           (\E a \in Asks, f \in Flows, c \in Choices : Answer(a, f, c)) \/ Shutdown
    PROVE  TypeOK'
<1> USE DEF TypeOK, decisionVars, subVars, stopVars, waitVars
<1>1. ASSUME NEW a \in Asks, NEW f \in Flows, NEW c \in Choices,
             Answer(a, f, c)
      PROVE  TypeOK'
  <2>1. [ask |-> a, choice |-> c] \in Message
    BY MessageType
  <2>2. inbox' \in [Asks -> SUBSET Message]
    BY <1>1, <2>1, DeliverType DEF Answer
  <2> QED
    BY <1>1, <2>2 DEF Answer
<1>2. CASE Shutdown
  BY <1>2 DEF Shutdown
<1> QED
  BY <1>1, <1>2

\* The steps of Next, by group.
LEMMA Steps ==
    ASSUME Next
    PROVE  \/ \E a \in Asks : HandleAsk(a) \/ Subscriber(a) \/ Timer(a)
           \/ Stop
           \/ \E w \in Waiters :
                  (\E a \in Asks : Await(w, a)) \/ Wake(w) \/ AwaitTimeout(w)
           \/ (\E a \in Asks, f \in Flows, c \in Choices : Answer(a, f, c)) \/ Shutdown
BY DEF Next

LEMMA InitType == Init => TypeOK
<1> SUFFICES ASSUME Init PROVE TypeOK
  OBVIOUS
<1> USE DEF Init
<1>1. /\ ask \in [Asks -> AskSteps]
      /\ sub \in [Asks -> SubStates]
      /\ timer \in [Asks -> TimerStates]
  BY DEF AskSteps, SubStates, TimerStates
<1>2. /\ verdict \in [Asks -> Response \cup {Blank, Open}]
      /\ got \in [Waiters -> Response \cup {Blank, Open}]
      /\ inbox \in [Asks -> SUBSET Message]
      /\ waitsFor \in [Waiters -> SUBSET Asks]
  OBVIOUS
<1>3. /\ flowOf \in [Asks -> Flows]
      /\ cancelled \subseteq Asks /\ collected \subseteq Asks
      /\ stopping \subseteq Flows
  OBVIOUS
<1>4. /\ answers \in Nat /\ stops \in Nat /\ faults \in Nat /\ shutdowns \in Nat
      /\ crashed \in BOOLEAN
  OBVIOUS
<1> QED
  BY <1>1, <1>2, <1>3, <1>4 DEF TypeOK

LEMMA NextType == TypeOK /\ [Next]_vars => TypeOK'
<1> SUFFICES ASSUME TypeOK, [Next]_vars PROVE TypeOK'
  OBVIOUS
<1>1. CASE Next
  BY <1>1, Steps, HandleAskType, SubscriberType, TimerType, StopType,
     WaiterType, EnvironmentType
<1>2. CASE UNCHANGED vars
  BY <1>2 DEF vars, TypeOK, decisionVars, subVars, stopVars, waitVars
<1> QED
  BY <1>1, <1>2

\* Every reachable state has its type.
THEOREM TypeCorrect == Spec => []TypeOK
BY InitType, NextType, PTL DEF Spec

-----------------------------------------------------------------------------
(* Without a stop nothing is resolved twice.                               *)

\* As long as there was no stop, a decided ask has been decided by its own
\* subscriber, which is done with it and handles no second message; and a
\* subscriber is started once.
SettledOnceInv ==
    /\ \A a \in Asks :
          ask[a] \in {"new", "published", "registered", "refused"} =>
              sub[a] = "none"
    /\ stops = 0 => collected = {} /\ \A a \in Asks : Decided(a) => sub[a] = "done"
    /\ OnlyStopsCrash

LEMMA SettledOnceInit == Init => SettledOnceInv
BY DEF Init, SettledOnceInv, OnlyStopsCrash, Decided

LEMMA SettledOnceStep == TypeOK /\ SettledOnceInv /\ [Next]_vars => SettledOnceInv'
<1> SUFFICES ASSUME TypeOK, SettledOnceInv, [Next]_vars PROVE SettledOnceInv'
  OBVIOUS
<1> USE DEF decisionVars, subVars, stopVars, waitVars
<1>1. ASSUME UNCHANGED <<ask, sub, verdict, collected, stops, crashed>>
      PROVE  SettledOnceInv'
  BY <1>1 DEF SettledOnceInv, OnlyStopsCrash, Decided
<1>2. ASSUME NEW a \in Asks, HandleAsk(a)
      PROVE  SettledOnceInv'
  <2>1. CASE Publish(a)
    BY <2>1 DEF Publish, SettledOnceInv, OnlyStopsCrash, Decided, TypeOK
  <2>2. CASE Register(a)
    BY <2>2 DEF Register, SettledOnceInv, OnlyStopsCrash, Decided, TypeOK
  <2>3. CASE StartSubscriber(a)
    BY <2>3 DEF StartSubscriber, SettledOnceInv, OnlyStopsCrash, Decided, TypeOK
  <2>4. CASE StartTimer(a)
    BY <2>4 DEF StartTimer, SettledOnceInv, OnlyStopsCrash, Decided, TypeOK
  <2> QED
    BY <1>2, <2>1, <2>2, <2>3, <2>4 DEF HandleAsk
<1>3. ASSUME NEW a \in Asks, Subscriber(a)
      PROVE  SettledOnceInv'
  <2>1. CASE Subscribe(a)
    BY <2>1 DEF Subscribe, SettledOnceInv, OnlyStopsCrash, Decided, TypeOK
  <2>2. CASE HandleResponse(a)
    <3>1. /\ UNCHANGED <<ask, collected, stops>>
          /\ sub[a] = "listening"
          /\ sub' = [sub EXCEPT ![a] = "done"]
      BY <2>2 DEF HandleResponse
    <3>2. /\ crashed' = Decided(a)
          /\ \A b \in Asks \ {a} : verdict'[b] = verdict[b]
      BY <2>2, HandledMessage DEF Resolve, ResolveTimeout, TypeOK
    <3> QED
      BY <3>1, <3>2 DEF SettledOnceInv, OnlyStopsCrash, Decided, TypeOK
  <2>3. CASE GiveUpListening(a)
    BY <2>3 DEF GiveUpListening, SettledOnceInv, OnlyStopsCrash, Decided, TypeOK
  <2> QED
    BY <1>3, <2>1, <2>2, <2>3 DEF Subscriber
<1>4. ASSUME NEW a \in Asks, Timer(a)
      PROVE  SettledOnceInv'
  BY <1>1, <1>4 DEF Timer, Expire, CancelTimer, PublishTimeout, PublishFailed
<1>5. CASE Stop
  <2>1. ASSUME NEW f \in Flows, CollectPending(f)
        PROVE  SettledOnceInv'
    BY <2>1 DEF CollectPending, SettledOnceInv, OnlyStopsCrash, TypeOK
  <2>2. ASSUME NEW a \in Asks, ResolveCollected(a)
        PROVE  SettledOnceInv'
    BY <2>2 DEF ResolveCollected, SettledOnceInv, OnlyStopsCrash, TypeOK
  <2>3. CASE EndStop
    BY <1>1, <2>3 DEF EndStop
  <2> QED
    BY <1>5, <2>1, <2>2, <2>3 DEF Stop
<1>6. ASSUME NEW w \in Waiters,
             (\E a \in Asks : Await(w, a)) \/ Wake(w) \/ AwaitTimeout(w)
      PROVE  SettledOnceInv'
  BY <1>1, <1>6 DEF Await, Wake, AwaitTimeout
<1>7. CASE (\E a \in Asks, f \in Flows, c \in Choices : Answer(a, f, c)) \/ Shutdown
  BY <1>1, <1>7 DEF Answer, Shutdown
<1>8. CASE UNCHANGED vars
  BY <1>1, <1>8 DEF vars
<1> QED
  BY <1>2, <1>3, <1>4, <1>5, <1>6, <1>7, <1>8, Steps

\* The only second close of a decision's channel is the work of a stop: the
\* timer, the subscriber and any number of answers never collide.
THEOREM CrashesNeedStops == Spec => []OnlyStopsCrash
<1>1. SettledOnceInv => OnlyStopsCrash
  BY DEF SettledOnceInv
<1> QED
  BY <1>1, InitType, NextType, SettledOnceInit, SettledOnceStep, PTL DEF Spec

-----------------------------------------------------------------------------
(* The refinement.                                                         *)

LEMMA PromiseInit == Init => Promise!Init
BY DEF Init, Promise!Init

\* A resolution settles the promise, or takes the daemon down.
LEMMA ResolutionPromise ==
    ASSUME TypeOK, ~crashed, NEW a \in Asks, UNCHANGED waitVars,
           (\E v \in Response : Resolve(a, v)) \/ ResolveTimeout(a)
    PROVE  Promise!Next
<1>1. CASE Decided(a)
  <2>1. crashed' = TRUE
    BY <1>1 DEF Resolve, ResolveTimeout
  <2>2. verdict' \in [Asks -> Promise!Verdicts \cup {Open}]
    BY SettleType DEF Promise!Verdicts
  <2> QED
    BY <2>1, <2>2 DEF Promise!Next, Promise!GoDown, waitVars
<1>2. CASE ~Decided(a)
  <2>1. PICK v \in Promise!Verdicts : verdict' = [verdict EXCEPT ![a] = v]
    BY <1>2 DEF Resolve, ResolveTimeout, Promise!Verdicts
  <2>2. crashed' = FALSE
    BY <1>2 DEF Resolve, ResolveTimeout
  <2>3. crashed = FALSE
    BY DEF TypeOK
  <2>4. Promise!Settle(a, v)
    BY <1>2, <2>1, <2>2, <2>3 DEF Promise!Settle, Decided, waitVars
  <2> QED
    BY <2>4 DEF Promise!Next
<1> QED
  BY <1>1, <1>2

\* Every step of the daemon and of its users is a step of the promise, or
\* changes nothing it speaks of.
LEMMA PromiseStep == TypeOK /\ [Next]_vars => [Promise!Next]_(Promise!vars)
<1> SUFFICES ASSUME TypeOK, [Next]_vars PROVE Promise!Next \/ UNCHANGED Promise!vars
  OBVIOUS
<1> USE DEF decisionVars, subVars, stopVars, waitVars
<1>1. ASSUME UNCHANGED <<verdict, waitsFor, got, crashed>>
      PROVE  UNCHANGED Promise!vars
  BY <1>1 DEF Promise!vars
<1>2. CASE Next
  <2>1. ~crashed
    BY <1>2 DEF Next
  <2>2. ASSUME NEW a \in Asks, HandleAsk(a) \/ Timer(a)
        PROVE  UNCHANGED Promise!vars
    BY <1>1, <2>2 DEF HandleAsk, Publish, Register, StartSubscriber, StartTimer,
       Timer, Expire, CancelTimer, PublishTimeout, PublishFailed
  <2>3. ASSUME NEW a \in Asks, Subscriber(a)
        PROVE  Promise!Next \/ UNCHANGED Promise!vars
    <3>1. CASE HandleResponse(a)
      <4>1. UNCHANGED waitVars
        BY <3>1 DEF HandleResponse
      <4> QED
        BY <2>1, <3>1, <4>1, HandledMessage, ResolutionPromise
    <3>2. CASE Subscribe(a) \/ GiveUpListening(a)
      BY <1>1, <3>2 DEF Subscribe, GiveUpListening
    <3> QED
      BY <2>3, <3>1, <3>2 DEF Subscriber
  <2>4. CASE Stop
    <3>1. ASSUME NEW a \in Asks, ResolveCollected(a)
          PROVE  Promise!Next
      BY <2>1, <3>1, ResolutionPromise DEF ResolveCollected
    <3> QED
      BY <1>1, <2>4, <3>1 DEF Stop, CollectPending, EndStop
  <2>5. ASSUME NEW w \in Waiters, NEW a \in Asks, Await(w, a)
        PROVE  Promise!Next
    <3>1. Promise!Await(w, a)
      BY <2>1, <2>5 DEF Await, Promise!Await
    <3> QED
      BY <3>1 DEF Promise!Next
  <2>6. ASSUME NEW w \in Waiters, Wake(w)
        PROVE  Promise!Next
    <3>1. Promise!Take(w)
      BY <2>1, <2>6 DEF Wake, Waiting, Decided, Promise!Take
    <3> QED
      BY <3>1 DEF Promise!Next
  <2>7. ASSUME NEW w \in Waiters, AwaitTimeout(w)
        PROVE  Promise!Next
    <3>1. Promise!GiveUp(w)
      BY <2>1, <2>7 DEF AwaitTimeout, Waiting, Promise!GiveUp
    <3> QED
      BY <3>1 DEF Promise!Next
  <2>8. CASE (\E a \in Asks, f \in Flows, c \in Choices : Answer(a, f, c)) \/ Shutdown
    BY <1>1, <2>8 DEF Answer, Shutdown
  <2> QED
    BY <1>2, <2>2, <2>3, <2>4, <2>5, <2>6, <2>7, <2>8, Steps
<1>3. CASE UNCHANGED vars
  BY <1>1, <1>3 DEF vars
<1> QED
  BY <1>2, <1>3

\* The store, the subscribers, the timers, the stops and the waiting calls
\* together implement DecisionPromise.
THEOREM PromiseKept == Spec => KeepsPromise
BY InitType, NextType, PromiseInit, PromiseStep, PTL
   DEF Spec, KeepsPromise, Promise!Spec

-----------------------------------------------------------------------------
(* What the promise gives an agent.  It follows from the promise alone, so *)
(* it is shown of DecisionPromise and holds here because that is kept.     *)

\* What was taken is what the ask was settled with; got[w] is set with
\* waitsFor[w].
PromiseInv ==
    /\ verdict \in [Asks -> Response \cup {Blank, Open}]
    /\ got \in [Waiters -> Response \cup {Blank, Open}]
    /\ waitsFor \in [Waiters -> SUBSET Asks]
    /\ \A w \in Waiters : waitsFor[w] = {} => got[w] = Open
    /\ AgentsAgree

LEMMA PromiseInvInit == Promise!Init => PromiseInv
BY MessageType DEF Promise!Init, PromiseInv, AgentsAgree

LEMMA PromiseInvStep == PromiseInv /\ [Promise!Next]_(Promise!vars) => PromiseInv'
<1> SUFFICES ASSUME PromiseInv, [Promise!Next]_(Promise!vars) PROVE PromiseInv'
  OBVIOUS
<1> USE MessageType DEF PromiseInv, AgentsAgree
<1>1. ASSUME NEW a \in Asks, NEW v \in Promise!Verdicts, Promise!Settle(a, v)
      PROVE  PromiseInv'
  BY <1>1 DEF Promise!Settle, Promise!Verdicts
<1>2. ASSUME NEW w \in Waiters, NEW a \in Asks, Promise!Await(w, a)
      PROVE  PromiseInv'
  BY <1>2 DEF Promise!Await
<1>3. ASSUME NEW w \in Waiters, Promise!Take(w)
      PROVE  PromiseInv'
  BY <1>3 DEF Promise!Take
<1>4. ASSUME NEW w \in Waiters, Promise!GiveUp(w)
      PROVE  PromiseInv'
  BY <1>4 DEF Promise!GiveUp
<1>5. CASE Promise!GoDown
  BY <1>5 DEF Promise!GoDown, Promise!Verdicts
<1>6. CASE UNCHANGED Promise!vars
  BY <1>6 DEF Promise!vars
<1> QED
  BY <1>1, <1>2, <1>3, <1>4, <1>5, <1>6 DEF Promise!Next

\* Whoever keeps the promise tells every agent that waits for an ask the same.
LEMMA PromiseMeans == Promise!Spec => []AgentsAgree
<1>1. PromiseInv => AgentsAgree
  BY DEF PromiseInv
<1> QED
  BY <1>1, PromiseInvInit, PromiseInvStep, PTL DEF Promise!Spec

\* The answer an agent was given is the one that settled its ask and the one
\* every other agent gets, until the daemon goes down.
THEOREM AnswersAgree == Spec => []AgentsAgree
BY PromiseKept, PromiseMeans, PTL DEF KeepsPromise

-----------------------------------------------------------------------------
(* While nothing fails, a decision that is not made is due.                *)

\* Where an ask is, its subscriber and its timer are.
Stages ==
    \A a \in Asks :
        /\ sub[a] = "none" <=> ask[a] \notin {"subscribed", "returned"}
        /\ timer[a] = "none" <=> ask[a] # "returned"

\* A subscriber keeps a message until it handles it, which decides its ask.
NothingMissed ==
    /\ cancelled = {}
    /\ \A a \in Asks :
          /\ inbox[a] # {} => sub[a] = "listening"
          /\ sub[a] = "done" => Decided(a)

\* A timer that is over has decided its ask, or its message is there.
TimersAct ==
    \A a \in Asks \ Impatient :
        /\ timer[a] = "expired" => sub[a] # "starting"
        /\ timer[a] = "cancelled" => Decided(a)
        /\ timer[a] \in {"responded", "failed"} => Decided(a) \/ inbox[a] # {}

Quiet == faults = 0 /\ shutdowns = 0

DueInv == Stages /\ (Quiet => NothingMissed /\ TimersAct)

LEMMA DueInit == Init => DueInv
BY DEF Init, DueInv, Stages, NothingMissed, TimersAct

\* A message to a flow fills the inboxes of those of its subscribers that
\* listen, and empties none.
LEMMA DeliverFills ==
    ASSUME TypeOK, NEW f, NEW m, Deliver(f, m)
    PROVE  /\ \A a \in Asks : inbox[a] # {} => inbox'[a] # {}
           /\ \A a \in Asks : inbox'[a] # {} => inbox[a] # {} \/ sub[a] = "listening"
           /\ \A a \in Asks : flowOf[a] = f /\ sub[a] = "listening" => inbox'[a] # {}
BY DEF Deliver, TypeOK

\* The steps of the other components undo nothing of this.
LEMMA DueElsewhere ==
    ASSUME TypeOK, DueInv, UNCHANGED <<ask, sub, timer, cancelled>>, Quiet' => Quiet,
           \A a \in Asks : Decided(a) => Decided(a)',
           \A a \in Asks : inbox[a] # {} => inbox'[a] # {},
           \A a \in Asks : inbox'[a] # {} => inbox[a] # {} \/ sub[a] = "listening"
    PROVE  DueInv'
BY DEF DueInv, Stages, NothingMissed, TimersAct

LEMMA HandleAskDue ==
    ASSUME TypeOK, DueInv, NEW a \in Asks, HandleAsk(a)
    PROVE  DueInv'
<1> USE DEF DueInv, Stages, NothingMissed, TimersAct, Quiet, Decided, TypeOK,
            decisionVars, subVars
<1>1. CASE Publish(a)
  BY <1>1 DEF Publish
<1>2. CASE Register(a)
  BY <1>2 DEF Register
<1>3. CASE StartSubscriber(a)
  BY <1>3 DEF StartSubscriber
<1>4. CASE StartTimer(a)
  BY <1>4 DEF StartTimer
<1> QED
  BY <1>1, <1>2, <1>3, <1>4 DEF HandleAsk

LEMMA SubscriberDue ==
    ASSUME TypeOK, DueInv, NEW a \in Asks, Subscriber(a)
    PROVE  DueInv'
<1> USE DEF DueInv, Stages, Quiet, NoFault, Fault
<1>1. CASE Subscribe(a)
  BY <1>1 DEF Subscribe, NothingMissed, TimersAct, Decided, TypeOK, decisionVars
<1>2. CASE HandleResponse(a)
  <2>1. /\ UNCHANGED <<ask, cancelled, timer, faults, shutdowns>>
        /\ sub[a] = "listening" /\ sub' = [sub EXCEPT ![a] = "done"]
        /\ inbox' = [inbox EXCEPT ![a] = {}]
    BY <1>2 DEF HandleResponse
  <2>2. Decided(a)' /\ \A b \in Asks : Decided(b) => Decided(b)'
    BY <1>2, HandledMessage, MessageType, AskAssumption
       DEF Resolve, ResolveTimeout, Decided, TypeOK
  <2>3. Stages'
    BY <2>1 DEF TypeOK
  <2>4. NothingMissed => NothingMissed'
    BY <2>1, <2>2 DEF NothingMissed, TypeOK
  <2>5. TimersAct => TimersAct'
    BY <2>1, <2>2 DEF TimersAct, TypeOK
  <2> QED
    BY <2>1, <2>3, <2>4, <2>5
<1>3. CASE GiveUpListening(a)
  <2>1. ~Quiet'
    BY <1>3 DEF GiveUpListening, NothingMissed, TypeOK
  <2>2. Stages'
    BY <1>3 DEF GiveUpListening, TypeOK
  <2> QED
    BY <2>1, <2>2
<1> QED
  BY <1>1, <1>2, <1>3 DEF Subscriber

LEMMA TimerDue ==
    ASSUME TypeOK, DueInv, NEW a \in Asks, Timer(a)
    PROVE  DueInv'
<1> USE DEF DueInv, Stages, Quiet, NoFault, Fault, decisionVars, subVars
<1>1. CASE Expire(a)
  BY <1>1 DEF Expire, NothingMissed, TimersAct, Decided, TypeOK
<1>2. CASE CancelTimer(a)
  BY <1>2 DEF CancelTimer, NothingMissed, TimersAct, Decided, TypeOK
<1>3. CASE PublishTimeout(a)
  <2>1. /\ UNCHANGED <<ask, sub, cancelled, verdict, shutdowns>>
        /\ timer[a] = "expired" /\ timer' = [timer EXCEPT ![a] = "responded"]
    BY <1>3 DEF PublishTimeout
  <2>2. Stages'
    BY <2>1 DEF TypeOK
  <2>3. CASE Deliver(flowOf[a], [code |-> "timeout"]) /\ faults' = faults
    <3>1. /\ \A b \in Asks : inbox[b] # {} => inbox'[b] # {}
          /\ \A b \in Asks : inbox'[b] # {} => inbox[b] # {} \/ sub[b] = "listening"
          /\ sub[a] = "listening" => inbox'[a] # {}
      BY <2>3, DeliverFills
    <3>2. NothingMissed => NothingMissed'
      BY <2>1, <3>1 DEF NothingMissed, Decided
    <3>3. a \in Asks \ Impatient /\ NothingMissed /\ TimersAct => Decided(a) \/ inbox'[a] # {}
      BY <2>1, <3>1 DEF NothingMissed, TimersAct, TypeOK, SubStates
    <3>4. NothingMissed /\ TimersAct => TimersAct'
      BY <2>1, <3>1, <3>3 DEF TimersAct, Decided, TypeOK
    <3> QED
      BY <2>1, <2>2, <2>3, <3>2, <3>4
  <2>4. CASE Fault
    BY <2>2, <2>4 DEF TypeOK
  <2> QED
    BY <1>3, <2>3, <2>4 DEF PublishTimeout
<1>4. CASE PublishFailed(a)
  BY <1>4 DEF PublishFailed, NothingMissed, TimersAct, Decided, TypeOK
<1> QED
  BY <1>1, <1>2, <1>3, <1>4 DEF Timer

LEMMA DueStep == TypeOK /\ DueInv /\ [Next]_vars => DueInv'
<1> SUFFICES ASSUME TypeOK, DueInv, [Next]_vars PROVE DueInv'
  OBVIOUS
<1> USE DEF decisionVars, subVars, stopVars, waitVars
<1>1. ASSUME UNCHANGED <<ask, sub, timer, cancelled, inbox, verdict, faults, shutdowns>>
      PROVE  DueInv'
  BY <1>1, DueElsewhere DEF Decided, Quiet
<1>2. CASE Stop
  <2>1. ASSUME NEW a \in Asks, ResolveCollected(a)
        PROVE  DueInv'
    <3>1. \A b \in Asks : Decided(b) => Decided(b)'
      BY <2>1, AskAssumption DEF ResolveCollected, ResolveTimeout, Decided, TypeOK
    <3>2. UNCHANGED <<ask, sub, timer, cancelled, inbox, faults, shutdowns>>
      BY <2>1 DEF ResolveCollected
    <3> QED
      BY <3>1, <3>2, DueElsewhere DEF Quiet
  <2> QED
    BY <1>1, <1>2, <2>1 DEF Stop, CollectPending, EndStop
<1>3. ASSUME NEW w \in Waiters,
             (\E a \in Asks : Await(w, a)) \/ Wake(w) \/ AwaitTimeout(w)
      PROVE  DueInv'
  BY <1>1, <1>3 DEF Await, Wake, AwaitTimeout
<1>4. ASSUME NEW a \in Asks, NEW f \in Flows, NEW c \in Choices,
             Answer(a, f, c)
      PROVE  DueInv'
  <2>1. /\ UNCHANGED <<ask, sub, timer, cancelled, verdict, faults, shutdowns>>
        /\ Deliver(f, [ask |-> a, choice |-> c])
    BY <1>4 DEF Answer
  <2>2. /\ \A b \in Asks : inbox[b] # {} => inbox'[b] # {}
        /\ \A b \in Asks : inbox'[b] # {} => inbox[b] # {} \/ sub[b] = "listening"
    BY <2>1, DeliverFills
  <2> QED
    BY <2>1, <2>2, DueElsewhere DEF Quiet, Decided
<1>5. CASE Shutdown
  BY <1>5 DEF Shutdown, DueInv, Stages, Quiet, TypeOK
<1>6. CASE UNCHANGED vars
  BY <1>1, <1>6 DEF vars
<1> HIDE DEF decisionVars, subVars, stopVars, waitVars
<1> QED
  BY <1>2, <1>3, <1>4, <1>5, <1>6, HandleAskDue, SubscriberDue, TimerDue, Steps

\* While nothing fails, whatever will decide an ask that has returned is on its
\* way: neither the timer's message nor another is lost between the two.
THEOREM DecisionsAreDue == Spec => []DecisionIsDue
<1>1. TypeOK /\ DueInv => DecisionIsDue
  <2> SUFFICES ASSUME TypeOK, DueInv, Quiet, NEW a \in Asks \ Impatient,
                      ask[a] = "returned", ~Decided(a)
               PROVE  \/ timer[a] = "armed"
                      \/ sub[a] = "listening" /\ (timer[a] = "expired" \/ inbox[a] # {})
    BY DEF DecisionIsDue, Quiet
  <2>1. timer[a] \in {"armed", "expired", "responded", "failed"}
    BY DEF TypeOK, TimerStates, DueInv, Stages, TimersAct
  <2>2. sub[a] \in {"starting", "listening"}
    BY DEF TypeOK, SubStates, DueInv, Stages, NothingMissed
  <2> QED
    BY <2>1, <2>2 DEF DueInv, NothingMissed, TimersAct
<1> QED
  BY <1>1, InitType, NextType, DueInit, DueStep, PTL DEF Spec

=============================================================================
