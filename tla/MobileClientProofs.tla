------------------------- MODULE MobileClientProofs -------------------------
(***************************************************************************)
(* MobileClient: types, and the two safety properties of what the user     *)
(* sees, for any number of notifications and service instances.            *)
(***************************************************************************)
EXTENDS MobileClient, TLAPS

(***************************************************************************)
(* TypeOK says that the consumer is bound to an instance that was created  *)
(* and that no message is delivered more than MaxDeliver times.  The first *)
(* rests on the jobs of instances to come, the second on the server, which *)
(* does not leave a message pending that has had its deliveries.           *)
(***************************************************************************)

NotYetCreated ==
    /\ \A k \in Services : k > created => job[k] = "off"
    /\ alive => created > 0

DeliveriesLeft ==
    \A n \in Notifications :
      consumer[n] \in {"unsent", "pending"} => deliveries[n] < MaxDeliver

IInv == TypeOK /\ NotYetCreated /\ DeliveriesLeft

LEMMA InitTypes == Init => IInv
<1> SUFFICES ASSUME Init PROVE IInv
  OBVIOUS
<1> USE MobileAssumption DEF Init
<1>1. /\ job \in [Services -> {"off", "dial", "bind", "watch", "wait", "over"}]
      /\ link \in [Services -> {"down", "up", "broken", "closing"}]
      /\ buffer \in [Services -> SUBSET Notifications]
      /\ hand \in [Services -> Notifications \cup {None}]
      /\ rendered \in [Services -> SUBSET Notifications]
      /\ publishing \in [Services -> SUBSET Notifications]
  OBVIOUS
<1>2. /\ consumer \in [Notifications ->
                          {"unsent", "pending", "sent", "acked", "dropped"}]
      /\ deliveries \in [Notifications -> 0 .. MaxDeliver]
      /\ drawn \in [Services -> [Notifications -> Nat]]
  OBVIOUS
<1>3. created \in 0 .. MaxServices /\ bound \in 0 .. created \cup {Gone}
  OBVIOUS
<1>31. handled \in SUBSET {k \in pump : hand[k] # None} /\ pump \in SUBSET Services
  OBVIOUS
<1>32. \A s \in {shown, opened, answered, swiped, hidden} : s \subseteq Notifications
  OBVIOUS
<1>33. taps \in 0 .. MaxTaps /\ faults \in 0 .. MaxFaults
  OBVIOUS
<1>34. alive \in BOOLEAN /\ silent \in BOOLEAN
  OBVIOUS
<1>35. TypeOK
  BY <1>1, <1>2, <1>3, <1>31, <1>32, <1>33, <1>34, Zenon DEF TypeOK
<1>4. QED
  BY <1>35 DEF IInv, NotYetCreated, DeliveriesLeft

LEMMA ServiceTypes ==
    ASSUME IInv, Start \/ Destroy \/ KillProcess \/ SetSilent \/ Unbind
    PROVE  IInv'
<1> USE MobileAssumption DEF IInv, TypeOK, NotYetCreated, DeliveriesLeft, Services,
        Gone, serviceVars, linkVars, pumpVars, showVars, streamVars, userVars
<1>1. CASE Start
  <2>1. created' \in Services /\ alive'
    BY <1>1 DEF Start
  <2>2. job' \in [Services -> {"off", "dial", "bind", "watch", "wait", "over"}]
    BY <1>1, <2>1 DEF Start
  <2>3. \A k \in Services : k > created' => job'[k] = "off"
    BY <1>1 DEF Start
  <2>4. created' \in 0 .. MaxServices /\ bound \in 0 .. created' \cup {Gone}
    BY <1>1 DEF Start
  <2>5. /\ UNCHANGED <<link, bound, pump, buffer, hand, handled, rendered, drawn>>
        /\ UNCHANGED <<hidden, consumer, deliveries, shown, opened, publishing>>
        /\ UNCHANGED <<answered, swiped, taps, silent, faults>>
    BY <1>1 DEF Start
  <2>6. created' > 0
    BY <2>1
  <2> HIDE DEF Services, Gone
  <2>7. QED
    BY <2>1, <2>2, <2>3, <2>4, <2>5, <2>6
<1>2. CASE Destroy
  <2>1. job' \in [Services -> {"off", "dial", "bind", "watch", "wait", "over"}]
    BY <1>2 DEF Destroy, disconnect
  <2>2. link' \in [Services -> {"down", "up", "broken", "closing"}]
    BY <1>2 DEF Destroy, disconnect
  <2>3. \A k \in Services : k > created => job'[k] = "off"
    BY <1>2 DEF Destroy, disconnect
  <2>4. /\ UNCHANGED <<created, bound, pump, buffer, hand, handled, rendered, drawn>>
        /\ UNCHANGED <<hidden, consumer, deliveries, shown, opened, publishing>>
        /\ UNCHANGED <<answered, swiped, taps, silent>>
        /\ alive' = FALSE /\ faults' \in 0 .. MaxFaults
    BY <1>2 DEF Destroy, Fault
  <2> HIDE DEF Services, Gone
  <2>5. QED
    BY <2>1, <2>2, <2>3, <2>4
<1>3. CASE KillProcess
  <2>1. /\ job' \in [Services -> {"off", "dial", "bind", "watch", "wait", "over"}]
        /\ link' \in [Services -> {"down", "up", "broken", "closing"}]
        /\ buffer' \in [Services -> SUBSET Notifications]
        /\ hand' \in [Services -> Notifications \cup {None}]
        /\ publishing' \in [Services -> SUBSET Notifications]
    BY <1>3 DEF KillProcess
  <2>2. \A k \in Services : k > created => job'[k] = "off"
    BY <1>3 DEF KillProcess
  <2>3. /\ created' \in 0 .. MaxServices /\ bound' \in 0 .. created' \cup {Gone}
        /\ faults' \in 0 .. MaxFaults /\ alive' = FALSE
    BY <1>3 DEF KillProcess, Fault
  <2>4. /\ handled' \in SUBSET {k \in pump' : hand'[k] # None}
        /\ pump' \in SUBSET Services
    BY <1>3 DEF KillProcess
  <2>5. /\ UNCHANGED <<rendered, drawn, hidden, consumer, deliveries>>
        /\ UNCHANGED <<created, shown, opened, answered, swiped, taps, silent>>
    BY <1>3 DEF KillProcess
  <2> HIDE DEF Services, Gone, showVars, streamVars
  <2>6. TypeOK'
    BY <2>1, <2>3, <2>4, <2>5
  <2>7. QED
    BY <2>2, <2>3, <2>5, <2>6
<1>4. CASE SetSilent
  BY <1>4 DEF SetSilent, Fault
<1>5. CASE Unbind
  BY <1>5 DEF Unbind
<1>6. QED
  BY <1>1, <1>2, <1>3, <1>4, <1>5

LEMMA LinkTypes ==
    ASSUME IInv, NEW k \in Services,
           Connect(k) \/ NoticeLoss(k) \/ Close(k) \/ Break(k)
    PROVE  IInv'
<1> USE MobileAssumption DEF IInv, TypeOK, NotYetCreated, DeliveriesLeft, Services,
        Gone, serviceVars, linkVars, pumpVars, showVars, streamVars, userVars, Fault,
        Backoff, Suspended, Live
<1>1. CASE DialSucceeds(k)
  BY <1>1, SMTT(20) DEF DialSucceeds
<1>2. CASE DialFails(k)
  BY <1>2, SMTT(20) DEF DialFails
<1>3. CASE Bind(k)
  BY <1>3, SMTT(20) DEF Bind, StartPump
<1>4. CASE BindFails(k)
  BY <1>4, SMTT(20) DEF BindFails
<1>5. CASE Retry(k)
  BY <1>5, SMTT(20) DEF Retry
<1>6. CASE NoticeLoss(k)
  BY <1>6, SMTT(20) DEF NoticeLoss, StopPump
<1>7. CASE Close(k)
  BY <1>7, SMTT(20) DEF Close, StopPump
<1>8. CASE Break(k)
  BY <1>8, SMTT(20) DEF Break
<1>9. QED
  BY <1>1, <1>2, <1>3, <1>4, <1>5, <1>6, <1>7, <1>8 DEF Connect

LEMMA ConsumerTypes ==
    ASSUME IInv, NEW n \in Notifications, Deliver(n)
    PROVE  IInv'
<1> USE MobileAssumption DEF IInv, TypeOK, NotYetCreated, DeliveriesLeft, Services,
        Gone, serviceVars, linkVars, pumpVars, showVars, streamVars, userVars
<1>1. CASE Publish(n)
  BY <1>1 DEF Publish
<1>2. CASE Push(n)
  <2>1. buffer' \in [Services -> SUBSET Notifications]
    BY <1>2 DEF Push
  <2>2. /\ consumer' \in [Notifications ->
                            {"unsent", "pending", "sent", "acked", "dropped"}]
        /\ deliveries' \in [Notifications -> 0 .. MaxDeliver]
        /\ DeliveriesLeft'
    BY <1>2 DEF Push
  <2>3. /\ UNCHANGED <<created, alive, job, link, bound, pump, hand, handled>>
        /\ UNCHANGED <<rendered, drawn, hidden, shown, opened, publishing>>
        /\ UNCHANGED <<answered, swiped, taps, silent, faults>>
    BY <1>2 DEF Push
  <2> HIDE DEF Services, Gone
  <2>4. QED
    BY <2>1, <2>2, <2>3
<1>3. CASE Expire(n)
  BY <1>3 DEF Expire
<1>4. QED
  BY <1>1, <1>2, <1>3 DEF Deliver

LEMMA PumpTypes ==
    ASSUME IInv, NEW k \in Services,
           Handle(k) \/ Ack(k) \/ \E n \in Notifications : Take(k, n)
    PROVE  IInv'
<1> USE MobileAssumption DEF IInv, TypeOK, NotYetCreated, DeliveriesLeft, Services,
        Gone, serviceVars, linkVars, pumpVars, showVars, streamVars, userVars
<1>1. CASE Handle(k)
  <2> DEFINE n == hand[k]
  <2>1. n \in Notifications
    BY <1>1 DEF Handle
  <2>2. CASE Skip(k, n)
    BY <1>1, <2>1, <2>2 DEF Handle, Skip
  <2>3. CASE Render(k, n)
    <3>1. /\ drawn' \in [Services -> [Notifications -> Nat]]
          /\ rendered' \in [Services -> SUBSET Notifications]
      BY <1>1, <2>1, <2>3 DEF Render, MarkRendered
    <3>2. QED
      BY <1>1, <2>1, <2>3, <3>1 DEF Handle, Render
  <2>4. CASE Suppress(k, n)
    BY <1>1, <2>1, <2>4 DEF Handle, Suppress, MarkRendered
  <2>5. CASE RenderFails(k, n)
    BY <1>1, <2>1, <2>5 DEF Handle, RenderFails, Fault
  <2>6. QED
    BY <1>1, <2>2, <2>3, <2>4, <2>5 DEF Handle
<1>2. CASE Ack(k)
  BY <1>2 DEF Ack, Acknowledge
<1>3. CASE \E n \in Notifications : Take(k, n)
  BY <1>3 DEF Take, IntoHand
<1>4. QED
  BY <1>1, <1>2, <1>3

LEMMA UserTypes ==
    ASSUME IInv, NEW n \in Notifications,
           \/ Use(n)
           \/ \E k \in Services : PublishSucceeds(k, n) \/ PublishFails(k, n)
    PROVE  IInv'
<1> USE MobileAssumption DEF IInv, TypeOK, NotYetCreated, DeliveriesLeft, Services,
        Gone, serviceVars, linkVars, pumpVars, showVars, streamVars, userVars, Press
<1>1. CASE Tap(n) \/ Choose(n)
  <2>1. publishing' \in [Services -> SUBSET Notifications]
    BY <1>1 DEF Tap, Choose, PublishIntent
  <2>2. /\ created' \in 0 .. MaxServices /\ created <= created' /\ created' > 0
        /\ alive' = TRUE /\ taps' \in 0 .. MaxTaps
    BY <1>1 DEF Tap, Choose, PublishIntent
  <2>3. /\ UNCHANGED <<job, link, bound, pump, buffer, hand, handled, rendered, drawn>>
        /\ UNCHANGED <<hidden, consumer, deliveries, shown, opened, answered>>
        /\ UNCHANGED <<swiped, silent, faults>>
    BY <1>1 DEF Tap, Choose
  <2>4. bound' \in 0 .. created' \cup {Gone}
    BY <2>2, <2>3
  <2>5. NotYetCreated'
    BY <2>2, <2>3
  <2> HIDE DEF Services, Gone
  <2>6. QED
    BY <2>1, <2>2, <2>3, <2>4, <2>5
<1>2. CASE More(n)
  <2>1. shown' \subseteq Notifications /\ opened' \subseteq Notifications
    BY <1>2 DEF More
  <2>2. taps' \in 0 .. MaxTaps
    BY <1>2 DEF More
  <2>3. /\ UNCHANGED <<created, alive, job, link, bound, pump, buffer, hand, handled>>
        /\ UNCHANGED <<rendered, drawn, hidden, consumer, deliveries, publishing>>
        /\ UNCHANGED <<answered, swiped, silent, faults>>
    BY <1>2 DEF More
  <2> HIDE DEF Services, Gone
  <2>4. QED
    BY <2>1, <2>2, <2>3
<1>3. CASE \E k \in Services : PublishSucceeds(k, n)
  <2>1. PICK k \in Services : PublishSucceeds(k, n)
    BY <1>3
  <2>2. publishing' \in [Services -> SUBSET Notifications]
    BY <2>1 DEF PublishSucceeds, Published
  <2>3. QED
    BY <2>1, <2>2 DEF PublishSucceeds
<1>4. CASE \E k \in Services : PublishFails(k, n)
  <2>1. PICK k \in Services : PublishFails(k, n)
    BY <1>4
  <2>2. publishing' \in [Services -> SUBSET Notifications]
    BY <2>1 DEF PublishFails, Published
  <2>3. answered' \subseteq Notifications
    BY <2>1 DEF PublishFails
  <2>4. /\ UNCHANGED <<created, alive, job, link, bound, pump, buffer, hand, handled>>
        /\ UNCHANGED <<rendered, drawn, hidden, consumer, deliveries, shown, opened>>
        /\ UNCHANGED <<swiped, taps, silent, faults>>
    BY <2>1 DEF PublishFails, Keep
  <2> HIDE DEF Services, Gone
  <2>5. QED
    BY <2>2, <2>3, <2>4
<1>5. CASE Swipe(n)
  <2>1. shown' \subseteq Notifications /\ swiped' \subseteq Notifications
    BY <1>5 DEF Swipe
  <2>2. taps' \in 0 .. MaxTaps
    BY <1>5 DEF Swipe
  <2>3. /\ UNCHANGED <<created, alive, job, link, bound, pump, buffer, hand, handled>>
        /\ UNCHANGED <<rendered, drawn, hidden, consumer, deliveries, publishing>>
        /\ UNCHANGED <<opened, answered, silent, faults>>
    BY <1>5 DEF Swipe
  <2> HIDE DEF Services, Gone
  <2>4. QED
    BY <2>1, <2>2, <2>3
<1>6. QED
  BY <1>1, <1>2, <1>3, <1>4, <1>5 DEF Use

LEMMA Inductive == IInv /\ [Next]_vars => IInv'
<1> SUFFICES ASSUME IInv, [Next]_vars PROVE IInv'
  OBVIOUS
<1>1. CASE Next
  BY <1>1, ServiceTypes, LinkTypes, ConsumerTypes, PumpTypes, UserTypes DEF Next
<1>2. CASE UNCHANGED vars
  BY <1>2 DEF IInv, TypeOK, NotYetCreated, DeliveriesLeft, vars, serviceVars, linkVars,
              pumpVars, showVars, streamVars, userVars
<1>3. QED
  BY <1>1, <1>2

LEMMA Invariant == Spec => []IInv
BY InitTypes, Inductive, PTL DEF Spec

\* Every variable keeps its type: the consumer is bound to an instance that
\* exists, the pump acknowledges only what it has in hand, and no message is
\* delivered more often than MaxDeliver.
THEOREM TypeCorrect == Spec => []TypeOK
<1>1. IInv => TypeOK
  BY DEF IInv
<1>2. QED
  BY Invariant, <1>1, PTL

(***************************************************************************)
(* What the user sees.  renderedIds is what keeps the promise of           *)
(* RenderedOnce: it never shrinks while its manager lives.  For            *)
(* TapIsNotLost only the success of a publish, "More..." and a swipe take  *)
(* anything from the tray.                                                 *)
(***************************************************************************)

MarkedWhenDrawn ==
    \A k \in Services, n \in Notifications :
      /\ drawn[k][n] <= 1
      /\ drawn[k][n] > 0 => n \in rendered[k]

Seen == MarkedWhenDrawn /\ TapIsNotLost

\* The actions that leave what is drawn and what the user has done alone.
LEMMA SeenStays ==
    ASSUME Seen, UNCHANGED <<rendered, drawn, shown, opened, answered, swiped>>
    PROVE  Seen'
BY DEF Seen, MarkedWhenDrawn, TapIsNotLost, Drawn

LEMMA SeenByPump ==
    ASSUME TypeOK, Seen, NEW k \in Services, Handle(k)
    PROVE  Seen'
<1> DEFINE n == hand[k]
<1>1. n \in Notifications /\ UNCHANGED <<opened, answered, swiped>>
  BY DEF Handle, TypeOK
<1>2. CASE Skip(k, n)
  BY <1>1, <1>2, SeenStays DEF Skip, showVars
<1>3. CASE Suppress(k, n)
  BY <1>1, <1>3 DEF Suppress, MarkRendered, Seen, MarkedWhenDrawn, TapIsNotLost, Drawn,
                    TypeOK
<1>4. CASE RenderFails(k, n)
  BY <1>1, <1>4, SeenStays DEF RenderFails
<1>5. CASE Render(k, n)
  <2>1. drawn[k][n] = 0
    BY <1>1, <1>5 DEF Render, Seen, MarkedWhenDrawn, TypeOK
  <2>2. \A j \in Services, m \in Notifications :
          drawn'[j][m] = IF j = k /\ m = n THEN 1 ELSE drawn[j][m]
    BY <1>1, <1>5, <2>1 DEF Render, TypeOK
  <2>3. MarkedWhenDrawn'
    BY <1>1, <1>5, <2>2 DEF Render, MarkRendered, Seen, MarkedWhenDrawn, TypeOK
  <2>4. TapIsNotLost'
    BY <1>1, <1>5, <2>2 DEF Render, Seen, TapIsNotLost, Drawn
  <2>5. QED
    BY <2>3, <2>4 DEF Seen
<1>6. QED
  BY <1>2, <1>3, <1>4, <1>5 DEF Handle

LEMMA SeenByUser ==
    ASSUME TypeOK, Seen, NEW n \in Notifications,
           \/ Use(n)
           \/ \E k \in Services : PublishSucceeds(k, n) \/ PublishFails(k, n)
    PROVE  Seen'
<1>1. UNCHANGED <<rendered, drawn>>
  BY DEF Use, Tap, More, Choose, Swipe, PublishSucceeds, PublishFails, showVars
<1>2. shown \cup answered \cup opened \cup swiped
        \subseteq shown' \cup answered' \cup opened' \cup swiped'
  BY DEF Use, Tap, More, Choose, Swipe, PublishSucceeds, PublishFails, Keep
<1>3. QED
  BY <1>1, <1>2 DEF Seen, MarkedWhenDrawn, TapIsNotLost, Drawn

LEMMA SeenIsKept == IInv /\ Seen /\ [Next]_vars => Seen'
<1> SUFFICES ASSUME TypeOK, Seen, [Next]_vars PROVE Seen'
  BY DEF IInv
<1> USE DEF serviceVars, linkVars, pumpVars, showVars, streamVars, userVars
<1>1. CASE Start \/ Destroy \/ KillProcess \/ SetSilent \/ Unbind
  BY <1>1, SeenStays DEF Start, Destroy, KillProcess, SetSilent, Unbind
<1>2. ASSUME NEW k \in Services, Connect(k) \/ NoticeLoss(k) \/ Close(k) \/ Break(k)
      PROVE  Seen'
  BY <1>2, SeenStays
     DEF Connect, DialSucceeds, DialFails, Bind, StartPump, BindFails, Retry,
         NoticeLoss, Close, Break
<1>3. ASSUME NEW n \in Notifications, Deliver(n) PROVE Seen'
  BY <1>3, SeenStays DEF Deliver, Publish, Push, Expire
<1>4. ASSUME NEW k \in Services, Ack(k) PROVE Seen'
  BY <1>4, SeenStays DEF Ack
<1>5. ASSUME NEW k \in Services, NEW n \in Notifications, Take(k, n) PROVE Seen'
  BY <1>5, SeenStays DEF Take
<1>6. CASE UNCHANGED vars
  BY <1>6, SeenStays DEF vars
<1> HIDE DEF serviceVars, linkVars, pumpVars, showVars, streamVars, userVars
<1>7. QED
  BY <1>1, <1>2, <1>3, <1>4, <1>5, <1>6, SeenByPump, SeenByUser DEF Next

LEMMA SeenAlways == Spec => []Seen
<1>1. Init => Seen
  BY DEF Init, Seen, MarkedWhenDrawn, TapIsNotLost, Drawn
<1>2. QED
  BY <1>1, SeenIsKept, Invariant, PTL DEF Spec

\* No instance of the service renders a notification twice, however often it is
\* delivered: what it has rendered is in renderedIds.
THEOREM NothingTwice == Spec => []RenderedOnce
<1>1. Seen => RenderedOnce
  BY DEF Seen, MarkedWhenDrawn, RenderedOnce
<1>2. QED
  BY SeenAlways, <1>1, PTL

\* A question that was seen is in the tray, answered, or was opened in the app or
\* swiped away by the user, whatever failed in between.
THEOREM NoTapLost == Spec => []TapIsNotLost
<1>1. Seen => TapIsNotLost
  BY DEF Seen
<1>2. QED
  BY SeenAlways, <1>1, PTL

(***************************************************************************)
(* What is acknowledged was handled.  For the induction: so is what a      *)
(* manager has in its renderedIds, which is acknowledged unseen when it    *)
(* comes again, and what a pump is about to acknowledge.                   *)
(***************************************************************************)

Settled == {n \in Notifications : Drawn(n)} \cup hidden

AckInv ==
    /\ \A k \in Services : rendered[k] \subseteq Settled
    /\ \A k \in handled : hand[k] \in Settled
    /\ AckedIsHandled

\* The actions that handle and acknowledge nothing.
LEMMA AckInvStays ==
    ASSUME AckInv, UNCHANGED <<rendered, drawn, hidden, hand, handled>>,
           \A n \in Notifications : consumer'[n] = "acked" => consumer[n] = "acked"
    PROVE  AckInv'
BY DEF AckInv, Settled, Drawn, AckedIsHandled

\* A pump that ends takes its message with it.
LEMMA AckInvShrinks ==
    ASSUME TypeOK, AckInv, UNCHANGED <<rendered, drawn, hidden, consumer>>,
           handled' \subseteq handled, \A k \in handled' : hand'[k] = hand[k]
    PROVE  AckInv'
BY DEF AckInv, Settled, Drawn, AckedIsHandled

LEMMA HandleSettles ==
    ASSUME TypeOK, AckInv, NEW k \in Services, Handle(k)
    PROVE  AckInv'
<1> PICK n \in Notifications : n = hand[k]
  BY DEF Handle, TypeOK
<1>1. /\ handled' = handled \cup {k} /\ handled' \subseteq Services
      /\ UNCHANGED <<hand, consumer>>
      /\ \A j \in handled : hand[j] \in Notifications
      /\ \A j \in Services : rendered[j] \subseteq Notifications
  BY DEF Handle, TypeOK, streamVars
<1>2. ASSUME Settled \subseteq Settled', n \in Settled',
             \A j \in Services : rendered'[j] \subseteq rendered[j] \cup {n}
      PROVE  AckInv'
  <2>1. \A j \in Services : rendered'[j] \subseteq Settled'
    BY <1>2 DEF AckInv
  <2>2. \A j \in handled' : hand'[j] \in Settled'
    BY <1>1, <1>2 DEF AckInv
  <2>3. AckedIsHandled'
    BY <1>1, <1>2 DEF AckInv, AckedIsHandled, Settled
  <2>4. QED
    BY <2>1, <2>2, <2>3 DEF AckInv
<1>3. CASE Skip(k, n)
  <2>1. UNCHANGED <<rendered, drawn, hidden>> /\ n \in Settled
    BY <1>3 DEF Skip, showVars, AckInv
  <2>2. QED
    BY <1>2, <2>1 DEF Settled, Drawn
<1>4. CASE Render(k, n)
  <2>1. /\ hidden' = hidden
        /\ \A j \in Services, m \in Notifications :
             drawn'[j][m] = IF j = k /\ m = n THEN drawn[j][m] + 1 ELSE drawn[j][m]
        /\ \A j \in Services, m \in Notifications : drawn[j][m] \in Nat
    BY <1>1, <1>4 DEF Render, TypeOK
  <2>2. drawn'[k][n] > 0
    BY <1>1, <2>1
  <2>3. ASSUME NEW j \in Services, NEW m \in Notifications, drawn[j][m] > 0
        PROVE  drawn'[j][m] > 0
    BY <2>1, <2>3
  <2>4. n \in Settled' /\ Settled \subseteq Settled'
    BY <1>1, <2>1, <2>2, <2>3 DEF Settled, Drawn
  <2>5. \A j \in Services : rendered'[j] \subseteq rendered[j] \cup {n}
    BY <1>4 DEF Render, MarkRendered, TypeOK
  <2>6. QED
    BY <1>2, <2>4, <2>5
<1>5. CASE Suppress(k, n)
  <2>1. drawn' = drawn /\ hidden' = hidden \cup {n}
    BY <1>5 DEF Suppress
  <2>2. \A j \in Services : rendered'[j] \subseteq rendered[j] \cup {n}
    BY <1>5 DEF Suppress, MarkRendered, TypeOK
  <2>3. QED
    BY <1>2, <2>1, <2>2 DEF Settled, Drawn
<1>6. CASE RenderFails(k, n)
  BY <1>2, <1>6 DEF RenderFails, Settled, Drawn
<1>7. QED
  BY <1>3, <1>4, <1>5, <1>6 DEF Handle

LEMMA AckSettles ==
    ASSUME TypeOK, AckInv, NEW k \in Services, Ack(k)
    PROVE  AckInv'
<1>1. /\ k \in handled /\ hand[k] \in Notifications
      /\ handled' = handled \ {k} /\ hand' = [hand EXCEPT ![k] = None]
      /\ UNCHANGED <<rendered, drawn, hidden>> /\ Acknowledge(k, hand[k])
  BY DEF Ack, TypeOK, showVars
<1>2. hand[k] \in Settled
  BY <1>1 DEF AckInv
<1>3. \A n \in Notifications : consumer'[n] = "acked" => consumer[n] = "acked" \/ n = hand[k]
  BY <1>1 DEF Acknowledge, TypeOK
<1>4. AckedIsHandled'
  BY <1>1, <1>2, <1>3 DEF AckInv, AckedIsHandled, Settled, Drawn
<1>5. \A j \in handled' : hand'[j] = hand[j] /\ j \in handled
  BY <1>1 DEF TypeOK
<1>6. QED
  BY <1>1, <1>4, <1>5 DEF AckInv, Settled, Drawn

LEMMA AckInvIsKept == IInv /\ AckInv /\ [Next]_vars => AckInv'
<1> SUFFICES ASSUME TypeOK, AckInv, [Next]_vars PROVE AckInv'
  BY DEF IInv
<1> USE DEF serviceVars, linkVars, pumpVars, showVars, streamVars, userVars
<1>1. CASE Start \/ Destroy \/ SetSilent \/ Unbind
  BY <1>1, AckInvStays DEF Start, Destroy, SetSilent, Unbind
<1>2. CASE KillProcess
  BY <1>2, AckInvShrinks DEF KillProcess
<1>3. ASSUME NEW k \in Services, Connect(k) \/ Break(k)
      PROVE  AckInv'
  BY <1>3, AckInvStays
     DEF Connect, DialSucceeds, DialFails, Bind, StartPump, BindFails, Retry, Break
<1>4. ASSUME NEW k \in Services, NoticeLoss(k) \/ Close(k) PROVE AckInv'
  <2>1. /\ UNCHANGED <<rendered, drawn, hidden, consumer>>
        /\ handled' = handled \ {k} /\ hand' = [hand EXCEPT ![k] = None]
    BY <1>4 DEF NoticeLoss, Close, StopPump
  <2>2. \A j \in handled' : hand'[j] = hand[j]
    BY <2>1 DEF TypeOK
  <2>3. QED
    BY <2>1, <2>2, AckInvShrinks
<1>5. ASSUME NEW n \in Notifications, Deliver(n) PROVE AckInv'
  <2>1. \A m \in Notifications : consumer'[m] = "acked" => consumer[m] = "acked"
    BY <1>5 DEF Deliver, Publish, Push, Expire, TypeOK
  <2>2. QED
    BY <1>5, <2>1, AckInvStays DEF Deliver, Publish, Push, Expire
<1>6. ASSUME NEW k \in Services, NEW n \in Notifications, Take(k, n) PROVE AckInv'
  <2>1. k \notin handled /\ hand' = [hand EXCEPT ![k] = n]
        /\ UNCHANGED <<rendered, drawn, hidden, consumer, handled>>
    BY <1>6 DEF Take, IntoHand, TypeOK
  <2>2. \A j \in handled' : hand'[j] = hand[j]
    BY <2>1 DEF TypeOK
  <2>3. QED
    BY <2>1, <2>2, AckInvShrinks
<1>7. ASSUME NEW n \in Notifications,
             \/ Use(n)
             \/ \E k \in Services : PublishSucceeds(k, n) \/ PublishFails(k, n)
      PROVE  AckInv'
  BY <1>7, AckInvStays DEF Use, Tap, More, Choose, Swipe, PublishSucceeds, PublishFails
<1>8. CASE UNCHANGED vars
  BY <1>8, AckInvStays DEF vars
<1> HIDE DEF serviceVars, linkVars, pumpVars, showVars, streamVars, userVars
<1>9. QED
  BY <1>1, <1>2, <1>3, <1>4, <1>5, <1>6, <1>7, <1>8, HandleSettles, AckSettles DEF Next

\* What the device has acknowledged, and the consumer will not deliver again,
\* was rendered or kept from the tray on purpose.
THEOREM NothingAckedUnseen == Spec => []AckedIsHandled
<1>1. Init => AckInv
  BY DEF Init, AckInv, AckedIsHandled
<1>2. AckInv => AckedIsHandled
  BY DEF AckInv
<1>3. QED
  BY <1>1, <1>2, AckInvIsKept, Invariant, PTL DEF Spec
=============================================================================
