--------------------------- MODULE UdevRelay_proof ---------------------------
(* The safety properties of UdevRelay, that it implements EventFeed, and   *)
(* what it has delivered when it is at rest, for any devices, any capacity *)
(* of the socket and any number of events.                                 *)
EXTENDS UdevRelay, FiniteSetTheorems, TLAPS

LEMMA SeqWidens ==
  ASSUME NEW S, NEW T, S \subseteq T, NEW s \in Seq(S)
  PROVE  s \in Seq(T)
OBVIOUS

-----------------------------------------------------------------------------
(* Every variable keeps its type, for any number of events.  The code: the *)
(* socket bounds what waits between the thread and the listener, and a     *)
(* signal is only sent for an event the listener received.                 *)
THEOREM TypeCorrect == Spec => []TypeOK
<1>1. Init => TypeOK
  <2> SUFFICES ASSUME Init PROVE TypeOK
    OBVIOUS
  <2>1. usb \in [Device -> {"out", "in", "bound"}]
    BY DEF Init
  <2>2. events \in Seq(Event) /\ Len(events) = 0 /\ bus \in Seq(1..received)
    BY DEF Init
  <2>3. /\ sent = 0 /\ received = 0 /\ slot = 0 /\ merged = 0 /\ listener = "wait"
        /\ emitting = {} /\ shown = {} /\ earlier = {} /\ dropped = {}
        /\ edge = FALSE /\ ready = FALSE /\ newer = FALSE
    BY DEF Init
  <2>4. /\ sent \in 0..Len(events) /\ received \in 0..sent
        /\ sent - received <= Capacity
        /\ slot \in 0..received /\ merged \in Nat
    BY <2>2, <2>3, RelayAssumption
  <2>5. /\ edge \in BOOLEAN /\ ready \in BOOLEAN /\ newer \in BOOLEAN
        /\ listener \in {"wait", "recv", "clear"}
    BY <2>3
  <2>6. /\ emitting \subseteq 1..received /\ shown \subseteq 1..received
        /\ dropped \subseteq 1..received /\ earlier \subseteq shown
    BY <2>3
  <2> QED BY <2>1, <2>2, <2>4, <2>5, <2>6 DEF TypeOK
<1>2. TypeOK /\ [Next]_vars => TypeOK'
  <2> SUFFICES ASSUME TypeOK, [Next]_vars PROVE TypeOK'
    OBVIOUS
  <2> USE RelayAssumption DEF TypeOK
  <2>1. ASSUME NEW d \in Device, DeviceEvent(d) PROVE TypeOK'
    <3>1. PICK step \in Lifecycle :
            /\ usb' = [usb EXCEPT ![d] = step[3]]
            /\ events' = Append(events, [dev |-> d, action |-> step[2]])
      BY <2>1 DEF DeviceEvent
    <3>2. step[2] \in Action /\ step[3] \in {"out", "in", "bound"}
      BY DEF Lifecycle, Action
    <3>3. [dev |-> d, action |-> step[2]] \in Event
      BY <3>2 DEF Event
    <3>4. events' \in Seq(Event) /\ Len(events') = Len(events) + 1
      BY <3>1, <3>3
    <3>5. usb' \in [Device -> {"out", "in", "bound"}]
      BY <3>1, <3>2
    <3> QED BY <2>1, <3>4, <3>5 DEF DeviceEvent, socket, task, tray
  <2>2. ASSUME InterfaceEvent PROVE TypeOK'
    <3>1. PICK action \in Inserting \cup Removing :
            events' = Append(events, [dev |-> NoNode, action |-> action])
      BY <2>2 DEF InterfaceEvent
    <3>2. [dev |-> NoNode, action |-> action] \in Event
      BY DEF Event, Action, Inserting, Removing
    <3>3. events' \in Seq(Event) /\ Len(events') = Len(events) + 1
      BY <3>1, <3>2
    <3> QED BY <2>2, <3>3 DEF InterfaceEvent, socket, task, tray
  <2>3. CASE Send
    BY <2>3 DEF Send, kernel, task, tray
  <2>4. CASE Report
    <3>1. newer' \in BOOLEAN
      BY <2>4 DEF Report
    <3>2. merged' \in Nat
      BY <2>4 DEF Report
    <3> QED BY <2>4, <3>1, <3>2 DEF Report, kernel, tray
  <2>5. CASE Readable
    BY <2>5 DEF Readable, kernel, socket, tray
  <2>6. CASE Recv
    <3>1. received' \in 0..sent /\ 1..received \subseteq 1..received'
      BY <2>6 DEF Recv
    <3>2. bus' \in Seq(1..received')
      BY <2>6, <3>1, SeqWidens DEF Recv
    <3> QED BY <2>6, <3>1, <3>2 DEF Recv, kernel, tray
  <2>7. CASE ClearReady
    BY <2>7 DEF ClearReady, kernel, socket, tray
  <2>8. ASSUME NEW n \in emitting, Emit(n) \/ EmitNothing(n) PROVE TypeOK'
    <3>1. CASE Emit(n)
      <4>1. bus' \in Seq(1..received)
        BY <3>1 DEF Emit
      <4> QED BY <3>1, <4>1 DEF Emit, kernel, socket, task, tray
    <3>2. CASE EmitNothing(n)
      BY <3>2 DEF EmitNothing, kernel, socket, task, tray
    <3> QED BY <2>8, <3>1, <3>2
  <2>9. CASE Read /\ (ShowInserted \/ ShowRemoved)
    <3>1. Head(bus) \in 1..received /\ Tail(bus) \in Seq(1..received)
      BY <2>9 DEF Read
    <3>2. shown' = shown \cup {Head(bus)} /\ bus' = Tail(bus)
      BY <2>9 DEF Read
    <3>3. /\ slot' \in {0, slot, Head(bus)}
          /\ earlier' \in {earlier, shown}
      BY <2>9 DEF ShowInserted, ShowRemoved
    <3>4. /\ slot' \in 0..received
          /\ shown' \subseteq 1..received
          /\ earlier' \subseteq shown'
          /\ bus' \in Seq(1..received)
      <4>1. /\ slot \in 0..received /\ shown \subseteq 1..received
            /\ earlier \subseteq shown /\ received \in Nat
        OBVIOUS
      <4>2. slot' \in 0..received
        BY <4>1, <3>1, <3>3
      <4>3. shown' \subseteq 1..received /\ earlier' \subseteq shown'
        BY <4>1, <3>1, <3>2, <3>3
      <4> QED BY <4>2, <4>3, <3>1, <3>2
    <3> QED BY <2>9, <3>4 DEF Read, kernel, socket, task
  <2>10. CASE UNCHANGED vars
    BY <2>10 DEF vars, kernel, socket, task, tray
  <2> QED
    BY <2>1, <2>2, <2>3, <2>4, <2>5, <2>6, <2>7, <2>8, <2>9, <2>10
    DEF Next, ShowInserted, ShowRemoved
<1> QED BY <1>1, <1>2, PTL DEF Spec

-----------------------------------------------------------------------------
(* The flag is set while the listener holds a guard, and `newer` speaks of *)
(* a guard only.                                                           *)
GuardIsReady ==
  /\ listener # "wait" => ready
  /\ newer => listener # "wait"

WaitingInv == GuardIsReady /\ WaitingAccountedFor

LEMMA WaitingAlways == Spec => [](TypeOK /\ WaitingInv)
<1>1. Init => WaitingInv
  BY DEF Init, WaitingInv, GuardIsReady, WaitingAccountedFor, Announced, One
<1>2. TypeOK /\ WaitingInv /\ [Next]_vars => WaitingInv'
  <2> SUFFICES ASSUME TypeOK, WaitingInv, [Next]_vars PROVE WaitingInv'
    OBVIOUS
  <2> USE DEF TypeOK, WaitingInv, GuardIsReady, WaitingAccountedFor, Announced, One
  <2>1. CASE Send
    BY <2>1 DEF Send, task
  <2>2. CASE Report
    <3>1. CASE listener = "wait"
      BY <2>2, <3>1 DEF Report
    <3>2. CASE listener # "wait"
      <4>1. edge /\ ~edge' /\ ready' /\ newer'
        BY <2>2, <3>2 DEF Report
      <4>2. UNCHANGED <<listener, sent, received>>
        BY <2>2 DEF Report
      <4>3. merged' = IF newer THEN merged + 1 ELSE merged
        BY <2>2, <3>2 DEF Report
      <4> QED BY <3>2, <4>1, <4>2, <4>3
    <3> QED BY <3>1, <3>2
  <2>3. CASE Readable
    BY <2>3 DEF Readable, socket
  <2>4. CASE Recv
    BY <2>4 DEF Recv
  <2>5. CASE ClearReady
    BY <2>5 DEF ClearReady, socket
  <2>6. CASE UNCHANGED <<socket, task, merged>>
    BY <2>6 DEF socket, task
  <2> QED
    BY <2>1, <2>2, <2>3, <2>4, <2>5, <2>6
    DEF Next, DeviceEvent, InterfaceEvent, Emit, EmitNothing, ShowInserted,
        ShowRemoved, Read, vars
<1> QED BY <1>1, <1>2, TypeCorrect, PTL DEF Spec

(* Every datagram in the socket is announced or came while an announcement *)
(* was pending, for any capacity and any number of events.                 *)
THEOREM WaitingAlwaysAccountedFor == Spec => []WaitingAccountedFor
<1>1. WaitingInv => WaitingAccountedFor
  BY DEF WaitingInv
<1> QED BY <1>1, WaitingAlways, PTL

(* And so the blocking recv() of the listener always finds a datagram.     *)
THEOREM ListenerNeverBlocks == Spec => []RecvNeverBlocks
<1>1. TypeOK /\ WaitingInv => RecvNeverBlocks
  BY DEF TypeOK, WaitingInv, GuardIsReady, WaitingAccountedFor, RecvNeverBlocks, Announced, One
<1> QED BY <1>1, WaitingAlways, PTL

-----------------------------------------------------------------------------
(* The slot is empty or holds an insertion; none of the signals read since *)
(* tells of a later removal of its device.                                 *)
SlotIsCurrent ==
  slot # 0 =>
    /\ events[slot].action \in Inserting
    /\ \A m \in shown \ earlier : m \notin LaterRemovals(slot)

(* The insertion of a device that is out was followed by a removal.        *)
OutWasRemoved ==
  \A d \in Device : \A n \in Numbers :
    (usb[d] = "out" /\ events[n].dev = d /\ events[n].action \in Inserting)
       => LaterRemovals(n) # {}

TrayInv == SlotIsCurrent /\ OutWasRemoved

(* What an event appended to `events` leaves as it was.                    *)
LEMMA EventsGrow ==
  ASSUME TypeOK, NEW e \in Event, events' = Append(events, e)
  PROVE  /\ Len(events') = Len(events) + 1
         /\ events'[Len(events) + 1] = e
         /\ \A n \in Numbers :
              /\ n \in Numbers'
              /\ events'[n] = events[n]
              /\ LaterRemovals(n) \subseteq LaterRemovals(n)'
              /\ \A m \in Numbers : m \in LaterRemovals(n)' => m \in LaterRemovals(n)
<1>1. /\ Len(events') = Len(events) + 1
      /\ events'[Len(events) + 1] = e
      /\ \A n \in 1..Len(events) : events'[n] = events[n]
  BY DEF TypeOK
<1> QED BY <1>1 DEF TypeOK, Numbers, LaterRemovals

LEMMA SlotSurvivesEvents ==
  ASSUME TypeOK, SlotIsCurrent, NEW e \in Event, events' = Append(events, e),
         UNCHANGED tray
  PROVE  SlotIsCurrent'
<1> SUFFICES ASSUME slot # 0
             PROVE  /\ events'[slot].action \in Inserting
                    /\ \A m \in shown \ earlier : m \notin LaterRemovals(slot)'
  BY DEF SlotIsCurrent, tray, LaterRemovals, Numbers
<1>1. slot \in Numbers /\ shown \subseteq Numbers
  BY DEF TypeOK, Numbers
<1>2. /\ events'[slot] = events[slot]
      /\ \A m \in Numbers : m \in LaterRemovals(slot)' => m \in LaterRemovals(slot)
  <2>1. \A n \in Numbers :
          /\ events'[n] = events[n]
          /\ \A m \in Numbers : m \in LaterRemovals(n)' => m \in LaterRemovals(n)
    BY EventsGrow
  <2> QED BY <1>1, <2>1 DEF tray, LaterRemovals
<1> QED BY <1>1, <1>2 DEF SlotIsCurrent

(* The tray shows a device that is gone only if a signal of its removal is *)
(* late, lost or was overtaken, for any devices and any number of events.  *)
THEOREM TrayAlwaysAccountedFor == Spec => []TrayAccountedFor
<1>1. Init => TrayInv
  BY DEF Init, TrayInv, SlotIsCurrent, OutWasRemoved, Numbers
<1>2. TypeOK /\ TrayInv /\ [Next]_vars => TrayInv'
  <2> SUFFICES ASSUME TypeOK, TrayInv, [Next]_vars PROVE TrayInv'
    OBVIOUS
  <2>1. ASSUME NEW d \in Device, DeviceEvent(d) PROVE TrayInv'
    <3>1. PICK step \in Lifecycle :
            /\ usb' = [usb EXCEPT ![d] = step[3]]
            /\ events' = Append(events, [dev |-> d, action |-> step[2]])
      BY <2>1 DEF DeviceEvent
    <3> DEFINE e == [dev |-> d, action |-> step[2]]
    <3>2. /\ step[2] \in Action
          /\ step[3] = "out" => step[2] \in Removing /\ step[2] \notin Inserting
      BY DEF Lifecycle, Action, Removing, Inserting
    <3>3. e \in Event /\ e.dev = d /\ e.action = step[2]
      BY <3>2 DEF Event
    <3> HIDE DEF e
    <3>4. events' = Append(events, e)
      BY <3>1 DEF e
    <3>5. SlotIsCurrent'
      BY <2>1, <3>3, <3>4, SlotSurvivesEvents DEF TrayInv, DeviceEvent
    <3>6. ASSUME NEW x \in Device, NEW n \in Numbers', usb'[x] = "out",
                 events'[n].dev = x, events'[n].action \in Inserting
          PROVE  LaterRemovals(n)' # {}
      <4>1. CASE x = d
        <5>1. step[3] = "out"
          BY <3>1, <3>6, <4>1 DEF TypeOK
        <5>2. n # Len(events) + 1
          BY <3>2, <3>3, <3>4, <3>6, <5>1, EventsGrow
        <5>3. Len(events) + 1 \in LaterRemovals(n)'
          BY <3>2, <3>3, <3>4, <3>6, <4>1, <5>1, <5>2, EventsGrow
          DEF LaterRemovals, Numbers, TypeOK
        <5> QED BY <5>3
      <4>2. CASE x # d
        <5>1. n \in Numbers
          BY <3>3, <3>4, <3>6, <4>2, EventsGrow DEF Numbers, TypeOK
        <5>2. usb[x] = "out"
          BY <3>1, <3>6, <4>2 DEF TypeOK
        <5> QED BY <3>3, <3>4, <3>6, <5>1, <5>2, EventsGrow DEF TrayInv, OutWasRemoved
      <4> QED BY <4>1, <4>2
    <3>7. OutWasRemoved'
      BY <3>6 DEF OutWasRemoved
    <3> QED BY <3>5, <3>7 DEF TrayInv
  <2>2. ASSUME InterfaceEvent PROVE TrayInv'
    <3>1. PICK action \in Inserting \cup Removing :
            events' = Append(events, [dev |-> NoNode, action |-> action])
      BY <2>2 DEF InterfaceEvent
    <3> DEFINE e == [dev |-> NoNode, action |-> action]
    <3>2. e \in Event /\ e.dev = NoNode
      BY DEF Event, Action, Inserting, Removing
    <3> HIDE DEF e
    <3>3. events' = Append(events, e)
      BY <3>1 DEF e
    <3>4. SlotIsCurrent'
      BY <2>2, <3>2, <3>3, SlotSurvivesEvents DEF TrayInv, InterfaceEvent
    <3>5. ASSUME NEW x \in Device, NEW n \in Numbers', usb'[x] = "out",
                 events'[n].dev = x, events'[n].action \in Inserting
          PROVE  LaterRemovals(n)' # {}
      <4>1. n \in Numbers
        BY <3>2, <3>3, <3>5, RelayAssumption, EventsGrow DEF Numbers, TypeOK
      <4>2. usb[x] = "out"
        BY <2>2, <3>5 DEF InterfaceEvent
      <4> QED BY <3>2, <3>3, <3>5, <4>1, <4>2, EventsGrow DEF TrayInv, OutWasRemoved
    <3>6. OutWasRemoved'
      BY <3>5 DEF OutWasRemoved
    <3> QED BY <3>4, <3>6 DEF TrayInv
  <2>3. CASE ShowInserted
    <3>1. Head(bus) \in 1..received /\ received <= Len(events)
      BY <2>3 DEF ShowInserted, Read, TypeOK
    <3>2. shown' \ earlier' \subseteq {Head(bus)} /\ UNCHANGED kernel
      BY <2>3 DEF ShowInserted, Read
    <3>3. SlotIsCurrent'
      BY <2>3, <3>1, <3>2 DEF ShowInserted, SlotIsCurrent, LaterRemovals, kernel
    <3>4. OutWasRemoved'
      BY <3>2 DEF TrayInv, OutWasRemoved, Numbers, LaterRemovals, kernel
    <3> QED BY <3>3, <3>4 DEF TrayInv
  <2>4. CASE ShowRemoved
    <3>1. /\ UNCHANGED <<kernel, earlier>>
          /\ shown' \subseteq shown \cup {Head(bus)}
          /\ slot' # 0 => slot' = slot /\ events[slot].dev # events[Head(bus)].dev
      BY <2>4 DEF ShowRemoved, Read
    <3>2. SlotIsCurrent'
      BY <3>1 DEF TrayInv, SlotIsCurrent, LaterRemovals, Numbers, kernel
    <3>3. OutWasRemoved'
      BY <3>1 DEF TrayInv, OutWasRemoved, Numbers, LaterRemovals, kernel
    <3> QED BY <3>2, <3>3 DEF TrayInv
  <2>5. CASE UNCHANGED <<kernel, tray>>
    BY <2>5 DEF TrayInv, SlotIsCurrent, OutWasRemoved, Numbers, LaterRemovals, kernel, tray
  <2> QED
    BY <2>1, <2>2, <2>3, <2>4, <2>5
    DEF Next, Send, Report, Readable, Recv, ClearReady, Emit, EmitNothing, vars
<1>3. TypeOK /\ TrayInv => TrayAccountedFor
  <2> SUFFICES ASSUME TypeOK, TrayInv, slot # 0, events[slot].dev \in Device,
                      usb[events[slot].dev] = "out"
               PROVE  \E m \in LaterRemovals(slot) : m \notin shown \/ m \in earlier
    BY DEF TrayAccountedFor
  <2>1. slot \in Numbers
    BY DEF TypeOK, Numbers
  <2>2. PICK m \in LaterRemovals(slot) : TRUE
    BY <2>1 DEF TrayInv, OutWasRemoved, SlotIsCurrent
  <2> QED BY <2>2 DEF TrayInv, SlotIsCurrent
<1> QED BY <1>1, <1>2, <1>3, TypeCorrect, PTL DEF Spec

-----------------------------------------------------------------------------
(* An event is with a task, or its signal is on the bus, once, or it is    *)
(* settled: never two of these.                                            *)
OnceInv ==
  /\ emitting \cap (shown \cup dropped) = {}
  /\ \A i \in 1..Len(bus) : bus[i] \notin emitting \cup shown \cup dropped
  /\ \A i, j \in 1..Len(bus) : bus[i] = bus[j] => i = j

(* The signal at the head of the bus is read, the others move up.          *)
LEMMA TailMovesUp ==
  ASSUME NEW S, NEW s \in Seq(S), s # <<>>
  PROVE  /\ Head(s) = s[1] /\ 1 \in 1..Len(s)
         /\ Len(Tail(s)) = Len(s) - 1
         /\ \A i \in 1..Len(Tail(s)) : i + 1 \in 1..Len(s) /\ Tail(s)[i] = s[i + 1]
OBVIOUS

LEMMA OnceAlways == Spec => [](TypeOK /\ OnceInv)
<1>1. Init => OnceInv
  BY DEF Init, OnceInv
<1>2. TypeOK /\ OnceInv /\ [Next]_vars => OnceInv'
  <2> SUFFICES ASSUME TypeOK, OnceInv, [Next]_vars PROVE OnceInv'
    OBVIOUS
  <2>1. /\ received \in Nat /\ bus \in Seq(1..received) /\ Len(bus) \in Nat
        /\ \A i \in 1..Len(bus) : bus[i] \in 1..received
        /\ emitting \subseteq 1..received
        /\ shown \subseteq 1..received /\ dropped \subseteq 1..received
    BY DEF TypeOK
  <2>2. CASE Recv
    <3>1. received + 1 \notin 1..received
      BY <2>1
    <3>2. emitting' = emitting \cup {received + 1} /\ UNCHANGED <<bus, shown, dropped>>
      BY <2>2 DEF Recv, tray
    <3> QED BY <2>1, <3>1, <3>2 DEF OnceInv
  <2>3. ASSUME NEW n \in emitting, Emit(n) PROVE OnceInv'
    <3>1. /\ emitting' = emitting \ {n} /\ bus' = Append(bus, n)
          /\ UNCHANGED <<shown, dropped>>
      BY <2>3 DEF Emit, tray
    <3>2. /\ Len(bus') = Len(bus) + 1 /\ bus'[Len(bus) + 1] = n
          /\ \A i \in 1..Len(bus) : bus'[i] = bus[i]
      BY <2>1, <3>1
    <3>3. \A i \in 1..Len(bus') : i \in 1..Len(bus) \/ i = Len(bus) + 1
      BY <2>1, <3>2
    <3>4. \A i \in 1..Len(bus) : bus'[i] # n
      BY <3>2 DEF OnceInv
    <3> QED BY <3>1, <3>2, <3>3, <3>4 DEF OnceInv
  <2>4. ASSUME NEW n \in emitting, EmitNothing(n) PROVE OnceInv'
    BY <2>4 DEF EmitNothing, OnceInv, tray
  <2>5. CASE Read
    <3>1. /\ bus # <<>> /\ bus' = Tail(bus) /\ shown' = shown \cup {Head(bus)}
          /\ UNCHANGED <<emitting, dropped>>
      BY <2>5 DEF Read
    <3>2. /\ Head(bus) = bus[1] /\ 1 \in 1..Len(bus)
          /\ \A i \in 1..Len(bus') :
               i + 1 \in 1..Len(bus) /\ i + 1 # 1 /\ bus'[i] = bus[i + 1]
      BY <2>1, <3>1, TailMovesUp
    <3>3. \A i \in 1..Len(bus') : bus'[i] # Head(bus)
      BY <3>2 DEF OnceInv
    <3>4. \A i, j \in 1..Len(bus') : bus'[i] = bus'[j] => i = j
      <4>1. \A i, j \in 1..Len(bus') : bus'[i] = bus'[j] => i + 1 = j + 1
        BY <3>2 DEF OnceInv
      <4> QED BY <4>1
    <3> QED BY <3>1, <3>2, <3>3, <3>4 DEF OnceInv
  <2>6. CASE UNCHANGED <<emitting, bus, shown, dropped>>
    BY <2>6 DEF OnceInv
  <2> QED
    BY <2>2, <2>3, <2>4, <2>5, <2>6
    DEF Next, DeviceEvent, InterfaceEvent, Send, Report, Readable, ClearReady,
        ShowInserted, ShowRemoved, tray, vars
<1> QED BY <1>1, <1>2, TypeCorrect, PTL DEF Spec

(* Of each event the tray hears at most once, for any devices, capacity    *)
(* and number of events: thread, reactor, listener and tasks implement the *)
(* abstract feed.                                                          *)
THEOREM ImplementsFeed == Spec => EachEventOnce
<1>1. Init => Feed!FeedInit
  BY DEF Init, Feed!FeedInit, Unsettled, Numbers
<1>2. TypeOK /\ TypeOK' /\ OnceInv /\ [Next]_vars => [Feed!FeedNext]_Feed!feedVars
  <2> SUFFICES ASSUME TypeOK, TypeOK', OnceInv, [Next]_vars
               PROVE  Feed!FeedNext \/ UNCHANGED Feed!feedVars
    OBVIOUS
  <2>1. /\ events \in Seq(Event) /\ Len(events) \in Nat /\ received \in Nat
        /\ 1..received \subseteq Numbers
        /\ shown \cup dropped \cup emitting \subseteq 1..received
    BY DEF TypeOK, Numbers
  <2>2. ASSUME NEW e \in Event, events' = Append(events, e), UNCHANGED <<tray, dropped>>
        PROVE  Feed!FeedNext
    <3>1. Numbers' = Numbers \cup {Len(events) + 1} /\ Len(events) + 1 \notin Numbers
      BY <2>1, <2>2 DEF Numbers
    <3>2. Unsettled' = Unsettled \cup {Len(events) + 1}
      BY <2>1, <2>2, <3>1 DEF Unsettled, tray
    <3> QED BY <2>2, <3>2 DEF Feed!FeedNext, Feed!Happen, tray
  <2>3. ASSUME NEW d \in Device, DeviceEvent(d) PROVE Feed!FeedNext
    <3>1. PICK step \in Lifecycle : events' = Append(events, [dev |-> d, action |-> step[2]])
      BY <2>3 DEF DeviceEvent
    <3>2. [dev |-> d, action |-> step[2]] \in Event
      BY DEF Event, Action, Lifecycle
    <3> QED BY <2>2, <2>3, <3>1, <3>2 DEF DeviceEvent
  <2>4. ASSUME InterfaceEvent PROVE Feed!FeedNext
    <3>1. PICK action \in Inserting \cup Removing :
            events' = Append(events, [dev |-> NoNode, action |-> action])
      BY <2>4 DEF InterfaceEvent
    <3>2. [dev |-> NoNode, action |-> action] \in Event
      BY DEF Event, Action, Inserting, Removing
    <3> QED BY <2>2, <2>4, <3>1, <3>2 DEF InterfaceEvent
\* An event is settled.
  <2>5. ASSUME NEW n \in 1..received, n \notin shown \cup dropped, UNCHANGED kernel,
               (shown \cup dropped)' = shown \cup dropped \cup {n}
        PROVE  n \in Unsettled /\ Feed!Close(n)
    <3>1. n \in Unsettled /\ Unsettled' = Unsettled \ {n}
      BY <2>1, <2>5 DEF Unsettled, Numbers, kernel
    <3> QED BY <2>5, <3>1 DEF Feed!Close, kernel
  <2>6. ASSUME NEW n \in emitting, EmitNothing(n) PROVE Feed!FeedNext
    <3>1. n \in Unsettled /\ Feed!Close(n)
      BY <2>1, <2>5, <2>6 DEF EmitNothing, OnceInv, tray
    <3> QED BY <2>6, <3>1 DEF Feed!FeedNext, Feed!Lose, EmitNothing, tray
  <2>7. CASE ShowInserted \/ ShowRemoved
    <3> DEFINE n == Head(bus)
    <3>1. bus # <<>> /\ bus \in Seq(1..received) /\ UNCHANGED <<kernel, dropped>>
          /\ shown' = shown \cup {n}
      BY <2>7 DEF ShowInserted, ShowRemoved, Read, TypeOK
    <3>2. n \in 1..received /\ n \notin shown \cup dropped
      <4>1. n = bus[1] /\ 1 \in 1..Len(bus)
        BY <3>1, TailMovesUp
      <4>2. n \in 1..received
        BY <2>1, <3>1
      <4>3. bus[1] \notin shown \cup dropped
        BY <4>1 DEF OnceInv
      <4> QED BY <4>1, <4>2, <4>3
    <3>3. n \in Unsettled /\ Feed!Close(n)
      BY <2>5, <3>1, <3>2
    <3>4. Feed!TellInserted(n) \/ Feed!TellRemoved(n)
      BY <2>7, <3>3 DEF ShowInserted, ShowRemoved, Feed!TellInserted, Feed!TellRemoved
    <3> QED BY <3>3, <3>4 DEF Feed!FeedNext
  <2>8. CASE UNCHANGED <<kernel, tray, dropped>>
    BY <2>8 DEF Feed!feedVars, Unsettled, Numbers, kernel, tray
  <2> QED
    BY <2>3, <2>4, <2>6, <2>7, <2>8
    DEF Next, Send, Report, Readable, Recv, ClearReady, Emit, vars
<1> QED BY <1>1, <1>2, OnceAlways, PTL DEF Spec, EachEventOnce, Feed!FeedSpec

-----------------------------------------------------------------------------
(* No event is lost on the way: one the listener has received is with its  *)
(* task, its signal is on the bus, or it is settled; and the tray has an   *)
(* arm for every signal on the bus.                                        *)
NothingLost ==
  /\ \A n \in 1..received :
       n \in emitting \cup shown \cup dropped \/ \E i \in 1..Len(bus) : bus[i] = n
  /\ \A i \in 1..Len(bus) : events[bus[i]].action \in Inserting \cup Removing

LEMMA NothingLostAlways == Spec => [](TypeOK /\ NothingLost)
<1>1. Init => NothingLost
  BY DEF Init, NothingLost
<1>2. TypeOK /\ NothingLost /\ [Next]_vars => NothingLost'
  <2> SUFFICES ASSUME TypeOK, NothingLost, [Next]_vars PROVE NothingLost'
    OBVIOUS
  <2>1. /\ received \in Nat /\ bus \in Seq(1..received) /\ Len(bus) \in Nat
        /\ \A i \in 1..Len(bus) : bus[i] \in 1..received /\ bus[i] \in Numbers
    BY DEF TypeOK, Numbers
  <2>2. ASSUME NEW e \in Event, events' = Append(events, e),
               UNCHANGED <<received, emitting, bus, shown, dropped>>
        PROVE  NothingLost'
    <3>1. \A n \in Numbers : events'[n] = events[n]
      BY <2>2, EventsGrow
    <3> QED BY <2>1, <2>2, <3>1 DEF NothingLost
  <2>3. ASSUME NEW d \in Device, DeviceEvent(d) PROVE NothingLost'
    <3>1. PICK step \in Lifecycle : events' = Append(events, [dev |-> d, action |-> step[2]])
      BY <2>3 DEF DeviceEvent
    <3>2. [dev |-> d, action |-> step[2]] \in Event
      BY DEF Event, Action, Lifecycle
    <3> QED BY <2>2, <2>3, <3>1, <3>2 DEF DeviceEvent, socket, tray
  <2>4. CASE InterfaceEvent
    <3>1. PICK action \in Inserting \cup Removing :
            events' = Append(events, [dev |-> NoNode, action |-> action])
      BY <2>4 DEF InterfaceEvent
    <3>2. [dev |-> NoNode, action |-> action] \in Event
      BY DEF Event, Action, Inserting, Removing
    <3> QED BY <2>2, <2>4, <3>1, <3>2 DEF InterfaceEvent, socket, tray
  <2>5. CASE Recv
    <3>1. /\ received' = received + 1 /\ emitting' = emitting \cup {received + 1}
          /\ UNCHANGED <<events, bus, shown, dropped>>
      BY <2>5 DEF Recv, kernel, tray
    <3>2. \A n \in 1..received' : n \in 1..received \/ n \in emitting'
      BY <2>1, <3>1
    <3> QED BY <3>1, <3>2 DEF NothingLost
  <2>6. ASSUME NEW n \in emitting, Emit(n) PROVE NothingLost'
    <3>1. /\ emitting' = emitting \ {n} /\ bus' = Append(bus, n)
          /\ events[n].action \in Inserting \cup Removing
          /\ UNCHANGED <<events, received, shown, dropped>>
      BY <2>6 DEF Emit, kernel, socket, tray
    <3>2. /\ Len(bus') = Len(bus) + 1 /\ bus'[Len(bus) + 1] = n
          /\ \A i \in 1..Len(bus) : i \in 1..Len(bus') /\ bus'[i] = bus[i]
          /\ Len(bus) + 1 \in 1..Len(bus')
          /\ \A i \in 1..Len(bus') : i \in 1..Len(bus) \/ i = Len(bus) + 1
      <4>1. Len(bus') = Len(bus) + 1 /\ bus'[Len(bus) + 1] = n
            /\ \A i \in 1..Len(bus) : bus'[i] = bus[i]
        BY <2>1, <3>1
      <4> QED BY <2>1, <4>1
    <3>3. \A m \in 1..received :
            m \in emitting' \cup shown \cup dropped \/ \E i \in 1..Len(bus') : bus'[i] = m
      BY <3>1, <3>2 DEF NothingLost
    <3> QED BY <3>1, <3>2, <3>3 DEF NothingLost
  <2>7. ASSUME NEW n \in emitting, EmitNothing(n) PROVE NothingLost'
    <3>1. /\ emitting' = emitting \ {n} /\ dropped' = dropped \cup {n}
          /\ UNCHANGED <<events, received, bus, shown>>
      BY <2>7 DEF EmitNothing, kernel, socket, tray
    <3> QED BY <3>1 DEF NothingLost
  <2>8. CASE Read
    <3>1. /\ bus # <<>> /\ bus' = Tail(bus) /\ shown' = shown \cup {Head(bus)}
          /\ UNCHANGED <<events, received, emitting, dropped>>
      BY <2>8 DEF Read, kernel, socket
    <3>2. /\ Head(bus) = bus[1] /\ Len(bus') = Len(bus) - 1
          /\ \A i \in 1..Len(bus') : i + 1 \in 1..Len(bus) /\ bus'[i] = bus[i + 1]
      BY <2>1, <3>1, TailMovesUp
    <3>3. \A i \in 1..Len(bus) : bus[i] \in shown' \/ \E j \in 1..Len(bus') : bus'[j] = bus[i]
      <4>1. ASSUME NEW i \in 1..Len(bus), i # 1
            PROVE  i - 1 \in 1..Len(bus') /\ bus'[i - 1] = bus[i]
        <5>1. i - 1 \in 1..Len(bus') /\ (i - 1) + 1 = i
          BY <2>1, <3>2, <4>1
        <5> QED BY <3>2, <5>1
      <4> QED BY <3>1, <3>2, <4>1
    <3>4. \A n \in 1..received :
            n \in emitting \cup shown' \cup dropped \/ \E i \in 1..Len(bus') : bus'[i] = n
      BY <3>1, <3>3 DEF NothingLost
    <3> QED BY <3>1, <3>2, <3>4 DEF NothingLost
  <2>9. CASE UNCHANGED <<events, received, emitting, bus, shown, dropped>>
    BY <2>9 DEF NothingLost
  <2> QED
    BY <2>3, <2>4, <2>5, <2>6, <2>7, <2>8, <2>9
    DEF Next, Send, Report, Readable, ClearReady, ShowInserted, ShowRemoved,
        kernel, socket, tray, vars
<1> QED BY <1>1, <1>2, TypeCorrect, PTL DEF Spec

(* Nothing between the kernel and the tray can move: no guard of a step of *)
(* the thread, the reactor, the listener, a task or the tray is true.      *)
AtRest ==
  /\ ~(sent < Len(events) /\ sent - received < Capacity)
  /\ ~edge
  /\ ~(listener = "wait" /\ ready)
  /\ ~(listener = "recv" /\ received < sent)
  /\ listener # "clear"
  /\ emitting = {}
  /\ ~(bus # <<>> /\ events[Head(bus)].action \in Inserting \cup Removing)

CaughtUp ==
  /\ shown \cup dropped = 1..received
  /\ sent - received = merged
  /\ sent = Len(events) \/ merged = Capacity

(* When the relay is at rest every event it has received is settled, the   *)
(* socket holds as many datagrams as announcements were merged, and all    *)
(* events were sent unless those fill the socket: an event is late only    *)
(* because clear_ready() follows a single recv().                          *)
THEOREM AtRestOnlyMergedWait == Spec => [](AtRest => CaughtUp)
<1>1. ASSUME TypeOK, WaitingInv, NothingLost, AtRest
      PROVE  CaughtUp
  <2>1. RecvNeverBlocks
    BY <1>1
    DEF TypeOK, WaitingInv, GuardIsReady, WaitingAccountedFor, RecvNeverBlocks, Announced, One
  <2>2. listener = "wait" /\ ~ready /\ ~edge
    BY <1>1, <2>1 DEF AtRest, RecvNeverBlocks, TypeOK
  <2>3. sent - received = merged
    BY <1>1, <2>2 DEF TypeOK, WaitingInv, WaitingAccountedFor, Announced, One
  <2>4. bus = <<>>
    <3>1. ASSUME bus # <<>> PROVE events[Head(bus)].action \in Inserting \cup Removing
      <4>1. Head(bus) = bus[1] /\ 1 \in 1..Len(bus)
        BY <1>1, <3>1, TailMovesUp DEF TypeOK
      <4> QED BY <1>1, <4>1 DEF NothingLost
    <3> QED BY <1>1, <3>1 DEF AtRest
  <2>5. shown \cup dropped = 1..received
    <3>1. Len(bus) = 0
      BY <2>4
    <3>2. \A n \in 1..received : n \in shown \cup dropped
      BY <1>1, <3>1 DEF AtRest, NothingLost
    <3> QED BY <1>1, <3>2 DEF TypeOK
  <2>6. sent = Len(events) \/ merged = Capacity
    BY <1>1, <2>3, RelayAssumption DEF AtRest, TypeOK
  <2> QED BY <2>3, <2>5, <2>6 DEF CaughtUp
<1> QED BY <1>1, WaitingAlways, NothingLostAlways, PTL

(* The relay comes to rest again and again: what the fairness of its steps *)
(* gives when the USB bus falls quiet.                                     *)
ComesToRest == []<>AtRest

LEMMA RestKeepsUp ==
  ASSUME NEW n \in 1..MaxEvents
  PROVE  Spec /\ ComesToRest =>
           (sent >= n ~> Cardinality(shown \cup dropped) + merged >= n)
<1> n \in Nat
  BY RelayAssumption
<1>1. TypeOK /\ sent >= n /\ [Next]_vars => (sent >= n)'
  <2>1. Send => sent' = sent + 1
    BY DEF Send
  <2>2. [Next]_vars => Send \/ UNCHANGED sent
    BY DEF Next, vars, DeviceEvent, InterfaceEvent, Report, Readable, Recv, ClearReady,
           Emit, EmitNothing, ShowInserted, ShowRemoved, Read, socket
  <2>3. TypeOK => sent \in Nat
    BY DEF TypeOK
  <2> QED BY <2>1, <2>2, <2>3
<1>2. ASSUME TypeOK, CaughtUp, sent >= n
      PROVE  Cardinality(shown \cup dropped) + merged >= n
  <2>1. received \in Nat /\ sent \in Nat /\ merged \in Nat
    BY <1>2 DEF TypeOK
  <2>2. Cardinality(1..received) = IF 1 > received THEN 0 ELSE received - 1 + 1
    BY <2>1, FS_Interval
  <2>3. Cardinality(shown \cup dropped) = received
    <3>1. Cardinality(1..received) = received
      BY <2>1, <2>2
    <3>2. shown \cup dropped = 1..received
      BY <1>2 DEF CaughtUp
    <3> QED BY <3>1, <3>2, Zenon
  <2>4. sent - received = merged
    BY <1>2 DEF CaughtUp
  <2>5. received + merged >= n
    BY <1>2, <2>1, <2>4
  <2> QED BY <2>3, <2>5
<1> QED BY <1>1, <1>2, TypeCorrect, AtRestOnlyMergedWait, PTL DEF Spec, ComesToRest

(* If the relay comes to rest again and again, every event sent is in the  *)
(* end settled, apart from as many as announcements were merged.           *)
THEOREM RestingKeepsUp == Spec /\ ComesToRest => KeepsUp
  BY RestKeepsUp DEF KeepsUp
=============================================================================
