------------------------------ MODULE UdevRelay ------------------------------
(***************************************************************************)
(* From a kernel event to the tray: the udev thread, the datagram socket   *)
(* with the one readiness flag tokio keeps for it, the listener task, the  *)
(* tasks that emit the signals, and the tray's slot last_seen              *)
(* (daemon/src/udev_monitor.rs and the loop of tray/src/main.rs).          *)
(*                                                                         *)
(* An event is known by its place in `events`.  The socket is first in,    *)
(* first out, so that two counters say which events wait in it.  epoll     *)
(* reports an edge once, however many datagrams arrived before the report, *)
(* and never without one.                                                  *)
(***************************************************************************)
EXTENDS Integers, Sequences, FiniteSets

CONSTANTS
  Device,        \* the devices that have a device node, their id in a signal
  NoNode,        \* the id of a USB interface, which has none: the empty string
  Capacity,      \* the datagrams the socket holds before a send blocks
  MaxEvents,     \* bound: the events of the kernel
  SignalMayFail  \* whether emit_signal may fail

ASSUME RelayAssumption ==
  /\ NoNode \notin Device
  /\ Capacity \in Nat \ {0}
  /\ MaxEvents \in Nat
  /\ SignalMayFail \in BOOLEAN

VARIABLES
  usb,       \* what the kernel made of each device
  events,    \* the events of the kernel, in the order of the monitor
  sent,      \* how many of them the thread has sent
  received,  \* how many the listener has received
  edge,      \* data arrived that epoll has not reported yet
  ready,     \* tokio's readiness flag of the socket
  newer,     \* it was set again since the listener's guard was made
  listener,  \* where the listener task is
  emitting,  \* the events whose spawned task has not run yet
  bus,       \* the signals the tray has not read yet
  slot,      \* the event of last_seen, 0 if it is None
  shown,     \* history: the events the tray has read
  dropped,   \* history: the events no signal was sent for
  earlier,   \* history: what the tray had read when it filled the slot
  merged     \* history: the announcements that said nothing new

kernel == <<usb, events>>
socket == <<sent, received, edge>>
task == <<ready, newer, listener>>
tray == <<slot, shown, earlier>>
vars == <<kernel, socket, task, emitting, bus, tray, dropped, merged>>

Action == {"add", "bind", "change", "unbind", "remove"}
Inserting == {"add", "bind"}
Removing == {"unbind", "remove"}
Event == [dev : Device \cup {NoNode}, action : Action]
Numbers == 1..Len(events)

Init ==
  /\ usb = [d \in Device |-> "out"]
  /\ events = <<>>
  /\ sent = 0 /\ received = 0 /\ edge = FALSE
  /\ ready = FALSE /\ newer = FALSE /\ listener = "wait"
  /\ emitting = {} /\ bus = <<>>
  /\ slot = 0 /\ shown = {} /\ earlier = {}
  /\ dropped = {} /\ merged = 0

-----------------------------------------------------------------------------
(* The kernel: a device is added, bound to its driver, unbound, removed.   *)
Lifecycle ==
  {<<"out", "add", "in">>, <<"in", "bind", "bound">>, <<"in", "change", "in">>,
   <<"bound", "change", "bound">>, <<"bound", "unbind", "in">>, <<"in", "remove", "out">>}

DeviceEvent(d) == \E step \in Lifecycle :
  /\ Len(events) < MaxEvents
  /\ usb[d] = step[1]
  /\ usb' = [usb EXCEPT ![d] = step[3]]
  /\ events' = Append(events, [dev |-> d, action |-> step[2]])
  /\ UNCHANGED <<socket, task, emitting, bus, tray, dropped, merged>>

(* The interfaces of a bound device come and go too.                       *)
InterfaceEvent == \E action \in Inserting \cup Removing :
  /\ Len(events) < MaxEvents
  /\ \E d \in Device : usb[d] = "bound"
  /\ events' = Append(events, [dev |-> NoNode, action |-> action])
  /\ UNCHANGED <<usb, socket, task, emitting, bus, tray, dropped, merged>>

-----------------------------------------------------------------------------
\* The mistake of a send that never blocks.
SendUnbounded ==
  /\ sent < Len(events)
  /\ sent' = sent + 1
  /\ edge' = TRUE
  /\ merged' = IF edge THEN merged + 1 ELSE merged
  /\ UNCHANGED <<kernel, received, task, emitting, bus, tray, dropped>>

(* The thread: `for event in socket.iter()`, whose send blocks while the   *)
(* socket is full.                                                         *)
Send ==
  /\ sent < Len(events)
  /\ sent - received < Capacity
  /\ sent' = sent + 1
  /\ edge' = TRUE
  /\ merged' = IF edge THEN merged + 1 ELSE merged
  /\ UNCHANGED <<kernel, received, task, emitting, bus, tray, dropped>>

(* The reactor: epoll reports the edge, tokio sets the flag with a new     *)
(* tick.  A flag that is set and not yet looked at says no more than before.*)
Report ==
  /\ edge
  /\ edge' = FALSE
  /\ ready' = TRUE
  /\ newer' = (listener # "wait")
  /\ merged' = IF newer \/ (ready /\ listener = "wait") THEN merged + 1 ELSE merged
  /\ UNCHANGED <<kernel, sent, received, listener, emitting, bus, tray, dropped>>

-----------------------------------------------------------------------------
(* The listener: readable_mut() returns a guard with the present tick ...  *)
Readable ==
  /\ listener = "wait"
  /\ ready
  /\ newer' = FALSE
  /\ listener' = "recv"
  /\ UNCHANGED <<kernel, socket, ready, emitting, bus, tray, dropped, merged>>

\* The mistake of draining the socket on one announcement.
RecvAll ==
  /\ listener = "recv"
  /\ received < sent
  /\ received' = sent
  /\ emitting' = emitting \cup (received + 1)..sent
  /\ listener' = "clear"
  /\ UNCHANGED <<kernel, sent, edge, ready, newer, bus, tray, dropped, merged>>

(* ... recv() takes one datagram, blocking the worker thread while there   *)
(* is none, and a task is spawned for it ...                               *)
Recv ==
  /\ listener = "recv"
  /\ received < sent
  /\ received' = received + 1
  /\ emitting' = emitting \cup {received + 1}
  /\ listener' = "clear"
  /\ UNCHANGED <<kernel, sent, edge, ready, newer, bus, tray, dropped, merged>>

\* The mistake of clearing the flag whatever its tick.
ClearAlways ==
  /\ listener = "clear"
  /\ ready' = FALSE
  /\ newer' = FALSE
  /\ listener' = "wait"
  /\ UNCHANGED <<kernel, socket, emitting, bus, tray, dropped, merged>>

(* ... and clear_ready() clears the flag, unless it has a newer tick.      *)
ClearReady ==
  /\ listener = "clear"
  /\ ready' = newer
  /\ newer' = FALSE
  /\ listener' = "wait"
  /\ UNCHANGED <<kernel, socket, emitting, bus, tray, dropped, merged>>

-----------------------------------------------------------------------------
\* The mistake of a task that sends its signal more than once.
EmitAgain(n) ==
  /\ n \in emitting
  /\ events[n].action \in Inserting \cup Removing
  /\ bus' = Append(bus, n)
  /\ UNCHANGED <<kernel, socket, task, emitting, tray, dropped, merged>>

(* The spawned task of event n: a signal, for the actions that have one.   *)
Emit(n) ==
  /\ n \in emitting
  /\ events[n].action \in Inserting \cup Removing
  /\ emitting' = emitting \ {n}
  /\ bus' = Append(bus, n)
  /\ UNCHANGED <<kernel, socket, task, tray, dropped, merged>>

EmitNothing(n) ==
  /\ n \in emitting
  /\ events[n].action \notin Inserting \cup Removing \/ SignalMayFail
  /\ emitting' = emitting \ {n}
  /\ dropped' = dropped \cup {n}
  /\ UNCHANGED <<kernel, socket, task, bus, tray, merged>>

(* The tray: unknown_device_inserted fills the slot whatever it held;      *)
(* device_removed empties it if it holds a device of that id.              *)
Read ==
  /\ bus # <<>>
  /\ bus' = Tail(bus)
  /\ shown' = shown \cup {Head(bus)}
  /\ UNCHANGED <<kernel, socket, task, emitting, dropped, merged>>

ShowInserted ==
  /\ Read
  /\ events[Head(bus)].action \in Inserting
  /\ slot' = Head(bus)
  /\ earlier' = shown

\* The mistake of emptying the slot for any device but the one removed.
ShowRemovedOther ==
  /\ Read
  /\ events[Head(bus)].action \in Removing
  /\ slot' = IF slot # 0 /\ events[slot].dev # events[Head(bus)].dev THEN 0 ELSE slot
  /\ UNCHANGED earlier

ShowRemoved ==
  /\ Read
  /\ events[Head(bus)].action \in Removing
  /\ slot' = IF slot # 0 /\ events[slot].dev = events[Head(bus)].dev THEN 0 ELSE slot
  /\ UNCHANGED earlier

-----------------------------------------------------------------------------
Next ==
  \/ \E d \in Device : DeviceEvent(d)
  \/ InterfaceEvent
  \/ Send \/ Report \/ Readable \/ Recv \/ ClearReady
  \/ \E n \in emitting : Emit(n) \/ EmitNothing(n)
  \/ ShowInserted \/ ShowRemoved

(* The thread, the reactor and every task that can run do run; the tray    *)
(* reads its stream.  Nothing has to happen on the USB bus.                *)
Fairness ==
  /\ WF_vars(Send) /\ WF_vars(Report)
  /\ WF_vars(Readable \/ Recv \/ ClearReady)
  /\ \A n \in 1..MaxEvents : WF_vars(Emit(n) \/ EmitNothing(n))
  /\ WF_vars(ShowInserted \/ ShowRemoved)

Spec == Init /\ [][Next]_vars
FairSpec == Spec /\ Fairness

-----------------------------------------------------------------------------
(* Every variable keeps its type, no more datagrams wait than the socket   *)
(* holds, and only received events are emitted, shown or dropped.          *)
TypeOK ==
  /\ usb \in [Device -> {"out", "in", "bound"}]
  /\ events \in Seq(Event)
  /\ sent \in 0..Len(events) /\ received \in 0..sent
  /\ sent - received <= Capacity
  /\ edge \in BOOLEAN /\ ready \in BOOLEAN /\ newer \in BOOLEAN
  /\ listener \in {"wait", "recv", "clear"}
  /\ emitting \subseteq 1..received
  /\ bus \in Seq(1..received)
  /\ slot \in 0..received
  /\ shown \subseteq 1..received /\ dropped \subseteq 1..received
  /\ earlier \subseteq shown
  /\ merged \in Nat

One(b) == IF b THEN 1 ELSE 0

(* The datagrams whose arrival will still make the listener receive.       *)
Announced ==
  One(edge) + One(ready /\ listener = "wait") + One(listener = "recv")
  + One(newer /\ listener # "wait")

(* Every datagram in the socket is either announced to the listener or     *)
(* came while an announcement was pending: clear_ready() of a guard that   *)
(* is out of date takes nothing back, and no datagram is announced twice.  *)
WaitingAccountedFor == sent - received = Announced + merged

(* The listener's recv(), on a blocking socket inside the runtime, always  *)
(* finds a datagram: it never blocks a worker thread of the daemon.        *)
RecvNeverBlocks == listener = "recv" => received < sent

LaterRemovals(n) ==
  {m \in Numbers : m > n /\ events[m].dev = events[n].dev /\ events[m].action \in Removing}

(* The tray shows a device that is gone only because a signal of its       *)
(* removal has yet to come, was never sent, or overtook the signal of its  *)
(* insertion (the tasks that send them are not ordered).                   *)
TrayAccountedFor ==
  (slot # 0 /\ events[slot].dev \in Device) =>
    (usb[events[slot].dev] = "out" =>
       \E m \in LaterRemovals(slot) : m \notin shown \/ m \in earlier)

(* The events that no signal read and no failure has settled.             *)
Unsettled == Numbers \ (shown \cup dropped)

(* Of each event the tray hears at most once, however the thread, the      *)
(* reactor, the listener and the tasks are interleaved, and only that      *)
(* changes what it shows: they implement the abstract feed.                *)
Feed == INSTANCE EventFeed WITH open <- Unsettled, display <- slot

EachEventOnce == Feed!FeedSpec

(* Every event sent is in the end read by the tray or known to have no     *)
(* signal, apart from as many as announcements were merged.                *)
KeepsUp ==
  \A n \in 1..MaxEvents :
    sent >= n ~> Cardinality(shown \cup dropped) + merged >= n

(* What the comment on the loop says: the listener waits for datagrams and *)
(* processes the event (udev_monitor.rs:120).  It fails: two datagrams     *)
(* that arrive before the listener runs make it receive only one.          *)
EveryEventReceived ==
  \A n \in 1..MaxEvents : Len(events) >= n ~> received >= n
=============================================================================
