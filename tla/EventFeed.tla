------------------------------ MODULE EventFeed ------------------------------
(***************************************************************************)
(* What the relay of udev events promises to the tray, with threads,       *)
(* sockets and tasks abstracted away: an insertion or a removal is told at *)
(* most once, in no particular order, and may be lost; nothing but what is *)
(* told changes what the tray shows.                                       *)
(***************************************************************************)
EXTENDS Naturals, Sequences

CONSTANTS Event,      \* what may happen: a device and an action
          Inserting,  \* the actions told as an insertion
          Removing    \* those told as a removal

VARIABLES events,   \* what happened
          open,     \* the events that may still be told
          display   \* the insertion that is shown, 0 if there is none

feedVars == <<events, open, display>>

FeedInit == events = <<>> /\ open = {} /\ display = 0

Happen(e) == /\ events' = Append(events, e)
             /\ open' = open \cup {Len(events) + 1}
             /\ UNCHANGED display

Close(n) == /\ n \in open
            /\ open' = open \ {n}
            /\ UNCHANGED events

Lose(n) == Close(n) /\ UNCHANGED display

TellInserted(n) == /\ Close(n)
                   /\ events[n].action \in Inserting
                   /\ display' = n

TellRemoved(n) ==
  /\ Close(n)
  /\ events[n].action \in Removing
  /\ display' = IF display # 0 /\ events[display].dev = events[n].dev THEN 0 ELSE display

FeedNext == \/ \E e \in Event : Happen(e)
            \/ \E n \in open : Lose(n) \/ TellInserted(n) \/ TellRemoved(n)

FeedSpec == FeedInit /\ [][FeedNext]_feedVars
=============================================================================
