----------------------------- MODULE DeviceGate -----------------------------
(***************************************************************************)
(* What the daemon promises about temporary approvals, with every lock,    *)
(* subprocess and audit record abstracted away: the gate is shut, and one  *)
(* device passes it only when one submitted request for that very device   *)
(* is granted.  A request is decided once.  Access may be withdrawn at any *)
(* time and undecided requests may be forgotten together.                  *)
(***************************************************************************)
CONSTANTS Device,   \* devices a request may name
          Client,   \* concurrently served requests
          None      \* not a device

VARIABLES inside,   \* devices let through
          open      \* the device each client has asked for and not been told

gateVars == <<inside, open>>

GateInit == /\ inside = {}
            /\ open = [c \in Client |-> None]

Submit(c, d) == /\ open[c] = None
                /\ open' = [open EXCEPT ![c] = d]
                /\ UNCHANGED inside

Grant(c) == /\ open[c] # None
            /\ inside' = inside \cup {open[c]}
            /\ open' = [open EXCEPT ![c] = None]

Refuse(c) == /\ open[c] # None
             /\ open' = [open EXCEPT ![c] = None]
             /\ UNCHANGED inside

Withdraw(d) == /\ inside' = inside \ {d}
               /\ UNCHANGED open

Forget(S) == /\ open' = [c \in Client |-> IF c \in S THEN None ELSE open[c]]
             /\ UNCHANGED inside

GateNext == \/ \E c \in Client : \/ Grant(c)
                                 \/ Refuse(c)
                                 \/ \E d \in Device : Submit(c, d)
            \/ \E d \in Device : Withdraw(d)
            \/ \E S \in SUBSET Client : Forget(S)

GateSpec == GateInit /\ [][GateNext]_gateVars
=============================================================================
