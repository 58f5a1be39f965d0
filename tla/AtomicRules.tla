---------------------------- MODULE AtomicRules ----------------------------
(***************************************************************************)
(* What "atomically write new rules content, restore the previous rules on *)
(* failure" amounts to for the stored rules, with files, copies and calls  *)
(* abstracted away: they are replaced as a whole by the rules that were    *)
(* asked for, at most once per request, and what they replaced may be put  *)
(* back as a whole, if the request has kept it.  A power loss may undo all *)
(* that has not reached the disk, but leaves nothing in between.           *)
(***************************************************************************)
CONSTANTS Rules,     \* complete rule sets
          Anything,  \* what may be stored where rules should be
          None       \* no rules are stored, or nothing is asked for

VARIABLES stored,    \* the rules in force after a start of usbguard
          kept,      \* the rules in force after a power loss
          asked,     \* the rules a request wants installed
          previous   \* what a request may put back

rulesVars == <<stored, kept, asked, previous>>

RulesInit == /\ stored \in Rules \cup {None}
             /\ kept = stored
             /\ asked = None
             /\ previous = {}

Ask(r) == /\ asked = None
          /\ asked' = r
          /\ UNCHANGED <<stored, kept, previous>>

\* A request that has not kept the rules it replaces may put back anything.
Install == /\ asked # None
           /\ stored' = asked
           /\ previous' \in {{stored} \ {None}, Anything}
           /\ asked' = None
           /\ UNCHANGED kept

Restore == /\ asked = None
           /\ stored' \in previous
           /\ previous' = {}
           /\ UNCHANGED <<kept, asked>>

\* The request is over: it was refused, it succeeded or its maker is gone.
Settle == /\ asked' = None
          /\ previous' = {}
          /\ UNCHANGED <<stored, kept>>

Persist == /\ kept' = stored
           /\ UNCHANGED <<stored, asked, previous>>

LosePower == /\ stored' = kept
             /\ asked' = None
             /\ previous' = {}
             /\ UNCHANGED kept

RulesNext == (\E r \in Rules : Ask(r)) \/ Install \/ Restore \/ Settle \/ Persist \/ LosePower

RulesSpec == RulesInit /\ [][RulesNext]_rulesVars
=============================================================================
