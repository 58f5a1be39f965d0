--------------------------- MODULE BaselineEditor ---------------------------
(***************************************************************************)
(* The way of a device from usbguard's listing                             *)
(* (crates/backend-usbguard/src/lib.rs) through the baseline editor        *)
(* (crates/cli/src/tui.rs) or `lusbyctl baseline init`                     *)
(* (crates/cli/src/main.rs) into a draft, and from there into the rules    *)
(* the daemon generates (crates/daemon/src/dbus.rs).                       *)
(*                                                                         *)
(* A serial is written four times on this way.  Listed and Ruled stand for *)
(* what is left of it (module Serials computes them): usbguard escapes     *)
(* what it prints and the daemon un-escapes it; the daemon writes control  *)
(* characters as "?" and escapes quotes but not backslashes, and usbguard  *)
(* un-escapes that.                                                        *)
(***************************************************************************)
EXTENDS Integers, Sequences, SequencesExt

CONSTANTS
  Kind,       \* vendor and product, which make up the id
  Serial,     \* serials, NoSerial among them
  NoSerial,   \* the empty serial
  Listed,     \* a device's serial, as the daemon lists it
  Ruled,      \* a listed serial, as usbguard reads it in a generated rule
  Plain,      \* serials without backslashes and control characters
  None,       \* no serial in an entry: any will do
  MaxRows,    \* bound of the listing
  MaxEntries  \* bound of the draft

ASSUME EditorAssumption ==
  /\ NoSerial \in Serial /\ None \notin Serial
  /\ Listed \in [Serial -> Serial] /\ Ruled \in [Serial -> Serial]
  /\ Plain \subseteq Serial
  /\ MaxRows \in Nat /\ MaxEntries \in Nat

VARIABLES
  screen,    \* what the program is doing, or how it ended
  raw,       \* whether the terminal is in raw mode
  devices,   \* the listing, fetched once
  selected,  \* the row under the cursor, from 1
  entries,   \* baseline_devices, and then the draft
  odd,       \* history: rows with a serial Enter was pressed on an odd number
             \* of times
  ever       \* history: kinds of the rows without one it was pressed on

vars == <<screen, raw, devices, selected, entries, odd, ever>>

Screen == {"shell", "keys", "prompt", "saved", "cancelled", "failed", "panicked"}

Device == [kind : Kind, serial : Serial]
Entry == [kind : Kind, serial : Serial \cup {None}]

Init ==
  /\ screen = "shell" /\ raw = FALSE
  /\ devices = <<>> /\ selected = 1 /\ entries = <<>>
  /\ odd = {} /\ ever = {}

-----------------------------------------------------------------------------
(* list_devices: lines without an id are no rows, and there are none if    *)
(* the command fails.                                                      *)
Row(d) == [kind |-> d.kind, serial |-> Listed[d.serial]]

ListDevices ==
  \E n \in 0..MaxRows : \E plugged \in [1..n -> Device] :
    devices' = [i \in 1..n |-> Row(plugged[i])]

\* The mistake of comparing vendor and product only.
SameKind(e, d) == e.kind = d.kind

\* An entry without a serial is like no row, not even one without a serial.
Same(e, d) == e.kind = d.kind /\ e.serial = d.serial

EntryOf(d) == [kind |-> d.kind,
               serial |-> IF d.serial = NoSerial THEN None ELSE d.serial]

-----------------------------------------------------------------------------
(* lusbyctl tui.  Setting up the terminal may fail half way.               *)
Tui ==
  /\ screen = "shell"
  /\ ListDevices
  /\ \/ screen' = "keys" /\ raw' = TRUE
     \/ screen' = "failed" /\ raw' \in BOOLEAN
  /\ UNCHANGED <<selected, entries, odd, ever>>

\* The mistake of a bound that is off by one.
DownTooFar ==
  /\ screen = "keys"
  /\ selected <= Len(devices)
  /\ selected' = selected + 1
  /\ UNCHANGED <<screen, raw, devices, entries, odd, ever>>

Down ==
  /\ screen = "keys"
  /\ selected < Len(devices)
  /\ selected' = selected + 1
  /\ UNCHANGED <<screen, raw, devices, entries, odd, ever>>

Up ==
  /\ screen = "keys"
  /\ selected > 1
  /\ selected' = selected - 1
  /\ UNCHANGED <<screen, raw, devices, entries, odd, ever>>

\* The first entry like the row is removed, or one is added.
Toggle(d) ==
  \/ \E i \in DOMAIN entries :
       /\ Same(entries[i], d)
       /\ \A j \in 1..(i - 1) : ~Same(entries[j], d)
       /\ entries' = RemoveAt(entries, i)
  \/ /\ \A i \in DOMAIN entries : ~Same(entries[i], d)
     /\ Len(entries) < MaxEntries
     /\ entries' = Append(entries, EntryOf(d))

Enter ==
  /\ screen = "keys" /\ devices # <<>>
  /\ LET d == devices[selected]
     IN /\ Toggle(d)
        /\ odd' = IF d.serial = NoSerial THEN odd ELSE (odd \ {d}) \cup ({d} \ odd)
        /\ ever' = IF d.serial = NoSerial THEN ever \cup {d.kind} ELSE ever
  /\ UNCHANGED <<screen, raw, devices, selected>>

\* devices[selected] of an empty listing.
EnterNothing ==
  /\ screen = "keys" /\ devices = <<>>
  /\ screen' = "panicked"
  /\ UNCHANGED <<raw, devices, selected, entries, odd, ever>>

(* "c": the comment is read in the ordinary mode of the terminal.  It goes *)
(* into every entry and plays no part in the rules.                        *)
AskComment ==
  /\ screen = "keys"
  /\ screen' = "prompt" /\ raw' = FALSE
  /\ UNCHANGED <<devices, selected, entries, odd, ever>>

ReadComment ==
  /\ screen = "prompt"
  /\ screen' = "keys" /\ raw' = TRUE
  /\ UNCHANGED <<devices, selected, entries, odd, ever>>

\* The mistake of leaving the terminal as it is.
SaveKeepsRaw ==
  /\ screen = "keys"
  /\ screen' \in {"saved", "failed"}
  /\ UNCHANGED <<raw, devices, selected, entries, odd, ever>>

\* "s": the draft is written by main, which may fail.
Save ==
  /\ screen = "keys"
  /\ raw' = FALSE
  /\ screen' \in {"saved", "failed"}
  /\ UNCHANGED <<devices, selected, entries, odd, ever>>

Quit ==
  /\ screen = "keys"
  /\ screen' = "cancelled" /\ raw' = FALSE
  /\ UNCHANGED <<devices, selected, entries, odd, ever>>

\* Any `?` of the loop: the error is printed and the terminal left as it is.
IoError ==
  /\ screen \in {"keys", "prompt"}
  /\ screen' = "failed"
  /\ UNCHANGED <<raw, devices, selected, entries, odd, ever>>

-----------------------------------------------------------------------------
(* lusbyctl baseline init, for the first row of a kind; a serial that is   *)
(* given takes the place of the one that is listed.                        *)
FirstOf(k, i) == /\ devices'[i].kind = k
                 /\ \A j \in 1..(i - 1) : devices'[j].kind # k

InitDraft ==
  /\ screen = "shell"
  /\ ListDevices
  /\ \E k \in Kind :
       \/ \E i \in DOMAIN devices', given \in Serial \cup {None} :
            LET e == IF given = None THEN EntryOf(devices'[i])
                                     ELSE [kind |-> k, serial |-> given]
            IN /\ FirstOf(k, i)
               /\ screen' = "saved" /\ entries' = <<e>>
               /\ odd' = {[kind |-> k, serial |-> s] : s \in {e.serial} \ {None}}
               /\ ever' = IF e.serial = None THEN {k} ELSE {}
       \/ screen' = "failed" /\ UNCHANGED <<entries, odd, ever>>
  /\ UNCHANGED <<raw, selected>>

Next == \/ Tui \/ Down \/ Up \/ Enter \/ EnterNothing
        \/ AskComment \/ ReadComment \/ Save \/ Quit \/ IoError
        \/ InitDraft

Spec == Init /\ [][Next]_vars

-----------------------------------------------------------------------------
(* generate_rules_from_baseline, and what usbguard makes of a rule.        *)

\* The mistake of leaving the serial out.
RuleOfKind(e) == [kind |-> e.kind, serial |-> None]

RuleOf(e) == [kind |-> e.kind,
              serial |-> IF e.serial = None THEN None ELSE Ruled[e.serial]]

Admits(r, d) == r.kind = d.kind /\ r.serial \in {None, d.serial}

LetIn == {d \in Device : \E i \in DOMAIN entries : Admits(RuleOf(entries[i]), d)}

-----------------------------------------------------------------------------
(* Every variable keeps its type: the cursor stays within the listing, and *)
(* is at its start if it is empty.                                         *)
TypeOK ==
  /\ screen \in Screen /\ raw \in BOOLEAN
  /\ devices \in Seq(Device)
  /\ selected \in DOMAIN devices \/ selected = 1
  /\ entries \in Seq(Entry)
  /\ odd \subseteq Device /\ ever \subseteq Kind

\* Whatever keys are pressed, the entries are the rows chosen an odd number
\* of times, each once, and for rows without a serial all that were ever
\* chosen: those cannot be removed again (tui.rs:101).
SelectionKept ==
  /\ ToSet(entries) = odd \cup {[kind |-> k, serial |-> None] : k \in ever}
  /\ \A i, j \in DOMAIN entries :
       entries[i] = entries[j] /\ entries[i].serial # None => i = j

\* The rules generated from a draft let in every device whose row was chosen
\* and whose serial has no backslashes or control characters.  They let in no
\* other device (README.md:69, "Only explicitly approved devices are allowed")
\* but those of a kind that was ever chosen without a serial, and those of a
\* kind of which a serial with such characters was chosen.
RulesMatchSelection ==
  screen = "saved" =>
    \A d \in Device :
      /\ Row(d) \in odd /\ d.serial \in Plain => d \in LetIn
      /\ d \in LetIn => \/ Row(d) \in odd
                         \/ d.kind \in ever
                         \/ \E o \in odd : o.kind = d.kind /\ o.serial \notin Plain

\* The shell gets its terminal back unless an error or the panic of an empty
\* listing ends the editor (tui.rs:97).
TerminalRestored == raw => screen \in {"keys", "failed", "panicked"}
=============================================================================
