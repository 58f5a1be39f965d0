------------------------ MODULE BaselineEditor_proof ------------------------
(* Proofs about BaselineEditor, for listings and drafts of any length, any *)
(* serials and whatever the way to the rules makes of them.                *)
EXTENDS BaselineEditor, TLAPS

(* Nothing has happened before the command runs.                           *)
Fresh == screen = "shell" => /\ selected = 1 /\ entries = <<>> /\ raw = FALSE
                             /\ odd = {} /\ ever = {}

(* In the editor an empty serial never gets into an entry.                 *)
NeverEmpty == screen # "saved" => \A o \in odd : o.serial # NoSerial

IInv == TypeOK /\ Fresh /\ NeverEmpty /\ SelectionKept /\ TerminalRestored

-----------------------------------------------------------------------------
(* What is left of a sequence without its i-th element.                    *)
LEMMA Removed ==
  ASSUME NEW S, NEW s \in Seq(S), NEW i \in DOMAIN s
  PROVE  /\ RemoveAt(s, i) \in Seq(S)
         /\ Len(RemoveAt(s, i)) = Len(s) - 1
         /\ \A j \in 1..(Len(s) - 1) : RemoveAt(s, i)[j] = IF j < i THEN s[j] ELSE s[j + 1]
<1> DEFINE a == SubSeq(s, 1, i - 1)
           b == SubSeq(s, i + 1, Len(s))
<1>1. i \in 1..Len(s) /\ Len(s) \in Nat
  OBVIOUS
<1>2. a \in Seq(S) /\ Len(a) = i - 1 /\ \A j \in 1..(i - 1) : a[j] = s[j]
  BY <1>1
<1>3. b \in Seq(S) /\ Len(b) = Len(s) - i /\ \A j \in 1..(Len(s) - i) : b[j] = s[j + i]
  BY <1>1
<1> HIDE DEF a, b
<1>4. /\ a \o b \in Seq(S)
      /\ Len(a \o b) = Len(s) - 1
      /\ \A j \in 1..(Len(s) - 1) : (a \o b)[j] = IF j < i THEN s[j] ELSE s[j + 1]
  BY <1>1, <1>2, <1>3
<1> QED BY <1>4 DEF RemoveAt, a, b

LEMMA Appended ==
  ASSUME NEW S, NEW s \in Seq(S), NEW e \in S
  PROVE  /\ Append(s, e) \in Seq(S)
         /\ DOMAIN Append(s, e) = 1..(Len(s) + 1)
         /\ Append(s, e)[Len(s) + 1] = e
         /\ \A j \in 1..Len(s) : Append(s, e)[j] = s[j]
  OBVIOUS

-----------------------------------------------------------------------------

LEMMA InitInv == Init => IInv
<1> SUFFICES ASSUME Init PROVE IInv
  OBVIOUS
<1>1. devices \in Seq(Device) /\ entries \in Seq(Entry)
  BY DEF Init
<1>2. TypeOK /\ Fresh /\ NeverEmpty /\ TerminalRestored
  BY <1>1 DEF Init, TypeOK, Fresh, NeverEmpty, TerminalRestored, Screen
<1>3. DOMAIN entries = {}
  BY DEF Init
<1>4. ToSet(entries) = {} /\ odd \cup {[kind |-> k, serial |-> None] : k \in ever} = {}
  BY <1>3 DEF Init, ToSet
<1>5. SelectionKept
  BY <1>3, <1>4 DEF SelectionKept
<1> QED BY <1>2, <1>5 DEF IInv

(* The rows of a listing are devices.                                      *)
LEMMA Listing ==
  ASSUME ListDevices
  PROVE  devices' \in Seq(Device)
<1>1. PICK n \in 0..MaxRows : \E plugged \in [1..n -> Device] :
        devices' = [i \in 1..n |-> Row(plugged[i])]
  BY DEF ListDevices
<1>2. PICK plugged \in [1..n -> Device] : devices' = [i \in 1..n |-> Row(plugged[i])]
  BY <1>1
<1>3. n \in Nat
  BY <1>1, EditorAssumption
<1>4. \A i \in 1..n : Row(plugged[i]) \in Device
  BY EditorAssumption DEF Row, Device
<1> QED BY <1>2, <1>3, <1>4

LEMMA EntryTyped == \A d \in Device : EntryOf(d) \in Entry
  BY DEF EntryOf, Device, Entry

(* Enter removes the row's entry, which is the only one, or adds one.      *)
LEMMA EnterKeeps ==
  ASSUME TypeOK, NeverEmpty, SelectionKept, Enter
  PROVE  entries' \in Seq(Entry) /\ odd' \subseteq Device /\ ever' \subseteq Kind
         /\ SelectionKept' /\ NeverEmpty'
<1> DEFINE d == devices[selected]
<1>1. d \in Device
  BY DEF TypeOK, Enter
<1>2. /\ Toggle(d)
      /\ odd' = IF d.serial = NoSerial THEN odd ELSE (odd \ {d}) \cup ({d} \ odd)
      /\ ever' = IF d.serial = NoSerial THEN ever \cup {d.kind} ELSE ever
      /\ screen = "keys" /\ screen' = "keys"
  BY DEF Enter
<1> HIDE DEF d
<1>3. odd' \subseteq Device /\ ever' \subseteq Kind
  BY <1>1, <1>2 DEF TypeOK, Device
<1>4. NeverEmpty'
  BY <1>2 DEF NeverEmpty
<1>5. \A i \in DOMAIN entries : entries[i] \in Entry
  BY DEF TypeOK
<1>6. \A i \in DOMAIN entries : entries[i] = d <=> Same(entries[i], d)
  BY <1>1, <1>5 DEF Same, Device, Entry
<1>7. ToSet(entries) = odd \cup {[kind |-> k, serial |-> None] : k \in ever}
  BY DEF SelectionKept
<1>8. (\E i \in DOMAIN entries : Same(entries[i], d)) <=> d \in odd
  BY <1>1, <1>6, <1>7, EditorAssumption DEF ToSet, Device
<1>9. CASE \E i \in DOMAIN entries : Same(entries[i], d) /\ entries' = RemoveAt(entries, i)
  <2>1. PICK i \in DOMAIN entries : Same(entries[i], d) /\ entries' = RemoveAt(entries, i)
    BY <1>9
  <2>2. d \in odd /\ entries[i] = d /\ d.serial # NoSerial
    BY <1>2, <1>6, <1>8, <2>1 DEF NeverEmpty
  <2>3. odd' = odd \ {d} /\ ever' = ever
    BY <1>2, <2>2
  <2>4. entries \in Seq(Entry)
    BY DEF TypeOK
  <2>5. /\ entries' \in Seq(Entry) /\ Len(entries') = Len(entries) - 1
        /\ \A j \in 1..(Len(entries) - 1) :
             entries'[j] = IF j < i THEN entries[j] ELSE entries[j + 1]
    BY <2>1, <2>4, Removed
  <2>6. \A j \in DOMAIN entries : entries[j] = d <=> j = i
    BY <1>1, <2>2, EditorAssumption DEF SelectionKept, Device
  <2>7. ToSet(entries') = ToSet(entries) \ {d}
    <3>1. ASSUME NEW e \in ToSet(entries')
          PROVE  e \in ToSet(entries) /\ e # d
      <4>1. PICK j \in 1..(Len(entries) - 1) : e = entries'[j]
        BY <2>4, <2>5 DEF ToSet
      <4>2. CASE j < i
        BY <2>4, <2>5, <2>6, <4>1, <4>2 DEF ToSet
      <4>3. CASE ~(j < i)
        BY <2>4, <2>5, <2>6, <4>1, <4>3 DEF ToSet
      <4> QED BY <4>2, <4>3
    <3>2. ASSUME NEW e \in ToSet(entries), e # d
          PROVE  e \in ToSet(entries')
      <4>1. PICK j \in DOMAIN entries : e = entries[j]
        BY DEF ToSet
      <4>2. CASE j < i
        <5>1. j \in DOMAIN entries' /\ entries'[j] = e
          BY <2>4, <2>5, <4>1, <4>2
        <5> QED BY <5>1 DEF ToSet
      <4>3. CASE j > i
        <5>1. j - 1 \in DOMAIN entries' /\ entries'[j - 1] = e
          BY <2>4, <2>5, <4>1, <4>3
        <5> QED BY <5>1 DEF ToSet
      <4>4. j # i
        BY <2>2, <3>2, <4>1
      <4> QED BY <2>4, <4>2, <4>3, <4>4
    <3> QED BY <3>1, <3>2
  <2>8. d \notin {[kind |-> k, serial |-> None] : k \in ever}
    BY <1>1, EditorAssumption DEF Device
  <2>9. ToSet(entries') = odd' \cup {[kind |-> k, serial |-> None] : k \in ever'}
    BY <1>7, <2>3, <2>7, <2>8
  <2>10. ASSUME NEW j \in DOMAIN entries', NEW m \in DOMAIN entries',
                entries'[j] = entries'[m], entries'[j].serial # None
         PROVE  j = m
    <3> DEFINE at(x) == IF x < i THEN x ELSE x + 1
    <3>1. /\ at(j) \in DOMAIN entries /\ at(m) \in DOMAIN entries
          /\ entries'[j] = entries[at(j)] /\ entries'[m] = entries[at(m)]
      BY <2>4, <2>5
    <3>2. at(j) = at(m)
      BY <2>10, <3>1 DEF SelectionKept
    <3> QED BY <2>4, <2>5, <3>2
  <2> QED BY <1>3, <1>4, <2>5, <2>9, <2>10 DEF SelectionKept
<1>10. CASE /\ \A i \in DOMAIN entries : ~Same(entries[i], d)
            /\ entries' = Append(entries, EntryOf(d))
  <2>1. d \notin odd
    BY <1>8, <1>10
  <2>2. EntryOf(d) \in Entry /\ entries \in Seq(Entry)
    BY <1>1, EntryTyped DEF TypeOK
  <2>3. /\ entries' \in Seq(Entry) /\ DOMAIN entries' = 1..(Len(entries) + 1)
        /\ entries'[Len(entries) + 1] = EntryOf(d)
        /\ \A j \in 1..Len(entries) : entries'[j] = entries[j]
    BY <1>10, <2>2, Appended
  <2>4. ToSet(entries') = ToSet(entries) \cup {EntryOf(d)}
    BY <2>2, <2>3 DEF ToSet
  <2>5. ToSet(entries') = odd' \cup {[kind |-> k, serial |-> None] : k \in ever'}
    <3>1. CASE d.serial = NoSerial
      <4>1. EntryOf(d) = [kind |-> d.kind, serial |-> None]
        BY <3>1 DEF EntryOf
      <4> QED BY <1>2, <1>7, <2>4, <3>1, <4>1
    <3>2. CASE d.serial # NoSerial
      <4>1. EntryOf(d) = d
        BY <1>1, <3>2 DEF EntryOf, Device
      <4> QED BY <1>2, <1>7, <2>1, <2>4, <3>2, <4>1
    <3> QED BY <3>1, <3>2
  <2>6. \A j \in DOMAIN entries : entries[j] # EntryOf(d) \/ EntryOf(d).serial = None
    BY <1>1, <1>6, <1>10 DEF EntryOf, Device
  <2>7. \A j, m \in DOMAIN entries' :
          entries'[j] = entries'[m] /\ entries'[j].serial # None => j = m
    BY <2>2, <2>3, <2>6 DEF SelectionKept
  <2> QED BY <1>3, <1>4, <2>3, <2>5, <2>7 DEF SelectionKept
<1> QED BY <1>2, <1>9, <1>10 DEF Toggle

(* A draft of one entry.                                                   *)
LEMMA DraftKeeps ==
  ASSUME InitDraft, IInv
  PROVE  IInv'
<1> USE DEF IInv
<1>1. devices' \in Seq(Device) /\ selected' = 1 /\ raw' = FALSE
  BY Listing DEF InitDraft, Fresh
<1>2. CASE screen' = "failed" /\ UNCHANGED <<entries, odd, ever>>
  <2>1. SelectionKept'
    BY <1>2 DEF SelectionKept
  <2>2. NeverEmpty' /\ Fresh' /\ TerminalRestored'
    BY <1>1, <1>2 DEF InitDraft, NeverEmpty, Fresh, TerminalRestored
  <2>3. TypeOK'
    BY <1>1, <1>2 DEF TypeOK, Screen
  <2> QED BY <2>1, <2>2, <2>3
<1>3. CASE ~(screen' = "failed" /\ UNCHANGED <<entries, odd, ever>>)
  <2>1. PICK k \in Kind, i \in DOMAIN devices', given \in Serial \cup {None} :
          LET e == IF given = None THEN EntryOf(devices'[i]) ELSE [kind |-> k, serial |-> given]
          IN /\ FirstOf(k, i)
             /\ screen' = "saved" /\ entries' = <<e>>
             /\ odd' = {[kind |-> k, serial |-> s] : s \in {e.serial} \ {None}}
             /\ ever' = IF e.serial = None THEN {k} ELSE {}
    BY <1>3 DEF InitDraft
  <2> DEFINE e == IF given = None THEN EntryOf(devices'[i]) ELSE [kind |-> k, serial |-> given]
  <2>2. /\ devices'[i].kind = k
        /\ screen' = "saved" /\ entries' = <<e>>
        /\ odd' = {[kind |-> k, serial |-> s] : s \in {e.serial} \ {None}}
        /\ ever' = IF e.serial = None THEN {k} ELSE {}
    BY <2>1 DEF FirstOf
  <2>3. devices'[i] \in Device
    BY <1>1
  <2>4. e \in Entry /\ e.kind = k
    BY <2>2, <2>3, EntryTyped DEF Entry, EntryOf
  <2> HIDE DEF e
  <2>5. e = [kind |-> k, serial |-> e.serial] /\ e.serial \in Serial \cup {None}
    BY <2>4 DEF Entry
  <2>6. ToSet(entries') = {e}
    BY <2>2, DOMAIN entries' = {1}, entries'[1] = e DEF ToSet
  <2>7. odd' \cup {[kind |-> j, serial |-> None] : j \in ever'} = {e}
    BY <2>2, <2>5
  <2>8. SelectionKept'
    BY <2>2, <2>6, <2>7 DEF SelectionKept
  <2>9. TypeOK'
    <3>1. entries' \in Seq(Entry)
      BY <2>2, <2>4
    <3>2. odd' \subseteq Device /\ ever' \subseteq Kind
      BY <2>2, <2>5 DEF Device
    <3> QED BY <1>1, <2>2, <3>1, <3>2 DEF TypeOK, Screen
  <2> QED BY <1>1, <2>2, <2>8, <2>9 DEF Fresh, NeverEmpty, TerminalRestored
<1> QED BY <1>2, <1>3

LEMMA NextInv == IInv /\ [Next]_vars => IInv'
<1> SUFFICES ASSUME IInv, [Next]_vars PROVE IInv'
  OBVIOUS
<1> USE DEF IInv
<1>1. CASE Tui
  <2>1. devices' \in Seq(Device) /\ selected' = 1 /\ UNCHANGED <<entries, odd, ever>>
    BY <1>1, Listing DEF Tui, Fresh
  <2>2. screen' \in {"keys", "failed"} /\ raw' \in BOOLEAN /\ NeverEmpty'
    BY <1>1 DEF Tui, NeverEmpty
  <2>3. SelectionKept'
    BY <2>1 DEF SelectionKept
  <2> QED BY <2>1, <2>2, <2>3 DEF TypeOK, Fresh, TerminalRestored, Screen
<1>2. CASE Enter
  <2>1. entries' \in Seq(Entry) /\ odd' \subseteq Device /\ ever' \subseteq Kind
        /\ SelectionKept' /\ NeverEmpty'
    BY <1>2, EnterKeeps
  <2> QED BY <1>2, <2>1 DEF Enter, TypeOK, Fresh, TerminalRestored
<1>3. CASE InitDraft
  BY <1>3, DraftKeeps
<1>4. CASE Down \/ Up
  <2>1. UNCHANGED <<screen, raw, devices, entries, odd, ever>> /\ screen = "keys"
    BY <1>4 DEF Down, Up
  <2>2. devices \in Seq(Device) /\ (selected \in DOMAIN devices \/ selected = 1)
    BY DEF TypeOK
  <2>3. selected' \in DOMAIN devices
    BY <1>4, <2>2 DEF Down, Up
  <2>4. TypeOK'
    BY <2>1, <2>3 DEF TypeOK
  <2> QED BY <2>1, <2>4 DEF Fresh, NeverEmpty, SelectionKept, TerminalRestored
<1>5. CASE EnterNothing \/ AskComment \/ ReadComment \/ Save \/ Quit \/ IoError
  <2>1. UNCHANGED <<devices, selected, entries, odd, ever>>
    BY <1>5 DEF EnterNothing, AskComment, ReadComment, Save, Quit, IoError
  <2>2. /\ screen \in {"keys", "prompt"} /\ screen' \in Screen \ {"shell"}
        /\ raw' \in BOOLEAN /\ TerminalRestored'
    BY <1>5 DEF EnterNothing, AskComment, ReadComment, Save, Quit, IoError, Screen,
       TerminalRestored, TypeOK
  <2>3. NeverEmpty' /\ Fresh'
    BY <2>1, <2>2 DEF NeverEmpty, Fresh
  <2>4. TypeOK' /\ SelectionKept'
    BY <2>1, <2>2 DEF TypeOK, SelectionKept
  <2> QED BY <2>2, <2>3, <2>4
<1>6. CASE UNCHANGED vars
  BY <1>6 DEF vars, TypeOK, Fresh, NeverEmpty, SelectionKept, TerminalRestored
<1> QED BY <1>1, <1>2, <1>3, <1>4, <1>5, <1>6 DEF Next

(* The inductive invariant holds in every behaviour.                       *)
THEOREM Invariance == Spec => []IInv
  BY InitInv, NextInv, PTL DEF Spec

-----------------------------------------------------------------------------
(* Every variable keeps its type: with a listing of any length the cursor  *)
(* points at a row, unless there is none.                                  *)
THEOREM TypeCorrect == Spec => []TypeOK
<1>1. IInv => TypeOK
  BY DEF IInv
<1> QED BY <1>1, Invariance, PTL

(* The entries are the rows chosen an odd number of times, each once, and  *)
(* for rows without a serial every one ever chosen.                        *)
THEOREM SelectionAlwaysKept == Spec => []SelectionKept
<1>1. IInv => SelectionKept
  BY DEF IInv
<1> QED BY <1>1, Invariance, PTL

(* Raw mode outlives the editor only after an error or a panic.            *)
THEOREM TerminalAlwaysRestored == Spec => []TerminalRestored
<1>1. IInv => TerminalRestored
  BY DEF IInv
<1> QED BY <1>1, Invariance, PTL

(* A device is let in by the entry of its kind without a serial, or by one *)
(* whose serial reads like its own.                                        *)
LEMMA LetInBy ==
  ASSUME TypeOK, SelectionKept, NEW d \in Device
  PROVE  d \in LetIn <=> \/ d.kind \in ever
                        \/ \E o \in odd : /\ o.kind = d.kind
                                         /\ Ruled[o.serial] = d.serial
<1>1. d \in LetIn <=> \E e \in ToSet(entries) : Admits(RuleOf(e), d)
  BY DEF LetIn, ToSet
<1>2. ToSet(entries) = odd \cup {[kind |-> k, serial |-> None] : k \in ever}
  BY DEF SelectionKept
<1>3. \A o \in odd : Admits(RuleOf(o), d) <=> o.kind = d.kind /\ Ruled[o.serial] = d.serial
  <2> TAKE o \in odd
  <2>1. o.serial \in Serial /\ o.serial # None /\ Ruled[o.serial] \in Serial
    BY EditorAssumption DEF TypeOK, Device
  <2>2. Ruled[o.serial] # None
    BY <2>1, EditorAssumption
  <2> QED BY <2>1, <2>2 DEF Admits, RuleOf
<1>4. \A k \in ever : Admits(RuleOf([kind |-> k, serial |-> None]), d) <=> k = d.kind
  BY DEF Admits, RuleOf
<1> QED BY <1>1, <1>2, <1>3, <1>4

(* If serials without backslashes and control characters come through      *)
(* unchanged, then whatever becomes of the others, the rules of a draft    *)
(* let in each chosen device with such a serial, and nothing that was not  *)
(* chosen but for the two reasons of RulesMatchSelection.                  *)
THEOREM RulesAlwaysMatchSelection ==
  ASSUME \A s \in Plain : Listed[s] = s /\ Ruled[s] = s
  PROVE  Spec => []RulesMatchSelection
<1>1. IInv => RulesMatchSelection
  <2> SUFFICES ASSUME IInv, NEW d \in Device
               PROVE  /\ Row(d) \in odd /\ d.serial \in Plain => d \in LetIn
                      /\ d \in LetIn => \/ Row(d) \in odd
                                        \/ d.kind \in ever
                                        \/ \E o \in odd : o.kind = d.kind /\ o.serial \notin Plain
    BY DEF RulesMatchSelection
  <2>1. TypeOK /\ SelectionKept /\ odd \subseteq Device
    BY DEF IInv, TypeOK
  <2>2. d.serial \in Plain => Row(d) = d
    BY DEF Row, Device
  <2>3. ASSUME Row(d) \in odd, d.serial \in Plain
        PROVE  d \in LetIn
    <3>1. d \in odd /\ Ruled[d.serial] = d.serial
      BY <2>2, <2>3
    <3> QED BY <2>1, <3>1, LetInBy
  <2>4. ASSUME d \in LetIn, d.kind \notin ever
        PROVE  Row(d) \in odd \/ \E o \in odd : o.kind = d.kind /\ o.serial \notin Plain
    <3>1. PICK o \in odd : o.kind = d.kind /\ Ruled[o.serial] = d.serial
      BY <2>1, <2>4, LetInBy
    <3>2. CASE o.serial \in Plain
      <4>1. o.serial = d.serial
        BY <3>1, <3>2
      <4>2. o = d
        BY <2>1, <3>1, <4>1 DEF Device
      <4> QED BY <2>2, <3>2, <4>1, <4>2
    <3> QED BY <3>1, <3>2
  <2> QED BY <2>3, <2>4
<1> QED BY <1>1, Invariance, PTL

(* If serials came through unchanged, the draft of every selection would   *)
(* let in the chosen devices and, but for kinds chosen without a serial,   *)
(* no other one.                                                           *)
THEOREM FaithfulSerials ==
  ASSUME \A s \in Serial : Listed[s] = s /\ Ruled[s] = s
  PROVE  Spec => [](screen = "saved" =>
                      LetIn = {d \in Device : Row(d) \in odd \/ d.kind \in ever})
<1>1. IInv => (screen = "saved" =>
                 LetIn = {d \in Device : Row(d) \in odd \/ d.kind \in ever})
  <2> SUFFICES ASSUME IInv
               PROVE  LetIn = {d \in Device : Row(d) \in odd \/ d.kind \in ever}
    OBVIOUS
  <2>1. \A d \in Device : Row(d) = d
    BY DEF Row, Device
  <2>2. \A d \in Device : d \in odd <=> \E o \in odd : /\ o.kind = d.kind
                                                      /\ Ruled[o.serial] = d.serial
    <3>1. \A o \in odd : o \in Device /\ Ruled[o.serial] = o.serial
      BY DEF IInv, TypeOK, Device
    <3> QED BY <3>1 DEF Device
  <2>3. LetIn \subseteq Device
    BY DEF LetIn
  <2> QED BY <2>1, <2>2, <2>3, LetInBy DEF IInv
<1> QED BY <1>1, Invariance, PTL
=============================================================================
