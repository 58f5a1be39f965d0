--------------------------- MODULE AuditLog_proof ---------------------------
(***************************************************************************)
(* Proofs about AuditLog, for any number of calls, restarts, failed writes *)
(* and damaged lines.                                                      *)
(***************************************************************************)
EXTENDS AuditLog, LeastNatural, SequenceTheorems, TLAPS

LEMMA NewEntryType ==
  ASSUME NEW prev \in Seq(Nat), NEW p \in Nat
  PROVE  NewEntry(prev, p) \in Entry
  BY DEF NewEntry, ComputeHash, Entry

LEMMA EntryNotTorn == Torn \notin Entry
  BY TornAssumption DEF Entry

LEMMA ChainType ==
  TypeOK /\ Chain =>
    /\ clock' = clock + 1 /\ clock' \in Nat
    /\ lives' \in Seq(Seq(Nat)) /\ lives' # <<>>
    /\ NewEntry(last_hash, clock + 1) \in Entry
    /\ last_hash' = NewEntry(last_hash, clock + 1).entry_hash
    /\ last_hash' \in Seq(Nat)
<1> SUFFICES ASSUME TypeOK, Chain
             PROVE  /\ clock' = clock + 1 /\ clock' \in Nat
                    /\ lives' \in Seq(Seq(Nat)) /\ lives' # <<>>
                    /\ NewEntry(last_hash, clock + 1) \in Entry
                    /\ last_hash' = NewEntry(last_hash, clock + 1).entry_hash
                    /\ last_hash' \in Seq(Nat)
  OBVIOUS
<1>1. clock' = clock + 1 /\ clock' \in Nat
  BY DEF TypeOK, Chain, NewCall
<1>2. lives' \in Seq(Seq(Nat)) /\ lives' # <<>>
  BY DEF TypeOK, Chain, NewCall
<1>3. NewEntry(last_hash, clock + 1) \in Entry
  BY NewEntryType DEF TypeOK
<1>4. last_hash' = NewEntry(last_hash, clock + 1).entry_hash
  BY DEF Chain
<1>5. last_hash' \in Seq(Nat)
  BY <1>3, <1>4 DEF Entry
<1>6. QED
  BY <1>1, <1>2, <1>3, <1>4, <1>5

LEMMA ExtendedType ==
  ASSUME TypeOK, NEW line \in Entry \cup {Torn}
  PROVE  Extended(line) \in Seq(Entry \cup {Torn}) /\ Extended(line) # <<>>
<1> DEFINE Line == Entry \cup {Torn}
<1>1. file \in Seq(Line) /\ Torn \in Line
  BY DEF TypeOK
<1>2. CASE open
  <2>1. Len(file) \in DOMAIN file
    BY <1>1, <1>2 DEF TypeOK
  <2>2. Extended(line) = [file EXCEPT ![Len(file)] = Torn]
    BY <1>2 DEF Extended
  <2> HIDE DEF Line
  <2>3. QED
    BY <1>1, <2>1, <2>2 DEF Line
<1>3. CASE ~open
  BY <1>1, <1>3 DEF Extended
<1>4. QED
  BY <1>2, <1>3 DEF TypeOK

LEMMA DamageType == TypeOK /\ Damage => file' \in Seq(Entry \cup {Torn})
<1> SUFFICES ASSUME TypeOK, Damage
             PROVE  file' \in Seq(Entry \cup {Torn})
  OBVIOUS
<1> DEFINE Line == Entry \cup {Torn}
<1>1. PICK i \in DOMAIN file : DropLine(i) \/ RepeatLine(i) \/ SwapLines(i) \/ AlterPayload(i)
  BY DEF Damage
<1>2. file \in Seq(Line) /\ i \in 1..Len(file)
  BY DEF TypeOK
<1>3. CASE DropLine(i)
  <2>1. SubSeq(file, 1, i - 1) \in Seq(Line) /\ SubSeq(file, i + 1, Len(file)) \in Seq(Line)
    BY <1>2, SubSeqProperties
  <2>2. QED
    BY <1>3, <2>1, ConcatProperties DEF DropLine
<1>4. CASE RepeatLine(i)
  <2>1. SubSeq(file, 1, i) \in Seq(Line) /\ SubSeq(file, i, Len(file)) \in Seq(Line)
    BY <1>2, SubSeqProperties
  <2>2. QED
    BY <1>4, <2>1, ConcatProperties DEF RepeatLine
<1>5. CASE SwapLines(i)
  BY <1>2, <1>5 DEF SwapLines
<1>6. CASE AlterPayload(i)
  <2>1. PICK p \in 1..clock : file' = [file EXCEPT ![i] = [file[i] EXCEPT !.payload = p]]
    BY <1>6 DEF AlterPayload
  <2>2. file[i] \in Entry /\ p \in Nat
    BY <1>2, <1>6 DEF AlterPayload, TypeOK
  <2>3. [file[i] EXCEPT !.payload = p] \in Entry
    BY <2>2 DEF Entry
  <2>4. QED
    BY <1>2, <2>1, <2>3
<1>7. QED
  BY <1>1, <1>3, <1>4, <1>5, <1>6

LEMMA NextType == TypeOK /\ [Next]_vars => TypeOK'
<1> SUFFICES ASSUME TypeOK, [Next]_vars
             PROVE  TypeOK'
  OBVIOUS
<1>1. CASE Log
  BY <1>1, ChainType, ExtendedType DEF Log, TypeOK
<1>2. CASE LogLost
  BY <1>2, ChainType DEF LogLost, TypeOK
<1>3. CASE LogCut
  BY <1>3, ChainType, ExtendedType DEF LogCut, TypeOK
<1>4. CASE Restart
  <2>1. <<>> \in Seq(Nat)
    OBVIOUS
  <2>2. lives' \in Seq(Seq(Nat)) /\ lives' # <<>>
    BY <1>4, <2>1, AppendProperties DEF Restart, TypeOK
  <2>3. QED
    BY <1>4, <2>1, <2>2 DEF Restart, TypeOK, NoHash
<1>5. CASE Damage
  BY <1>5, DamageType DEF Damage, TypeOK
<1>6. CASE UNCHANGED vars
  BY <1>6 DEF vars, TypeOK
<1>7. QED
  BY <1>1, <1>2, <1>3, <1>4, <1>5, <1>6 DEF Next, Daemon

LEMMA InitType == Init => TypeOK
<1>1. <<>> \in Seq(Nat) /\ <<>> \in Seq(Entry \cup {Torn})
  OBVIOUS
<1>2. <<<<>>>> \in Seq(Seq(Nat)) /\ Len(<<<<>>>>) = 1
  BY <1>1
<1>3. <<<<>>>> # <<>>
  BY <1>2
<1> SUFFICES ASSUME Init
             PROVE  TypeOK
  OBVIOUS
<1>4. lives \in Seq(Seq(Nat)) /\ lives # <<>>
  BY <1>2, <1>3 DEF Init
<1>5. file \in Seq(Entry \cup {Torn}) /\ last_hash \in Seq(Nat)
  BY <1>1 DEF Init, NoHash
<1>6. open = FALSE /\ clock = 0 /\ intact = TRUE
  BY DEF Init
<1>7. QED
  BY <1>4, <1>5, <1>6 DEF TypeOK

\* Every variable keeps its type, and a line without its end is in the file.
THEOREM TypeCorrect == Spec => []TypeOK
  BY InitType, NextType, PTL DEF Spec

-----------------------------------------------------------------------------

\* Why an intact log verifies: the logger's hash is the newest entry's, or
\* none if there is no entry.
Linked ==
  intact =>
    /\ ~open
    /\ last_hash = IF file = <<>> THEN NoHash ELSE file[Len(file)].entry_hash
    /\ Len(lives[Len(lives)]) = clock

Intact == IntactVerifies /\ Linked

LEMMA InitIntact == Init => Intact
  BY DEF Init, Intact, IntactVerifies, Linked, Verified, VerifyChain, Recorded

LEMMA NextIntact == TypeOK /\ Intact /\ [Next]_vars => Intact'
<1> SUFFICES ASSUME TypeOK, Intact, [Next]_vars, intact'
             PROVE  Intact'
  BY DEF Intact, IntactVerifies, Linked
<1>1. CASE Log
  <2> DEFINE e == NewEntry(last_hash, clock + 1)
             n == Len(file)
             k == Len(lives)
  <2>1. /\ intact /\ file' = Append(file, e)
        /\ open' = FALSE
        /\ clock' = clock + 1
        /\ last_hash' = e.entry_hash
        /\ lives' = [lives EXCEPT ![k] = Append(lives[k], clock + 1)]
    BY <1>1 DEF Log, Chain, NewCall, Extended, Intact, Linked
  <2>2. /\ Verified(file) /\ Recorded(lives[k]) /\ n = clock
        /\ last_hash = IF file = <<>> THEN NoHash ELSE file[n].entry_hash
        /\ Len(lives[k]) = clock
    BY <2>1 DEF Intact, IntactVerifies, Linked
  <2>3. /\ file \in Seq(Entry \cup {Torn}) /\ clock \in Nat
        /\ lives[k] \in Seq(Nat) /\ k \in DOMAIN lives
    BY DEF TypeOK
  <2>4. e \in Entry /\ e # Torn
    BY NewEntryType, EntryNotTorn DEF TypeOK
  <2>5. e.payload = clock + 1 /\ e.prev_hash = last_hash
        /\ e.entry_hash = ComputeHash(last_hash, clock + 1)
    BY DEF NewEntry
  <2> HIDE DEF e
  <2>6. Verified(file)'
    <3>1. \A i \in DOMAIN file' : file'[i] # Torn
      BY <2>1, <2>2, <2>3, <2>4 DEF Verified
    <3>2. VerifyChain(file')
      <4> SUFFICES ASSUME NEW i \in 1..(n + 1)
                   PROVE  LET last == IF i = 1 THEN NoHash ELSE file'[i - 1].entry_hash
                          IN /\ file'[i].entry_hash = ComputeHash(last, file'[i].payload)
                             /\ file'[i].prev_hash = last
        BY <2>1, <2>3 DEF VerifyChain
      <4>1. CASE i = n + 1
        BY <2>1, <2>2, <2>3, <2>5, <4>1
      <4>2. CASE i \in 1..n
        <5>1. file'[i] = file[i] /\ (i # 1 => file'[i - 1] = file[i - 1])
          BY <2>1, <2>3, <4>2
        <5>2. i \in DOMAIN file /\ VerifyChain(file)
          BY <2>2, <2>3, <4>2 DEF Verified
        <5>3. LET last == IF i = 1 THEN NoHash ELSE file[i - 1].entry_hash
              IN /\ file[i].entry_hash = ComputeHash(last, file[i].payload)
                 /\ file[i].prev_hash = last
          BY <5>2 DEF VerifyChain
        <5>4. QED
          BY <5>1, <5>3
      <4>3. QED
        BY <2>3, <4>1, <4>2
    <3>3. QED
      BY <3>1, <3>2 DEF Verified
  <2>7. /\ Len(lives') = k
        /\ lives'[k] = Append(lives[k], clock + 1)
    BY <2>1, <2>3 DEF TypeOK
  <2>8. Recorded(lives[Len(lives)])' /\ Len(file') = clock'
    BY <2>1, <2>2, <2>3, <2>5, <2>7 DEF Recorded
  <2>9. Linked'
    BY <2>1, <2>2, <2>3, <2>7 DEF Linked
  <2>10. QED
    BY <2>6, <2>8, <2>9 DEF Intact, IntactVerifies
<1>2. CASE LogLost \/ LogCut \/ Damage
  BY <1>2 DEF LogLost, LogCut, Damage
<1>3. CASE Restart
  <2>1. /\ intact /\ clock = 0 /\ last_hash' = NoHash /\ lives' = Append(lives, <<>>)
        /\ UNCHANGED <<file, open, clock>>
    BY <1>3 DEF Restart
  <2>2. file = <<>>
    BY <2>1 DEF Intact, IntactVerifies, TypeOK
  <2>3. lives'[Len(lives')] = <<>>
    BY <2>1 DEF TypeOK
  <2>4. QED
    BY <2>1, <2>2, <2>3 DEF Intact, IntactVerifies, Linked, Verified, VerifyChain, Recorded
<1>4. CASE UNCHANGED vars
  BY <1>4 DEF vars, Intact, IntactVerifies, Linked, Verified, VerifyChain, Recorded
<1>5. QED
  BY <1>1, <1>2, <1>3, <1>4 DEF Next, Daemon

\* A log that no failed write, restart or damage touched verifies and holds
\* every call, however many there were.
THEOREM IntactLogVerifies == Spec => []IntactVerifies
<1>1. Intact => IntactVerifies
  BY DEF Intact
<1>2. QED
  BY InitType, NextType, InitIntact, NextIntact, <1>1, PTL DEF Spec

-----------------------------------------------------------------------------

LEMMA ExtendedStaysBroken ==
  ASSUME TypeOK, NEW line \in Entry \cup {Torn}, Verified(Extended(line))
  PROVE  Verified(file)
<1>1. CASE open
  <2>1. Extended(line)[Len(file)] = Torn /\ Len(file) \in DOMAIN Extended(line)
    BY <1>1 DEF Extended, TypeOK
  <2>2. QED
    BY <2>1 DEF Verified
<1>2. CASE ~open
  <2>1. /\ Extended(line) = Append(file, line)
        /\ file \in Seq(Entry \cup {Torn})
    BY <1>2 DEF Extended, TypeOK
  <2>2. \A i \in DOMAIN file : i \in DOMAIN Append(file, line) /\ Append(file, line)[i] = file[i]
    BY <2>1
  <2>3. \A i \in DOMAIN file : i # 1 => i - 1 \in DOMAIN file
    BY <2>1
  <2>4. QED
    BY <2>1, <2>2, <2>3 DEF Verified, VerifyChain
<1>3. QED
  BY <1>1, <1>2 DEF TypeOK

\* Nothing the daemon does makes a log verify again once it does not.
THEOREM BrokenLogStaysBroken == Spec => NeverHeals
<1>1. TypeOK /\ [Next]_vars => [Daemon /\ ~Verified(file) => ~Verified(file')]_vars
  <2> SUFFICES ASSUME TypeOK, Daemon, Verified(file')
               PROVE  Verified(file)
    OBVIOUS
  <2>1. CASE Log
    BY <2>1, ChainType, ExtendedStaysBroken DEF Log
  <2>2. CASE LogLost
    BY <2>2 DEF LogLost
  <2>3. CASE LogCut
    BY <2>3, ChainType, ExtendedStaysBroken DEF LogCut
  <2>4. CASE Restart
    BY <2>4 DEF Restart
  <2>5. QED
    BY <2>1, <2>2, <2>3, <2>4 DEF Daemon
<1>2. QED
  BY InitType, NextType, <1>1, PTL DEF Spec, NeverHeals

-----------------------------------------------------------------------------

Begins(h, calls) == /\ Len(h) <= Len(calls)
                    /\ \A j \in 1..Len(h) : h[j] = calls[j]

\* Every hash in the file is one some daemon computed, and the logger's is
\* that of all its calls.
HonestHashes ==
  /\ last_hash = lives[Len(lives)]
  /\ \A i \in DOMAIN file :
       file[i] # Torn => \E l \in DOMAIN lives : Begins(file[i].entry_hash, lives[l])

\* The hash of the i-th entry of a chain that verifies commits to the first
\* i payloads.
LEMMA ChainCommits ==
  ASSUME NEW f \in Seq(Entry), VerifyChain(f)
  PROVE  \A i \in 1..Len(f) : /\ Len(f[i].entry_hash) = i
                             /\ \A j \in 1..i : f[i].entry_hash[j] = f[j].payload
<1> DEFINE Commits(i) == /\ Len(f[i].entry_hash) = i
                         /\ \A j \in 1..i : f[i].entry_hash[j] = f[j].payload
           Bad == {i \in 1..Len(f) : ~Commits(i)}
<1>1. SUFFICES ASSUME Bad # {}
               PROVE  FALSE
  OBVIOUS
<1>2. PICK i \in Bad : \A y \in Bad : i <= y
  <2>1. Bad \in SUBSET Nat
    OBVIOUS
  <2> HIDE DEF Bad
  <2>2. QED
    BY <1>1, <2>1, LeastMember
<1>3. i \in 1..Len(f) /\ f[i] \in Entry /\ f[i].payload \in Nat
  <2>1. i \in 1..Len(f)
    OBVIOUS
  <2>2. f[i] \in Entry
    BY <2>1
  <2>3. QED
    BY <2>1, <2>2 DEF Entry
<1>4. LET last == IF i = 1 THEN NoHash ELSE f[i - 1].entry_hash
      IN f[i].entry_hash = Append(last, f[i].payload)
  BY <1>3 DEF VerifyChain, ComputeHash
<1>5. CASE i = 1
  <2>1. f[1].entry_hash = <<f[1].payload>>
    BY <1>4, <1>5 DEF NoHash
  <2>2. Len(f[1].entry_hash) = 1 /\ f[1].entry_hash[1] = f[1].payload
    BY <2>1
  <2>3. Commits(1)
    BY <2>2
  <2>4. QED
    BY <1>5, <2>3
<1>6. CASE i # 1
  <2>1. i - 1 \in 1..Len(f) /\ i - 1 \notin Bad
    BY <1>2, <1>3, <1>6
  <2>2. Commits(i - 1)
    BY <2>1
  <2> DEFINE h == f[i - 1].entry_hash
  <2>3. h \in Seq(Nat) /\ f[i].entry_hash = Append(h, f[i].payload)
    <3>1. f[i - 1] \in Entry
      BY <2>1
    <3>2. h \in Seq(Nat)
      BY <3>1 DEF Entry
    <3>3. QED
      BY <1>4, <1>6, <3>2
  <2>4. Len(h) = i - 1 /\ \A j \in 1..(i - 1) : h[j] = f[j].payload
    BY <2>2
  <2> HIDE DEF h
  <2>5. Len(f[i].entry_hash) = i /\ f[i].entry_hash[i] = f[i].payload
    BY <1>3, <2>3, <2>4
  <2>6. \A j \in 1..(i - 1) : f[i].entry_hash[j] = f[j].payload
    BY <1>3, <2>3, <2>4
  <2>7. Commits(i)
    BY <1>3, <2>5, <2>6
  <2>8. QED
    BY <2>7
<1>7. QED
  BY <1>5, <1>6

\* Damage makes no new hashes.
LEMMA DamageHashes ==
  TypeOK /\ Damage =>
    \A i \in DOMAIN file' : file'[i] # Torn =>
      \E j \in DOMAIN file : file[j] # Torn /\ file[j].entry_hash = file'[i].entry_hash
<1> SUFFICES ASSUME TypeOK, Damage
             PROVE  \A i \in DOMAIN file' : file'[i] # Torn =>
                      \E j \in DOMAIN file : /\ file[j] # Torn
                                            /\ file[j].entry_hash = file'[i].entry_hash
  OBVIOUS
<1> DEFINE Line == Entry \cup {Torn}
           n == Len(file)
<1>1. file \in Seq(Line) /\ n \in Nat /\ DOMAIN file = 1..n
  BY DEF TypeOK
<1>2. PICK k \in 1..n : DropLine(k) \/ RepeatLine(k) \/ SwapLines(k) \/ AlterPayload(k)
  BY <1>1 DEF Damage
<1> HIDE DEF Line
<1>3. CASE DropLine(k)
  <2> DEFINE a == SubSeq(file, 1, k - 1)
             b == SubSeq(file, k + 1, n)
  <2>1. /\ a \in Seq(Line) /\ Len(a) = k - 1 /\ \A i \in 1..(k - 1) : a[i] = file[i]
        /\ b \in Seq(Line) /\ Len(b) = n - k /\ \A i \in 1..(n - k) : b[i] = file[k + i]
    BY <1>1, SubSeqProperties
  <2>2. file' = a \o b
    BY <1>3 DEF DropLine
  <2> HIDE DEF a, b
  <2>3. \A i \in DOMAIN file' : \E j \in DOMAIN file : file'[i] = file[j]
    <3>1. /\ file' \in Seq(Line) /\ Len(file') = Len(a) + Len(b)
          /\ \A i \in 1..(Len(a) + Len(b)) :
               file'[i] = IF i <= Len(a) THEN a[i] ELSE b[i - Len(a)]
      BY <2>1, <2>2, ConcatProperties, Zenon
    <3>2. DOMAIN file' = 1..(n - 1)
      BY <1>1, <2>1, <3>1
    <3>3. ASSUME NEW i \in 1..(k - 1)
          PROVE  file'[i] = file[i] /\ i \in 1..n
      <4>1. i \in 1..(Len(a) + Len(b)) /\ i <= Len(a) /\ i \in 1..n
        BY <1>1, <2>1
      <4>2. file'[i] = a[i]
        BY <3>1, <4>1
      <4>3. QED
        BY <2>1, <4>1, <4>2
    <3>4. ASSUME NEW i \in k..(n - 1)
          PROVE  file'[i] = file[i + 1] /\ i + 1 \in 1..n
      <4>1. i - (k - 1) \in 1..(n - k) /\ k + (i - (k - 1)) = i + 1
        BY <1>1
      <4>2. file'[i] = b[i - (k - 1)]
        <5>1. i \in 1..(Len(a) + Len(b)) /\ ~(i <= Len(a)) /\ i - Len(a) = i - (k - 1)
          BY <1>1, <2>1
        <5>2. QED
          BY <3>1, <5>1
      <4>3. QED
        BY <1>1, <2>1, <4>1, <4>2
    <3>5. QED
      BY <1>1, <3>2, <3>3, <3>4
  <2>4. QED
    BY <2>3
<1>4. CASE RepeatLine(k)
  <2> DEFINE a == SubSeq(file, 1, k)
             b == SubSeq(file, k, n)
  <2>1. /\ a \in Seq(Line) /\ Len(a) = k /\ \A i \in 1..k : a[i] = file[i]
        /\ b \in Seq(Line) /\ Len(b) = n - k + 1 /\ \A i \in 1..(n - k + 1) : b[i] = file[k + i - 1]
    BY <1>1, SubSeqProperties
  <2>2. file' = a \o b
    BY <1>4 DEF RepeatLine
  <2> HIDE DEF a, b
  <2>3. \A i \in DOMAIN file' : \E j \in DOMAIN file : file'[i] = file[j]
    <3>1. /\ file' \in Seq(Line) /\ Len(file') = Len(a) + Len(b)
          /\ \A i \in 1..(Len(a) + Len(b)) :
               file'[i] = IF i <= Len(a) THEN a[i] ELSE b[i - Len(a)]
      BY <2>1, <2>2, ConcatProperties, Zenon
    <3>2. DOMAIN file' = 1..(n + 1)
      BY <1>1, <2>1, <3>1
    <3>3. ASSUME NEW i \in 1..k
          PROVE  file'[i] = file[i] /\ i \in 1..n
      BY <1>1, <2>1, <3>1
    <3>4. ASSUME NEW i \in (k + 1)..(n + 1)
          PROVE  file'[i] = file[i - 1] /\ i - 1 \in 1..n
      <4>1. i - k \in 1..(n - k + 1) /\ k + (i - k) - 1 = i - 1
        BY <1>1
      <4>2. file'[i] = b[i - k]
        BY <1>1, <2>1, <3>1
      <4>3. QED
        BY <1>1, <2>1, <4>1, <4>2
    <3>5. QED
      BY <1>1, <3>2, <3>3, <3>4
  <2>4. QED
    BY <2>3
<1>5. CASE SwapLines(k)
  BY <1>1, <1>5 DEF SwapLines
<1>6. CASE AlterPayload(k)
  <2>1. PICK p \in 1..clock : file' = [file EXCEPT ![k] = [file[k] EXCEPT !.payload = p]]
    BY <1>6 DEF AlterPayload
  <2>2. file[k] # Torn /\ file[k] \in Entry
    BY <1>1, <1>6 DEF AlterPayload, Line
  <2>3. file'[k].entry_hash = file[k].entry_hash
    BY <1>1, <2>1, <2>2 DEF Entry
  <2>4. QED
    BY <1>1, <2>1, <2>2, <2>3
<1>7. QED
  BY <1>2, <1>3, <1>4, <1>5, <1>6

LEMMA InitHonest == Init => HonestHashes
  BY DEF Init, HonestHashes, NoHash

LEMMA ChainHonest ==
  TypeOK /\ last_hash = lives[Len(lives)] /\ Chain =>
    /\ last_hash' = lives'[Len(lives')]
    /\ DOMAIN lives' = DOMAIN lives
    /\ \A l \in DOMAIN lives, h \in Seq(Nat) : Begins(h, lives[l]) => Begins(h, lives'[l])
    /\ Begins(last_hash', lives'[Len(lives)])
    /\ Len(lives) \in DOMAIN lives
<1> SUFFICES ASSUME TypeOK, last_hash = lives[Len(lives)], Chain
             PROVE  /\ last_hash' = lives'[Len(lives')]
                    /\ DOMAIN lives' = DOMAIN lives
                    /\ \A l \in DOMAIN lives, h \in Seq(Nat) :
                         Begins(h, lives[l]) => Begins(h, lives'[l])
                    /\ Begins(last_hash', lives'[Len(lives)])
                    /\ Len(lives) \in DOMAIN lives
  OBVIOUS
<1> DEFINE k == Len(lives)
<1>1. lives \in Seq(Seq(Nat)) /\ k \in DOMAIN lives /\ clock \in Nat
  BY DEF TypeOK
<1>2. lives' = [lives EXCEPT ![k] = Append(lives[k], clock + 1)]
  BY DEF Chain, NewCall
<1>3. last_hash' = Append(last_hash, clock + 1)
  BY DEF Chain, NewEntry, ComputeHash
<1>4. last_hash' = lives'[k] /\ Len(lives') = k /\ DOMAIN lives' = DOMAIN lives
  BY <1>1, <1>2, <1>3
<1>5. ASSUME NEW l \in DOMAIN lives, NEW h \in Seq(Nat), Begins(h, lives[l])
      PROVE  Begins(h, lives'[l])
  <2>1. CASE l = k
    <3>1. lives'[l] = Append(lives[l], clock + 1) /\ lives[l] \in Seq(Nat)
      BY <1>1, <1>2, <2>1
    <3>2. QED
      BY <1>1, <1>5, <3>1 DEF Begins
  <2>2. CASE l # k
    BY <1>1, <1>2, <1>5, <2>2
  <2>3. QED
    BY <2>1, <2>2
<1>6. Begins(last_hash', lives'[k])
  BY <1>4, ChainType DEF Begins
<1>7. QED
  BY <1>1, <1>4, <1>5, <1>6

LEMMA NextHonest == TypeOK /\ HonestHashes /\ [Next]_vars => HonestHashes'
<1> SUFFICES ASSUME TypeOK, HonestHashes, [Next]_vars
             PROVE  HonestHashes'
  OBVIOUS
<1> DEFINE e == NewEntry(last_hash, clock + 1)
           Honest(line) == line # Torn => \E l \in DOMAIN lives : Begins(line.entry_hash, lives[l])
           HonestAfter(line) == line # Torn => \E l \in DOMAIN lives' : Begins(line.entry_hash, lives'[l])
<1>1. /\ \A i \in DOMAIN file : Honest(file[i]) /\ file[i] \in Entry \cup {Torn}
      /\ file \in Seq(Entry \cup {Torn})
  BY DEF HonestHashes, TypeOK
<1>2. ASSUME Chain
      PROVE  /\ last_hash' = lives'[Len(lives')]
             /\ HonestAfter(e)
             /\ \A i \in DOMAIN file : HonestAfter(file[i])
  <2>1. last_hash' = lives'[Len(lives')] /\ HonestAfter(e)
    BY <1>2, ChainType, ChainHonest DEF HonestHashes
  <2>2. ASSUME NEW i \in DOMAIN file, file[i] # Torn
        PROVE  \E l \in DOMAIN lives' : Begins(file[i].entry_hash, lives'[l])
    <3>1. file[i].entry_hash \in Seq(Nat)
      BY <1>1, <2>2 DEF Entry
    <3>2. QED
      BY <1>1, <1>2, <2>2, <3>1, ChainHonest DEF HonestHashes
  <2>3. QED
    BY <2>1, <2>2
<1> HIDE DEF e, Honest
<1>3. ASSUME Chain, NEW line \in {e, Torn}, file' = Extended(line)
      PROVE  HonestHashes'
  <2>1. HonestAfter(line)
    BY <1>2, <1>3
  <2>2. \A i \in DOMAIN file' : file'[i] \in {line, Torn} \/ \E j \in DOMAIN file : file'[i] = file[j]
    <3>1. CASE open
      BY <1>1, <1>3, <3>1 DEF Extended
    <3>2. CASE ~open
      BY <1>1, <1>3, <3>2 DEF Extended
    <3>3. QED
      BY <3>1, <3>2
  <2>3. \A i \in DOMAIN file' : HonestAfter(file'[i])
    BY <1>2, <1>3, <2>1, <2>2
  <2>4. QED
    BY <1>2, <1>3, <2>3 DEF HonestHashes
<1>4. CASE Log
  BY <1>3, <1>4 DEF Log, e
<1>5. CASE LogLost
  BY <1>2, <1>5 DEF LogLost, HonestHashes
<1>6. CASE LogCut
  <2>1. PICK line \in {e, Torn} : file' = Extended(line)
    BY <1>6 DEF LogCut, e
  <2>2. Chain
    BY <1>6 DEF LogCut
  <2>3. QED
    BY <1>3, <2>1, <2>2
<1>7. CASE Restart
  <2>1. /\ lives \in Seq(Seq(Nat)) /\ <<>> \in Seq(Nat)
        /\ lives' = Append(lives, <<>>)
        /\ last_hash' = <<>> /\ file' = file
    BY <1>7 DEF Restart, TypeOK, NoHash
  <2>2. /\ lives'[Len(lives')] = <<>>
        /\ \A l \in DOMAIN lives : l \in DOMAIN lives' /\ lives'[l] = lives[l]
    BY <2>1
  <2>3. QED
    BY <1>1, <2>1, <2>2 DEF HonestHashes, Honest
<1>8. CASE Damage
  <2>1. UNCHANGED <<last_hash, lives>>
    BY <1>8 DEF Damage
  <2>2. QED
    BY <1>8, <2>1, DamageHashes DEF HonestHashes
<1>9. CASE UNCHANGED vars
  BY <1>9 DEF vars, HonestHashes
<1>10. QED
  BY <1>4, <1>5, <1>6, <1>7, <1>8, <1>9 DEF Next, Daemon

LEMMA HonestMeansPrefix == TypeOK /\ HonestHashes => VerifiedIsPrefix
<1> SUFFICES ASSUME TypeOK, HonestHashes, Verified(file)
             PROVE  \E l \in DOMAIN lives : Recorded(lives[l])
  BY DEF VerifiedIsPrefix
<1> DEFINE n == Len(file)
<1>1. file \in Seq(Entry) /\ VerifyChain(file)
  BY DEF TypeOK, Verified
<1>2. CASE n = 0
  <2>1. 1 \in DOMAIN lives /\ lives[1] \in Seq(Nat)
    BY DEF TypeOK
  <2>2. QED
    BY <1>1, <1>2, <2>1 DEF Recorded
<1>3. CASE n # 0
  <2>1. n \in 1..n /\ n \in DOMAIN file /\ file[n] # Torn
    BY <1>1, <1>3 DEF Verified
  <2>2. PICK l \in DOMAIN lives : Begins(file[n].entry_hash, lives[l])
    BY <2>1 DEF HonestHashes
  <2>3. /\ Len(file[n].entry_hash) = n
        /\ \A j \in 1..n : file[n].entry_hash[j] = file[j].payload
    BY <1>1, <2>1, ChainCommits
  <2>4. QED
    BY <1>1, <2>2, <2>3 DEF Recorded, Begins
<1>4. QED
  BY <1>2, <1>3

\* Tamper evidence, for any damage to any number of lines: what verifies is
\* what one daemon recorded, from its first call on, but for a missing end.
THEOREM VerifiedLogIsPrefix == Spec => []VerifiedIsPrefix
  BY InitType, NextType, InitHonest, NextHonest, HonestMeansPrefix, PTL DEF Spec
=============================================================================
