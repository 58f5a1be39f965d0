-------------------------- MODULE RulesFile_proof --------------------------
(***************************************************************************)
(* Proofs about RulesFile while calls do not overlap: whatever file        *)
(* operation fails and wherever the daemon dies, rules.conf is replaced at *)
(* once and as a whole, and a call puts back what it found, unless it      *)
(* failed to see that when it was to copy it.  As long as no copy is put   *)
(* back a power loss takes back replacements as a whole.                   *)
(***************************************************************************)
EXTENDS RulesFile, TLAPS

\* A call that is under way has rules to install and its files open.
OpenFiles ==
  \A a \in Applier :
    /\ call[a].step # "idle" => call[a].want \in Rules
    /\ call[a].step \in {"write", "sync", "copy"} => call[a].dst \in Inode
    /\ call[a].step = "copy" => call[a].src \in Inode

Typed == TypeOK /\ OpenFiles

CallType == [step : Step, want : Rules \cup {None},
             src : Inode \cup {None}, dst : Inode \cup {None},
             before : Content \cup {None}, blind : BOOLEAN,
             said : {"none", "ok", "err"}]

LEMMA InitTyped == Init => Typed
<1> SUFFICES ASSUME Init PROVE Typed
  OBVIOUS
<1>1. /\ path \in [Path -> Inode \cup {None}] /\ disk \in [Path -> Inode \cup {None}]
      /\ data \in [Inode -> Content]
      /\ synced = Inode
  BY DEF Init, Content
<1>2. live \in Content \cup {None}
  BY <1>1 DEF Init, Holds, Exists, Path
<1>3. call \in [Applier -> CallType] /\ OpenFiles
  BY DEF Init, NotCalled, Step, CallType, OpenFiles
<1>4. QED
  BY <1>1, <1>2, <1>3 DEF Typed, TypeOK, CallType

LEMMA NextTyped == Typed /\ [PowerNext]_vars => Typed'
<1> SUFFICES ASSUME Typed, [PowerNext]_vars
             PROVE  Typed'
  OBVIOUS
<1>1. /\ path \in [Path -> Inode \cup {None}] /\ disk \in [Path -> Inode \cup {None}]
      /\ data \in [Inode -> Content]
      /\ synced \subseteq Inode
      /\ live \in Content \cup {None}
      /\ call \in [Applier -> CallType]
      /\ OpenFiles
      /\ "conf" \in Path /\ "tmp" \in Path /\ "bak" \in Path
      /\ Partial \in Content /\ Rules \subseteq Content
  BY DEF Typed, TypeOK, Path, Content, CallType
<1>2. \A p \in Path : Holds(p) \in Content \cup {None}
  BY <1>1 DEF Holds, Exists
<1>3. \A i \in Inode, c \in Content : Written(i, c) \subseteq Content
  BY <1>1 DEF Written
<1> DEFINE CallOK == call' \in [Applier -> CallType] /\ OpenFiles'
           FilesOK == /\ path' \in [Path -> Inode \cup {None}]
                      /\ data' \in [Inode -> Content]
                      /\ synced' \subseteq Inode
           Good == FilesOK /\ CallOK /\ live' \in Content \cup {None}
<1>4. Good /\ disk' \in [Path -> Inode \cup {None}] => Typed'
  BY DEF Typed, TypeOK, CallType
<1>5. ASSUME NEW a \in Applier, NEW said \in {"none", "ok", "err"}, Return(a, said)
      PROVE  CallOK
  <2>1. call' = [call EXCEPT ![a] = [call[a] EXCEPT !.step = "idle", !.src = None,
                                                    !.dst = None, !.said = said]]
    BY <1>5 DEF Return
  <2>2. [call[a] EXCEPT !.step = "idle", !.src = None, !.dst = None, !.said = said] \in CallType
    BY <1>1 DEF CallType, Step
  <2>3. call' \in [Applier -> CallType]
    BY <1>1, <2>1, <2>2
  <2>4. OpenFiles'
    BY <1>1, <2>1 DEF OpenFiles, CallType
  <2>5. QED
    BY <2>3, <2>4
<1>6. ASSUME NEW a \in Applier, Fail(a)
      PROVE  CallOK
  BY <1>5, <1>6 DEF Fail
<1>7. ASSUME NEW a \in Applier, NEW step \in Step \ {"idle", "write", "copy"},
             call[a].step # "idle",
             step = "sync" => call[a].step = "write",
             Goto(a, step)
      PROVE  CallOK
  <2>1. call' = [call EXCEPT ![a] = [call[a] EXCEPT !.step = step]]
    BY <1>7 DEF Goto
  <2>2. [call[a] EXCEPT !.step = step] \in CallType
    BY <1>1 DEF CallType
  <2>3. call' \in [Applier -> CallType]
    BY <1>1, <2>1, <2>2
  <2>4. OpenFiles'
    BY <1>1, <1>7, <2>1 DEF OpenFiles, CallType
  <2>5. QED
    BY <2>3, <2>4
<1>8. ASSUME NEW a \in Applier, NEW step \in Step, call[a].step # "idle",
             NEW src \in Inode \cup {None}, NEW dst \in Inode \cup {None},
             step \in {"write", "sync", "copy"} => dst \in Inode,
             step = "copy" => src \in Inode,
             call' = [call EXCEPT ![a] = [call[a] EXCEPT !.step = step, !.src = src, !.dst = dst]]
      PROVE  CallOK
  <2>1. [call[a] EXCEPT !.step = step, !.src = src, !.dst = dst] \in CallType
    BY <1>1 DEF CallType
  <2>2. call' \in [Applier -> CallType]
    BY <1>1, <1>8, <2>1
  <2>3. OpenFiles'
    BY <1>1, <1>8 DEF OpenFiles, CallType
  <2>4. QED
    BY <2>2, <2>3
<1>9. ASSUME NEW p \in Path, NEW i \in Inode, Emptied(p, i)
      PROVE  FilesOK
  BY <1>1, <1>9 DEF Emptied
<1> HIDE DEF CallOK
<1>10. ASSUME NEW a \in Applier, NEW r \in Rules, Begin(a, r)
       PROVE  Good
  <2>1. call' = [call EXCEPT ![a] = [NotCalled EXCEPT !.step = "create", !.want = r,
                                                      !.before = Holds("conf")]]
    BY <1>10 DEF Begin
  <2>2. [NotCalled EXCEPT !.step = "create", !.want = r, !.before = Holds("conf")] \in CallType
    BY <1>1, <1>2 DEF NotCalled, CallType, Step
  <2>3. call' \in [Applier -> CallType]
    BY <1>1, <2>1, <2>2
  <2>4. OpenFiles'
    BY <1>1, <2>1 DEF OpenFiles, NotCalled, CallType
  <2>5. QED
    BY <1>1, <1>10, <2>3, <2>4 DEF Begin, CallOK
<1>11. ASSUME NEW a \in Applier, CreateTmp(a)
       PROVE  Good
  <2>1. FilesOK
    BY <1>1, <1>9, <1>11 DEF CreateTmp
  <2>2. CASE Fail(a)
    BY <1>1, <1>6, <1>11, <2>1, <2>2 DEF CreateTmp
  <2>3. CASE \E i \in Inode : call' = [call EXCEPT ![a].step = "write", ![a].dst = i]
    <3>1. PICK i \in Inode :
            call' = [call EXCEPT ![a] = [call[a] EXCEPT !.step = "write", !.src = call[a].src, !.dst = i]]
      BY <1>1, <2>3 DEF CallType
    <3>2. CallOK
      BY <1>1, <1>8, <1>11, <3>1 DEF CreateTmp, CallType, Step
    <3>3. QED
      BY <1>1, <1>11, <2>1, <3>2 DEF CreateTmp
  <2>4. QED
    BY <1>11, <2>2, <2>3 DEF CreateTmp
<1>12. ASSUME NEW a \in Applier, Write(a)
       PROVE  Good
  <2>1. call[a].dst \in Inode /\ call[a].want \in Rules
    BY <1>1, <1>12 DEF Write, OpenFiles
  <2>2. FilesOK
    BY <1>1, <1>3, <1>12, <2>1 DEF Write
  <2>3. CallOK
    BY <1>6, <1>7, <1>12 DEF Write, Step
  <2>4. QED
    BY <1>1, <1>12, <2>2, <2>3 DEF Write
<1>13. ASSUME NEW a \in Applier, Sync(a)
       PROVE  Good
  <2>1. call[a].dst \in Inode
    BY <1>1, <1>13 DEF Sync, OpenFiles
  <2>2. FilesOK
    BY <1>1, <1>13, <2>1 DEF Sync
  <2>3. CallOK
    <3>1. CASE Fail(a)
      BY <1>6, <3>1
    <3>2. CASE call' = [call EXCEPT ![a].step = "backup", ![a].dst = None]
      <4>1. call' = [call EXCEPT ![a] = [call[a] EXCEPT !.step = "backup", !.src = call[a].src, !.dst = None]]
        BY <1>1, <3>2 DEF CallType
      <4>2. call[a].src \in Inode \cup {None} /\ call[a].step # "idle" /\ "backup" \in Step
        BY <1>1, <1>13 DEF Sync, CallType, Step
      <4>3. QED
        BY <1>8, <4>1, <4>2
    <3>3. QED
      BY <1>13, <3>1, <3>2 DEF Sync
  <2>4. QED
    BY <1>1, <1>13, <2>2, <2>3 DEF Sync
<1>14. ASSUME NEW a \in Applier, Backup(a)
       PROVE  Good
  <2>1. FilesOK
    BY <1>1, <1>9, <1>14 DEF Backup
  <2>2. CallOK
    <3>1. CASE Fail(a)
      BY <1>6, <3>1
    <3>2. CASE Goto(a, "rename")
      BY <1>7, <1>14, <3>2 DEF Backup, Step
    <3>3. CASE call' = [call EXCEPT ![a].step = "rename", ![a].blind = TRUE]
      <4>1. call' = [call EXCEPT ![a] = [call[a] EXCEPT !.step = "rename", !.blind = TRUE]]
        BY <3>3
      <4>2. [call[a] EXCEPT !.step = "rename", !.blind = TRUE] \in CallType
        BY <1>1 DEF CallType, Step
      <4>3. call' \in [Applier -> CallType]
        BY <1>1, <4>1, <4>2
      <4>4. call[a].step = "backup" /\ call[a].want \in Rules
        BY <1>1, <1>14 DEF OpenFiles, Backup
      <4>5. OpenFiles'
        BY <1>1, <4>1, <4>4 DEF OpenFiles, CallType
      <4>6. QED
        BY <4>3, <4>5 DEF CallOK
    <3>4. CASE \E i \in Inode : /\ Exists("conf")
                               /\ call' = [call EXCEPT ![a].step = "copy", ![a].src = path["conf"], ![a].dst = i]
      <4>1. PICK i \in Inode :
              call' = [call EXCEPT ![a] = [call[a] EXCEPT !.step = "copy", !.src = path["conf"], !.dst = i]]
        BY <3>4
      <4>2. path["conf"] \in Inode
        BY <1>1, <3>4 DEF Exists
      <4>3. QED
        BY <1>8, <1>14, <4>1, <4>2 DEF Backup, Step
    <3>5. QED
      BY <1>14, <3>1, <3>2, <3>3, <3>4 DEF Backup
  <2>3. QED
    BY <1>1, <1>14, <2>1, <2>2 DEF Backup
<1>15. ASSUME NEW a \in Applier, Copy(a)
       PROVE  Good
  <2>1. call[a].dst \in Inode /\ call[a].src \in Inode /\ data[call[a].src] \in Content
    BY <1>1, <1>15 DEF Copy, OpenFiles
  <2>2. FilesOK
    BY <1>1, <1>3, <1>15, <2>1 DEF Copy
  <2>3. CallOK
    <3>1. CASE Fail(a)
      BY <1>6, <3>1
    <3>2. CASE call' = [call EXCEPT ![a].step = "rename", ![a].src = None, ![a].dst = None]
      <4>1. call' = [call EXCEPT ![a] = [call[a] EXCEPT !.step = "rename", !.src = None, !.dst = None]]
        BY <3>2
      <4>2. QED
        BY <1>8, <1>15, <4>1 DEF Copy, Step
    <3>3. QED
      BY <1>15, <3>1, <3>2 DEF Copy
  <2>4. QED
    BY <1>1, <1>15, <2>2, <2>3 DEF Copy
<1>16. ASSUME NEW a \in Applier, Rename(a)
       PROVE  Good
  <2>1. FilesOK
    BY <1>1, <1>16 DEF Rename
  <2>2. CallOK
    BY <1>5, <1>6, <1>7, <1>16 DEF Rename, Step
  <2>3. QED
    BY <1>1, <1>16, <2>1, <2>2 DEF Rename
<1>17. ASSUME NEW a \in Applier, Reload(a)
       PROVE  Good
  <2>1. CallOK
    BY <1>5, <1>7, <1>17 DEF Reload, Step
  <2>2. live' \in Content \cup {None}
    BY <1>1, <1>2, <1>17 DEF Reload, Loaded
  <2>3. QED
    BY <1>1, <1>17, <2>1, <2>2 DEF Reload
<1>18. ASSUME NEW a \in Applier, Rollback(a)
       PROVE  Good
  <2>1. FilesOK
    BY <1>1, <1>18 DEF Rollback
  <2>2. CallOK
    BY <1>7, <1>18 DEF Rollback, Step
  <2>3. QED
    BY <1>1, <1>18, <2>1, <2>2 DEF Rollback
<1>19. ASSUME NEW a \in Applier, ReloadBack(a)
       PROVE  Good
  <2>1. CallOK
    BY <1>5, <1>19 DEF ReloadBack
  <2>2. live' \in Content \cup {None}
    BY <1>1, <1>2, <1>19 DEF ReloadBack, Loaded
  <2>3. QED
    BY <1>1, <1>19, <2>1, <2>2 DEF ReloadBack
<1>20. ASSUME call' = Killed
       PROVE  CallOK
  <2>1. \A a \in Applier : call'[a] \in CallType /\ call'[a].step = "idle"
    BY <1>1, <1>20 DEF Killed, NotCalled, CallType, Step
  <2>2. call' \in [Applier -> CallType]
    BY <1>20, <2>1 DEF Killed
  <2>3. QED
    BY <2>1, <2>2 DEF OpenFiles, CallOK
<1>21. ASSUME Crash
       PROVE  Good
  BY <1>1, <1>20, <1>21 DEF Crash
<1>22. ASSUME LosePower
       PROVE  Good
  <2>1. data' \in [Inode -> Content] /\ path' \in [Path -> Inode \cup {None}]
    BY <1>1, <1>22 DEF LosePower
  <2>2. live' \in Content \cup {None}
    BY <1>1, <1>22, <2>1 DEF LosePower, Holds, Exists
  <2>3. QED
    BY <1>1, <1>20, <1>22, <2>1, <2>2 DEF LosePower
<1>23. ASSUME UNCHANGED vars
       PROVE  Good
  BY <1>1, <1>23 DEF vars, OpenFiles, CallOK
<1>24. CASE Flush
  BY <1>1, <1>24 DEF Flush, Typed, TypeOK, OpenFiles
<1>25. [Next \/ LosePower]_vars => disk' \in [Path -> Inode \cup {None}]
  BY <1>1 DEF Next, Apply, Proceed, Begin, Crash, LosePower, vars
<1>26. QED
  BY <1>4, <1>10, <1>11, <1>12, <1>13, <1>14, <1>15, <1>16, <1>17, <1>18, <1>19, <1>21,
     <1>22, <1>23, <1>24, <1>25
  DEF PowerNext, Next, Apply, Proceed

LEMMA TypedAlong == Typed /\ [Next]_vars => Typed'
  BY NextTyped DEF PowerNext

\* Every variable keeps its type, also when calls overlap and power is lost.
THEOREM TypeCorrect == (Spec => []TypeOK) /\ (PowerSpec => []TypeOK)
<1>1. Typed => TypeOK
  BY DEF Typed
<1>2. QED
  BY InitTyped, NextTyped, TypedAlong, <1>1, PTL DEF Spec, PowerSpec

-----------------------------------------------------------------------------

\* Calls come one after the other, from as many threads as there are.
Exclusive ==
  \A a, b \in Applier : call[a].step # "idle" /\ call[b].step # "idle" => a = b

\* One thread makes all calls, so that the last call is known.
OneCall == \A a, b \in Applier : a = b

\* No two paths lead to one file, and a copy is only ever made of something;
\* the directory on disk is an earlier one.
PathsApart ==
  /\ \A p, q \in Path : path[p] = path[q] /\ path[p] # None => p = q
  /\ Exists("bak") => Exists("conf")
  /\ \A p, q \in Path : disk[p] = disk[q] /\ disk[p] # None => p = q
  /\ disk["bak"] # None => disk["conf"] # None
  /\ disk["conf"] # None => disk["conf"] \notin {path["tmp"], path["bak"]}

\* What the files hold at each step of a call that no other one disturbs.
Progress(a) ==
  LET c == call[a]
  IN /\ c.step # "idle" => c.said = "none"
     /\ c.step \in {"create", "write", "sync", "backup", "copy", "rename"}
          => c.before = Holds("conf")
     /\ c.step = "write" => c.dst = path["tmp"] /\ Holds("tmp") = Partial
     /\ c.step = "sync" => c.dst = path["tmp"] /\ Holds("tmp") = c.want
     /\ c.step \in {"backup", "copy", "rename"} => Holds("tmp") = c.want
     /\ c.step = "copy" => c.src = path["conf"] /\ c.dst = path["bak"] /\ Holds("bak") = Partial
     /\ c.step = "rename" /\ c.before # None /\ ~c.blind => Holds("bak") = c.before
     /\ c.step \in {"reload", "rollback"} =>
          /\ Holds("conf") = c.want
          /\ c.before = None => ~Exists("bak")
          /\ c.before # None /\ ~c.blind => Holds("bak") = c.before

Sound ==
  /\ PathsApart
  /\ \A a \in Applier : Progress(a)

\* What one thread knows besides.
Safe == Sound /\ PreviousRecoverable /\ OkMeansInstalled

\* A call puts back what it has not made a copy of, or what was not whole.
PutsBackOther(a) == Rollback(a) /\ (call[a].blind \/ call[a].before = Partial)

\* A step keeps what is sound whatever the copy, which is not synced, holds.
Kept ==
  /\ Sound'
  /\ NeverPartial => NeverPartial' \/ \E a \in Applier : PutsBackOther(a)
  /\ OneCall /\ PreviousRecoverable => PreviousRecoverable'
  /\ OneCall /\ OkMeansInstalled => OkMeansInstalled'

\* What a step of the call of a has to do for that.
KeptBy(a) ==
  /\ PathsApart' /\ Progress(a)'
  /\ NeverPartial => NeverPartial' \/ PutsBackOther(a)
  /\ PreviousRecoverable /\ call'[a].before # None /\ ~call'[a].blind /\ call'[a].said # "ok"
       => call'[a].before \in {Holds("conf")', Holds("bak")'}
  /\ call'[a].said = "ok" => Holds("conf")' = call'[a].want /\ live' = call'[a].want

LEMMA InitSafe == Init => Safe
<1> SUFFICES ASSUME Init PROVE Safe
  OBVIOUS
<1>1. \A a \in Applier : call[a] = NotCalled
  BY DEF Init
<1>2. (\A a \in Applier : Progress(a)) /\ PreviousRecoverable /\ OkMeansInstalled
  BY <1>1 DEF NotCalled, Progress, PreviousRecoverable, OkMeansInstalled
<1>3. PathsApart
  BY RulesAssumption, InodeAssumption DEF Init, PathsApart, Exists, Path
<1>4. QED
  BY <1>2, <1>3 DEF Safe, Sound

LEMMA OneIsExclusive == OneCall => Exclusive /\ Exclusive'
  BY DEF OneCall, Exclusive

\* A step of one call leaves what the others are doing alone.
LEMMA OthersUntouched ==
  ASSUME Typed, NEW a \in Applier, Apply(a), NEW b \in Applier, b # a
  PROVE  call'[b] = call[b]
<1>1. call \in [Applier -> CallType]
  BY DEF Typed, TypeOK, CallType
<1>2. CASE Proceed(a)
  BY <1>1, <1>2
  DEF Proceed, CreateTmp, Write, Sync, Backup, Copy, Rename, Reload, Rollback, ReloadBack,
      Goto, Return, Fail
<1>3. CASE \E r \in Rules : Begin(a, r)
  BY <1>1, <1>3 DEF Begin
<1> QED BY <1>2, <1>3 DEF Apply

\* Of calls that come one after the other the others are over.
LEMMA OthersIdle ==
  ASSUME Typed, Exclusive, Exclusive', NEW a \in Applier, Apply(a)
  PROVE  \A b \in Applier \ {a} : call[b].step = "idle" /\ call'[b].step = "idle"
<1>1. call[a].step # "idle" \/ call'[a].step # "idle"
  <2>1. CASE Proceed(a)
    BY <2>1
    DEF Proceed, CreateTmp, Write, Sync, Backup, Copy, Rename, Reload, Rollback, ReloadBack
  <2>2. ASSUME NEW r \in Rules, Begin(a, r)
        PROVE  call'[a].step = "create"
    BY <2>2 DEF Begin, NotCalled, Typed, TypeOK
  <2> QED BY <2>1, <2>2 DEF Apply
<1>2. \A b \in Applier \ {a} : call'[b] = call[b]
  BY OthersUntouched
<1> QED BY <1>1, <1>2 DEF Exclusive

LEMMA KeptByAll ==
  ASSUME Typed, Exclusive, Exclusive', NEW a \in Applier, Apply(a), KeptBy(a)
  PROVE  Kept
<1>1. \A b \in Applier : Progress(b)'
  BY OthersIdle DEF KeptBy, Progress
<1> QED BY <1>1 DEF Kept, KeptBy, Sound, OneCall, PreviousRecoverable, OkMeansInstalled

\* Emptying a file leaves the files at the other paths alone.
LEMMA EmptiedApart ==
  ASSUME Typed, PathsApart, NEW p \in {"tmp", "bak"}, NEW i \in Inode, Emptied(p, i),
         UNCHANGED disk
  PROVE  /\ disk["conf"] # None => disk["conf"] \notin {path'["tmp"], path'["bak"]}
         /\ i # disk["conf"]
         /\ \A q \in Path \ {p} : path'[q] = path[q] /\ Holds(q)' = Holds(q)
         /\ path'[p] = i /\ Holds(p)' = Partial
         /\ \A q, r \in Path : path'[q] = path'[r] /\ path'[q] # None => q = r
  BY InodeAssumption
  DEF Typed, TypeOK, PathsApart, Emptied, MayCreate, Unused, Holds, Exists, Path

LEMMA WrittenApart ==
  ASSUME Typed, PathsApart, NEW p \in Path, Exists(p), NEW c,
         data' = [data EXCEPT ![path[p]] = c], UNCHANGED <<path, disk>>
  PROVE  /\ \A q \in Path \ {p} : Holds(q)' = Holds(q)
         /\ Holds(p)' = c
         /\ PathsApart'
  BY DEF Typed, TypeOK, PathsApart, Holds, Exists, Path

LEMMA CallAfter ==
  ASSUME Typed, NEW a \in Applier
  PROVE  /\ \A step \in Step : Goto(a, step) => call'[a] = [call[a] EXCEPT !.step = step]
         /\ \A said \in {"none", "ok", "err"} :
              Return(a, said) => call'[a] = [call[a] EXCEPT !.step = "idle", !.src = None,
                                                            !.dst = None, !.said = said]
  BY DEF Typed, TypeOK, Goto, Return

LEMMA AfterReturn ==
  ASSUME Typed, NEW a \in Applier, NEW said \in {"none", "ok", "err"}, Return(a, said)
  PROVE  /\ call'[a].step = "idle" /\ call'[a].said = said
         /\ call'[a].want = call[a].want /\ call'[a].before = call[a].before
         /\ call'[a].blind = call[a].blind
<1>1. call[a] \in CallType
  BY DEF Typed, TypeOK, CallType
<1>2. call'[a] = [call[a] EXCEPT !.step = "idle", !.src = None, !.dst = None, !.said = said]
  BY CallAfter
<1>3. QED
  BY <1>1, <1>2 DEF CallType

LEMMA FailIsIdle ==
  ASSUME Typed, NEW a \in Applier, Fail(a)
  PROVE  call'[a].step = "idle"
  BY AfterReturn DEF Fail

LEMMA AfterGoto ==
  ASSUME Typed, NEW a \in Applier, NEW step \in Step, Goto(a, step)
  PROVE  /\ call'[a].step = step
         /\ call'[a].said = call[a].said /\ call'[a].before = call[a].before
         /\ call'[a].want = call[a].want /\ call'[a].dst = call[a].dst
         /\ call'[a].blind = call[a].blind
         /\ step # "idle" => ~Fail(a)
<1>1. call[a] \in CallType
  BY DEF Typed, TypeOK, CallType
<1>2. call'[a] = [call[a] EXCEPT !.step = step]
  BY CallAfter
<1>3. call'[a].step = step
  BY <1>1, <1>2 DEF CallType
<1>4. Fail(a) => call'[a].step = "idle"
  BY FailIsIdle
<1>5. QED
  BY <1>1, <1>2, <1>3, <1>4 DEF CallType

LEMMA NextSound == Exclusive /\ Exclusive' /\ Typed /\ Sound /\ [Next]_vars => Kept
<1> SUFFICES ASSUME Exclusive, Exclusive', Typed, Sound, [Next]_vars
             PROVE  Kept
  OBVIOUS
<1> USE RulesAssumption
<1>1. /\ call \in [Applier -> CallType]
      /\ "conf" \in Path /\ "tmp" \in Path /\ "bak" \in Path
      /\ \A p \in Path : path[p] \in Inode \cup {None}
      /\ \A i \in Inode : data[i] \in Content
      /\ None \notin Inode
  BY InodeAssumption DEF Typed, TypeOK, CallType, Path
<1>2. ASSUME NEW a \in Applier
      PROVE  /\ Progress(a)
             /\ PreviousRecoverable /\ call[a].before # None /\ ~call[a].blind /\ call[a].said # "ok"
                  => call[a].before \in {Holds("conf"), Holds("bak")}
             /\ PathsApart
             /\ call[a] \in CallType
             /\ call[a].step # "idle" => call[a].want \in Rules
  BY <1>1, <1>2 DEF Sound, PreviousRecoverable, Typed, OpenFiles
<1>3. ASSUME NEW a \in Applier, PathsApart', Progress(a)',
             NeverPartial => NeverPartial' \/ PutsBackOther(a),
             PreviousRecoverable /\ call'[a].before # None /\ ~call'[a].blind /\ call'[a].said # "ok"
               => call'[a].before \in {Holds("conf")', Holds("bak")'},
             call'[a].said = "ok" => Holds("conf")' = call'[a].want /\ live' = call'[a].want
      PROVE  KeptBy(a)
  BY <1>3 DEF KeptBy
\* A failing operation that leaves rules.conf alone, and the copy too if needed.
<1>4. ASSUME NEW a \in Applier, Return(a, "err"), call[a].said # "ok",
             PathsApart', Holds("conf")' = Holds("conf"),
             Holds("bak")' = Holds("bak") \/ call[a].before = Holds("conf")
      PROVE  KeptBy(a)
  <2>1. /\ call'[a].step = "idle" /\ call'[a].said = "err"
        /\ call'[a].before = call[a].before /\ call'[a].blind = call[a].blind
    BY <1>4, AfterReturn
  <2>2. Progress(a)'
    BY <2>1 DEF Progress
  <2>3. NeverPartial => NeverPartial'
    BY <1>2, <1>4 DEF NeverPartial
  <2>4. QED
    BY <1>2, <1>3, <1>4, <2>1, <2>2, <2>3
<1>5. ASSUME NEW a \in Applier, NEW r \in Rules, Begin(a, r)
      PROVE  KeptBy(a)
  <2>1. call' = [call EXCEPT ![a] = [NotCalled EXCEPT !.step = "create", !.want = r,
                                                      !.before = Holds("conf")]]
    BY <1>5 DEF Begin
  <2>2. /\ call'[a].step = "create" /\ call'[a].said = "none"
        /\ call'[a].before = Holds("conf")
    BY <1>1, <2>1 DEF NotCalled
  <2>3. UNCHANGED <<path, disk, data, live>>
    BY <1>5 DEF Begin
  <2>4. Holds("conf")' = Holds("conf") /\ PathsApart' /\ (NeverPartial => NeverPartial')
    BY <1>2, <2>3 DEF Holds, Exists, PathsApart, NeverPartial
  <2>5. Progress(a)'
    BY <2>2, <2>4 DEF Progress
  <2>6. QED
    BY <1>3, <2>2, <2>4, <2>5
<1>6. ASSUME NEW a \in Applier, CreateTmp(a), UNCHANGED disk
      PROVE  KeptBy(a)
  <2>1. /\ call[a].step = "create" /\ call[a].said = "none"
        /\ call[a].before = Holds("conf")
    BY <1>2, <1>6 DEF CreateTmp, Progress
  <2>2. CASE Fail(a) /\ UNCHANGED <<path, data, synced>>
    <3>1. PathsApart' /\ Holds("conf")' = Holds("conf")
      BY <1>2, <1>6, <2>2 DEF PathsApart, Holds, Exists
    <3>2. QED
      BY <1>4, <2>1, <2>2, <3>1 DEF Fail
  <2>3. ASSUME NEW i \in Inode, Emptied("tmp", i)
        PROVE  /\ PathsApart' /\ Holds("conf")' = Holds("conf") /\ Holds("bak")' = Holds("bak")
               /\ path'["tmp"] = i /\ Holds("tmp")' = Partial
    BY <1>1, <1>2, <1>6, <2>3, EmptiedApart DEF PathsApart, Exists
  <2>4. ASSUME NEW i \in Inode, Emptied("tmp", i), Fail(a)
        PROVE  KeptBy(a)
    BY <1>4, <2>1, <2>3, <2>4 DEF Fail
  <2>5. ASSUME NEW i \in Inode, Emptied("tmp", i),
               call' = [call EXCEPT ![a].step = "write", ![a].dst = i]
        PROVE  KeptBy(a)
    <3>1. /\ call'[a].step = "write" /\ call'[a].dst = i /\ call'[a].said = "none"
          /\ call'[a].before = call[a].before
      BY <1>1, <2>1, <2>5 DEF CallType
    <3>2. Progress(a)'
      BY <2>1, <2>3, <2>5, <3>1 DEF Progress
    <3>3. NeverPartial => NeverPartial'
      BY <1>2, <2>3, <2>5 DEF NeverPartial
    <3>4. QED
      BY <1>3, <2>1, <2>3, <2>5, <3>1, <3>2, <3>3
  <2>6. QED
    BY <1>6, <2>2, <2>4, <2>5 DEF CreateTmp
<1>7. ASSUME NEW a \in Applier, Write(a), UNCHANGED disk
      PROVE  KeptBy(a)
  <2>1. /\ call[a].step = "write" /\ call[a].said = "none"
        /\ call[a].before = Holds("conf")
        /\ call[a].dst = path["tmp"] /\ path["tmp"] \in Inode /\ Holds("tmp") = Partial
    BY <1>1, <1>2, <1>7 DEF Write, Progress, Typed, OpenFiles
  <2>2. Exists("tmp") /\ data[path["tmp"]] = Partial
    BY <1>1, <2>1 DEF Holds, Exists
  <2>3. ASSUME NEW c, data' = [data EXCEPT ![path["tmp"]] = c], UNCHANGED path
        PROVE  /\ PathsApart' /\ Holds("conf")' = Holds("conf") /\ Holds("bak")' = Holds("bak")
               /\ Holds("tmp")' = c
    <3>1. /\ \A q \in Path \ {"tmp"} : Holds(q)' = Holds(q)
          /\ Holds("tmp")' = c
          /\ PathsApart'
      BY <1>1, <1>2, <1>7, <2>2, <2>3, WrittenApart
    <3>2. QED
      BY <1>1, <3>1
  <2>4. CASE Fail(a)
    <3>1. data' = [data EXCEPT ![path["tmp"]] = Partial] /\ UNCHANGED path
      <4>1. ~Goto(a, "sync")
        BY <2>4, AfterGoto DEF Step
      <4>2. QED
        BY <1>7, <2>1, <4>1 DEF Write
    <3>2. QED
      BY <1>4, <2>1, <2>3, <2>4, <3>1 DEF Fail
  <2>5. CASE Goto(a, "sync")
    <3>1. data' = [data EXCEPT ![path["tmp"]] = call[a].want] /\ UNCHANGED <<path, live>>
      <4>1. ~Fail(a)
        BY <2>5, AfterGoto DEF Step
      <4>2. QED
        BY <1>7, <2>1, <2>2, <4>1 DEF Write, Written
    <3>2. /\ call'[a].step = "sync" /\ call'[a].dst = call[a].dst /\ call'[a].said = "none"
          /\ call'[a].before = call[a].before /\ call'[a].want = call[a].want
      BY <1>1, <2>1, <2>5, AfterGoto DEF Step
    <3>3. Progress(a)'
      BY <2>1, <2>3, <3>1, <3>2 DEF Progress
    <3>4. NeverPartial => NeverPartial'
      BY <1>2, <2>3, <3>1 DEF NeverPartial
    <3>5. QED
      BY <1>3, <2>1, <2>3, <3>1, <3>2, <3>3, <3>4
  <2>6. QED
    BY <1>7, <2>4, <2>5 DEF Write
<1>8. ASSUME UNCHANGED path, UNCHANGED data, UNCHANGED disk
      PROVE  /\ \A p \in Path : Holds(p)' = Holds(p)
             /\ PathsApart' /\ (NeverPartial => NeverPartial')
  BY <1>8 DEF Sound, Holds, Exists, PathsApart, NeverPartial
<1>9. ASSUME NEW a \in Applier, Sync(a), UNCHANGED disk
      PROVE  KeptBy(a)
  <2>1. /\ call[a].step = "sync" /\ call[a].said = "none"
        /\ call[a].before = Holds("conf") /\ Holds("tmp") = call[a].want
    BY <1>2, <1>9 DEF Sync, Progress
  <2>2. UNCHANGED <<path, disk, data, live>>
    BY <1>9 DEF Sync
  <2>3. CASE Fail(a)
    BY <1>1, <1>4, <1>8, <2>1, <2>2, <2>3 DEF Fail
  <2>4. CASE call' = [call EXCEPT ![a].step = "backup", ![a].dst = None]
    <3>1. /\ call'[a].step = "backup" /\ call'[a].said = "none"
          /\ call'[a].before = call[a].before /\ call'[a].want = call[a].want
      BY <1>1, <2>1, <2>4 DEF CallType
    <3>2. Progress(a)'
      BY <1>1, <1>8, <2>1, <2>2, <3>1 DEF Progress
    <3>3. QED
      BY <1>1, <1>3, <1>8, <2>1, <2>2, <3>1, <3>2
  <2>5. QED
    BY <1>9, <2>3, <2>4 DEF Sync
<1>10. ASSUME NEW a \in Applier, Backup(a), UNCHANGED disk
       PROVE  KeptBy(a)
  <2>1. /\ call[a].step = "backup" /\ call[a].said = "none"
        /\ call[a].before = Holds("conf") /\ Holds("tmp") = call[a].want
    BY <1>2, <1>10 DEF Backup, Progress
  <2>2. CASE Fail(a) /\ UNCHANGED <<path, data, synced>>
    BY <1>1, <1>4, <1>8, <1>10, <2>1, <2>2 DEF Fail
  <2>3. CASE ~Exists("conf") /\ Goto(a, "rename") /\ UNCHANGED <<path, data, synced>>
    <3>1. /\ call'[a].step = "rename" /\ call'[a].said = "none"
          /\ call'[a].before = call[a].before /\ call'[a].want = call[a].want
      BY <1>1, <2>1, <2>3, AfterGoto DEF Step
    <3>2. call[a].before = None
      BY <2>1, <2>3 DEF Holds
    <3>3. Progress(a)'
      BY <1>1, <1>8, <1>10, <2>1, <2>3, <3>1, <3>2 DEF Progress
    <3>4. QED
      BY <1>1, <1>3, <1>8, <1>10, <2>3, <3>1, <3>2, <3>3
  <2>4. ASSUME NEW i \in Inode, Exists("conf"), Emptied("bak", i), UNCHANGED live,
               call' = [call EXCEPT ![a].step = "copy", ![a].src = path["conf"], ![a].dst = i]
        PROVE  KeptBy(a)
    <3>1. /\ Holds("conf")' = Holds("conf") /\ Holds("tmp")' = Holds("tmp")
          /\ path'["conf"] = path["conf"]
          /\ path'["bak"] = i /\ Holds("bak")' = Partial
          /\ PathsApart'
      <4>1. /\ \A q \in Path \ {"bak"} : path'[q] = path[q] /\ Holds(q)' = Holds(q)
            /\ path'["bak"] = i /\ Holds("bak")' = Partial
            /\ \A q, r \in Path : path'[q] = path'[r] /\ path'[q] # None => q = r
        BY <1>1, <1>2, <1>10, <2>4, EmptiedApart
      <4>2. disk["conf"] # None => disk["conf"] \notin {path'["tmp"], path'["bak"]}
        BY <1>1, <1>2, <1>10, <2>4, EmptiedApart
      <4>3. QED
        BY <1>1, <1>2, <1>10, <2>4, <4>1, <4>2 DEF PathsApart, Exists
    <3>2. /\ call'[a].step = "copy" /\ call'[a].said = "none"
          /\ call'[a].before = call[a].before /\ call'[a].want = call[a].want
          /\ call'[a].src = path["conf"] /\ call'[a].dst = i
      BY <1>1, <2>1, <2>4 DEF CallType
    <3>3. Progress(a)'
      BY <2>1, <3>1, <3>2 DEF Progress
    <3>4. NeverPartial => NeverPartial'
      BY <1>2, <3>1 DEF NeverPartial
    <3>5. QED
      BY <1>3, <2>1, <3>1, <3>2, <3>3, <3>4
  <2>5. CASE /\ call' = [call EXCEPT ![a].step = "rename", ![a].blind = TRUE]
             /\ UNCHANGED <<path, data, synced>>
    <3>1. /\ call'[a].step = "rename" /\ call'[a].said = "none" /\ call'[a].blind
          /\ call'[a].before = call[a].before /\ call'[a].want = call[a].want
      BY <1>1, <2>1, <2>5 DEF CallType
    <3>2. Progress(a)'
      BY <1>1, <1>8, <1>10, <2>1, <2>5, <3>1 DEF Progress
    <3>3. QED
      BY <1>1, <1>3, <1>8, <1>10, <2>5, <3>1, <3>2
  <2>6. QED
    BY <1>10, <2>2, <2>3, <2>4, <2>5 DEF Backup
<1>11. ASSUME NEW a \in Applier, Copy(a), UNCHANGED disk
       PROVE  KeptBy(a)
  <2>1. /\ call[a].step = "copy" /\ call[a].said = "none"
        /\ call[a].before = Holds("conf") /\ Holds("tmp") = call[a].want
        /\ call[a].src = path["conf"] /\ path["conf"] \in Inode
        /\ call[a].dst = path["bak"] /\ path["bak"] \in Inode /\ Holds("bak") = Partial
    BY <1>1, <1>2, <1>11 DEF Copy, Progress, Typed, OpenFiles
  <2>2. Exists("bak") /\ data[path["bak"]] = Partial /\ data[path["conf"]] = Holds("conf")
    BY <1>1, <2>1 DEF Holds, Exists
  <2>3. CASE Fail(a) /\ UNCHANGED <<data, synced>>
    <3>1. UNCHANGED path
      BY <1>11 DEF Copy
    <3>2. QED
      BY <1>1, <1>4, <1>8, <1>11, <2>1, <2>3, <3>1 DEF Fail
  <2>4. CASE call' = [call EXCEPT ![a].step = "rename", ![a].src = None, ![a].dst = None]
    <3>1. data' = [data EXCEPT ![path["bak"]] = Holds("conf")] /\ UNCHANGED <<path, live>>
      <4>1. call'[a].step = "rename"
        BY <1>1, <2>4 DEF CallType
      <4>2. ~Fail(a)
        BY <4>1, FailIsIdle
      <4>3. QED
        BY <1>11, <2>1, <2>2, <4>2 DEF Copy, Written
    <3>2. /\ PathsApart' /\ Holds("conf")' = Holds("conf") /\ Holds("tmp")' = Holds("tmp")
          /\ Holds("bak")' = Holds("conf")
      <4>1. /\ \A q \in Path \ {"bak"} : Holds(q)' = Holds(q)
            /\ Holds("bak")' = Holds("conf")
            /\ PathsApart'
        BY <1>1, <1>2, <1>11, <2>2, <3>1, WrittenApart
      <4>2. QED
        BY <1>1, <4>1
    <3>3. /\ call'[a].step = "rename" /\ call'[a].said = "none"
          /\ call'[a].before = call[a].before /\ call'[a].want = call[a].want
      BY <1>1, <2>1, <2>4 DEF CallType
    <3>4. Progress(a)'
      BY <2>1, <3>2, <3>3 DEF Progress
    <3>5. NeverPartial => NeverPartial'
      BY <1>2, <3>2 DEF NeverPartial
    <3>6. QED
      BY <1>3, <2>1, <3>2, <3>3, <3>4, <3>5
  <2>5. QED
    BY <1>11, <2>3, <2>4 DEF Copy
<1>12. ASSUME NEW a \in Applier, Rename(a), UNCHANGED disk
       PROVE  KeptBy(a)
  <2>1. /\ call[a].step = "rename" /\ call[a].said = "none"
        /\ call[a].before = Holds("conf") /\ Holds("tmp") = call[a].want
        /\ call[a].before # None /\ ~call[a].blind => Holds("bak") = call[a].before
        /\ UNCHANGED <<data, disk, live>>
    BY <1>2, <1>12 DEF Rename, Progress
  <2>2. CASE Return(a, "err") /\ UNCHANGED path
    BY <1>1, <1>4, <1>8, <2>1, <2>2
  <2>3. CASE /\ Exists("tmp") /\ Goto(a, "reload")
             /\ path' = [path EXCEPT !["conf"] = path["tmp"], !["tmp"] = None]
    <3>1. /\ path'["conf"] = path["tmp"] /\ path'["tmp"] = None /\ path'["bak"] = path["bak"]
      BY <1>1, <2>3 DEF Typed, TypeOK
    <3>2. Holds("conf")' = call[a].want /\ Holds("bak")' = Holds("bak") /\ PathsApart'
      BY <1>1, <1>2, <2>1, <2>3, <3>1 DEF Holds, Exists, PathsApart, Path
    <3>3. /\ call'[a].step = "reload" /\ call'[a].said = "none"
          /\ call'[a].before = call[a].before /\ call'[a].want = call[a].want
          /\ call'[a].blind = call[a].blind
      BY <1>1, <2>1, <2>3, AfterGoto DEF Step
    <3>4. call[a].before = None => ~Exists("conf")
      BY <1>1, <2>1 DEF Holds, Exists, Content
    <3>5. call[a].before = None => ~Exists("bak")'
      BY <1>2, <3>1, <3>4 DEF PathsApart, Exists
    <3>6. Progress(a)'
      BY <2>1, <3>2, <3>3, <3>5 DEF Progress
    <3>7. NeverPartial => NeverPartial'
      BY <1>2, <2>1, <3>2 DEF NeverPartial
    <3>8. QED
      BY <1>3, <2>1, <3>2, <3>3, <3>6, <3>7
  <2>4. QED
    BY <1>12, <2>2, <2>3 DEF Rename, Fail
<1>13. ASSUME NEW a \in Applier, Reload(a), UNCHANGED disk
       PROVE  KeptBy(a)
  <2>1. /\ call[a].step = "reload" /\ call[a].said = "none"
        /\ Holds("conf") = call[a].want
        /\ call[a].before = None => ~Exists("bak")
        /\ call[a].before # None /\ ~call[a].blind => Holds("bak") = call[a].before
        /\ UNCHANGED <<path, disk, data>>
    BY <1>2, <1>13 DEF Reload, Progress
  <2>2. CASE Loaded /\ Return(a, "ok")
    <3>1. /\ call'[a].step = "idle" /\ call'[a].said = "ok" /\ call'[a].want = call[a].want
      BY <2>2, AfterReturn
    <3>2. Progress(a)'
      BY <3>1 DEF Progress
    <3>3. QED
      BY <1>1, <1>3, <1>8, <2>1, <2>2, <3>1, <3>2 DEF Loaded
  <2>3. CASE Return(a, "err")
    BY <1>1, <1>4, <1>8, <2>1, <2>3
  <2>4. CASE Goto(a, "rollback") /\ UNCHANGED live
    <3>1. /\ call'[a].step = "rollback" /\ call'[a].said = "none"
          /\ call'[a].before = call[a].before /\ call'[a].want = call[a].want
          /\ call'[a].blind = call[a].blind
      BY <1>1, <2>1, <2>4, AfterGoto DEF Step
    <3>2. Exists("bak")' = Exists("bak")
      BY <2>1 DEF Exists
    <3>3. Progress(a)'
      BY <1>1, <1>8, <2>1, <3>1, <3>2 DEF Progress
    <3>4. QED
      BY <1>1, <1>3, <1>8, <2>1, <3>1, <3>3
  <2>5. QED
    BY <1>13, <2>2, <2>3, <2>4 DEF Reload
<1>14. ASSUME NEW a \in Applier, Rollback(a), UNCHANGED disk
       PROVE  KeptBy(a)
  <2>1. /\ call[a].step = "rollback" /\ call[a].said = "none"
        /\ Holds("conf") = call[a].want
        /\ call[a].before = None => ~Exists("bak")
        /\ call[a].before # None /\ ~call[a].blind => Holds("bak") = call[a].before
        /\ UNCHANGED <<data, disk, live>>
    BY <1>2, <1>14 DEF Rollback, Progress
  <2>2. /\ call'[a].step = "reload_back" /\ call'[a].said = "none"
        /\ call'[a].before = call[a].before /\ call'[a].blind = call[a].blind
    BY <1>14, <2>1, AfterGoto DEF Rollback, Step
  <2>3. Progress(a)'
    BY <2>2 DEF Progress
  <2>4. CASE UNCHANGED path
    BY <1>1, <1>3, <1>8, <2>1, <2>2, <2>3, <2>4
  <2>5. CASE /\ Exists("bak")
             /\ path' = [path EXCEPT !["conf"] = path["bak"], !["bak"] = None]
    <3>1. path'["conf"] = path["bak"] /\ path'["bak"] = None /\ path'["tmp"] = path["tmp"]
      BY <1>1, <2>5 DEF Typed, TypeOK
    <3>2. Holds("conf")' = Holds("bak") /\ PathsApart'
      BY <1>1, <1>2, <2>1, <2>5, <3>1 DEF Holds, Exists, PathsApart, Path
    <3>3. call[a].before # None
      BY <2>1, <2>5
    <3>4. NeverPartial' \/ PutsBackOther(a)
      BY <1>14, <2>1, <3>2, <3>3 DEF NeverPartial, PutsBackOther
    <3>5. QED
      BY <1>3, <2>1, <2>2, <2>3, <3>2, <3>3, <3>4
  <2>6. QED
    BY <1>14, <2>4, <2>5 DEF Rollback
<1>15. ASSUME NEW a \in Applier, ReloadBack(a), UNCHANGED disk
       PROVE  KeptBy(a)
  <2>1. call[a].said = "none" /\ UNCHANGED <<path, disk, data>>
    BY <1>2, <1>15 DEF ReloadBack, Progress
  <2>2. QED
    BY <1>1, <1>4, <1>8, <1>15, <2>1 DEF ReloadBack
<1>16. CASE Crash
  <2>1. UNCHANGED <<path, disk, data>>
    BY <1>16 DEF Crash
  <2>2. ASSUME NEW a \in Applier
        PROVE  KeptBy(a)
    <3>1. /\ call'[a].step = "idle" /\ call'[a].said = "none"
          /\ call'[a].before = IF call[a].said = "ok" \/ call[a].blind
                                  THEN None ELSE call[a].before
      BY <1>16 DEF Crash, Killed, NotCalled
    <3>2. Progress(a)'
      BY <3>1 DEF Progress
    <3> QED BY <1>1, <1>2, <1>3, <1>8, <2>1, <3>1, <3>2
  <2>3. PathsApart' /\ (NeverPartial => NeverPartial')
    BY <1>8, <2>1
  <2> QED BY <2>2, <2>3 DEF Kept, KeptBy, Sound, PreviousRecoverable, OkMeansInstalled
<1>17. CASE UNCHANGED vars
  BY <1>17 DEF vars, Kept, Sound, PathsApart, Progress, NeverPartial, Holds, Exists,
               PreviousRecoverable, OkMeansInstalled
<1>18. ASSUME NEW a \in Applier, Apply(a)
       PROVE  Kept
  <2>1. KeptBy(a)
    BY <1>5, <1>6, <1>7, <1>9, <1>10, <1>11, <1>12, <1>13, <1>14, <1>15, <1>18
    DEF Apply, Proceed
  <2> QED BY <1>18, <2>1, KeptByAll
<1>19. QED
  BY <1>16, <1>17, <1>18 DEF Next

LEMMA SoundAlways == Spec /\ []Exclusive => [](Typed /\ Sound)
<1>1. Init => Sound
  BY InitSafe DEF Safe
<1>2. Exclusive /\ Exclusive' /\ Typed /\ Sound /\ [Next]_vars => Sound'
  BY NextSound DEF Kept
<1> QED BY InitTyped, TypedAlong, <1>1, <1>2, PTL DEF Spec

LEMMA SafeAlways == OneCall => (Spec => []Safe)
<1>1. CASE OneCall
  <2>1. Typed /\ Safe /\ [Next]_vars => Safe'
    BY <1>1, OneIsExclusive, NextSound DEF Safe, Kept
  <2>2. QED
    BY InitTyped, TypedAlong, InitSafe, <2>1, PTL DEF Spec
<1>2. QED
  BY <1>1

\* While calls come one after the other, whatever operation of a call fails and
\* wherever the daemon dies in it, rules.conf stops being whole in one way only:
\* a call that failed to see it, and so made no copy, puts back what an earlier
\* call has left where the copy should be.
THEOREM RulesStayWhole == Spec /\ []Exclusive => StaysWhole
<1>1. Exclusive /\ Exclusive' /\ (Typed /\ Sound) /\ [Next]_vars
        => [NeverPartial => NeverPartial' \/ \E a \in Applier :
              Rollback(a) /\ (call[a].blind \/ call[a].before = Partial)]_vars
  BY NextSound DEF Kept, PutsBackOther
<1> QED BY SoundAlways, <1>1, PTL DEF Spec, StaysWhole

\* The rules a call found are on disk until it has succeeded, unless it failed
\* to see them when it was to copy them.
THEOREM PreviousAlwaysRecoverable ==
  OneCall => (Spec => []PreviousRecoverable)
<1>1. Safe => PreviousRecoverable
  BY DEF Safe, Sound
<1>2. QED
  BY SafeAlways, <1>1, PTL

\* Ok means in place and loaded.
THEOREM OkAlwaysMeansInstalled ==
  OneCall => (Spec => []OkMeansInstalled)
<1>1. Safe => OkMeansInstalled
  BY DEF Safe, Sound
<1>2. QED
  BY SafeAlways, <1>1, PTL

-----------------------------------------------------------------------------
(***************************************************************************)
(* apply_rules_atomically implements AtomicRules: the step of the abstract *)
(* specification that replaces the rules is the rename of a call, the one  *)
(* that puts them back the rename of a rollback.  All others are invisible *)
(* there, or end a request.                                                *)
(***************************************************************************)
Asking == {"create", "write", "sync", "backup", "copy", "rename"}

Replacing == {"reload", "rollback"}

LEMMA TheOnlyOne == TheOnly({}) = None /\ \A x : TheOnly({x}) = x
<1>1. \A x : {x} # {} /\ \A y \in {x} : y = x
  OBVIOUS
<1>2. \A x : (CHOOSE y \in {x} : {x} = {y}) = x
  OBVIOUS
<1> QED BY <1>1, <1>2 DEF TheOnly

\* What the only call means to the abstract specification.
LEMMA OnlyCall ==
  ASSUME NEW a \in Applier,
         \A b \in Applier \ {a} : call[b].step = "idle" /\ call'[b].step = "idle"
  PROVE  /\ TheOnly(Asked) = IF call[a].step \in Asking THEN call[a].want ELSE None
         /\ Replaced = IF call[a].step \in Replacing THEN PutBack(a) ELSE {}
         /\ TheOnly(Asked)' = IF call'[a].step \in Asking THEN call'[a].want ELSE None
         /\ Replaced' = IF call'[a].step \in Replacing THEN PutBack(a)' ELSE {}
<1>1. \A b \in Applier : b = a \/ (call[b].step = "idle" /\ call'[b].step = "idle")
  OBVIOUS
<1>2. /\ Asked = IF call[a].step \in Asking THEN {call[a].want} ELSE {}
      /\ Asked' = IF call'[a].step \in Asking THEN {call'[a].want} ELSE {}
  BY <1>1 DEF Asked, Asking
<1>3. TheOnly(Asked)' = TheOnly(Asked')
  BY DEF TheOnly
<1>4. /\ {b \in Applier : call[b].step \in Replacing}
           = IF call[a].step \in Replacing THEN {a} ELSE {}
      /\ {b \in Applier : call'[b].step \in Replacing}
           = IF call'[a].step \in Replacing THEN {a} ELSE {}
  BY <1>1 DEF Replacing
<1>5. /\ Replaced = UNION {PutBack(b) : b \in {c \in Applier : call[c].step \in Replacing}}
      /\ Replaced' = UNION {PutBack(b)' : b \in {c \in Applier : call'[c].step \in Replacing}}
  BY DEF Replaced, Replacing
<1>6. Replaced = IF call[a].step \in Replacing THEN PutBack(a) ELSE {}
  BY <1>4, <1>5
<1>7. Replaced' = IF call'[a].step \in Replacing THEN PutBack(a)' ELSE {}
  BY <1>4, <1>5
<1> QED BY <1>2, <1>3, <1>6, <1>7, TheOnlyOne

\* No call is under way: for the abstract specification nothing is asked.
LEMMA NoCall ==
  ASSUME \A a \in Applier : call'[a].step = "idle"
  PROVE  TheOnly(Asked)' = None /\ Replaced' = {}
<1>1. Asked' = {} /\ Replaced' = {}
  BY DEF Asked, Replaced
<1>2. TheOnly(Asked)' = TheOnly(Asked')
  BY DEF TheOnly
<1> QED BY <1>1, <1>2, TheOnlyOne

\* Up to the rename a call leaves rules.conf alone, and what of it is on disk.
LEMMA ConfUntouched ==
  ASSUME Typed, PathsApart, NEW a \in Applier, Progress(a), UNCHANGED disk,
         CreateTmp(a) \/ Write(a) \/ Sync(a) \/ Backup(a) \/ Copy(a)
  PROVE  Holds("conf")' = Holds("conf") /\ OnDisk' = OnDisk
<1> DEFINE Same == Holds("conf")' = Holds("conf") /\ OnDisk' = OnDisk
<1>1. /\ "conf" \in Path /\ "tmp" \in Path /\ "bak" \in Path
      /\ disk["conf"] \in Inode \cup {None} /\ data \in [Inode -> Content]
  BY DEF Path, Typed, TypeOK
<1>2. CASE UNCHANGED <<path, data>>
  BY <1>2 DEF Holds, Exists, OnDisk
<1>3. ASSUME NEW p \in {"tmp", "bak"}, NEW i \in Inode, Emptied(p, i)
      PROVE  Same
  <2>1. Holds("conf")' = Holds("conf") /\ i # disk["conf"]
    BY <1>1, <1>3, EmptiedApart
  <2>2. disk["conf"] # None => data'[disk["conf"]] = data[disk["conf"]]
    BY <1>1, <1>3, <2>1 DEF Emptied
  <2> QED BY <2>1, <2>2 DEF OnDisk
<1>4. ASSUME NEW p \in {"tmp", "bak"}, NEW c, path[p] \in Inode,
             data' = [data EXCEPT ![path[p]] = c], UNCHANGED path
      PROVE  Same
  <2>1. p \in Path /\ Exists(p) /\ "conf" \in Path \ {p}
    BY <1>1, <1>4, InodeAssumption DEF Exists
  <2>2. disk["conf"] # None => disk["conf"] # path[p]
    BY <1>4 DEF PathsApart
  <2>3. OnDisk' = OnDisk
    BY <1>1, <1>4, <2>2 DEF OnDisk
  <2> QED BY <1>4, <2>1, <2>3, WrittenApart
<1> HIDE DEF Same
<1>5. CASE CreateTmp(a)
  BY <1>2, <1>3, <1>5 DEF CreateTmp, Same
<1>6. CASE Write(a)
  <2>1. call[a].dst = path["tmp"] /\ path["tmp"] \in Inode
    BY <1>6 DEF Write, Progress, Typed, OpenFiles
  <2>2. UNCHANGED path /\ \E c : data' = [data EXCEPT ![path["tmp"]] = c]
    BY <1>6, <2>1 DEF Write
  <2> QED BY <1>4, <2>1, <2>2 DEF Same
<1>7. CASE Sync(a)
  BY <1>2, <1>7 DEF Sync
<1>8. CASE Backup(a)
  BY <1>2, <1>3, <1>8 DEF Backup, Same
<1>9. CASE Copy(a)
  <2>1. call[a].dst = path["bak"] /\ path["bak"] \in Inode
    BY <1>9 DEF Copy, Progress, Typed, OpenFiles
  <2>2. UNCHANGED path /\ (UNCHANGED data \/ \E c : data' = [data EXCEPT ![path["bak"]] = c])
    BY <1>9, <2>1 DEF Copy
  <2> QED BY <1>2, <1>4, <2>1, <2>2 DEF Same
<1> QED BY <1>5, <1>6, <1>7, <1>8, <1>9

\* Where a step of a call leads to.
LEMMA StepTo ==
  ASSUME Typed, NEW a \in Applier, Proceed(a)
  PROVE  \/ call'[a].step = "idle"
         \/ /\ call'[a].want = call[a].want /\ call'[a].before = call[a].before
            /\ Backup(a) \/ call'[a].blind = call[a].blind
            /\ \/ CreateTmp(a) /\ call'[a].step = "write"
               \/ Write(a) /\ call'[a].step = "sync"
               \/ Sync(a) /\ call'[a].step = "backup"
               \/ Backup(a) /\ call'[a].step \in {"copy", "rename"}
               \/ Copy(a) /\ call'[a].step = "rename"
               \/ Rename(a) /\ call'[a].step = "reload"
               \/ Reload(a) /\ call'[a].step = "rollback"
               \/ Rollback(a) /\ call'[a].step = "reload_back"
<1>1. call \in [Applier -> CallType]
  BY DEF Typed, TypeOK, CallType
<1>2. ASSUME NEW said \in {"ok", "err"}, Return(a, said)
      PROVE  call'[a].step = "idle"
  BY <1>2, AfterReturn
<1>3. Fail(a) => call'[a].step = "idle"
  BY FailIsIdle
<1>4. CASE CreateTmp(a)
  <2>1. ASSUME NEW i, call' = [call EXCEPT ![a].step = "write", ![a].dst = i]
        PROVE  /\ call'[a].step = "write" /\ call'[a].want = call[a].want
               /\ call'[a].before = call[a].before /\ call'[a].blind = call[a].blind
    BY <1>1, <2>1 DEF CallType
  <2> QED BY <1>3, <1>4, <2>1 DEF CreateTmp
<1>5. CASE Write(a)
  BY <1>3, <1>5, AfterGoto DEF Write, Step
<1>6. CASE Sync(a)
  <2>1. ASSUME call' = [call EXCEPT ![a].step = "backup", ![a].dst = None]
        PROVE  /\ call'[a].step = "backup" /\ call'[a].want = call[a].want
               /\ call'[a].before = call[a].before /\ call'[a].blind = call[a].blind
    BY <1>1, <2>1 DEF CallType
  <2> QED BY <1>3, <1>6, <2>1 DEF Sync
<1>7. CASE Backup(a)
  <2>1. ASSUME NEW i,
               call' = [call EXCEPT ![a].step = "copy", ![a].src = path["conf"], ![a].dst = i]
        PROVE  /\ call'[a].step = "copy" /\ call'[a].want = call[a].want
               /\ call'[a].before = call[a].before /\ call'[a].blind = call[a].blind
    BY <1>1, <2>1 DEF CallType
  <2>2. ASSUME call' = [call EXCEPT ![a].step = "rename", ![a].blind = TRUE]
        PROVE  /\ call'[a].step = "rename" /\ call'[a].want = call[a].want
               /\ call'[a].before = call[a].before
    BY <1>1, <2>2 DEF CallType
  <2> QED BY <1>3, <1>7, <2>1, <2>2, AfterGoto DEF Backup, Step
<1>8. CASE Copy(a)
  <2>1. ASSUME call' = [call EXCEPT ![a].step = "rename", ![a].src = None, ![a].dst = None]
        PROVE  /\ call'[a].step = "rename" /\ call'[a].want = call[a].want
               /\ call'[a].before = call[a].before /\ call'[a].blind = call[a].blind
    BY <1>1, <2>1 DEF CallType
  <2> QED BY <1>3, <1>8, <2>1 DEF Copy
<1>9. CASE Rename(a)
  BY <1>2, <1>3, <1>9, AfterGoto DEF Rename, Step
<1>10. CASE Reload(a)
  BY <1>2, <1>10, AfterGoto DEF Reload, Step
<1>11. CASE Rollback(a)
  BY <1>11, AfterGoto DEF Rollback, Step
<1>12. CASE ReloadBack(a)
  BY <1>2, <1>12 DEF ReloadBack
<1> QED BY <1>4, <1>5, <1>6, <1>7, <1>8, <1>9, <1>10, <1>11, <1>12 DEF Proceed

-----------------------------------------------------------------------------

\* A call that failed to see rules.conf puts back what it has not copied.
BlindRollback == \E a \in Applier : Rollback(a) /\ call[a].blind

\* The rules in place are whole, and those a call may have to put back are.
Whole ==
  /\ NeverPartial
  /\ \A a \in Applier : call[a].step \in Replacing => call[a].before # Partial

LEMMA NextWhole ==
  ASSUME Exclusive, Exclusive', Typed, Sound, Whole, [Next]_vars, ~BlindRollback
  PROVE  Whole'
<1>1. NeverPartial'
  <2>1. \A a \in Applier : ~PutsBackOther(a)
    BY DEF PutsBackOther, BlindRollback, Whole, Rollback, Replacing
  <2> QED BY <2>1, NextSound DEF Kept, Whole
<1>2. ASSUME NEW a \in Applier, call'[a].step \in Replacing
      PROVE  call'[a].before # Partial
  <2>1. CASE UNCHANGED vars
    BY <1>2, <2>1 DEF vars, Whole
  <2>2. CASE Crash
    BY <1>2, <2>2 DEF Crash, Killed, NotCalled, Replacing
  <2>3. ASSUME NEW b \in Applier, Apply(b), b # a
        PROVE  call'[a].before # Partial
    BY <1>2, <2>3, OthersUntouched DEF Whole
  <2>4. ASSUME NEW r \in Rules, Begin(a, r)
        PROVE  FALSE
    BY <1>2, <2>4 DEF Begin, NotCalled, Replacing, Typed, TypeOK
  <2>5. CASE Proceed(a)
    <3>1. /\ call'[a].before = call[a].before
          /\ \/ Rename(a)
             \/ Reload(a)
      BY <1>2, <2>5, StepTo DEF Replacing
    <3>2. CASE Rename(a)
      BY <3>1, <3>2 DEF Rename, Sound, Progress, Whole, NeverPartial
    <3>3. CASE Reload(a)
      BY <3>1, <3>3 DEF Reload, Whole, Replacing
    <3> QED BY <3>1, <3>2, <3>3
  <2> QED BY <2>1, <2>2, <2>3, <2>4, <2>5 DEF Next, Apply
<1> QED BY <1>1, <1>2 DEF Whole

LEMMA InitWhole == Init => Whole
<1> SUFFICES ASSUME Init PROVE Whole
  OBVIOUS
<1>1. NeverPartial
  BY RulesAssumption DEF Init, NeverPartial, Holds, Exists, Path
<1> QED BY <1>1 DEF Init, NotCalled, Whole, Replacing

\* While calls come one after the other, rules.conf is whole at every moment of
\* any behaviour in which no call that failed to see it rolls back.
THEOREM RulesNeverPartial ==
  Spec /\ []Exclusive /\ [][~BlindRollback]_vars => []NeverPartial
<1>1. Exclusive /\ Exclusive' /\ Typed /\ Sound /\ Whole /\ [Next]_vars /\ [~BlindRollback]_vars
        => Whole'
  <2>1. UNCHANGED vars /\ Whole => Whole'
    BY DEF vars, Whole, NeverPartial, Holds, Exists
  <2> QED BY <2>1, NextWhole
<1>2. Whole => NeverPartial
  BY DEF Whole
<1> QED BY SoundAlways, InitWhole, <1>1, <1>2, PTL DEF Spec

-----------------------------------------------------------------------------

LEMMA StepAtomic ==
  Exclusive /\ Exclusive' /\ Typed /\ Sound /\ Typed' /\ Sound' /\ [Next]_vars
    => [Atomic!RulesNext]_Atomic!rulesVars
<1> SUFFICES ASSUME Exclusive, Exclusive', Typed, Sound, Typed', Sound', [Next]_vars
             PROVE  [Atomic!RulesNext]_Atomic!rulesVars
  OBVIOUS
<1> USE RulesAssumption
<1> DEFINE Same == Holds("conf")' = Holds("conf") /\ OnDisk' = OnDisk
           Idle(a) == call'[a].step \notin Asking \cup Replacing
<1>1. ASSUME NEW a \in Applier, Apply(a), Same, Idle(a)
      PROVE  Atomic!RulesNext
  BY <1>1, OthersIdle, OnlyCall DEF Atomic!RulesNext, Atomic!Settle
<1>2. ASSUME NEW a \in Applier, Apply(a), Same,
             call'[a].want = call[a].want, call'[a].before = call[a].before,
             call[a].step \in Replacing => call'[a].blind = call[a].blind,
             \/ call[a].step \in Asking /\ call'[a].step \in Asking
             \/ call[a].step \in Replacing /\ call'[a].step \in Replacing
      PROVE  UNCHANGED Atomic!rulesVars
  <2>1. call[a].step \in Replacing => PutBack(a)' = PutBack(a)
    BY <1>2 DEF PutBack
  <2> QED BY <1>2, <2>1, OthersIdle, OnlyCall DEF Atomic!rulesVars, Asking, Replacing
<1>3. ASSUME NEW a \in Applier
      PROVE  /\ Progress(a) /\ Progress(a)' /\ PathsApart
             /\ call[a].step # "idle" => call[a].want \in Rules
             /\ call \in [Applier -> CallType]
             /\ path \in [Path -> Inode \cup {None}]
  BY <1>3 DEF Sound, Typed, OpenFiles, TypeOK, CallType
<1>4. ASSUME NEW a \in Applier, NEW r \in Rules, Begin(a, r)
      PROVE  Atomic!RulesNext
  <2>1. call' = [call EXCEPT ![a] = [NotCalled EXCEPT !.step = "create", !.want = r,
                                                      !.before = Holds("conf")]]
    BY <1>4 DEF Begin
  <2>2. /\ call[a].step = "idle" /\ call'[a].step = "create" /\ call'[a].want = r
        /\ UNCHANGED <<path, disk, data>>
    BY <1>3, <1>4, <2>1 DEF Begin, NotCalled
  <2>3. Same
    BY <2>2 DEF Holds, Exists, OnDisk
  <2>4. Atomic!Ask(r)
    BY <1>4, <2>2, <2>3, OthersIdle, OnlyCall DEF Apply, Atomic!Ask, Asking, Replacing
  <2> QED BY <2>4 DEF Atomic!RulesNext
<1>5. ASSUME NEW a \in Applier, Proceed(a), Same, call'[a].step # "reload"
      PROVE  Atomic!RulesNext \/ UNCHANGED Atomic!rulesVars
  <2>1. CASE call'[a].step = "idle" \/ Rollback(a)
    <3>1. Idle(a)
      BY <2>1, <1>3, AfterGoto DEF Asking, Replacing, Rollback, Step
    <3> QED BY <1>1, <1>5, <3>1 DEF Apply
  <2>2. CASE ~(call'[a].step = "idle" \/ Rollback(a))
    <3>1. /\ call'[a].want = call[a].want /\ call'[a].before = call[a].before
          /\ Backup(a) \/ call'[a].blind = call[a].blind
          /\ \/ CreateTmp(a) /\ call'[a].step = "write"
             \/ Write(a) /\ call'[a].step = "sync"
             \/ Sync(a) /\ call'[a].step = "backup"
             \/ Backup(a) /\ call'[a].step \in {"copy", "rename"}
             \/ Copy(a) /\ call'[a].step = "rename"
             \/ Reload(a) /\ call'[a].step = "rollback"
      BY <1>5, <2>2, StepTo
    <3>2. \/ call[a].step \in Asking /\ call'[a].step \in Asking
          \/ call[a].step \in Replacing /\ call'[a].step \in Replacing
      BY <3>1 DEF CreateTmp, Write, Sync, Backup, Copy, Reload, Asking, Replacing
    <3>3. call[a].step \in Replacing => call'[a].blind = call[a].blind
      BY <3>1 DEF Backup, Replacing
    <3> QED BY <1>2, <1>5, <3>1, <3>2, <3>3 DEF Apply
  <2> QED BY <2>1, <2>2
\* The new rules come into force.
<1>6. ASSUME NEW a \in Applier, Rename(a), UNCHANGED disk
      PROVE  Atomic!RulesNext \/ UNCHANGED Atomic!rulesVars
  <2>1. CASE UNCHANGED path
    <3>1. Same
      BY <1>6, <2>1 DEF Rename, Holds, Exists, OnDisk
    <3>2. call'[a].step # "reload"
      <4>1. CASE Return(a, "err") \/ Fail(a)
        BY <4>1, FailIsIdle, AfterReturn
      <4>2. CASE Exists("tmp") /\ path' = [path EXCEPT !["conf"] = path["tmp"], !["tmp"] = None]
        <5>1. path'["tmp"] = None
          BY <1>3, <4>2 DEF Path
        <5> QED BY <2>1, <4>2, <5>1 DEF Exists
      <4> QED BY <1>6, <4>1, <4>2 DEF Rename
    <3> QED BY <1>5, <1>6, <3>1, <3>2 DEF Proceed
  <2>2. CASE path' # path
    <3>1. Goto(a, "reload") /\ call[a].step = "rename"
      BY <1>6, <2>2 DEF Rename
    <3>2. /\ call'[a].step = "reload" /\ call'[a].want = call[a].want
          /\ call'[a].before = call[a].before
      BY <3>1, AfterGoto DEF Step
    <3>3. Holds("conf")' = call[a].want /\ call[a].before = Holds("conf")
          /\ call[a].want # None
      BY <1>3, <3>1, <3>2 DEF Progress
    <3>4. OnDisk' = OnDisk
      BY <1>6 DEF Rename, OnDisk
    <3>5. PutBack(a)' \in {{Holds("conf")} \ {None}, Content}
      BY <3>2, <3>3 DEF PutBack, Content
    <3>6. /\ TheOnly(Asked) = call[a].want /\ TheOnly(Asked)' = None
          /\ Replaced' = PutBack(a)'
      BY <1>6, <3>1, <3>2, OthersIdle, OnlyCall DEF Apply, Proceed, Asking, Replacing
    <3>7. Atomic!Install
      BY <3>3, <3>4, <3>5, <3>6 DEF Atomic!Install
    <3> QED BY <3>7 DEF Atomic!RulesNext
  <2> QED BY <2>1, <2>2
\* The previous rules are put back.
<1>7. ASSUME NEW a \in Applier, Rollback(a), UNCHANGED disk
      PROVE  Atomic!RulesNext \/ UNCHANGED Atomic!rulesVars
  <2>1. call[a].step = "rollback" /\ call'[a].step = "reload_back" /\ UNCHANGED data
    BY <1>7, AfterGoto DEF Rollback, Step
  <2>2. CASE UNCHANGED path
    <3>1. Same
      BY <1>7, <2>1, <2>2 DEF Holds, Exists, OnDisk
    <3> QED BY <1>5, <1>7, <2>1, <3>1 DEF Proceed
  <2>3. CASE /\ Exists("bak")
             /\ path' = [path EXCEPT !["conf"] = path["bak"], !["bak"] = None]
    <3>1. path'["conf"] = path["bak"]
      BY <1>3, <2>3 DEF Path
    <3>2. Holds("conf")' = Holds("bak")
      BY <2>1, <2>3, <3>1 DEF Holds, Exists
    <3>3. Holds("bak") \in PutBack(a)
      <4>1. call[a].before # None /\ (~call[a].blind => Holds("bak") = call[a].before)
        BY <1>3, <2>1, <2>3 DEF Progress
      <4>2. Holds("bak") \in Content
        BY <1>3, <2>3 DEF Holds, Exists, Path, Typed, TypeOK
      <4> QED BY <4>1, <4>2 DEF PutBack
    <3>4. OnDisk' = OnDisk
      BY <1>7, <2>1 DEF OnDisk
    <3>5. /\ TheOnly(Asked) = None /\ TheOnly(Asked)' = None
          /\ Replaced = PutBack(a) /\ Replaced' = {}
      BY <1>7, <2>1, OthersIdle, OnlyCall DEF Apply, Proceed, Asking, Replacing
    <3>6. Atomic!Restore
      BY <3>2, <3>3, <3>4, <3>5 DEF Atomic!Restore
    <3> QED BY <3>6 DEF Atomic!RulesNext
  <2> QED BY <1>7, <2>2, <2>3 DEF Rollback
<1>8. ASSUME NEW a \in Applier, Proceed(a)
      PROVE  Atomic!RulesNext \/ UNCHANGED Atomic!rulesVars
  <2>1. CASE CreateTmp(a) \/ Write(a) \/ Sync(a) \/ Backup(a) \/ Copy(a)
    <3>1. Same
      BY <1>3, <1>8, <2>1, ConfUntouched DEF Proceed
    <3>2. call'[a].step # "reload"
      BY <1>8, <2>1, StepTo DEF CreateTmp, Write, Sync, Backup, Copy, Rename
    <3> QED BY <1>5, <1>8, <3>1, <3>2
  <2>2. CASE Reload(a) \/ ReloadBack(a)
    <3>1. Same
      BY <1>8, <2>2 DEF Proceed, Reload, ReloadBack, Holds, Exists, OnDisk
    <3>2. call'[a].step # "reload"
      BY <1>8, <2>2, StepTo DEF Reload, ReloadBack, Rename
    <3> QED BY <1>5, <1>8, <3>1, <3>2
  <2> QED BY <1>6, <1>7, <1>8, <2>1, <2>2 DEF Proceed
<1>9. CASE Crash
  <2>1. Same
    BY <1>9 DEF Crash, Holds, Exists, OnDisk
  <2>2. \A a \in Applier : call'[a].step = "idle"
    BY <1>9 DEF Crash, Killed, NotCalled
  <2> QED BY <2>1, <2>2, NoCall DEF Atomic!RulesNext, Atomic!Settle
<1>10. CASE UNCHANGED vars
  <2>1. UNCHANGED Atomic!rulesVars
    BY <1>10 DEF vars, Atomic!rulesVars, Holds, Exists, OnDisk, Asked, Replaced, PutBack
  <2> QED BY <2>1
<1> QED BY <1>4, <1>8, <1>9, <1>10 DEF Next, Apply

LEMMA InitAtomic == Init => Atomic!RulesInit
<1> SUFFICES ASSUME Init PROVE Atomic!RulesInit
  OBVIOUS
<1>1. \A a \in Applier : call[a].step = "idle"
  BY DEF Init, NotCalled
<1>2. Asked = {} /\ Replaced = {}
  BY <1>1 DEF Asked, Replaced
<1>3. Holds("conf") \in Rules \cup {None} /\ OnDisk = Holds("conf")
  BY RulesAssumption DEF Init, Holds, Exists, OnDisk, Path
<1> QED BY <1>2, <1>3, TheOnlyOne DEF Atomic!RulesInit

\* While calls come one after the other, whatever fails and wherever the daemon
\* dies, the stored rules are replaced as a whole, and what a call puts back is
\* what it found, unless it failed to see that when it was to copy it: this is
\* what the function keeps of the promise of its name (AtomicRules).
THEOREM ImplementsAtomicRules == Spec /\ []Exclusive => RulesReplacedAtomically
<1>1. Exclusive /\ Exclusive' /\ (Typed /\ Sound) /\ (Typed /\ Sound)' /\ [Next]_vars
        => [Atomic!RulesNext]_Atomic!rulesVars
  BY StepAtomic
<1> QED
  BY SoundAlways, InitAtomic, <1>1, PTL DEF Spec, RulesReplacedAtomically, Atomic!RulesSpec

-----------------------------------------------------------------------------
(***************************************************************************)
(* A machine that loses power.  The copy is not synced, so that a rollback *)
(* may put a file into place that a power loss then takes away.  Nothing   *)
(* else can: the rest of this part is about behaviours without a rollback, *)
(* of which those in which usbguard accepts every rule set are a part.     *)
(***************************************************************************)
RollsBack == \E a \in Applier : Rollback(a)

\* The rules in place, and those about to take their place, are on disk, and so
\* are the rules that a power loss would bring back.
Durable ==
  /\ Exists("conf") => path["conf"] \in synced
  /\ disk["conf"] # None => disk["conf"] \in synced
  /\ OnDisk # Partial
  /\ \A a \in Applier : call[a].step \in {"backup", "copy", "rename"} => path["tmp"] \in synced

LEMMA InitDurable == Init => Durable
<1> SUFFICES ASSUME Init PROVE Durable
  OBVIOUS
<1>1. \A a \in Applier : call[a].step = "idle"
  BY DEF Init, NotCalled
<1>2. /\ Exists("conf") => path["conf"] \in synced
      /\ disk["conf"] # None => disk["conf"] \in synced
  BY InitTyped DEF Init, Typed, TypeOK, Exists, Path
<1>3. OnDisk # Partial
  BY RulesAssumption DEF Init, OnDisk, Path
<1> QED BY <1>1, <1>2, <1>3 DEF Durable

LEMMA NextDurable ==
  Exclusive /\ Exclusive' /\ Typed /\ Sound /\ Durable /\ [Next]_vars /\ ~RollsBack
    => Durable'
<1> SUFFICES ASSUME Exclusive, Exclusive', Typed, Sound, Durable, [Next]_vars, ~RollsBack
             PROVE  Durable'
  OBVIOUS
<1> DEFINE Ready == {"backup", "copy", "rename"}
           Conf == /\ Exists("conf") => path["conf"] \in synced
                   /\ disk["conf"] # None => disk["conf"] \in synced
           DurableBy(a) == Conf' /\ (call'[a].step \in Ready => path'["tmp"] \in synced')
<1>1. /\ "conf" \in Path /\ "tmp" \in Path /\ "bak" \in Path
      /\ path \in [Path -> Inode \cup {None}] /\ None \notin Inode
      /\ PathsApart /\ Conf
  BY InodeAssumption DEF Typed, TypeOK, Sound, Durable, Path
<1>2. ASSUME NEW a \in Applier
      PROVE  /\ Progress(a)
             /\ call[a].step \in Ready => path["tmp"] \in synced
  BY <1>2 DEF Sound, Durable
<1>3. ASSUME NEW a \in Applier, UNCHANGED <<path, disk, synced>>,
             call'[a].step \in Ready => call[a].step \in Ready
      PROVE  DurableBy(a)
  BY <1>1, <1>2, <1>3 DEF Exists
\* A file that is emptied is neither rules.conf nor at the third path.
<1>4. ASSUME NEW p \in {"tmp", "bak"}, NEW i \in Inode, Emptied(p, i), UNCHANGED disk
      PROVE  Conf' /\ (p = "bak" /\ path["tmp"] \in synced => path'["tmp"] \in synced')
  <2>1. p \in Path /\ "conf" \in Path \ {p}
    BY <1>1
  <2>2. /\ \A q \in Path \ {p} : path'[q] = path[q]
        /\ path'[p] = i
        /\ i # disk["conf"]
        /\ \A q, r \in Path : path'[q] = path'[r] /\ path'[q] # None => q = r
    BY <1>1, <1>4, <2>1, EmptiedApart
  <2>3. \A q \in Path \ {p} : path[q] # i
    BY <1>1, <2>1, <2>2
  <2>4. synced' = synced \ {i}
    BY <1>4 DEF Emptied
  <2> QED BY <1>1, <1>4, <2>1, <2>2, <2>3, <2>4 DEF Exists
\* Nor is one that is written.
<1>5. ASSUME NEW p \in {"tmp", "bak"}, path[p] \in Inode, UNCHANGED <<path, disk>>,
             synced' = synced \ {path[p]}
      PROVE  Conf' /\ (p = "bak" /\ path["tmp"] \in synced => path'["tmp"] \in synced')
  <2>1. /\ path["conf"] # path[p] /\ (p = "bak" => path["tmp"] # path[p])
        /\ disk["conf"] # path[p]
    BY <1>1, <1>5 DEF PathsApart
  <2> QED BY <1>1, <1>5, <2>1 DEF Exists
<1>6. ASSUME NEW a \in Applier, NEW r \in Rules, Begin(a, r)
      PROVE  DurableBy(a)
  <2>1. call' = [call EXCEPT ![a] = [NotCalled EXCEPT !.step = "create", !.want = r,
                                                      !.before = Holds("conf")]]
    BY <1>6 DEF Begin
  <2>2. call'[a].step = "create" /\ UNCHANGED <<path, disk, synced>>
    BY <1>6, <2>1 DEF Begin, NotCalled, Typed, TypeOK
  <2> QED BY <1>3, <2>2
<1>7. ASSUME NEW a \in Applier, CreateTmp(a), UNCHANGED disk
      PROVE  DurableBy(a)
  <2>1. call'[a].step \notin Ready
    BY <1>7, StepTo DEF Proceed, CreateTmp, Write, Sync, Backup, Copy, Rename, Reload, Rollback
  <2>2. Conf'
    BY <1>1, <1>4, <1>7 DEF CreateTmp, Exists
  <2> QED BY <1>2, <2>1, <2>2
<1>8. ASSUME NEW a \in Applier, Write(a), UNCHANGED disk
      PROVE  DurableBy(a)
  <2>1. call'[a].step \notin Ready
    BY <1>8, StepTo DEF Proceed, CreateTmp, Write, Sync, Backup, Copy, Rename, Reload, Rollback
  <2>2. call[a].dst = path["tmp"] /\ path["tmp"] \in Inode
    BY <1>2, <1>8 DEF Write, Progress, Typed, OpenFiles
  <2>3. Conf'
    BY <1>5, <1>8, <2>2 DEF Write
  <2> QED BY <1>2, <2>1, <2>3
<1>9. ASSUME NEW a \in Applier, Sync(a), UNCHANGED disk
      PROVE  DurableBy(a)
  <2>1. call[a].dst = path["tmp"] /\ UNCHANGED path
    BY <1>2, <1>9 DEF Sync, Progress
  <2>2. CASE Fail(a) /\ UNCHANGED synced
    <3>1. call'[a].step = "idle"
      BY <2>2, FailIsIdle
    <3> QED BY <1>3, <1>9, <2>1, <2>2, <3>1
  <2>3. CASE synced' = synced \cup {path["tmp"]}
    <3>1. Conf' /\ path'["tmp"] \in synced'
      BY <1>1, <1>9, <2>1, <2>3 DEF Exists
    <3> QED BY <1>2, <3>1
  <2> QED BY <1>9, <2>1, <2>2, <2>3 DEF Sync
<1>10. ASSUME NEW a \in Applier, Backup(a), UNCHANGED disk
       PROVE  DurableBy(a)
  <2>1. call[a].step \in Ready
    BY <1>10 DEF Backup
  <2>2. CASE UNCHANGED <<path, data, synced>>
    BY <1>3, <1>10, <2>1, <2>2
  <2>3. ASSUME NEW i \in Inode, Emptied("bak", i)
        PROVE  DurableBy(a)
    BY <1>2, <1>4, <1>10, <2>1, <2>3
  <2> QED BY <1>10, <2>2, <2>3 DEF Backup
<1>11. ASSUME NEW a \in Applier, Copy(a), UNCHANGED disk
       PROVE  DurableBy(a)
  <2>1. /\ call[a].step \in Ready /\ UNCHANGED path
        /\ call[a].dst = path["bak"] /\ path["bak"] \in Inode
    BY <1>2, <1>11 DEF Copy, Progress, Typed, OpenFiles
  <2>2. CASE UNCHANGED <<data, synced>>
    BY <1>3, <1>11, <2>1, <2>2
  <2>3. CASE synced' = synced \ {path["bak"]}
    BY <1>2, <1>5, <1>11, <2>1, <2>3
  <2> QED BY <1>11, <2>1, <2>2, <2>3 DEF Copy
<1>12. ASSUME NEW a \in Applier, Rename(a), UNCHANGED disk
       PROVE  DurableBy(a)
  <2>1. call[a].step \in Ready /\ UNCHANGED synced
    BY <1>12 DEF Rename
  <2>2. CASE UNCHANGED path
    BY <1>3, <1>12, <2>1, <2>2
  <2>3. CASE /\ Goto(a, "reload")
             /\ path' = [path EXCEPT !["conf"] = path["tmp"], !["tmp"] = None]
    <3>1. call'[a].step = "reload" /\ path'["conf"] = path["tmp"]
      BY <1>1, <2>3, AfterGoto DEF Step
    <3> QED BY <1>1, <1>2, <1>12, <2>1, <3>1
  <2> QED BY <1>12, <2>2, <2>3 DEF Rename
<1>13. ASSUME NEW a \in Applier, Reload(a) \/ ReloadBack(a), UNCHANGED disk
       PROVE  DurableBy(a)
  <2>1. call'[a].step \notin Ready /\ UNCHANGED <<path, disk, synced>>
    BY <1>13, StepTo
    DEF Proceed, CreateTmp, Write, Sync, Backup, Copy, Rename, Reload, Rollback, ReloadBack
  <2> QED BY <1>3, <2>1
<1>14. CASE Crash
  <2>1. \A a \in Applier : call'[a].step = "idle"
    BY <1>14 DEF Crash, Killed, NotCalled
  <2>2. Conf' /\ OnDisk' = OnDisk
    BY <1>1, <1>14 DEF Crash, Exists, OnDisk
  <2> QED BY <2>1, <2>2 DEF Durable
<1>15. CASE UNCHANGED vars
  BY <1>15 DEF vars, Durable, Exists, OnDisk
<1>16. ASSUME NEW a \in Applier, Apply(a)
       PROVE  Durable'
  <2>1. DurableBy(a)
    BY <1>6, <1>7, <1>8, <1>9, <1>10, <1>11, <1>12, <1>13, <1>16 DEF Apply, Proceed, RollsBack
  <2>2. OnDisk' = OnDisk
    <3>1. CASE CreateTmp(a) \/ Write(a) \/ Sync(a) \/ Backup(a) \/ Copy(a)
      BY <1>1, <1>2, <1>16, <3>1, ConfUntouched
      DEF Apply, Proceed, Begin
    <3>2. CASE ~(CreateTmp(a) \/ Write(a) \/ Sync(a) \/ Backup(a) \/ Copy(a))
      BY <1>16, <3>2 DEF Apply, Proceed, Begin, Rename, Reload, Rollback, ReloadBack, OnDisk
    <3> QED BY <3>1, <3>2
  <2>3. \A b \in Applier \ {a} : call'[b].step = "idle"
    BY <1>16, OthersIdle
  <2> QED BY <2>1, <2>2, <2>3 DEF Durable
<1> QED BY <1>14, <1>15, <1>16 DEF Next

\* A power loss may undo replacements, but each as a whole.
LEMMA LosePowerSound ==
  ASSUME Typed, Sound, Durable, LosePower
  PROVE  /\ Holds("conf")' = OnDisk /\ OnDisk' = OnDisk
         /\ \A a \in Applier : call'[a].step = "idle"
         /\ Sound' /\ Whole' /\ Durable'
<1>1. /\ "conf" \in Path /\ "tmp" \in Path /\ "bak" \in Path
      /\ disk \in [Path -> Inode \cup {None}] /\ path' = disk /\ disk' = disk
      /\ synced' = Inode
  BY DEF Typed, TypeOK, Path, LosePower
<1>2. \A i \in synced : data'[i] = data[i]
  BY DEF Typed, TypeOK, LosePower
<1>3. Holds("conf")' = OnDisk /\ OnDisk' = OnDisk
  BY <1>1, <1>2 DEF Durable, Holds, Exists, OnDisk
<1>4. \A a \in Applier : call'[a].step = "idle" /\ call'[a].said = "none"
  BY DEF LosePower, Killed, NotCalled
<1>5. \A a \in Applier : Progress(a)'
  BY <1>4 DEF Progress
<1>6. PathsApart'
  BY <1>1 DEF Sound, PathsApart, Exists
<1>7. Whole'
  BY <1>3, <1>4 DEF Durable, Whole, NeverPartial, Replacing
<1>8. Durable'
  BY <1>1, <1>3, <1>4 DEF Durable, Exists
<1> QED BY <1>3, <1>4, <1>5, <1>6, <1>7, <1>8 DEF Sound

\* Nothing but what is on disk changes when the directory is written.
LEMMA FlushSound ==
  ASSUME Typed, Sound, Whole, Durable, Flush
  PROVE  /\ OnDisk' = Holds("conf") /\ Holds("conf")' = Holds("conf")
         /\ Sound' /\ Whole' /\ Durable'
<1>1. /\ "conf" \in Path /\ "tmp" \in Path /\ "bak" \in Path
      /\ path \in [Path -> Inode \cup {None}]
      /\ disk' = path /\ UNCHANGED <<path, data, synced, live, call>>
  BY DEF Typed, TypeOK, Path, Flush
<1>2. OnDisk' = Holds("conf") /\ \A p \in Path : Holds(p)' = Holds(p) /\ Exists(p)' = Exists(p)
  BY <1>1 DEF OnDisk, Holds, Exists
<1>3. PathsApart'
  <2>1. path["conf"] # None => path["conf"] \notin {path["tmp"], path["bak"]}
    BY <1>1 DEF Sound, PathsApart
  <2> QED BY <1>1, <2>1 DEF Sound, PathsApart, Exists
<1>4. \A a \in Applier : Progress(a)'
  BY <1>1, <1>2 DEF Sound, Progress
<1>5. Whole'
  BY <1>1, <1>2 DEF Whole, NeverPartial
<1>6. Durable'
  BY <1>1, <1>2 DEF Durable, Whole, NeverPartial, Exists
<1> QED BY <1>1, <1>2, <1>3, <1>4, <1>5, <1>6 DEF Sound

LEMMA NextPower ==
  ASSUME Exclusive, Exclusive', Typed, Sound, Whole, Durable, [PowerNext]_vars, [~RollsBack]_vars
  PROVE  Sound' /\ Whole' /\ Durable'
<1>1. CASE UNCHANGED vars
  <2>1. Sound'
    BY <1>1, NextSound DEF Kept
  <2> QED BY <1>1, <2>1 DEF vars, Whole, NeverPartial, Durable, Holds, Exists, OnDisk
<1>2. CASE Next /\ ~RollsBack
  <2>1. ~BlindRollback
    BY <1>2 DEF RollsBack, BlindRollback
  <2> QED BY <1>2, <2>1, NextSound, NextWhole, NextDurable DEF Kept
<1>3. CASE LosePower
  BY <1>3, LosePowerSound
<1>4. CASE Flush
  BY <1>4, FlushSound
<1> QED BY <1>1, <1>2, <1>3, <1>4 DEF PowerNext

LEMMA PowerSound ==
  PowerSpec /\ []Exclusive /\ [][~RollsBack]_vars => [](Typed /\ Sound /\ Whole /\ Durable)
<1>1. Init => Typed /\ Sound /\ Whole /\ Durable
  BY InitTyped, InitSafe, InitWhole, InitDurable DEF Safe
<1> QED BY NextTyped, NextPower, <1>1, PTL DEF PowerSpec

\* While calls come one after the other rules.conf is whole whenever usbguard
\* may start, also after a power loss at any point of a call and whichever of
\* its renames has reached the disk: the sync comes before the rename
\* (lib.rs:165).
THEOREM NeverPartialAfterPowerLoss ==
  PowerSpec /\ []Exclusive /\ [][~RollsBack]_vars => []NeverPartial
<1>1. Whole => NeverPartial
  BY DEF Whole
<1> QED BY PowerSound, <1>1, PTL

\* Each call replaces the stored rules as a whole and at once, and a power loss
\* brings back, as a whole, rules that were stored before: the rename is not
\* synced, so those of the last call may be lost.
THEOREM AtomicAcrossPowerLoss ==
  PowerSpec /\ []Exclusive /\ [][~RollsBack]_vars => RulesReplacedAtomically
<1>1. ASSUME Typed, Sound, Whole, Durable, LosePower
      PROVE  [Atomic!RulesNext]_Atomic!rulesVars
  <2>1. /\ Holds("conf")' = OnDisk /\ OnDisk' = OnDisk
        /\ \A a \in Applier : call'[a].step = "idle"
    BY <1>1, LosePowerSound
  <2> QED BY <2>1, NoCall DEF Atomic!RulesNext, Atomic!LosePower
<1>2. ASSUME Typed, Sound, Whole, Durable, Flush
      PROVE  [Atomic!RulesNext]_Atomic!rulesVars
  <2>1. OnDisk' = Holds("conf") /\ Holds("conf")' = Holds("conf")
    BY <1>2, FlushSound
  <2>2. Asked' = Asked /\ Replaced' = Replaced
    BY <1>2 DEF Flush, Asked, Replaced, PutBack
  <2>3. TheOnly(Asked)' = TheOnly(Asked)
    BY <2>2 DEF TheOnly
  <2> QED BY <2>1, <2>2, <2>3 DEF Atomic!RulesNext, Atomic!Persist
<1>3. Exclusive /\ Exclusive' /\ (Typed /\ Sound /\ Whole /\ Durable)
        /\ (Typed /\ Sound /\ Whole /\ Durable)'
        /\ [PowerNext]_vars => [Atomic!RulesNext]_Atomic!rulesVars
  BY <1>1, <1>2, StepAtomic DEF PowerNext
<1> QED
  BY PowerSound, InitAtomic, <1>3, PTL DEF PowerSpec, RulesReplacedAtomically, Atomic!RulesSpec

\* usbguard that accepts every rule set leaves nothing to roll back.
LEMMA NothingToRollBack == ~ReloadMayFail => (PowerSpec => [][~RollsBack]_vars)
<1> DEFINE Forward == \A a \in Applier : call[a].step # "rollback"
<1>1. Init => Forward
  BY DEF Init, NotCalled
<1>2. CASE ~ReloadMayFail
  <2>1. Typed /\ Forward /\ [PowerNext]_vars => Forward'
    <3> SUFFICES ASSUME Typed, Forward, [PowerNext]_vars, NEW b \in Applier
                 PROVE  call'[b].step # "rollback"
      OBVIOUS
    <3>1. call \in [Applier -> CallType]
      BY DEF Typed, TypeOK, CallType
    <3>2. ASSUME NEW a \in Applier, Proceed(a)
          PROVE  call'[b].step # "rollback"
      <4>1. CASE a = b
        <5>1. ASSUME Reload(a) PROVE call'[a].step = "idle"
          BY <1>2, <5>1, AfterReturn DEF Reload
        <5> QED BY <3>2, <4>1, <5>1, StepTo
      <4>2. CASE a # b
        <5>1. call'[b] = call[b]
          BY <3>2, <4>2, OthersUntouched DEF Apply
        <5> QED BY <5>1
      <4> QED BY <4>1, <4>2
    <3>3. ASSUME NEW a \in Applier, NEW r \in Rules, Begin(a, r)
          PROVE  call'[b].step # "rollback"
      <4>1. call' = [call EXCEPT ![a] = [NotCalled EXCEPT !.step = "create", !.want = r,
                                                          !.before = Holds("conf")]]
        BY <3>3 DEF Begin
      <4> QED BY <3>1, <4>1 DEF NotCalled
    <3>4. CASE Crash \/ LosePower
      BY <3>4 DEF Crash, LosePower, Killed, NotCalled
    <3>5. CASE UNCHANGED vars \/ Flush
      BY <3>5 DEF vars, Flush
    <3> QED BY <3>2, <3>3, <3>4, <3>5 DEF PowerNext, Next, Apply
  <2>2. Forward => ~RollsBack
    BY DEF RollsBack, Rollback
  <2> QED BY <1>1, <2>1, <2>2, InitTyped, NextTyped, PTL DEF PowerSpec
<1> QED BY <1>2

\* A power loss ends all calls, so that no result is left to speak of.
LEMMA OkMeansInstalledNextToPower ==
  OneCall => (PowerSpec /\ [][~RollsBack]_vars => []OkMeansInstalled)
<1>1. CASE OneCall
  <2>1. Exclusive /\ Exclusive'
    BY <1>1, OneIsExclusive
  <2>2. Typed /\ Sound /\ OkMeansInstalled /\ [PowerNext]_vars => OkMeansInstalled'
    <3>1. Typed /\ Sound /\ OkMeansInstalled /\ [Next]_vars => OkMeansInstalled'
      BY <1>1, <2>1, NextSound DEF Kept
    <3>2. LosePower => OkMeansInstalled'
      BY DEF LosePower, Killed, NotCalled, OkMeansInstalled
    <3>3. Flush /\ OkMeansInstalled => OkMeansInstalled'
      BY DEF Flush, OkMeansInstalled, Holds, Exists
    <3> QED BY <3>1, <3>2, <3>3 DEF PowerNext
  <2>3. Exclusive
    BY <1>1, OneIsExclusive
  <2>4. Init => OkMeansInstalled
    BY InitSafe DEF Safe
  <2> QED BY <2>2, <2>3, <2>4, PowerSound, PTL DEF PowerSpec
<1> QED BY <1>1

\* A step of a call writes what the call was given, or copies it from a file.
LEMMA WritesOrCopies ==
  ASSUME Typed, NEW a \in Applier, Proceed(a)
  PROVE  /\ \A b \in Applier : call'[b].want = call[b].want
         /\ \A i \in Inode : \/ data'[i] \in {data[i], Partial}
                            \/ /\ call[a].step \in {"write", "copy"} /\ i = call[a].dst
                               /\ call'[a].step # "idle"
         /\ call[a].step = "copy" /\ call'[a].step # "idle"
              => data'[call[a].dst] \in {data[call[a].src], Partial}
<1>1. /\ call \in [Applier -> CallType] /\ data \in [Inode -> Content] /\ OpenFiles
      /\ "conf" \in Path /\ "tmp" \in Path /\ "bak" \in Path
  BY DEF Typed, TypeOK, CallType, Path
<1>2. \A b \in Applier : call'[b].want = call[b].want
  <2>1. \A b \in Applier \ {a} : call'[b] = call[b]
    BY OthersUntouched DEF Apply
  <2>2. call'[a].want = call[a].want
    <3>1. ASSUME NEW said \in {"ok", "err"}, Return(a, said)
          PROVE  call'[a].want = call[a].want
      BY <3>1, AfterReturn
    <3>2. Fail(a) => call'[a].want = call[a].want
      BY <3>1 DEF Fail
    <3>3. call'[a].step = "idle" => \E said \in {"ok", "err"} : Return(a, said)
      BY <1>1, AfterGoto
      DEF Proceed, CreateTmp, Write, Sync, Backup, Copy, Rename, Reload, Rollback, ReloadBack,
          Fail, Goto, Step, CallType
    <3> QED BY <3>1, <3>3, StepTo
  <2> QED BY <2>1, <2>2
<1> DEFINE Same(i) == data'[i] \in {data[i], Partial}
<1>3. CASE CreateTmp(a) \/ Backup(a)
  <2>1. ASSUME NEW p \in Path, NEW i \in Inode, Emptied(p, i)
        PROVE  \A j \in Inode : Same(j)
    BY <1>1, <2>1 DEF Emptied
  <2>2. \A j \in Inode : Same(j)
    BY <1>1, <1>3, <2>1 DEF CreateTmp, Backup
  <2>3. call[a].step # "copy"
    BY <1>3 DEF CreateTmp, Backup
  <2> QED BY <1>2, <2>2, <2>3
<1>4. CASE Write(a)
  <2>1. call[a].step = "write" /\ call[a].dst \in Inode
    BY <1>1, <1>4 DEF Write, OpenFiles
  <2>2. \A j \in Inode \ {call[a].dst} : Same(j)
    BY <1>1, <1>4, <2>1 DEF Write
  <2>3. call'[a].step = "idle" => Same(call[a].dst)
    <3>1. Goto(a, "sync") => call'[a].step = "sync"
      BY AfterGoto DEF Step
    <3> QED BY <1>1, <1>4, <2>1, <3>1 DEF Write
  <2> QED BY <1>2, <2>1, <2>2, <2>3
<1>5. CASE Copy(a)
  <2>1. call[a].step = "copy" /\ call[a].dst \in Inode /\ call[a].src \in Inode
    BY <1>1, <1>5 DEF Copy, OpenFiles
  <2>2. CASE Fail(a) /\ UNCHANGED data
    BY <1>2, <2>2, FailIsIdle
  <2>3. CASE /\ call' = [call EXCEPT ![a].step = "rename", ![a].src = None, ![a].dst = None]
             /\ \E c \in Written(call[a].dst, data[call[a].src]) :
                  data' = [data EXCEPT ![call[a].dst] = c]
    <3>1. call'[a].step = "rename"
      BY <1>1, <2>3 DEF CallType
    <3>2. \A j \in Inode \ {call[a].dst} : Same(j)
      BY <1>1, <2>3
    <3>3. data'[call[a].dst] \in {data[call[a].src], Partial}
      BY <1>1, <2>1, <2>3 DEF Written
    <3> QED BY <1>2, <2>1, <3>1, <3>2, <3>3
  <2> QED BY <1>5, <2>2, <2>3 DEF Copy
<1>6. CASE Sync(a) \/ Rename(a) \/ Reload(a) \/ Rollback(a) \/ ReloadBack(a)
  <2>1. UNCHANGED data /\ call[a].step # "copy"
    BY <1>6 DEF Sync, Rename, Reload, Rollback, ReloadBack
  <2> QED BY <1>2, <2>1
<1> QED BY <1>3, <1>4, <1>5, <1>6 DEF Proceed
=============================================================================
