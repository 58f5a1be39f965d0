------------------------ MODULE PersistentAllow_proof ------------------------
(***************************************************************************)
(* Proofs about PersistentAllow, for any number of overlapping calls.      *)
(* apply_persistent_allow uses RulesFile as it is, so what RulesFile_proof *)
(* proves of it carries over (ImplementsRulesFile); what a call installs   *)
(* has been verified against the trusted keys (RulesAlwaysVouched).        *)
(***************************************************************************)
EXTENDS PersistentAllow, TLAPS

R == INSTANCE RulesFile_proof WITH Rules <- Baseline \cup {Factory}

LEMMA RulesFileAssumed == R!RulesAssumption /\ R!InodeAssumption /\ R!SwitchAssumption
  BY FilesAssumption DEF R!RulesAssumption, R!InodeAssumption, R!SwitchAssumption

\* RulesFile_proof speaks of the same actions as PersistentAllow does.
LEMMA SameRulesFile ==
  /\ Files!Init <=> R!Init
  /\ \A a \in Applier : Files!Proceed(a) <=> R!Proceed(a)
  /\ \A a \in Applier, r \in Baseline : Files!Begin(a, r) <=> R!Begin(a, r)
  /\ Files!Crash <=> R!Crash
  /\ Files!LosePower <=> R!LosePower
  /\ Files!Flush <=> R!Flush
  /\ Files!PowerNext <=> R!PowerNext
  /\ Files!TypeOK <=> R!TypeOK
  /\ Files!Holds("conf") = R!Holds("conf")
  /\ UNCHANGED filesVars <=> UNCHANGED R!vars
  /\ UNCHANGED Files!vars <=> UNCHANGED R!vars
  BY DEF Files!Init, R!Init, Files!TypeOK, R!TypeOK, Files!Content, R!Content, Files!Step, R!Step,
      Files!PowerNext, R!PowerNext, Files!Flush, R!Flush, Files!Next, R!Next, Files!Apply, R!Apply, filesVars, Files!vars, R!vars,
      Files!Proceed, R!Proceed, Files!Begin, R!Begin,
      Files!CreateTmp, R!CreateTmp, Files!Write, R!Write, Files!Sync, R!Sync,
      Files!Backup, R!Backup, Files!Copy, R!Copy, Files!Rename, R!Rename,
      Files!Reload, R!Reload, Files!Rollback, R!Rollback,
      Files!ReloadBack, R!ReloadBack, Files!Crash, R!Crash,
      Files!LosePower, R!LosePower, Files!Killed, R!Killed,
      Files!NotCalled, R!NotCalled, Files!Goto, R!Goto,
      Files!Return, R!Return, Files!Fail, R!Fail, Files!Emptied, R!Emptied,
      Files!MayCreate, R!MayCreate, Files!Unused, R!Unused,
      Files!Written, R!Written, Files!Exists, R!Exists, Files!Holds, R!Holds,
      Files!Loaded, R!Loaded, Files!Path, R!Path

-----------------------------------------------------------------------------

RequestType == [step : Step, baseline : Baseline \cup {None},
                todo : SUBSET Name, second : Second \cup {None}]

\* A call that is under way has a baseline, and one that writes a file name.
OwnTyped ==
  /\ keys \in [Name -> Key \cup Keeper \cup {Absent, Torn}]
  /\ keeper \in [Keeper -> [name : Name \cup {None}, key : Key \cup {None}]]
  /\ \A m \in Keeper : keeper[m] # NoKey => keeper[m].name \in Name /\ keeper[m].key \in Key
  /\ req \in [Applier -> RequestType]
  /\ \A a \in Applier :
       /\ req[a].step # "idle" => req[a].baseline \in Baseline
       /\ req[a].step \in {"write", "record", "install"} => req[a].second \in Second
  /\ store \in [Second -> Baseline \cup {None, Partial}]
  /\ shared \subseteq Applier
  /\ logged \in [Applier -> Fate]
  /\ vouched \subseteq Applier
  /\ steady \in [Applier -> SUBSET Name]

LEMMA InitOwnTyped == Init => OwnTyped
  BY DEF Init, OwnTyped, NoRequest, NoKey, RequestType, Step, Fate

LEMMA AfterGoto ==
  ASSUME OwnTyped, NEW a \in Applier, NEW step \in Step, Goto(a, step),
         step # "idle" => req[a].step # "idle",
         step = "record" => req[a].step = "write",
         step = "install" => req[a].step = "record", step # "write"
  PROVE  /\ req' \in [Applier -> RequestType]
         /\ \A b \in Applier :
              /\ req'[b].step # "idle" => req'[b].baseline \in Baseline
              /\ req'[b].step \in {"write", "record", "install"} => req'[b].second \in Second
         /\ req'[a].step = step /\ req'[a].baseline = req[a].baseline
         /\ req'[a].second = req[a].second
         /\ \A b \in Applier \ {a} : req'[b] = req[b]
<1>1. req' = [req EXCEPT ![a] = [req[a] EXCEPT !.step = step]]
  BY DEF Goto
<1>2. [req[a] EXCEPT !.step = step] \in RequestType
  BY DEF OwnTyped, RequestType
<1>3. QED
  BY <1>1, <1>2 DEF OwnTyped, RequestType

LEMMA AfterGiveUp ==
  ASSUME OwnTyped, NEW a \in Applier, GiveUp(a)
  PROVE  /\ req' \in [Applier -> RequestType]
         /\ req'[a].step = "idle"
         /\ \A b \in Applier \ {a} : req'[b] = req[b]
<1>1. NoRequest \in RequestType /\ NoRequest.step = "idle"
  BY DEF NoRequest, RequestType, Step
<1>2. QED
  BY <1>1 DEF GiveUp, OwnTyped

LEMMA NextOwnTyped == OwnTyped /\ [Next]_vars => OwnTyped'
<1> SUFFICES ASSUME OwnTyped, [Next]_vars
             PROVE  OwnTyped'
  OBVIOUS
<1>1. ASSUME NEW a \in Applier, Begin(a)
      PROVE  OwnTyped'
  <2>1. PICK b \in Baseline, failed \in {FALSE, DiskMayFail} :
          /\ req' = [req EXCEPT ![a] =
               [step |-> "scan", baseline |-> b, second |-> None,
                todo |-> IF failed THEN {} ELSE {n \in Name : keys[n] # Absent}]]
          /\ steady' = [steady EXCEPT ![a] = IF failed THEN {} ELSE {n \in Name : keys[n] \in Key}]
          /\ vouched' = IF Signer[b] \in Trusted THEN vouched \cup {a} ELSE vouched \ {a}
    BY <1>1 DEF Begin
  <2>2. [step |-> "scan", baseline |-> b, second |-> None,
         todo |-> IF failed THEN {} ELSE {n \in Name : keys[n] # Absent}] \in RequestType
    BY DEF RequestType, Step
  <2>3. QED
    BY <1>1, <2>1, <2>2 DEF Begin, OwnTyped, Fate
<1>2. ASSUME NEW a \in Applier, TryKey(a)
      PROVE  OwnTyped'
  <2>1. PICK n \in Name :
          /\ \/ req' = [req EXCEPT ![a] = [req[a] EXCEPT !.step = "open", !.todo = {}]]
             \/ req' = [req EXCEPT ![a] = [req[a] EXCEPT !.todo = req[a].todo \ {n}]]
          /\ \/ steady' = [steady EXCEPT ![a] = {}]
             \/ steady' = [steady EXCEPT ![a] = @ \ {n}]
             \/ steady' = steady
    BY <1>2 DEF TryKey, OwnTyped, RequestType
  <2>2. /\ [req[a] EXCEPT !.step = "open", !.todo = {}] \in RequestType
        /\ [req[a] EXCEPT !.todo = req[a].todo \ {n}] \in RequestType
    BY DEF OwnTyped, RequestType, Step
  <2>3. steady' \in [Applier -> SUBSET Name]
    BY <2>1 DEF OwnTyped
  <2>4. /\ req' \in [Applier -> RequestType]
        /\ req'[a].baseline = req[a].baseline /\ req'[a].second = req[a].second
        /\ req'[a].step \in {"scan", "open"} /\ req[a].step = "scan"
        /\ \A b \in Applier \ {a} : req'[b] = req[b]
    <3>1. req[a].step = "scan" /\ req[a] \in RequestType
      BY <1>2 DEF TryKey, OwnTyped
    <3>2. \/ req'[a] = [req[a] EXCEPT !.step = "open", !.todo = {}]
          \/ req'[a] = [req[a] EXCEPT !.todo = req[a].todo \ {n}]
      BY <2>1 DEF OwnTyped
    <3>3. /\ req'[a].baseline = req[a].baseline /\ req'[a].second = req[a].second
          /\ req'[a].step \in {"scan", "open"}
      BY <3>1, <3>2 DEF RequestType
    <3>4. req' \in [Applier -> RequestType] /\ \A b \in Applier \ {a} : req'[b] = req[b]
      BY <2>1, <2>2 DEF OwnTyped
    <3> QED BY <3>1, <3>3, <3>4
  <2>5. QED
    BY <1>2, <2>3, <2>4 DEF TryKey, OwnTyped
<1>3. ASSUME NEW a \in Applier, Reject(a)
      PROVE  OwnTyped'
  BY <1>3, AfterGoto DEF Reject, OwnTyped, Step
<1>4. ASSUME NEW a \in Applier, Open(a)
      PROVE  OwnTyped'
  <2>1. CASE GiveUp(a) /\ UNCHANGED <<store, shared>>
    BY <1>4, <2>1, AfterGiveUp DEF Open, OwnTyped
  <2>2. ASSUME NEW s \in Second,
               req' = [req EXCEPT ![a].step = "write", ![a].second = s],
               store' = [store EXCEPT ![s] = Partial],
               shared' \subseteq Applier
        PROVE  OwnTyped'
    <3>1. req' = [req EXCEPT ![a] = [req[a] EXCEPT !.step = "write", !.second = s]]
      BY <2>2
    <3>2. [req[a] EXCEPT !.step = "write", !.second = s] \in RequestType
      BY DEF OwnTyped, RequestType, Step
    <3>3. /\ req' \in [Applier -> RequestType]
          /\ req'[a].baseline = req[a].baseline /\ req'[a].second = s
          /\ \A b \in Applier \ {a} : req'[b] = req[b]
      BY <3>1, <3>2 DEF OwnTyped, RequestType
    <3>4. req[a].step = "open" /\ UNCHANGED <<keys, keeper, logged, vouched, steady>>
      BY <1>4 DEF Open
    <3>5. store' \in [Second -> Baseline \cup {None, Partial}] /\ shared' \subseteq Applier
      BY <2>2 DEF OwnTyped
    <3>6. QED
      BY <3>3, <3>4, <3>5 DEF OwnTyped
  <2>3. QED
    BY <1>4, <2>1, <2>2 DEF Open
<1>5. ASSUME NEW a \in Applier, Store(a)
      PROVE  OwnTyped'
  <2>1. req[a].step = "write" /\ req[a].second \in Second /\ req[a].baseline \in Baseline
    BY <1>5 DEF Store, OwnTyped
  <2>2. Goto(a, "record") \/ GiveUp(a)
    BY <1>5 DEF Store
  <2>3. store' \in [Second -> Baseline \cup {None, Partial}]
    BY <1>5, <2>1 DEF Store, OwnTyped
  <2>4. QED
    BY <1>5, <2>1, <2>2, <2>3, AfterGoto, AfterGiveUp DEF Store, OwnTyped, Step
<1>6. ASSUME NEW a \in Applier, Install(a)
      PROVE  OwnTyped'
  BY <1>6 DEF Install, OwnTyped
<1>7. ASSUME NEW m \in Keeper, CreateKey(m)
      PROVE  OwnTyped'
  BY <1>7 DEF CreateKey, Unsteady, OwnTyped
<1>8. ASSUME NEW m \in Keeper, WriteKey(m)
      PROVE  OwnTyped'
  BY <1>8 DEF WriteKey, NoKey, OwnTyped
<1>9. ASSUME NEW m \in Keeper, RemoveKey(m)
      PROVE  OwnTyped'
  BY <1>9 DEF RemoveKey, Unsteady, OwnTyped
<1>10. Stopped => /\ keeper' \in [Keeper -> [name : Name \cup {None}, key : Key \cup {None}]]
                  /\ \A m \in Keeper : keeper'[m] = NoKey
                  /\ req' \in [Applier -> RequestType]
                  /\ \A a \in Applier : req'[a].step = "idle"
                  /\ steady' \in [Applier -> SUBSET Name]
                  /\ shared' = {} /\ vouched' = {}
                  /\ logged' \in [Applier -> Fate]
  BY DEF Stopped, NoKey, NoRequest, RequestType, Step, Fate
<1>11. CASE Crash
  BY <1>10, <1>11 DEF Crash, OwnTyped
<1>12. CASE LosePower
  BY <1>10, <1>12 DEF LosePower, OwnTyped
<1>13. CASE UNCHANGED vars \/ Flush
  BY <1>13 DEF vars, Flush, OwnTyped
<1>14. ASSUME NEW a \in Applier, Record(a)
       PROVE  OwnTyped'
  <2>1. req[a].step = "record" /\ req[a].baseline \in Baseline /\ Goto(a, "install")
    BY <1>14 DEF Record, OwnTyped
  <2>2. logged' \in [Applier -> Fate]
    BY <1>14 DEF Record, OwnTyped, Fate
  <2>3. QED
    BY <1>14, <2>1, <2>2, AfterGoto DEF Record, OwnTyped, Step
<1>15. QED
  BY <1>1, <1>2, <1>3, <1>4, <1>5, <1>6, <1>7, <1>8, <1>9, <1>11, <1>12, <1>13, <1>14
  DEF Next, Request, KeyCall

OriginTyped == origin \in [Inode -> SUBSET {"vouched", "recorded"}]

LEMMA NextOriginTyped == R!Typed /\ OriginTyped /\ [Next]_vars => OriginTyped'
<1> SUFFICES ASSUME R!Typed, OriginTyped, [Next]_vars
             PROVE  OriginTyped'
  OBVIOUS
<1>1. ASSUME NEW a \in Applier, Install(a), NEW i \in Inode
      PROVE  Behind(a, i) \in SUBSET {"vouched", "recorded"}
  <2>1. call[a].step = "copy" => call[a].src \in Inode
    BY DEF R!Typed, R!OpenFiles
  <2> QED BY <2>1 DEF Behind, Past, OriginTyped
<1>2. ASSUME NEW a \in Applier, Install(a)
      PROVE  OriginTyped'
  BY <1>1, <1>2 DEF Install, OriginTyped
<1>3. Stopped => OriginTyped'
  BY DEF Stopped, OriginTyped
<1>4. CASE UNCHANGED origin
  BY <1>4 DEF OriginTyped
<1> QED
  BY <1>2, <1>3, <1>4
  DEF Next, vars, Request, Begin, TryKey, Reject, Open, Store, Record,
      KeyCall, CreateKey, WriteKey, RemoveKey, Crash, LosePower, Flush

LEMMA InitRulesFile == Init => R!Init
  BY SameRulesFile DEF Init

\* A step of a permanent approval is a step of RulesFile, or none of its business.
LEMMA NextRulesFile ==
  OwnTyped /\ [Next]_vars => /\ [R!PowerNext]_R!vars
                             /\ ~MayLosePower => [R!Next]_R!vars
<1> SUFFICES ASSUME OwnTyped, Next
             PROVE  \/ R!Next
                    \/ MayLosePower /\ (R!LosePower \/ R!Flush)
                    \/ UNCHANGED R!vars
  BY SameRulesFile DEF vars, R!PowerNext
<1>1. ASSUME NEW a \in Applier, Record(a)
      PROVE  R!Next
  <2>1. req[a].baseline \in Baseline
    BY <1>1 DEF Record, OwnTyped
  <2>2. R!Begin(a, req[a].baseline)
    BY <1>1, <2>1, SameRulesFile DEF Record
  <2>3. QED
    BY <2>1, <2>2 DEF R!Next, R!Apply
<1>2. ASSUME NEW a \in Applier, Install(a)
      PROVE  R!Next
  BY <1>2, SameRulesFile DEF Install, R!Next, R!Apply
<1>3. ASSUME NEW a \in Applier, Begin(a) \/ TryKey(a) \/ Reject(a) \/ Open(a) \/ Store(a)
      PROVE  UNCHANGED R!vars
  BY <1>3, SameRulesFile DEF Begin, TryKey, Reject, Open, Store
<1>4. ASSUME NEW m \in Keeper, KeyCall(m)
      PROVE  UNCHANGED R!vars
  BY <1>4, SameRulesFile DEF KeyCall, CreateKey, WriteKey, RemoveKey
<1>5. Crash \/ LosePower \/ Flush => R!Next \/ (MayLosePower /\ (R!LosePower \/ R!Flush))
  BY SameRulesFile DEF Crash, LosePower, Flush, R!Next
<1>6. QED
  BY <1>1, <1>2, <1>3, <1>4, <1>5 DEF Next, Request

LEMMA RulesFileTyped ==
  /\ R!Init => R!Typed
  /\ R!Typed /\ [R!PowerNext]_R!vars => R!Typed'
  BY RulesFileAssumed, R!InitTyped, R!NextTyped

\* Every variable keeps its type, with any number of overlapping calls.
THEOREM TypeCorrect == Spec => []TypeOK
<1>1. OwnTyped /\ OriginTyped /\ R!Typed => TypeOK
  BY SameRulesFile DEF TypeOK, OwnTyped, OriginTyped, RequestType, R!Typed
<1>2. Init => OriginTyped
  BY DEF Init, OriginTyped
<1>3. QED
  BY InitOwnTyped, NextOwnTyped, NextOriginTyped, InitRulesFile, NextRulesFile, RulesFileTyped,
     <1>1, <1>2, PTL DEF Spec

\* Permanent approvals use apply_rules_atomically as RulesFile describes it.
THEOREM ImplementsRulesFile == Spec => Files!PowerSpec
<1>1. R!Init => Files!Init
  BY SameRulesFile
<1>2. [R!PowerNext]_R!vars => [Files!PowerNext]_Files!vars
  BY SameRulesFile
<1>3. QED
  BY InitOwnTyped, NextOwnTyped, InitRulesFile, NextRulesFile, <1>1, <1>2, PTL DEF Spec, Files!PowerSpec
-----------------------------------------------------------------------------


\* It is called with the rules it is to write.
LEMMA BeginCalls ==
  ASSUME R!Typed, NEW a \in Applier, NEW r, R!Begin(a, r)
  PROVE  /\ call'[a].want = r
         /\ \A b \in Applier \ {a} : call'[b] = call[b]
         /\ UNCHANGED data
  BY DEF R!Begin, R!NotCalled, R!Typed, R!TypeOK

\* What stands behind the call of a, as far as it has come: only an apply whose
\* signer's key was trusted meanwhile gets past the scan, and during the scan it
\* is one as soon as the key is trusted.
Backed(a) ==
  /\ req[a].step \in {"open", "write", "record", "install"} => a \in vouched
  /\ req[a].step = "scan" /\ Signer[req[a].baseline] \in Trusted => a \in vouched
  /\ req[a].step = "install" => Recorded(a) /\ call[a].want = req[a].baseline

\* What a file holds of a baseline an apply with all that behind it has written.
Traced == \A i \in Inode : data[i] \in Baseline => origin[i] = {"vouched", "recorded"}

BackedInv == Traced /\ \A a \in Applier : Backed(a)

LEMMA InitBacked == Init => BackedInv
<1> SUFFICES ASSUME Init PROVE BackedInv
  OBVIOUS
<1>1. R!Init /\ R!Holds("conf") \in {Factory, None}
  BY SameRulesFile DEF Init
<1>2. data \in [Inode -> {Factory, Partial}]
  BY <1>1, FilesAssumption DEF R!Init, R!Holds, R!Exists, R!Path
<1>3. Traced
  BY <1>2, BaselineAssumption, FilesAssumption DEF Traced
<1>4. \A a \in Applier : req[a].step = "idle"
  BY DEF Init, NoRequest
<1>5. QED
  BY <1>3, <1>4 DEF BackedInv, Backed

\* A step of the installation leaves the traces right.
LEMMA InstallTraced ==
  ASSUME R!Typed, BackedInv, NEW a \in Applier, Install(a)
  PROVE  Traced' /\ \A b \in Applier : call'[b].want = call[b].want
<1>1. /\ R!Proceed(a) /\ a \in vouched /\ Recorded(a)
      /\ origin' = [i \in Inode |-> IF data'[i] \in Baseline THEN Behind(a, i) ELSE {}]
  BY SameRulesFile DEF Install, BackedInv, Backed
<1>2. Past(a) = {"vouched", "recorded"}
  BY <1>1 DEF Past
<1>3. Partial \notin Baseline
  BY FilesAssumption
<1>4. ASSUME NEW i \in Inode, data'[i] \in Baseline
      PROVE  origin'[i] = {"vouched", "recorded"}
  <2>1. origin'[i] = Behind(a, i)
    BY <1>1, <1>4
  <2>2. CASE call[a].dst = i /\ call'[a].step # "idle" /\ call[a].step = "write"
    BY <1>2, <2>1, <2>2 DEF Behind
  <2>3. CASE call[a].dst = i /\ call'[a].step # "idle" /\ call[a].step = "copy"
    <3>1. data[call[a].src] \in Baseline /\ call[a].src \in Inode
      BY <1>1, <1>3, <1>4, <2>3, RulesFileAssumed, R!WritesOrCopies DEF R!Typed, R!OpenFiles
    <3>2. origin[call[a].src] = {"vouched", "recorded"}
      BY <3>1 DEF BackedInv, Traced
    <3> QED BY <2>1, <2>3, <3>2 DEF Behind
  <2>4. CASE ~(call[a].dst = i /\ call'[a].step # "idle" /\ call[a].step \in {"write", "copy"})
    <3>1. data[i] \in Baseline
      BY <1>1, <1>3, <1>4, <2>4, RulesFileAssumed, R!WritesOrCopies
    <3>2. Behind(a, i) = origin[i]
      BY <2>4 DEF Behind
    <3> QED BY <2>1, <3>1, <3>2 DEF BackedInv, Traced
  <2> QED BY <2>2, <2>3, <2>4
<1> QED BY <1>1, <1>4, RulesFileAssumed, R!WritesOrCopies DEF Traced

LEMMA NextBacked == OwnTyped /\ R!Typed /\ BackedInv /\ [Next]_vars => BackedInv'
<1> SUFFICES ASSUME OwnTyped, R!Typed, BackedInv, [Next]_vars
             PROVE  BackedInv'
  OBVIOUS
<1> USE KeyAssumption
<1>1. ASSUME UNCHANGED <<data, origin>>
      PROVE  Traced'
  BY <1>1 DEF BackedInv, Traced
<1>2. ASSUME UNCHANGED <<req, logged>>, vouched \subseteq vouched', Trusted' \subseteq Trusted,
             \A a \in Applier : call'[a].want = call[a].want
      PROVE  \A a \in Applier : Backed(a)'
  BY <1>2 DEF BackedInv, Backed, Recorded
<1>3. ASSUME NEW a \in Applier, UNCHANGED keys, Backed(a)',
             \A b \in Applier \ {a} : /\ req'[b] = req[b] /\ call'[b] = call[b]
                                      /\ logged'[b] = logged[b]
                                      /\ b \in vouched' <=> b \in vouched
      PROVE  \A b \in Applier : Backed(b)'
  <2>1. Trusted' = Trusted
    BY <1>3 DEF Trusted
  <2>2. ASSUME NEW b \in Applier \ {a}
        PROVE  Backed(b)'
    <3>1. Backed(b)
      BY DEF BackedInv
    <3> QED BY <1>3, <2>1, <3>1 DEF Backed, Recorded
  <2> QED BY <1>3, <2>2
<1>4. ASSUME NEW a \in Applier, Begin(a)
      PROVE  BackedInv'
  <2>1. PICK b \in Baseline :
          /\ \E todo : req' = [req EXCEPT ![a] = [step |-> "scan", baseline |-> b, second |-> None,
                                                 todo |-> todo]]
          /\ vouched' = IF Signer[b] \in Trusted THEN vouched \cup {a} ELSE vouched \ {a}
    BY <1>4 DEF Begin
  <2>2. /\ req'[a].step = "scan" /\ req'[a].baseline = b
        /\ \A c \in Applier \ {a} : req'[c] = req[c]
    BY <2>1 DEF OwnTyped
  <2>3. UNCHANGED <<data, call, keys, origin>> /\ \A c \in Applier \ {a} : logged'[c] = logged[c]
    BY <1>4 DEF Begin, filesVars, OwnTyped
  <2>4. Trusted' = Trusted
    BY <2>3 DEF Trusted
  <2>5. Backed(a)'
    BY <2>1, <2>2, <2>4 DEF Backed
  <2>6. \A c \in Applier : Backed(c)'
    BY <1>3, <2>1, <2>2, <2>3, <2>5
  <2> QED BY <1>1, <2>3, <2>6 DEF BackedInv
<1>5. ASSUME NEW a \in Applier, TryKey(a)
      PROVE  BackedInv'
  <2>1. UNCHANGED <<data, call, keys, logged, vouched, origin>> /\ req[a].step = "scan"
    BY <1>5 DEF TryKey, filesVars
  <2>2. PICK n \in Name :
          \/ /\ Verifies(n, req[a].baseline)
             /\ req' = [req EXCEPT ![a] = [req[a] EXCEPT !.step = "open", !.todo = {}]]
          \/ req' = [req EXCEPT ![a] = [req[a] EXCEPT !.todo = req[a].todo \ {n}]]
    BY <1>5 DEF TryKey, OwnTyped, RequestType
  <2>3. req[a] \in RequestType
    BY DEF OwnTyped
  <2>4. /\ req'[a].baseline = req[a].baseline
        /\ \A b \in Applier \ {a} : req'[b] = req[b]
        /\ req'[a].step = "scan" \/ (req'[a].step = "open" /\ Verifies(n, req[a].baseline))
    <3>1. CASE /\ Verifies(n, req[a].baseline)
               /\ req' = [req EXCEPT ![a] = [req[a] EXCEPT !.step = "open", !.todo = {}]]
      BY <2>3, <3>1 DEF OwnTyped, RequestType
    <3>2. CASE req' = [req EXCEPT ![a] = [req[a] EXCEPT !.todo = req[a].todo \ {n}]]
      <4>1. /\ req'[a] = [req[a] EXCEPT !.todo = req[a].todo \ {n}]
            /\ \A b \in Applier \ {a} : req'[b] = req[b]
        BY <3>2 DEF OwnTyped
      <4>2. req'[a].step = req[a].step /\ req'[a].baseline = req[a].baseline
        BY <2>3, <4>1 DEF RequestType
      <4>3. QED
        BY <2>1, <4>1, <4>2
    <3>3. QED
      BY <2>2, <3>1, <3>2
  <2>5. Verifies(n, req[a].baseline) => Signer[req[a].baseline] \in Trusted
    BY DEF Verifies, Trusted
  <2>6. Trusted' = Trusted /\ Backed(a)
    BY <2>1 DEF Trusted, BackedInv
  <2>7. Backed(a)'
    BY <2>1, <2>4, <2>5, <2>6 DEF Backed
  <2>8. \A b \in Applier : Backed(b)'
    BY <1>3, <2>1, <2>4, <2>7
  <2> QED BY <1>1, <2>1, <2>8 DEF BackedInv
<1>6. ASSUME NEW a \in Applier, Reject(a)
      PROVE  BackedInv'
  <2>1. UNCHANGED <<data, call, keys, logged, vouched, origin>>
    BY <1>6 DEF Reject, filesVars
  <2>2. req'[a].step = "refused" /\ \A b \in Applier \ {a} : req'[b] = req[b]
    BY <1>6, AfterGoto DEF Reject, Step
  <2>3. Backed(a)'
    BY <2>2 DEF Backed
  <2>4. \A b \in Applier : Backed(b)'
    BY <1>3, <2>1, <2>2, <2>3
  <2> QED BY <1>1, <2>1, <2>4 DEF BackedInv
<1>7. ASSUME NEW a \in Applier, Open(a) \/ Store(a)
      PROVE  BackedInv'
  <2>1. /\ UNCHANGED <<data, call, keys, logged, vouched, origin>>
        /\ req[a].step \in {"open", "write"} /\ Backed(a)
    BY <1>7 DEF Open, Store, filesVars, BackedInv
  <2>2. /\ req'[a].step \in {"idle", "write", "record"}
        /\ \A b \in Applier \ {a} : req'[b] = req[b]
    <3>1. CASE GiveUp(a)
      BY <3>1, AfterGiveUp
    <3>2. CASE Goto(a, "record") /\ req[a].step = "write"
      BY <3>2, AfterGoto DEF Step
    <3>3. ASSUME NEW s \in Second,
                 req' = [req EXCEPT ![a] = [req[a] EXCEPT !.step = "write", !.second = s]]
          PROVE  req'[a].step = "write" /\ \A b \in Applier \ {a} : req'[b] = req[b]
      BY <3>3 DEF OwnTyped, RequestType
    <3>4. QED
      BY <1>7, <3>1, <3>2, <3>3 DEF Open, Store
  <2>3. Backed(a)'
    BY <2>1, <2>2 DEF Backed
  <2>4. \A b \in Applier : Backed(b)'
    BY <1>3, <2>1, <2>2, <2>3
  <2> QED BY <1>1, <2>1, <2>4 DEF BackedInv
<1>8. ASSUME NEW a \in Applier, Record(a)
      PROVE  BackedInv'
  <2>1. /\ req[a].step = "record" /\ Backed(a) /\ req[a].baseline \in Baseline
        /\ UNCHANGED <<keys, vouched, origin>>
    BY <1>8 DEF Record, BackedInv, OwnTyped
  <2>2. /\ logged'[a] = "made" \/ (DiskMayFail /\ logged'[a] = "lost")
        /\ \A b \in Applier \ {a} : logged'[b] = logged[b]
    BY <1>8 DEF Record, OwnTyped
  <2>3. /\ req'[a].step = "install" /\ req'[a].baseline = req[a].baseline
        /\ \A b \in Applier \ {a} : req'[b] = req[b]
    BY <1>8, <2>1, AfterGoto DEF Record, Step
  <2>4. /\ call'[a].want = req[a].baseline
        /\ \A b \in Applier \ {a} : call'[b] = call[b]
        /\ UNCHANGED data
    BY <1>8, <2>1, SameRulesFile, BeginCalls DEF Record
  <2>5. Backed(a)'
    BY <2>1, <2>2, <2>3, <2>4 DEF Backed, Recorded
  <2>6. \A b \in Applier : Backed(b)'
    BY <1>3, <2>1, <2>2, <2>3, <2>4, <2>5
  <2> QED BY <1>1, <2>1, <2>4, <2>6 DEF BackedInv
<1>9. ASSUME NEW a \in Applier, Install(a)
      PROVE  BackedInv'
  <2>1. UNCHANGED <<req, logged, vouched, keys>>
    BY <1>9 DEF Install
  <2>2. Traced' /\ \A b \in Applier : call'[b].want = call[b].want
    BY <1>9, InstallTraced
  <2>3. Trusted' = Trusted
    BY <2>1 DEF Trusted
  <2> QED BY <1>2, <2>1, <2>2, <2>3 DEF BackedInv
<1>10. ASSUME NEW m \in Keeper, CreateKey(m) \/ RemoveKey(m)
       PROVE  BackedInv'
  <2>1. UNCHANGED <<data, call, req, logged, vouched, origin>>
    BY <1>10 DEF CreateKey, RemoveKey, filesVars
  <2>2. \A n \in Name : keys'[n] \in {keys[n], m, Absent}
    BY <1>10 DEF CreateKey, RemoveKey, OwnTyped
  <2>3. Trusted' \subseteq Trusted
    BY <2>2 DEF Trusted
  <2> QED BY <1>1, <1>2, <2>1, <2>3 DEF BackedInv
<1>11. ASSUME NEW m \in Keeper, WriteKey(m)
       PROVE  BackedInv'
  <2>1. UNCHANGED <<data, call, req, logged, origin>>
    BY <1>11 DEF WriteKey, filesVars
  <2>2. CASE UNCHANGED <<keys, vouched>>
    BY <1>1, <1>2, <2>1, <2>2 DEF BackedInv, Trusted
  <2>3. ASSUME NEW c, keys' = [keys EXCEPT ![keeper[m].name] = c],
               vouched' = vouched \cup
                 {a \in Applier : req[a].step = "scan" /\ Signer[req[a].baseline] = c}
        PROVE  BackedInv'
    <3>1. Trusted' \subseteq Trusted \cup {c}
      BY <2>3 DEF Trusted, OwnTyped
    <3>2. \A a \in Applier : Backed(a)'
      BY <2>1, <2>3, <3>1 DEF BackedInv, Backed, Recorded
    <3> QED BY <1>1, <2>1, <3>2 DEF BackedInv
  <2> QED BY <1>11, <2>2, <2>3 DEF WriteKey
<1>12. ASSUME Stopped, \A i \in Inode : data'[i] \in {data[i], Partial}
       PROVE  BackedInv'
  <2>1. \A a \in Applier : req'[a].step = "idle"
    BY <1>12 DEF Stopped, NoRequest
  <2>2. Partial \notin Baseline
    BY FilesAssumption
  <2>3. Traced'
    BY <1>12, <2>2 DEF Stopped, BackedInv, Traced
  <2> QED BY <2>1, <2>3 DEF BackedInv, Backed
<1>13. Crash \/ LosePower => Stopped /\ (R!Crash \/ R!LosePower)
  BY SameRulesFile DEF Crash, LosePower
<1>14. Crash \/ LosePower => BackedInv'
  BY <1>12, <1>13 DEF R!Crash, R!LosePower
<1>15. CASE UNCHANGED vars \/ Flush
  <2>1. UNCHANGED <<data, call, keys, req, logged, vouched, origin>>
    BY <1>15, SameRulesFile DEF vars, filesVars, Flush, R!Flush
  <2> QED BY <1>1, <1>2, <2>1 DEF BackedInv, Trusted
<1> QED
  BY <1>4, <1>5, <1>6, <1>7, <1>8, <1>9, <1>10, <1>11, <1>14, <1>15
  DEF Next, Request, KeyCall

LEMMA BackedAlways == Spec => [](OwnTyped /\ R!Typed /\ BackedInv)
  BY InitOwnTyped, NextOwnTyped, InitRulesFile, NextRulesFile, RulesFileTyped, InitBacked,
     NextBacked, PTL DEF Spec

LEMMA ConfTraced ==
  ASSUME R!Typed, BackedInv, Files!Holds("conf") \in Baseline
  PROVE  origin[path["conf"]] = {"vouched", "recorded"}
<1>1. path["conf"] \in Inode \cup {None} /\ Files!Holds("conf") = R!Holds("conf")
  BY SameRulesFile DEF R!Typed, R!TypeOK, R!Path
<1> QED
  BY <1>1, FilesAssumption DEF R!Holds, R!Exists, BackedInv, Traced

\* Whatever keys come and go, however calls overlap, fail or are cut short, and
\* whatever a power loss takes back, the call that wrote the rules in rules.conf
\* was one during which the key that verifies its baseline was trusted.
THEOREM RulesAlwaysVouched == Spec => []OnlyVouchedRules
<1>1. R!Typed /\ BackedInv => OnlyVouchedRules
  BY ConfTraced DEF OnlyVouchedRules
<1> QED BY BackedAlways, <1>1, PTL

\* For any number of calls, and wherever they fail or die, rules.conf only ever
\* holds rules whose call had recorded them as applied before it wrote them,
\* unless the write of the record failed, which it does not notice.  That a
\* power loss leaves the record in the log is not said.
THEOREM InstalledIsAlwaysRecorded == Spec => []InstalledIsRecorded
<1>1. R!Typed /\ BackedInv => InstalledIsRecorded
  BY ConfTraced DEF InstalledIsRecorded
<1> QED BY BackedAlways, <1>1, PTL

-----------------------------------------------------------------------------

\* A key file changes only if it was not there, held the mark of the call that
\* writes it, is removed, or the machine loses power.
THEOREM TrustedKeysStay == Spec => KeyNeverReplaced
<1> USE KeyAssumption
<1> DEFINE Replaced(n) == keys[n] \in Key /\ keys'[n] \notin {keys[n], Absent}
<1>1. ASSUME OwnTyped, [Next]_vars, ~LosePower, NEW n \in Name
      PROVE  ~Replaced(n)
  <2>1. CASE UNCHANGED keys
    BY <2>1
  <2>2. ASSUME NEW m \in Keeper, KeyCall(m)
        PROVE  ~Replaced(n)
    BY <1>1, <2>2 DEF KeyCall, CreateKey, WriteKey, RemoveKey, OwnTyped
  <2>3. CASE Crash
    BY <2>3, <1>1 DEF Crash, OwnTyped
  <2>4. QED
    BY <1>1, <2>1, <2>2, <2>3
    DEF Next, vars, Request, Begin, TryKey, Reject, Open, Store, Record, Install, Flush
<1>2. OwnTyped /\ [Next]_vars
        => [\A n \in Name : keys[n] \in Key /\ keys'[n] \notin {keys[n], Absent} => LosePower]_vars
  BY <1>1
<1>3. QED
  BY InitOwnTyped, NextOwnTyped, <1>2, PTL DEF Spec, KeyNeverReplaced

-----------------------------------------------------------------------------

\* The steady key files a call has passed do not verify its baseline.
Passed(a) ==
  /\ \A n \in steady[a] : keys[n] \in Key
  /\ req[a].step \in {"scan", "refused"} =>
       \A n \in steady[a] :
         \/ req[a].step = "scan" /\ n \in req[a].todo
         \/ keys[n] # Signer[req[a].baseline]

SteadyInv == \A a \in Applier : Passed(a)

LEMMA NextSteady == OwnTyped /\ SteadyInv /\ [Next]_vars => SteadyInv'
<1> SUFFICES ASSUME OwnTyped, SteadyInv, [Next]_vars
             PROVE  SteadyInv'
  OBVIOUS
<1> USE KeyAssumption
<1>1. ASSUME UNCHANGED req,
             \A a \in Applier : /\ steady'[a] \subseteq steady[a]
                                /\ \A n \in steady'[a] : keys'[n] = keys[n]
      PROVE  SteadyInv'
  BY <1>1 DEF SteadyInv, Passed
<1>2. ASSUME NEW a \in Applier, UNCHANGED keys, Passed(a)',
             \A b \in Applier \ {a} : req'[b] = req[b] /\ steady'[b] = steady[b]
      PROVE  SteadyInv'
  BY <1>2 DEF SteadyInv, Passed
<1>3. ASSUME NEW a \in Applier, UNCHANGED <<keys, steady>>,
             req'[a].step \notin {"scan", "refused"},
             \A b \in Applier \ {a} : req'[b] = req[b]
      PROVE  SteadyInv'
  BY <1>2, <1>3 DEF SteadyInv, Passed
<1>4. ASSUME NEW a \in Applier, Begin(a)
      PROVE  SteadyInv'
  <2>1. PICK b \in Baseline, failed \in {FALSE, DiskMayFail} :
          /\ req' = [req EXCEPT ![a] =
               [step |-> "scan", baseline |-> b, second |-> None,
                todo |-> IF failed THEN {} ELSE {n \in Name : keys[n] # Absent}]]
          /\ steady' = [steady EXCEPT ![a] = IF failed THEN {} ELSE {n \in Name : keys[n] \in Key}]
    BY <1>4 DEF Begin
  <2>2. /\ req'[a].step = "scan"
        /\ req'[a].todo = IF failed THEN {} ELSE {n \in Name : keys[n] # Absent}
        /\ steady'[a] = IF failed THEN {} ELSE {n \in Name : keys[n] \in Key}
        /\ \A c \in Applier \ {a} : req'[c] = req[c] /\ steady'[c] = steady[c]
    BY <2>1 DEF OwnTyped
  <2>3. UNCHANGED keys
    BY <1>4 DEF Begin
  <2>4. Passed(a)'
    BY <2>2, <2>3 DEF Passed
  <2>5. QED
    BY <1>2, <2>2, <2>3, <2>4
<1>5. ASSUME NEW a \in Applier, TryKey(a)
      PROVE  SteadyInv'
  <2>1. UNCHANGED keys /\ req[a].step = "scan" /\ Passed(a)
    BY <1>5 DEF TryKey, SteadyInv
  <2>2. PICK n \in Name, failed \in {FALSE, DiskMayFail} :
          IF ~failed /\ Verifies(n, req[a].baseline)
            THEN /\ req' = [req EXCEPT ![a].step = "open", ![a].todo = {}]
                 /\ steady' = [steady EXCEPT ![a] = {}]
            ELSE /\ req' = [req EXCEPT ![a].todo = @ \ {n}]
                 /\ steady' = IF failed THEN [steady EXCEPT ![a] = @ \ {n}] ELSE steady
    BY <1>5 DEF TryKey, OwnTyped, RequestType
  <2>3. CASE ~failed /\ Verifies(n, req[a].baseline)
    <3>1. /\ req' = [req EXCEPT ![a] = [req[a] EXCEPT !.step = "open", !.todo = {}]]
          /\ steady' = [steady EXCEPT ![a] = {}]
      BY <2>2, <2>3
    <3>2. /\ req'[a].step = "open" /\ steady'[a] = {}
          /\ \A b \in Applier \ {a} : req'[b] = req[b] /\ steady'[b] = steady[b]
      BY <3>1 DEF OwnTyped, RequestType
    <3>3. Passed(a)'
      BY <3>2 DEF Passed
    <3>4. QED
      BY <1>2, <2>1, <3>2, <3>3
  <2>4. CASE ~(~failed /\ Verifies(n, req[a].baseline))
    <3>1. req' = [req EXCEPT ![a] = [req[a] EXCEPT !.todo = req[a].todo \ {n}]]
      BY <2>2, <2>4
    <3>2. /\ req'[a].step = "scan" /\ req'[a].baseline = req[a].baseline
          /\ req'[a].todo = req[a].todo \ {n}
          /\ \A b \in Applier \ {a} : req'[b] = req[b]
      BY <2>1, <3>1 DEF OwnTyped, RequestType
    <3>3. /\ steady'[a] \subseteq steady[a]
          /\ n \in steady'[a] => ~Verifies(n, req[a].baseline)
          /\ \A b \in Applier \ {a} : steady'[b] = steady[b]
      BY <2>2, <2>4 DEF OwnTyped
    <3>4. Passed(a)'
      BY <2>1, <3>2, <3>3 DEF Passed, Verifies
    <3>5. QED
      BY <1>2, <2>1, <3>2, <3>3, <3>4
  <2>5. QED
    BY <2>3, <2>4
<1>6. ASSUME NEW a \in Applier, Reject(a)
      PROVE  SteadyInv'
  <2>1. req[a].step = "scan" /\ req[a].todo = {} /\ UNCHANGED <<keys, steady>> /\ Passed(a)
    BY <1>6 DEF Reject, SteadyInv
  <2>2. /\ req'[a].step = "refused" /\ req'[a].baseline = req[a].baseline
        /\ \A b \in Applier \ {a} : req'[b] = req[b]
    BY <1>6, <2>1, AfterGoto DEF Reject, Step
  <2>3. Passed(a)'
    BY <2>1, <2>2 DEF Passed
  <2>4. QED
    BY <1>2, <2>1, <2>2, <2>3
<1>7. ASSUME NEW a \in Applier, Open(a)
      PROVE  SteadyInv'
  <2>1. UNCHANGED <<keys, steady>>
    BY <1>7 DEF Open
  <2>2. req'[a].step \in {"idle", "write"} /\ \A b \in Applier \ {a} : req'[b] = req[b]
    <3>1. CASE GiveUp(a)
      BY <3>1, AfterGiveUp
    <3>2. ASSUME NEW s \in Second,
                 req' = [req EXCEPT ![a] = [req[a] EXCEPT !.step = "write", !.second = s]]
          PROVE  req'[a].step = "write" /\ \A b \in Applier \ {a} : req'[b] = req[b]
      BY <3>2 DEF OwnTyped, RequestType
    <3>3. QED
      BY <1>7, <3>1, <3>2 DEF Open
  <2>3. QED
    BY <1>3, <2>1, <2>2
<1>8. ASSUME NEW a \in Applier, Store(a) \/ Record(a)
      PROVE  SteadyInv'
  <2>1. UNCHANGED <<keys, steady>> /\ req[a].step \in {"write", "record"}
    BY <1>8 DEF Store, Record
  <2>2. /\ req'[a].step \in {"idle", "record", "install"}
        /\ \A b \in Applier \ {a} : req'[b] = req[b]
    <3>1. CASE Store(a)
      BY <3>1, AfterGoto, AfterGiveUp DEF Store, Step
    <3>2. CASE Record(a)
      BY <3>2, AfterGoto DEF Record, Step
    <3>3. QED
      BY <1>8, <3>1, <3>2
  <2>3. QED
    BY <1>3, <2>1, <2>2
<1>9. ASSUME NEW a \in Applier, Install(a)
      PROVE  SteadyInv'
  BY <1>1, <1>9 DEF Install
<1>10. ASSUME NEW m \in Keeper, CreateKey(m) \/ RemoveKey(m)
       PROVE  SteadyInv'
  <2>1. PICK n \in Name : /\ Unsteady(n) /\ UNCHANGED req
                          /\ \A k \in Name \ {n} : keys'[k] = keys[k]
    BY <1>10 DEF CreateKey, RemoveKey, OwnTyped
  <2>2. \A a \in Applier : steady'[a] = steady[a] \ {n} /\ steady[a] \subseteq Name
    BY <2>1 DEF Unsteady, OwnTyped
  <2>3. QED
    BY <1>1, <2>1, <2>2
<1>11. ASSUME NEW m \in Keeper, WriteKey(m)
       PROVE  SteadyInv'
  <2>1. UNCHANGED <<req, steady>> /\ \A n \in Name : keys[n] # m => keys'[n] = keys[n]
    BY <1>11 DEF WriteKey, OwnTyped
  <2>2. \A a \in Applier : \A n \in steady[a] : n \in Name /\ keys[n] # m
    BY DEF SteadyInv, Passed, OwnTyped
  <2>3. QED
    BY <1>1, <2>1, <2>2
<1>12. CASE Crash \/ LosePower
  <2>1. \A a \in Applier : req'[a].step = "idle" /\ steady'[a] = {}
    BY <1>12 DEF Crash, LosePower, Stopped, NoRequest
  <2>2. QED
    BY <2>1 DEF SteadyInv, Passed
<1>13. CASE UNCHANGED vars \/ Flush
  BY <1>13 DEF vars, Flush, SteadyInv, Passed
<1>14. QED
  BY <1>4, <1>5, <1>6, <1>7, <1>8, <1>9, <1>10, <1>11, <1>12, <1>13 DEF Next, Request, KeyCall

\* No call overlooks a key that is there all the time, whatever key files other
\* calls add, write and remove meanwhile.
THEOREM SteadyKeysCount == Spec => []SteadyKeyCounts
<1>1. Init => SteadyInv
  BY DEF Init, NoRequest, SteadyInv, Passed
<1>2. SteadyInv => SteadyKeyCounts
  BY DEF SteadyInv, Passed, SteadyKeyCounts
<1>3. QED
  BY InitOwnTyped, NextOwnTyped, NextSteady, <1>1, <1>2, PTL DEF Spec

-----------------------------------------------------------------------------

Filing(a) == req[a].step \in {"write", "record", "install"}

\* Nobody else writes to the file of a call unless the call knows it as shared.
Filed(a) ==
  /\ req[a].step \in {"record", "install"} /\ a \notin shared
       => store[req[a].second] = req[a].baseline
  /\ \A b \in Applier \ {a} :
       Filing(a) /\ a \notin shared => ~Writing(b, req[a].second)

FiledInv == \A a \in Applier : Filed(a)

LEMMA NextFiled == OwnTyped /\ FiledInv /\ [Next]_vars => FiledInv'
<1> SUFFICES ASSUME OwnTyped, FiledInv, [Next]_vars
             PROVE  FiledInv'
  OBVIOUS
<1> USE FilesAssumption
<1>1. ASSUME NEW a \in Applier, UNCHANGED <<store, shared>>,
             req'[a].step \notin {"write", "record", "install"},
             \A b \in Applier \ {a} : req'[b] = req[b]
      PROVE  FiledInv'
  BY <1>1 DEF FiledInv, Filed, Filing, Writing
<1>2. ASSUME NEW a \in Applier, Begin(a)
      PROVE  FiledInv'
  <2>1. \E r : r.step = "scan" /\ req' = [req EXCEPT ![a] = r]
    BY <1>2 DEF Begin
  <2>2. req'[a].step = "scan" /\ \A b \in Applier \ {a} : req'[b] = req[b]
    BY <2>1 DEF OwnTyped
  <2>3. QED
    BY <1>1, <1>2, <2>2 DEF Begin
<1>3. ASSUME NEW a \in Applier, TryKey(a)
      PROVE  FiledInv'
  <2>1. req[a].step = "scan" /\ UNCHANGED <<store, shared>>
    BY <1>3 DEF TryKey
  <2>2. PICK n :
          \/ req' = [req EXCEPT ![a] = [req[a] EXCEPT !.step = "open", !.todo = {}]]
          \/ req' = [req EXCEPT ![a] = [req[a] EXCEPT !.todo = req[a].todo \ {n}]]
    BY <1>3 DEF TryKey, OwnTyped, RequestType
  <2>3. req'[a].step \in {"open", "scan"} /\ \A b \in Applier \ {a} : req'[b] = req[b]
    BY <2>1, <2>2 DEF OwnTyped, RequestType
  <2>4. QED
    BY <1>1, <2>1, <2>3
<1>4. ASSUME NEW a \in Applier, Reject(a)
      PROVE  FiledInv'
  <2>1. req'[a].step = "refused" /\ \A b \in Applier \ {a} : req'[b] = req[b]
    BY <1>4, AfterGoto DEF Reject, Step
  <2>2. QED
    BY <1>1, <1>4, <2>1 DEF Reject
<1>5. ASSUME NEW a \in Applier, Open(a)
      PROVE  FiledInv'
  <2>1. CASE GiveUp(a) /\ UNCHANGED <<store, shared>>
    BY <1>1, <2>1, AfterGiveUp
  <2>2. ASSUME NEW s \in Second,
               req' = [req EXCEPT ![a].step = "write", ![a].second = s],
               store' = [store EXCEPT ![s] = Partial],
               shared' = {x \in Applier \ {a} : x \in shared \/ req[x].second = s} \cup
                         {x \in {a} : \E y \in Applier \ {a} : Writing(y, s)}
        PROVE  FiledInv'
    <3>1. req' = [req EXCEPT ![a] = [req[a] EXCEPT !.step = "write", !.second = s]]
      BY <2>2
    <3>2. /\ req'[a].step = "write" /\ req'[a].second = s
          /\ \A b \in Applier \ {a} : req'[b] = req[b]
      BY <3>1 DEF OwnTyped, RequestType
    <3>3. \A t \in Second \ {s} : store'[t] = store[t]
      BY <2>2 DEF OwnTyped
    <3>4. Filed(a)'
      BY <2>2, <3>2 DEF Filed, Writing
    <3>5. ASSUME NEW b \in Applier \ {a}
          PROVE  Filed(b)'
      <4>1. /\ req'[b] = req[b] /\ Filed(b)
            /\ b \notin shared' => b \notin shared /\ req[b].second # s
        BY <2>2, <3>2 DEF FiledInv
      <4>2. Filing(b) => req[b].second \in Second
        BY DEF Filing, OwnTyped
      <4>3. \A c \in Applier \ {b} : Filing(b) /\ b \notin shared' => ~Writing(c, req[b].second)'
        BY <3>2, <4>1 DEF Filed, Writing
      <4>4. req[b].step \in {"record", "install"} /\ b \notin shared'
              => store'[req[b].second] = req[b].baseline
        BY <3>3, <4>1, <4>2 DEF Filed, Filing
      <4> QED BY <4>1, <4>3, <4>4 DEF Filed, Filing
    <3> QED BY <3>4, <3>5 DEF FiledInv
  <2> QED BY <1>5, <2>1, <2>2 DEF Open
<1>6. ASSUME NEW a \in Applier, Store(a)
      PROVE  FiledInv'
  <2>1. /\ req[a].step = "write" /\ req[a].second \in Second /\ UNCHANGED shared
        /\ Filed(a) /\ Filing(a)
    BY <1>6 DEF Store, OwnTyped, FiledInv, Filing
  <2>2. CASE GiveUp(a) /\ UNCHANGED store
    BY <1>1, <2>1, <2>2, AfterGiveUp
  <2>3. ASSUME NEW c, Goto(a, "record"), a \notin shared => c = req[a].baseline,
               store' = [store EXCEPT ![req[a].second] = c]
        PROVE  FiledInv'
    <3>1. /\ req'[a].step = "record" /\ req'[a].second = req[a].second
          /\ req'[a].baseline = req[a].baseline
          /\ \A b \in Applier \ {a} : req'[b] = req[b]
      BY <2>1, <2>3, AfterGoto DEF Step
    <3>2. /\ store'[req[a].second] = c
          /\ \A t \in Second \ {req[a].second} : store'[t] = store[t]
      BY <2>1, <2>3 DEF OwnTyped
    <3>3. Filed(a)'
      BY <2>1, <2>3, <3>1, <3>2 DEF Filed, Writing
    <3>4. ASSUME NEW b \in Applier \ {a}
          PROVE  Filed(b)'
      <4>1. Filing(b) => req[b].second \in Second
        BY DEF Filing, OwnTyped
      <4>2. Filing(b) /\ b \notin shared => req[b].second # req[a].second
        BY <2>1 DEF FiledInv, Filed, Writing
      <4>3. \A x \in Applier \ {b} : Filing(b) /\ b \notin shared => ~Writing(x, req[b].second)'
        BY <3>1 DEF FiledInv, Filed, Writing
      <4>4. Filed(b)
        BY DEF FiledInv
      <4> QED BY <2>1, <3>1, <3>2, <4>1, <4>2, <4>3, <4>4 DEF Filed, Filing
    <3> QED BY <3>3, <3>4 DEF FiledInv
  <2>4. (IF a \in shared THEN {req[a].baseline, Partial} ELSE {req[a].baseline}) =
          {c \in {req[a].baseline, Partial} : a \notin shared => c = req[a].baseline}
    OBVIOUS
  <2> QED BY <1>6, <2>2, <2>3, <2>4 DEF Store
<1>7. ASSUME UNCHANGED <<req, store, shared>>
      PROVE  FiledInv'
  BY <1>7 DEF FiledInv, Filed, Filing, Writing
<1>8. CASE \E a \in Applier : Install(a)
  BY <1>7, <1>8 DEF Install
<1>9. CASE \E m \in Keeper : KeyCall(m)
  BY <1>7, <1>9 DEF KeyCall, CreateKey, WriteKey, RemoveKey
<1>10. CASE Crash \/ LosePower
  <2>1. \A a \in Applier : req'[a].step = "idle"
    BY <1>10 DEF Crash, LosePower, Stopped, NoRequest
  <2>2. QED
    BY <2>1 DEF FiledInv, Filed, Filing
<1>11. CASE UNCHANGED vars \/ Flush
  BY <1>7, <1>11 DEF vars, Flush
<1>12. ASSUME NEW a \in Applier, Record(a)
       PROVE  FiledInv'
  <2>1. req[a].step = "record" /\ UNCHANGED <<store, shared>>
    BY <1>12 DEF Record
  <2>2. /\ req'[a].step = "install" /\ req'[a].second = req[a].second
        /\ req'[a].baseline = req[a].baseline
        /\ \A b \in Applier \ {a} : req'[b] = req[b]
    BY <1>12, <2>1, AfterGoto DEF Record, Step
  <2>3. QED
    BY <2>1, <2>2 DEF FiledInv, Filed, Filing, Writing
<1>13. QED
  BY <1>2, <1>3, <1>4, <1>5, <1>6, <1>8, <1>9, <1>10, <1>11, <1>12 DEF Next, Request

\* The baseline whose rules are installed is stored whole, unless another call of
\* the same second has taken the file name since or was still writing to it.
THEOREM InstalledIsAlwaysStored == Spec => []InstalledIsStored
<1>1. Init => FiledInv
  BY DEF Init, NoRequest, FiledInv, Filed, Filing
<1>2. FiledInv => InstalledIsStored
  BY DEF FiledInv, Filed, InstalledIsStored
<1>3. QED
  BY InitOwnTyped, NextOwnTyped, NextFiled, <1>1, <1>2, PTL DEF Spec

-----------------------------------------------------------------------------

LEMMA KeepsPower == ~MayLosePower => (Spec => R!Spec)
<1>1. CASE ~MayLosePower
  <2>1. OwnTyped /\ [Next]_vars => [R!Next]_R!vars
    BY <1>1, NextRulesFile
  <2> QED BY InitOwnTyped, NextOwnTyped, InitRulesFile, <2>1, PTL DEF Spec, R!Spec
<1> QED BY <1>1

LEMMA NoRollback == ~ReloadMayFail => (Spec => R!PowerSpec /\ [][~R!RollsBack]_R!vars)
<1>1. Spec => R!PowerSpec
  BY InitOwnTyped, NextOwnTyped, InitRulesFile, NextRulesFile, PTL DEF Spec, R!PowerSpec
<1>2. ~ReloadMayFail => (R!PowerSpec => [][~R!RollsBack]_R!vars)
  BY RulesFileAssumed, R!NothingToRollBack
<1> QED BY <1>1, <1>2, PTL

\* No two permanent approvals install their rules at the same time.  They and
\* the key operations may overlap in all else.
InstallsApart ==
  \A a, b \in Applier : call[a].step # "idle" /\ call[b].step # "idle" => a = b

LEMMA ApartIsExclusive == InstallsApart <=> R!Exclusive
  BY DEF InstallsApart, R!Exclusive

\* While no two calls install at the same time a permanent approval leaves
\* rules.conf whole wherever it fails.  Where usbguard accepts every rule set
\* that is so also when the machine loses power: what is in place was synced.
\* Where it may refuse rules, but the machine keeps its power, it is so as long
\* as no call rolls back that failed to see rules.conf when it was to copy it.
THEOREM RulesNeverPartial ==
  /\ ~ReloadMayFail => (Spec /\ []InstallsApart => []NeverPartial)
  /\ ~MayLosePower =>
       (Spec /\ []InstallsApart /\ [][~R!BlindRollback]_R!vars => []NeverPartial)
<1>1. R!Spec /\ []R!Exclusive /\ [][~R!BlindRollback]_R!vars => []R!NeverPartial
  BY RulesFileAssumed, R!RulesNeverPartial
<1>2. R!PowerSpec /\ []R!Exclusive /\ [][~R!RollsBack]_R!vars => []R!NeverPartial
  BY RulesFileAssumed, R!NeverPartialAfterPowerLoss
<1>3. R!NeverPartial => NeverPartial
  BY SameRulesFile DEF R!NeverPartial, NeverPartial, Files!NeverPartial
<1>4. ASSUME ~ReloadMayFail
      PROVE  Spec /\ []InstallsApart => []NeverPartial
  BY <1>2, <1>3, <1>4, ApartIsExclusive, NoRollback, PTL
<1>5. ASSUME ~MayLosePower
      PROVE  Spec /\ []InstallsApart /\ [][~R!BlindRollback]_R!vars => []NeverPartial
  BY <1>1, <1>3, <1>5, ApartIsExclusive, KeepsPower, PTL
<1> QED BY <1>4, <1>5

\* The abstract rules of RulesFile_proof are those of PersistentAllow.
LEMMA SameAtomicRules == R!RulesReplacedAtomically => InstalledAtomically
<1>1. /\ Files!Holds("conf") = R!Holds("conf") /\ Files!OnDisk = R!OnDisk
      /\ Files!TheOnly(Files!Asked) = R!TheOnly(R!Asked)
      /\ Files!Replaced = R!Replaced /\ Files!Content = R!Content
  BY SameRulesFile
  DEF Files!TheOnly, R!TheOnly, Files!Asked, R!Asked, Files!Replaced, R!Replaced,
      Files!PutBack, R!PutBack, Files!Content, R!Content, Files!OnDisk, R!OnDisk
<1>2. /\ Files!Holds("conf")' = R!Holds("conf")' /\ Files!OnDisk' = R!OnDisk'
      /\ Files!TheOnly(Files!Asked)' = R!TheOnly(R!Asked)'
      /\ Files!Replaced' = R!Replaced'
  BY DEF Files!Holds, R!Holds, Files!Exists, R!Exists, Files!OnDisk, R!OnDisk,
         Files!TheOnly, R!TheOnly, Files!Asked, R!Asked, Files!Replaced, R!Replaced,
         Files!PutBack, R!PutBack, Files!Content, R!Content
<1>3. R!Atomic!RulesInit => Files!Atomic!RulesInit
  BY <1>1 DEF R!Atomic!RulesInit, Files!Atomic!RulesInit
<1>4. [R!Atomic!RulesNext]_R!Atomic!rulesVars => [Files!Atomic!RulesNext]_Files!Atomic!rulesVars
  BY <1>1, <1>2
  DEF R!Atomic!RulesNext, Files!Atomic!RulesNext, R!Atomic!rulesVars, Files!Atomic!rulesVars,
      R!Atomic!Ask, Files!Atomic!Ask, R!Atomic!Install, Files!Atomic!Install,
      R!Atomic!Restore, Files!Atomic!Restore, R!Atomic!Settle, Files!Atomic!Settle,
      R!Atomic!Persist, Files!Atomic!Persist, R!Atomic!LosePower, Files!Atomic!LosePower
<1> QED
  BY <1>3, <1>4, PTL
  DEF R!RulesReplacedAtomically, R!Atomic!RulesSpec, InstalledAtomically,
      Files!RulesReplacedAtomically, Files!Atomic!RulesSpec

\* A copy, which is not synced, is not put back where the machine may lose
\* power: either it does not, or usbguard accepts every rule set.
SafeBackups == ~MayLosePower \/ ~ReloadMayFail

\* While no two calls install at the same time a permanent approval replaces
\* the stored rules as a whole: a failure or a crash leaves the old rules or the
\* new ones, or puts back what the call has kept of the old ones, and a power
\* loss brings back rules as a whole that were stored before, since the rename
\* is not synced.
THEOREM ApprovalsInstallAtomically ==
  SafeBackups => (Spec /\ []InstallsApart => InstalledAtomically)
<1>1. R!Spec /\ []R!Exclusive => R!RulesReplacedAtomically
  BY RulesFileAssumed, R!ImplementsAtomicRules
<1>2. R!PowerSpec /\ []R!Exclusive /\ [][~R!RollsBack]_R!vars => R!RulesReplacedAtomically
  BY RulesFileAssumed, R!AtomicAcrossPowerLoss
<1>3. CASE ~MayLosePower
  BY <1>1, <1>3, ApartIsExclusive, KeepsPower, SameAtomicRules, PTL
<1>4. CASE ~ReloadMayFail
  BY <1>2, <1>4, ApartIsExclusive, NoRollback, SameAtomicRules, PTL
<1> QED BY <1>3, <1>4 DEF SafeBackups

-----------------------------------------------------------------------------

\* With one call at a time, an apply_persistent_allow that returned true has put
\* rules into force that a key trusted during the call vouched for and that are
\* on record, unless the write of the record failed.  That is so until the next
\* call or the end of the daemon: a power loss may take back the rules.
THEOREM TrueAlwaysMeansInForce ==
  (\A a, b \in Applier : a = b) /\ SafeBackups => (Spec => []TrueMeansInForce)
<1>1. CASE \A a, b \in Applier : a = b
  <2>1. R!OneCall
    BY <1>1 DEF R!OneCall
  <2>2. R!Spec => []R!OkMeansInstalled
    BY <2>1, RulesFileAssumed, R!OkAlwaysMeansInstalled
  <2>3. R!PowerSpec /\ [][~R!RollsBack]_R!vars => []R!OkMeansInstalled
    BY <2>1, RulesFileAssumed, R!OkMeansInstalledNextToPower
  <2>4. R!OkMeansInstalled /\ BackedInv => TrueMeansInForce
    BY SameRulesFile DEF R!OkMeansInstalled, BackedInv, Backed, TrueMeansInForce
  <2>5. CASE ~MayLosePower
    BY <2>2, <2>4, <2>5, BackedAlways, KeepsPower, PTL
  <2>6. CASE ~ReloadMayFail
    BY <2>3, <2>4, <2>6, BackedAlways, NoRollback, PTL
  <2> QED BY <2>5, <2>6 DEF SafeBackups
<1> QED BY <1>1
=============================================================================
