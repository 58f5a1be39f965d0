----------------------------- MODULE RulesFile -----------------------------
(***************************************************************************)
(* UsbguardBackend::apply_rules_atomically                                 *)
(* (crates/backend-usbguard/src/lib.rs): install a rule set as usbguard's  *)
(* rules.conf by way of a temporary file, keeping a copy of the previous   *)
(* rules, have usbguard load it, and put the copy back if that fails.      *)
(*                                                                         *)
(* The function takes no lock, and the daemon serves requests on several   *)
(* threads: two calls use the same three paths.  Paths therefore lead to   *)
(* inodes, so that one call may still write to a file another has renamed. *)
(* The directory is never synced: what the paths lead to reaches the disk  *)
(* when the file system sees fit.                                          *)
(***************************************************************************)
EXTENDS Integers, FiniteSets

CONSTANTS
  Rules,          \* the rule sets that may be applied
  Partial,        \* what a file holds that is none of them: empty, cut, mixed
  None,           \* no file, no inode, no rules
  Applier,        \* concurrent calls of apply_rules_atomically
  Inode,
  DiskMayFail,    \* whether a file operation may fail
  ReloadMayFail,  \* whether `usbguard reload` may fail
  MayCrash        \* whether the daemon may die at any point

ASSUME RulesAssumption == None \notin Rules /\ Partial \notin Rules /\ None # Partial
ASSUME InodeAssumption == None \notin Inode
ASSUME SwitchAssumption ==
  {DiskMayFail, ReloadMayFail, MayCrash} \subseteq BOOLEAN

VARIABLES
  path,    \* where each of the three paths leads
  disk,    \* where they lead according to the directory on disk
  data,    \* what each inode holds
  synced,  \* inodes whose data has reached the disk
  live,    \* the rules usbguard has loaded
  call     \* the call each applier is serving, and its last result

vars == <<path, disk, data, synced, live, call>>

-----------------------------------------------------------------------------

Path == {"conf",  \* /etc/usbguard/rules.conf
         "tmp",   \* /etc/usbguard/rules.conf.tmp
         "bak"}   \* /etc/usbguard/rules.conf.bak

Step == {"idle", "create", "write", "sync", "backup", "copy", "rename", "reload",
         "rollback", "reload_back"}

Content == Rules \cup {Partial}

TypeOK ==
  /\ path \in [Path -> Inode \cup {None}]
  /\ disk \in [Path -> Inode \cup {None}]
  /\ data \in [Inode -> Content]
  /\ synced \subseteq Inode
  /\ live \in Content \cup {None}
  /\ call \in [Applier -> [step : Step, want : Rules \cup {None},
                           src : Inode \cup {None}, dst : Inode \cup {None},
                           before : Content \cup {None}, blind : BOOLEAN,
                           said : {"none", "ok", "err"}]]

Exists(p) == path[p] # None

Holds(p) == IF Exists(p) THEN data[path[p]] ELSE None

\* What rules.conf would hold after a power loss if its data is all there.
OnDisk == IF disk["conf"] # None THEN data[disk["conf"]] ELSE None

\* The files a call has open are src and dst.  History: what rules.conf held
\* when the call began, and whether it went on without a copy of that.
NotCalled == [step |-> "idle", want |-> None, src |-> None, dst |-> None,
              before |-> None, blind |-> FALSE, said |-> "none"]

Unused(i) ==
  i \notin UNION {{path[p] : p \in Path}, {disk[p] : p \in Path},
                 {call[a].src : a \in Applier}, {call[a].dst : a \in Applier}}

\* The file a call creates at p, or the one that is there.
MayCreate(p, i) == IF Exists(p) THEN i = path[p] ELSE Unused(i)

\* What a file may hold once c is written from its start on: if another call
\* has put something else there in the meantime, that may show through.
Written(i, c) == IF data[i] \in {c, Partial} THEN {c} ELSE {c, Partial}

Init ==
  /\ \E i \in Inode, r \in Rules :
       \/ path = [p \in Path |-> IF p = "conf" THEN i ELSE None] /\ data = [j \in Inode |-> r]
       \/ path = [p \in Path |-> None] /\ data = [j \in Inode |-> Partial]
  /\ disk = path
  /\ synced = Inode
  /\ live = Holds("conf")
  /\ call = [a \in Applier |-> NotCalled]

-----------------------------------------------------------------------------

Goto(a, step) == call' = [call EXCEPT ![a].step = step]

Return(a, said) == call' = [call EXCEPT ![a].step = "idle", ![a].src = None,
                                        ![a].dst = None, ![a].said = said]

\* Any `?` of the function: the error goes to the caller, the files stay.
Fail(a) == DiskMayFail /\ Return(a, "err")

Begin(a, r) ==
  /\ call[a].step = "idle"
  /\ call' = [call EXCEPT ![a] = [NotCalled EXCEPT !.step = "create", !.want = r,
                                                   !.before = Holds("conf")]]
  /\ UNCHANGED <<path, disk, data, synced, live>>

\* The file at p is opened for writing: it is made, or emptied.
Emptied(p, i) ==
  /\ MayCreate(p, i)
  /\ path' = [path EXCEPT ![p] = i]
  /\ data' = [data EXCEPT ![i] = Partial]
  /\ synced' = synced \ {i}

(***************************************************************************)
(* Faulty variants, against which the properties are tried.                *)
(***************************************************************************)

\* The rules are written in place.
CreateInPlace(a) ==
  /\ call[a].step = "create"
  /\ \E i \in Inode :
       /\ Emptied("conf", i)
       /\ call' = [call EXCEPT ![a].step = "write", ![a].dst = i]
  /\ UNCHANGED live

\* The file is closed before it is synced.
WriteCloses(a) ==
  /\ call[a].step = "write"
  /\ call' = [call EXCEPT ![a].step = "sync", ![a].dst = None]
  /\ data' = [data EXCEPT ![call[a].dst] = call[a].want]
  /\ UNCHANGED <<path, synced, live>>

\* The new rules are renamed into place without having been synced.
SyncSkipped(a) ==
  /\ call[a].step = "sync"
  /\ call' = [call EXCEPT ![a].step = "backup", ![a].dst = None]
  /\ UNCHANGED <<path, data, synced, live>>

\* A copy that is there already is kept.
BackupOnce(a) ==
  /\ call[a].step = "backup"
  /\ \/ (~Exists("conf") \/ Exists("bak")) /\ Goto(a, "rename") /\ UNCHANGED <<path, data, synced>>
     \/ \E i \in Inode :
          /\ Exists("conf") /\ ~Exists("bak") /\ Emptied("bak", i)
          /\ call' = [call EXCEPT ![a].step = "copy", ![a].src = path["conf"], ![a].dst = i]
  /\ UNCHANGED live

\* The previous rules are moved away instead of copied.
BackupMoves(a) ==
  /\ call[a].step = "backup"
  /\ Goto(a, "rename")
  /\ path' = IF Exists("conf") THEN [path EXCEPT !["bak"] = path["conf"], !["conf"] = None] ELSE path
  /\ UNCHANGED <<data, synced, live>>

\* An incomplete copy is taken for a copy.
CopyErrorIgnored(a) ==
  /\ call[a].step = "copy"
  /\ call' = [call EXCEPT ![a].step = "rename", ![a].src = None, ![a].dst = None]
  /\ \E c \in {Partial, data[call[a].src]} : data' = [data EXCEPT ![call[a].dst] = c]
  /\ UNCHANGED <<path, synced, live>>

\* A rename that failed is taken for one that succeeded.
RenameErrorIgnored(a) ==
  /\ call[a].step = "rename"
  /\ Goto(a, "reload")
  /\ \/ Exists("tmp") /\ path' = [path EXCEPT !["conf"] = path["tmp"], !["tmp"] = None]
     \/ (~Exists("tmp") \/ DiskMayFail) /\ UNCHANGED path
  /\ UNCHANGED <<data, synced, live>>

\* The exit status of the reload is ignored.
ReloadUnchecked(a) ==
  /\ call[a].step = "reload"
  /\ Return(a, "ok")
  /\ live' = Holds("conf") \/ (ReloadMayFail /\ UNCHANGED live)
  /\ UNCHANGED <<path, data, synced>>

-----------------------------------------------------------------------------

\* File::create(tmp) and its permissions.
CreateTmp(a) ==
  /\ call[a].step = "create"
  /\ \/ \E i \in Inode :
          /\ Emptied("tmp", i)
          /\ \/ call' = [call EXCEPT ![a].step = "write", ![a].dst = i]
             \/ Fail(a)
     \/ Fail(a) /\ UNCHANGED <<path, data, synced>>
  /\ UNCHANGED live

Write(a) ==
  /\ call[a].step = "write"
  /\ LET i == call[a].dst
     IN /\ \/ /\ Goto(a, "sync")
              /\ \E c \in Written(i, call[a].want) : data' = [data EXCEPT ![i] = c]
           \/ Fail(a) /\ data' = [data EXCEPT ![i] = Partial]
        /\ synced' = synced \ {i}
  /\ UNCHANGED <<path, live>>

Sync(a) ==
  /\ call[a].step = "sync"
  /\ \/ /\ call' = [call EXCEPT ![a].step = "backup", ![a].dst = None]
        /\ synced' = synced \cup {call[a].dst}
     \/ Fail(a) /\ UNCHANGED synced
  /\ UNCHANGED <<path, data, live>>

\* fs::metadata(rules_path), any error of which is taken for there being no
\* rules, and the part of fs::copy that opens the files.
Backup(a) ==
  /\ call[a].step = "backup"
  /\ \/ ~Exists("conf") /\ Goto(a, "rename") /\ UNCHANGED <<path, data, synced>>
     \/ /\ Exists("conf") /\ DiskMayFail
        /\ call' = [call EXCEPT ![a].step = "rename", ![a].blind = TRUE]
        /\ UNCHANGED <<path, data, synced>>
     \/ \E i \in Inode :
          /\ Exists("conf") /\ Emptied("bak", i)
          /\ call' = [call EXCEPT ![a].step = "copy", ![a].src = path["conf"], ![a].dst = i]
     \/ Exists("conf") /\ Fail(a) /\ UNCHANGED <<path, data, synced>>
  /\ UNCHANGED live

\* The rest of fs::copy.  The copy is not synced.
Copy(a) ==
  /\ call[a].step = "copy"
  /\ LET i == call[a].dst
     IN \/ /\ call' = [call EXCEPT ![a].step = "rename", ![a].src = None, ![a].dst = None]
           /\ \E c \in Written(i, data[call[a].src]) : data' = [data EXCEPT ![i] = c]
           /\ synced' = synced \ {i}
        \/ Fail(a) /\ UNCHANGED <<data, synced>>
  /\ UNCHANGED <<path, live>>

Rename(a) ==
  /\ call[a].step = "rename"
  /\ \/ /\ Exists("tmp") /\ Goto(a, "reload")
        /\ path' = [path EXCEPT !["conf"] = path["tmp"], !["tmp"] = None]
     \/ ~Exists("tmp") /\ Return(a, "err") /\ UNCHANGED path
     \/ Fail(a) /\ UNCHANGED path
  /\ UNCHANGED <<data, synced, live>>

\* `usbguard reload` exits with success, having loaded the file, or fails.
Loaded == live' = Holds("conf")

\* If it fails, a copy is put back if fs::metadata finds one, whoever made it.
Reload(a) ==
  /\ call[a].step = "reload"
  /\ \/ Loaded /\ Return(a, "ok")
     \/ /\ ReloadMayFail /\ UNCHANGED live
        /\ \/ Exists("bak") /\ Goto(a, "rollback")
           \/ (~Exists("bak") \/ DiskMayFail) /\ Return(a, "err")
  /\ UNCHANGED <<path, data, synced>>

\* The result of the rename is discarded.
Rollback(a) ==
  /\ call[a].step = "rollback"
  /\ Goto(a, "reload_back")
  /\ \/ /\ Exists("bak")
        /\ path' = [path EXCEPT !["conf"] = path["bak"], !["bak"] = None]
     \/ (~Exists("bak") \/ DiskMayFail) /\ UNCHANGED path
  /\ UNCHANGED <<data, synced, live>>

ReloadBack(a) ==
  /\ call[a].step = "reload_back"
  /\ Return(a, "err")
  /\ Loaded \/ (ReloadMayFail /\ UNCHANGED live)
  /\ UNCHANGED <<path, data, synced>>

Proceed(a) == /\ \/ CreateTmp(a) \/ Write(a) \/ Sync(a) \/ Backup(a) \/ Copy(a)
                 \/ Rename(a) \/ Reload(a) \/ Rollback(a) \/ ReloadBack(a)
              /\ UNCHANGED disk

Apply(a) == Proceed(a) \/ \E r \in Rules : Begin(a, r)

-----------------------------------------------------------------------------
(***************************************************************************)
(* The daemon dies, and with it the calls; usbguard and the files do not.  *)
(* When the machine loses power the paths lead where they did when the     *)
(* directory last reached the disk, what was not synced may be lost, and   *)
(* usbguard loads whatever rules.conf holds when it starts again.  That    *)
(* concerns all of the daemon's files: PersistentAllow takes the step.     *)
(***************************************************************************)
Killed == [a \in Applier |->
             [NotCalled EXCEPT !.before = IF call[a].said = "ok" \/ call[a].blind
                                            THEN None ELSE call[a].before]]

Crash ==
  /\ MayCrash
  /\ call' = Killed
  /\ UNCHANGED <<path, disk, data, synced, live>>

Flush ==
  /\ disk' = path
  /\ UNCHANGED <<path, data, synced, live, call>>

LosePower ==
  /\ path' = disk
  /\ \E lost \in SUBSET (Inode \ synced) :
       data' = [i \in Inode |-> IF i \in lost THEN Partial ELSE data[i]]
  /\ synced' = Inode
  /\ live' = Holds("conf")'
  /\ call' = Killed
  /\ UNCHANGED disk

Next == (\E a \in Applier : Apply(a)) \/ Crash

Spec == Init /\ [][Next]_vars

\* On a machine that may lose power.
PowerNext == Next \/ Flush \/ LosePower

PowerSpec == Init /\ [][PowerNext]_vars

-----------------------------------------------------------------------------
(***************************************************************************)
(* What holds while calls do not overlap.                                  *)
(***************************************************************************)

\* Whenever usbguard may start, rules.conf holds a rule set as a whole.  That
\* is so as long as no call puts back a copy it has not made, nor one that a
\* power loss may cut.
NeverPartial == Holds("conf") # Partial

\* rules.conf only stops being whole when a call that failed to see it, and so
\* made no copy, puts back what another call has left there (lib.rs:170, 184),
\* or when a call puts back what it found.
StaysWhole ==
  [][NeverPartial => NeverPartial' \/ \E a \in Applier :
       Rollback(a) /\ (call[a].blind \/ call[a].before = Partial)]_vars

\* Until a call has succeeded the rules it found are on disk, in rules.conf or
\* in the copy, even if the call failed half way or the daemon died in it,
\* unless it failed to see rules.conf when it was to copy it.
PreviousRecoverable ==
  \A a \in Applier : call[a].before # None /\ ~call[a].blind /\ call[a].said # "ok"
                     => call[a].before \in {Holds("conf"), Holds("bak")}

\* A call that returns Ok has put its rules in place and into usbguard.
OkMeansInstalled ==
  \A a \in Applier : call[a].said = "ok" => Holds("conf") = call[a].want /\ live = call[a].want

\* The rules some call is to install, and those it may have to put back: what
\* it found, or without a copy of that whatever is in the place of one.
Asked == {call[a].want : a \in {b \in Applier :
            call[b].step \in {"create", "write", "sync", "backup", "copy", "rename"}}}

PutBack(a) == IF call[a].blind THEN Content ELSE {call[a].before} \ {None}

Replaced == UNION {PutBack(a) : a \in {b \in Applier : call[b].step \in {"reload", "rollback"}}}

TheOnly(S) == IF S = {} THEN None ELSE CHOOSE x \in S : S = {x}

\* With one call at a time the function implements an atomic replacement.
Atomic == INSTANCE AtomicRules WITH
            Anything <- Content, stored <- Holds("conf"), kept <- OnDisk,
            asked <- TheOnly(Asked), previous <- Replaced

RulesReplacedAtomically == Atomic!RulesSpec
=============================================================================
