-------------------------- MODULE PersistentAllow --------------------------
(***************************************************************************)
(* Permanent approvals in lusby-daemon (crates/daemon/src/dbus.rs):        *)
(* apply_persistent_allow, which verifies a baseline against the trusted   *)
(* keys, stores it and installs its rules by apply_rules_atomically        *)
(* (RulesFile), next to add_trusted_pubkey and remove_trusted_pubkey.      *)
(*                                                                         *)
(* Once polkit has agreed these handlers run without an await, on as many  *)
(* threads as there are calls; no lock covers the directory of keys, that  *)
(* of baselines or the rule files.                                         *)
(***************************************************************************)
EXTENDS Integers, FiniteSets

CONSTANTS
  Baseline,     \* the baselines a caller may pass; each stands for its rules too
  Factory,      \* the rules there were before the first baseline
  Key,          \* ed25519 keys
  Signer,       \* the key a baseline's signature verifies with, None without one
  Name,         \* file names in trusted_pubkeys
  Keeper,       \* concurrent calls of add_ and remove_trusted_pubkey
  Applier,      \* concurrent calls of apply_persistent_allow
  Second,       \* timestamps in the file names of stored baselines
  Absent,       \* no key file
  Torn,         \* a key file that does not hold 32 bytes
  Inode, Partial, None,
  DiskMayFail, ReloadMayFail, MayCrash, MayLosePower

ASSUME BaselineAssumption ==
  /\ Factory \notin Baseline
  /\ Signer \in [Baseline -> Key \cup {None}]
ASSUME KeyAssumption ==
  /\ Absent # Torn /\ None \notin Key /\ Key \cap Keeper = {}
  /\ {Absent, Torn} \cap (Key \cup Keeper) = {}
ASSUME FilesAssumption ==
  /\ {None, Partial} \cap (Baseline \cup {Factory}) = {}
  /\ None \notin Inode \cup {Partial}
  /\ {DiskMayFail, ReloadMayFail, MayCrash, MayLosePower} \subseteq BOOLEAN

VARIABLES
  path, disk, data, synced, live, call, \* those of RulesFile
  keys,     \* each key file: a key, Torn, or the call that has yet to write it
  keeper,   \* the key a call has yet to write, and the file name
  req,      \* what each apply is about to do, and with what
  store,    \* what each file in the directory of baselines holds
  shared,   \* history: applies whose file name another took, or was writing to
  logged,   \* what has become of each apply's record in the audit log
  vouched,  \* history: applies during which the signer's key was trusted
  origin,   \* history: what was so of the apply whose rules a file holds
  steady    \* history: key files unchanged since the call began, and readable

filesVars == <<path, disk, data, synced, live, call>>
vars == <<filesVars, keys, keeper, req, store, shared, logged, vouched, origin, steady>>

Files == INSTANCE RulesFile WITH Rules <- Baseline \cup {Factory}

-----------------------------------------------------------------------------

Step == {"idle",    \* not called, or over
         "scan",    \* trying the trusted keys
         "refused", \* over: no key has verified the baseline
         "open",    \* opening the file for the copy of the baseline
         "write",   \* writing the copy
         "record",  \* recording that the baseline is applied
         "install"} \* in apply_rules_atomically, until `call` is idle

Fate == {"due", "made", "lost"}

TypeOK ==
  /\ Files!TypeOK
  /\ keys \in [Name -> Key \cup Keeper \cup {Absent, Torn}]
  /\ keeper \in [Keeper -> [name : Name \cup {None}, key : Key \cup {None}]]
  /\ req \in [Applier -> [step : Step, baseline : Baseline \cup {None},
                          todo : SUBSET Name, second : Second \cup {None}]]
  /\ store \in [Second -> Baseline \cup {None, Partial}]
  /\ shared \subseteq Applier
  /\ logged \in [Applier -> Fate]
  /\ vouched \subseteq Applier
  /\ origin \in [Inode -> SUBSET {"vouched", "recorded"}]
  /\ steady \in [Applier -> SUBSET Name]

NoRequest == [step |-> "idle", baseline |-> None, todo |-> {}, second |-> None]

NoKey == [name |-> None, key |-> None]

Trusted == {keys[n] : n \in Name} \cap Key

Init ==
  /\ Files!Init /\ Files!Holds("conf") \in {Factory, None}
  /\ keys = [n \in Name |-> Absent]
  /\ keeper = [m \in Keeper |-> NoKey]
  /\ req = [a \in Applier |-> NoRequest]
  /\ store = [s \in Second |-> None]
  /\ shared = {}
  /\ logged = [a \in Applier |-> "due"]
  /\ vouched = {}
  /\ origin = [i \in Inode |-> {}]
  /\ steady = [a \in Applier |-> {}]

Over(a) == \/ req[a].step \in {"idle", "refused"}
           \/ req[a].step = "install" /\ call[a].step = "idle"

Goto(a, step) == req' = [req EXCEPT ![a].step = step]

GiveUp(a) == req' = [req EXCEPT ![a] = NoRequest]

Unsteady(n) == steady' = [a \in Applier |-> steady[a] \ {n}]

-----------------------------------------------------------------------------
(***************************************************************************)
(* Faulty variants, against which the properties are tried.                *)
(***************************************************************************)

\* A verification that ends without an error is taken for a success.
VerifiesWithoutError(n, b) == keys[n] \in Key

\* The first key that does not verify ends the loop.
TryKeyFirstOnly(a) ==
  /\ req[a].step = "scan"
  /\ \E n \in req[a].todo :
       req' = [req EXCEPT ![a].todo = {},
                          ![a].step = IF keys[n] \in Key /\ keys[n] = Signer[req[a].baseline]
                                        THEN "open" ELSE @]
  /\ UNCHANGED <<filesVars, keys, keeper, store, shared, logged, vouched, origin, steady>>

\* A copy that could not be written does not stop the call.
StoreErrorIgnored(a) ==
  /\ req[a].step = "write"
  /\ \E c \in {req[a].baseline, Partial} : store' = [store EXCEPT ![req[a].second] = c]
  /\ Goto(a, "record")
  /\ UNCHANGED <<filesVars, keys, keeper, shared, logged, vouched, origin, steady>>

\* Only a failure is recorded.
RecordFailuresOnly(a) ==
  /\ req[a].step = "record"
  /\ Goto(a, "install")
  /\ Files!Begin(a, req[a].baseline)
  /\ UNCHANGED <<keys, keeper, store, shared, logged, vouched, origin, steady>>

\* A key file that is there already is opened and emptied.
CreateKeyTruncates(m) ==
  /\ keeper[m] = NoKey
  /\ \E n \in Name, k \in Key :
       /\ keys' = [keys EXCEPT ![n] = m]
       /\ keeper' = [keeper EXCEPT ![m] = [name |-> n, key |-> k]]
       /\ Unsteady(n)
  /\ UNCHANGED <<filesVars, req, store, shared, logged, vouched, origin>>

-----------------------------------------------------------------------------
(***************************************************************************)
(* apply_persistent_allow.  A call polkit denies, or whose baseline cannot *)
(* be read or parsed, changes nothing that is modelled.                    *)
(***************************************************************************)
Verifies(n, b) == keys[n] \in Key /\ keys[n] = Signer[b]

\* The baseline has been read, once and for all, and read_dir lists the keys.
Begin(a) ==
  /\ Over(a)
  /\ \E b \in Baseline, failed \in {FALSE, DiskMayFail} :
       /\ req' = [req EXCEPT ![a] =
            [step |-> "scan", baseline |-> b, second |-> None,
             todo |-> IF failed THEN {} ELSE {n \in Name : keys[n] # Absent}]]
       /\ steady' = [steady EXCEPT ![a] = IF failed THEN {} ELSE {n \in Name : keys[n] \in Key}]
       /\ vouched' = IF Signer[b] \in Trusted THEN vouched \cup {a} ELSE vouched \ {a}
  /\ logged' = [logged EXCEPT ![a] = "due"]
  /\ UNCHANGED <<filesVars, keys, keeper, store, shared, origin>>

\* One turn of the loop over the keys, up to the first that verifies.
TryKey(a) ==
  /\ req[a].step = "scan"
  /\ \E n \in req[a].todo, failed \in {FALSE, DiskMayFail} :
       IF ~failed /\ Verifies(n, req[a].baseline)
         THEN /\ req' = [req EXCEPT ![a].step = "open", ![a].todo = {}]
              /\ steady' = [steady EXCEPT ![a] = {}]
         ELSE /\ req' = [req EXCEPT ![a].todo = @ \ {n}]
              /\ steady' = IF failed THEN [steady EXCEPT ![a] = @ \ {n}] ELSE steady
  /\ UNCHANGED <<filesVars, keys, keeper, store, shared, logged, vouched, origin>>

Reject(a) ==
  /\ req[a].step = "scan" /\ req[a].todo = {}
  /\ Goto(a, "refused")
  /\ UNCHANGED <<filesVars, keys, keeper, store, shared, logged, vouched, origin, steady>>

Writing(a, s) == req[a].step = "write" /\ req[a].second = s

\* The directory or the file cannot be created, or the file is new or that of
\* another call of the same second; it is emptied.
Open(a) ==
  /\ req[a].step = "open"
  /\ \/ DiskMayFail /\ GiveUp(a) /\ UNCHANGED <<store, shared>>
     \/ \E s \in Second :
          /\ req' = [req EXCEPT ![a].step = "write", ![a].second = s]
          /\ store' = [store EXCEPT ![s] = Partial]
          /\ shared' = {x \in Applier \ {a} : x \in shared \/ req[x].second = s} \cup
                        {x \in {a} : \E y \in Applier \ {a} : Writing(y, s)}
  /\ UNCHANGED <<filesVars, keys, keeper, logged, vouched, origin, steady>>

\* The copy is written, whole unless another call may put something into the
\* same file, or the failure is recorded.
Store(a) ==
  /\ req[a].step = "write"
  /\ LET s == req[a].second
         b == req[a].baseline
     IN \/ /\ \E c \in IF a \in shared THEN {b, Partial} ELSE {b} :
                store' = [store EXCEPT ![s] = c]
           /\ Goto(a, "record")
        \/ DiskMayFail /\ GiveUp(a) /\ UNCHANGED store
  /\ UNCHANGED <<filesVars, keys, keeper, shared, logged, vouched, origin, steady>>

\* The baseline is recorded as applied, unless the write fails, which nobody
\* hears of; only then do its rules go to apply_rules_atomically.
Record(a) ==
  /\ req[a].step = "record"
  /\ \E fate \in IF DiskMayFail THEN {"made", "lost"} ELSE {"made"} :
       logged' = [logged EXCEPT ![a] = fate]
  /\ Goto(a, "install")
  /\ Files!Begin(a, req[a].baseline)
  /\ UNCHANGED <<keys, keeper, store, shared, vouched, origin, steady>>

\* A record is made, unless its write is one of the file operations that fail.
Recorded(a) == logged[a] = "made" \/ (DiskMayFail /\ logged[a] = "lost")

\* What is so of the apply whose rules a step of a leaves in file i.
Past(a) == {p \in {"vouched", "recorded"} : IF p = "vouched" THEN a \in vouched ELSE Recorded(a)}

Behind(a, i) ==
  IF call[a].dst = i /\ call'[a].step # "idle"
    THEN CASE call[a].step = "write" -> Past(a)
           [] call[a].step = "copy" -> origin[call[a].src]
           [] OTHER -> origin[i]
    ELSE origin[i]

Install(a) ==
  /\ req[a].step = "install"
  /\ Files!Proceed(a)
  /\ origin' = [i \in Inode |-> IF data'[i] \in Baseline THEN Behind(a, i) ELSE {}]
  /\ UNCHANGED <<keys, keeper, req, store, shared, logged, vouched, steady>>

-----------------------------------------------------------------------------
(***************************************************************************)
(* add_trusted_pubkey, for a key of the right length, and                  *)
(* remove_trusted_pubkey.  A call that is refused changes nothing.         *)
(***************************************************************************)
\* create_new: the file must not be there.
CreateKey(m) ==
  /\ keeper[m] = NoKey
  /\ \E n \in Name, k \in Key :
       /\ keys[n] = Absent
       /\ keys' = [keys EXCEPT ![n] = m]
       /\ keeper' = [keeper EXCEPT ![m] = [name |-> n, key |-> k]]
       /\ Unsteady(n)
  /\ UNCHANGED <<filesVars, req, store, shared, logged, vouched, origin>>

\* A file that was removed in the meantime is written to all the same.
WriteKey(m) ==
  /\ keeper[m] # NoKey
  /\ LET n == keeper[m].name
         k == keeper[m].key
     IN \E c \in IF DiskMayFail THEN {k, Torn} ELSE {k} :
          IF keys[n] = m
            THEN /\ keys' = [keys EXCEPT ![n] = c]
                 /\ vouched' = vouched \cup
                      {a \in Applier : req[a].step = "scan" /\ Signer[req[a].baseline] = c}
            ELSE UNCHANGED <<keys, vouched>>
  /\ keeper' = [keeper EXCEPT ![m] = NoKey]
  /\ UNCHANGED <<filesVars, req, store, shared, logged, origin, steady>>

RemoveKey(m) ==
  /\ keeper[m] = NoKey
  /\ \E n \in Name :
       /\ keys[n] # Absent
       /\ keys' = [keys EXCEPT ![n] = Absent]
       /\ Unsteady(n)
  /\ UNCHANGED <<filesVars, keeper, req, store, shared, logged, vouched, origin>>

-----------------------------------------------------------------------------
(***************************************************************************)
(* The daemon dies.  Of what was never synced, a power loss may leave      *)
(* nothing whole: the key files and the stored baselines are not.          *)
(***************************************************************************)
Stopped ==
  /\ keeper' = [m \in Keeper |-> NoKey]
  /\ req' = [a \in Applier |-> NoRequest]
  /\ logged' = [a \in Applier |-> "due"]
  /\ vouched' = {}
  /\ steady' = [a \in Applier |-> {}]
  /\ origin' = [i \in Inode |-> IF data'[i] \in Baseline THEN origin[i] ELSE {}]
  /\ shared' = {}

Crash ==
  /\ Files!Crash
  /\ keys' = [n \in Name |-> IF keys[n] \in Keeper THEN Torn ELSE keys[n]]
  /\ Stopped
  /\ UNCHANGED store

LosePower ==
  /\ MayLosePower
  /\ Files!LosePower
  /\ \E gone \in SUBSET {n \in Name : keys[n] \in Key} :
       keys' = [n \in Name |-> IF n \in gone \/ keys[n] \in Keeper THEN Torn ELSE keys[n]]
  /\ \E gone \in SUBSET {s \in Second : store[s] \in Baseline} :
       store' = [s \in Second |-> IF s \in gone THEN Partial ELSE store[s]]
  /\ Stopped

\* The file system writes the directory of the rules to disk.
Flush ==
  /\ MayLosePower
  /\ Files!Flush
  /\ UNCHANGED <<keys, keeper, req, store, shared, logged, vouched, origin, steady>>

Request(a) == \/ Begin(a) \/ TryKey(a) \/ Reject(a)
              \/ Open(a) \/ Store(a) \/ Record(a) \/ Install(a)

KeyCall(m) == CreateKey(m) \/ WriteKey(m) \/ RemoveKey(m)

Next == \/ \E a \in Applier : Request(a)
        \/ \E m \in Keeper : KeyCall(m)
        \/ Crash
        \/ Flush
        \/ LosePower

Spec == Init /\ [][Next]_vars

-----------------------------------------------------------------------------

\* Whatever keys come and go, however calls overlap and whichever rename a power
\* loss takes back, the baseline whose rules rules.conf holds was verified with
\* a key that was trusted during the very call that wrote them.
OnlyVouchedRules ==
  Files!Holds("conf") \in Baseline => "vouched" \in origin[path["conf"]]

\* A key file that stays unchanged and readable all the time of a call counts:
\* no call refuses a baseline that verifies with it, whatever happens to the
\* other key files.
SteadyKeyCounts ==
  \A a \in Applier : req[a].step = "refused"
                     => \A n \in steady[a] : keys[n] # Signer[req[a].baseline]

\* From its record on, while the rules are being installed and after it, a
\* baseline is stored, unless another call of the same second has taken the
\* file name since or was still writing to that file.
InstalledIsStored ==
  \A a \in Applier : req[a].step \in {"record", "install"} /\ a \notin shared
                     => store[req[a].second] = req[a].baseline

\* The call that wrote the rules in rules.conf had recorded them as applied
\* before it did so, wherever calls die: short of a failing write the audit log
\* claims too much rather than too little (dbus.rs:277-293).  What a power loss
\* leaves of the log, which is never synced, is not said.
InstalledIsRecorded ==
  Files!Holds("conf") \in Baseline => "recorded" \in origin[path["conf"]]

\* rules.conf is whole also when the machine loses power: the new rules were
\* synced before they took its place.
NeverPartial == Files!NeverPartial

\* A permanent approval replaces the stored rules as a whole: no failure, crash
\* or power loss leaves anything between the old rules and the new ones.  A power
\* loss may bring the old ones back, as a whole, since no rename is synced.
InstalledAtomically == Files!RulesReplacedAtomically

\* Once apply_persistent_allow has returned true, and until the next call or the
\* end of the daemon, the rules of its baseline are in place and loaded, its
\* record is written unless that failed, and a key trusted during the call
\* vouched for it.
TrueMeansInForce ==
  \A a \in Applier : req[a].step = "install" /\ call[a].said = "ok" =>
    /\ Files!Holds("conf") = req[a].baseline /\ live = req[a].baseline
    /\ a \in vouched /\ Recorded(a)

\* A trusted key is never replaced: its file changes only by its removal, or
\* when the machine loses power.
KeyNeverReplaced ==
  [][\A n \in Name : keys[n] \in Key /\ keys'[n] \notin {keys[n], Absent} => LosePower]_vars
=============================================================================
