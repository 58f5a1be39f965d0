------------------------------ MODULE AuditLog ------------------------------
(***************************************************************************)
(* The hash-chained audit log: AuditLogger (crates/daemon/src/audit.rs)    *)
(* writes it, AuditEntry and verify_chain (crates/common/src/audit.rs) and *)
(* `lusbyctl audit verify` (crates/cli/src/main.rs) read it.               *)
(*                                                                         *)
(* The file is the sequence of its lines.  A line is an entry, or Torn     *)
(* when it is not one entry's JSON.  log() writes the JSON and the line    *)
(* feed in two writes and ignores the failure of either, so that the last  *)
(* line may be left without its end; the next entry is then glued to it.   *)
(*                                                                         *)
(* SHA-256 is taken to be injective: the hash of an entry stands for what  *)
(* was fed to it, the payloads of the chain up to that entry.  A payload   *)
(* is known by the ordinal of the log() call that made it, which stands    *)
(* for its timestamp.                                                      *)
(***************************************************************************)
EXTENDS Integers, Sequences

CONSTANTS
  DiskMayFail, \* whether a write to the file may fail or be cut short
  MayRestart,  \* whether the daemon may be restarted
  MayDamage,   \* whether lines of the file may be damaged from outside
  Torn,        \* a line that is not one entry
  MaxCalls,    \* bound of the number of log() calls
  MaxLives     \* bound of the number of times the daemon is started

ASSUME SwitchAssumption == {DiskMayFail, MayRestart, MayDamage} \subseteq BOOLEAN
ASSUME BoundAssumption == MaxCalls \in Nat /\ MaxLives \in Nat
ASSUME TornAssumption ==
  Torn \notin [payload : Nat, prev_hash : Seq(Nat), entry_hash : Seq(Nat)]

VARIABLES
  file,      \* the lines of audit.log
  open,      \* whether the last line has no line feed
  last_hash, \* AuditLogger.last_hash
  clock,     \* log() calls made so far, by any daemon
  lives,     \* history: for each start of the daemon, its log() calls
  intact     \* history: no write failed, no line was damaged and the daemon
             \* was not restarted after its first call

vars == <<file, open, last_hash, clock, lives, intact>>

-----------------------------------------------------------------------------

\* The hash of no entry: None as Option<String>.
NoHash == <<>>

Entry == [payload : Nat, prev_hash : Seq(Nat), entry_hash : Seq(Nat)]

\* AuditEntry::compute_hash and AuditEntry::new.
ComputeHash(prev, payload) == Append(prev, payload)

NewEntry(prev, payload) ==
  [payload |-> payload, prev_hash |-> prev, entry_hash |-> ComputeHash(prev, payload)]

\* Two faulty ways to verify: the stored link is not compared with the entry
\* before, or only the newest entry is looked at.
VerifyHashesOnly(entries) ==
  \A i \in DOMAIN entries :
    entries[i].entry_hash = ComputeHash(entries[i].prev_hash, entries[i].payload)

VerifyNewest(entries) ==
  \A i \in {Len(entries)} \cap DOMAIN entries :
    entries[i].entry_hash = ComputeHash(entries[i].prev_hash, entries[i].payload)

\* verify_chain: `last` is its loop variable of that name.
VerifyChain(entries) ==
  \A i \in DOMAIN entries :
    LET last == IF i = 1 THEN NoHash ELSE entries[i - 1].entry_hash
    IN /\ entries[i].entry_hash = ComputeHash(last, entries[i].payload)
       /\ entries[i].prev_hash = last

\* `lusbyctl audit verify` prints OK: every line parses and the chain holds.
Verified(lines) == /\ \A i \in DOMAIN lines : lines[i] # Torn
                   /\ VerifyChain(lines)

TypeOK ==
  /\ file \in Seq(Entry \cup {Torn})
  /\ open \in BOOLEAN
  /\ last_hash \in Seq(Nat)
  /\ clock \in Nat
  /\ lives \in Seq(Seq(Nat)) /\ lives # <<>>
  /\ intact \in BOOLEAN
  /\ open => file # <<>>

Init ==
  /\ file = <<>>
  /\ open = FALSE
  /\ last_hash = NoHash
  /\ clock = 0
  /\ lives = <<<<>>>>
  /\ intact = TRUE

-----------------------------------------------------------------------------
(***************************************************************************)
(* AuditLogger::log: the chain moves on whatever becomes of the write.     *)
(***************************************************************************)
NewCall ==
  /\ clock < MaxCalls
  /\ clock' = clock + 1
  /\ lives' = [lives EXCEPT ![Len(lives)] = Append(@, clock + 1)]

\* A faulty Chain: the logger forgets to keep the hash it has computed.
ChainForgotten == NewCall /\ UNCHANGED last_hash

Chain == NewCall /\ last_hash' = NewEntry(last_hash, clock + 1).entry_hash

\* The file once `line` has been written at its end.
Extended(line) ==
  IF open THEN [file EXCEPT ![Len(file)] = Torn] ELSE Append(file, line)

Log ==
  /\ Chain
  /\ file' = Extended(NewEntry(last_hash, clock + 1))
  /\ open' = FALSE
  /\ UNCHANGED intact

\* A faulty LogLost: the line is taken to be begun though nothing is written.
LogLostOpens ==
  /\ DiskMayFail
  /\ Chain
  /\ open' = TRUE
  /\ intact' = FALSE
  /\ UNCHANGED file

\* The file cannot be opened or nothing of the line can be written.
LogLost ==
  /\ DiskMayFail
  /\ Chain
  /\ intact' = FALSE
  /\ UNCHANGED <<file, open>>

\* Part of the JSON is written, or all of it and no line feed.
LogCut ==
  /\ DiskMayFail
  /\ Chain
  /\ \E line \in {Torn, NewEntry(last_hash, clock + 1)} : file' = Extended(line)
  /\ open' = TRUE
  /\ intact' = FALSE

\* AuditLogger::new does not look at the file it will append to.
Restart ==
  /\ MayRestart /\ Len(lives) < MaxLives
  /\ last_hash' = NoHash
  /\ lives' = Append(lives, <<>>)
  /\ intact' = (intact /\ clock = 0)
  /\ UNCHANGED <<file, open, clock>>

-----------------------------------------------------------------------------
(***************************************************************************)
(* Damage verify_chain is there to show: lines lost, repeated, swapped or  *)
(* altered by an editor, a log rotation or a file system.  It makes no new *)
(* hashes.                                                                 *)
(***************************************************************************)
DropLine(i) == file' = SubSeq(file, 1, i - 1) \o SubSeq(file, i + 1, Len(file))

RepeatLine(i) == /\ Len(file) < MaxCalls
                 /\ file' = SubSeq(file, 1, i) \o SubSeq(file, i, Len(file))

SwapLines(i) == /\ i < Len(file)
                /\ file' = [file EXCEPT ![i] = file[i + 1], ![i + 1] = file[i]]

AlterPayload(i) == /\ file[i] # Torn
                   /\ \E p \in 1..clock : file' = [file EXCEPT ![i].payload = p]

Damage ==
  /\ MayDamage /\ ~open
  /\ \E i \in DOMAIN file :
       DropLine(i) \/ RepeatLine(i) \/ SwapLines(i) \/ AlterPayload(i)
  /\ intact' = FALSE
  /\ UNCHANGED <<open, last_hash, clock, lives>>

Daemon == Log \/ LogLost \/ LogCut \/ Restart

Next == Daemon \/ Damage

Spec == Init /\ [][Next]_vars

-----------------------------------------------------------------------------

Recorded(calls) ==
  /\ Len(file) <= Len(calls)
  /\ \A i \in DOMAIN file : file[i].payload = calls[i]

\* Tamper evidence: a log that verifies holds the calls of one daemon from
\* its first on, in order and unaltered.  Only its end may be missing.
VerifiedIsPrefix == Verified(file) => \E l \in DOMAIN lives : Recorded(lives[l])

\* A log nothing has happened to verifies and holds every call there was.
IntactVerifies ==
  intact => /\ Verified(file)
            /\ Recorded(lives[Len(lives)])
            /\ Len(file) = clock

\* No later call and no restart makes a log verify that does not.
NeverHeals == [][Daemon /\ ~Verified(file) => ~Verified(file')]_vars

\* README.md:12: the audit log is verifiable.  Checked with a disk that does
\* not fail and no damage, over a restart of the daemon.
Verifiable == Verified(file)
=============================================================================
