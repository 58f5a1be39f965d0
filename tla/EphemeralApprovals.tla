------------------------- MODULE EphemeralApprovals -------------------------
(***************************************************************************)
(* Temporary approvals in lusby-daemon (crates/daemon/src/dbus.rs and      *)
(* logind.rs).                                                             *)
(*                                                                         *)
(* DaemonState serves every D-Bus call in a task of its own on a           *)
(* multi-threaded runtime, and one more task listens to logind.  The tasks *)
(* share the map `ephemeral` and the audit log, each behind a mutex that   *)
(* is held for one statement at a time, and usbguard, which they drive     *)
(* through subprocesses they await.  A handler is therefore modelled as    *)
(* the sequence of its mutex sections and subprocesses: anything may       *)
(* happen between two of them.                                             *)
(***************************************************************************)
EXTENDS Integers, Sequences, FiniteSets

CONSTANTS
  Id,             \* device ids a caller may pass
  ValidId,        \* those that are non-empty, at most 64 bytes and ASCII
  Task,           \* calls the daemon serves concurrently
  Ttl,            \* TTLs a caller may pass, in ticks
  MaxTtl,         \* the longest TTL accepted (86400 s in the code)
  Uid,            \* requester uids a caller may pass
  None,           \* no device
  BackendMayFail, \* whether a usbguard command may exit with an error
  LogMayFail,     \* whether an entry of the audit log may get lost in writing
  MayRestart,     \* whether the daemon may crash and be restarted
  MaxTime,        \* bound of the clock
  MaxQueue        \* bound of the signals waiting for the listener

ASSUME IdAssumption == ValidId \subseteq Id /\ None \notin Id
ASSUME TtlAssumption == Ttl \subseteq Nat /\ MaxTtl \in Nat
ASSUME UidAssumption == Uid \subseteq Nat
ASSUME SwitchAssumption == {BackendMayFail, LogMayFail, MayRestart} \subseteq BOOLEAN
ASSUME BoundAssumption == MaxTime \in Nat /\ MaxQueue \in Nat

VARIABLES
  authorised, \* devices usbguard lets in because of a temporary approval
  ephemeral,  \* StateInner.ephemeral: device id -> expiry, or Absent
  call,       \* the call each task serves: its step and its locals
  sweep,      \* revoke_all_ephemeral as run by the logind listener
  bus,        \* logind signals not yet read from the message stream
  audit,      \* what the audit log says of each device: its last entry, and
              \* the last of those that open or end its access
  now,        \* the monotonic clock behind Instant::now()
  late,       \* history: ids granted, tracked or not revoked in this sweep
  strayed,    \* history: ids whose approval was forgotten, not revoked
  doubtful    \* history: ids whose access the log may show wrongly

taskVars == <<authorised, ephemeral, call, audit, late, strayed, doubtful>>
vars == <<authorised, ephemeral, call, sweep, bus, audit, now, late, strayed, doubtful>>

-----------------------------------------------------------------------------

Absent == -1

Step == {"idle", "allow_cmd", "allow_log", "track", "revoke_cmd", "revoke_log"}

Idle == [step |-> "idle", id |-> None, ttl |-> 0, ok |-> FALSE]

Listening == [step |-> "listen", todo |-> {}, cur |-> None]

Signal == {"sleep",   \* Manager.PrepareForSleep(true)
           "resume",  \* Manager.PrepareForSleep(false)
           "lock"}    \* Session.Lock

AuditAction == {"allow_invalid", "allow_ok", "allow_fail", "revoke_invalid",
                "revoke_ok", "revoke_fail", "auto_revoke"}

\* The entries from which a reader of the log learns that access changed.
Verdict == {"allow_ok", "revoke_ok", "auto_revoke"}

TypeOK ==
  /\ authorised \in SUBSET ValidId
  /\ ephemeral \in [Id -> Nat \cup {Absent}]
  /\ call \in [Task -> [step : Step, id : Id \cup {None}, ttl : Nat, ok : BOOLEAN]]
  /\ sweep \in [step : {"listen", "sweep", "log"}, todo : SUBSET Id, cur : Id \cup {None}]
  /\ bus \in Seq(Signal)
  /\ audit \in [Id -> [last : AuditAction \cup {"none"}, verdict : Verdict \cup {"none"}]]
  /\ now \in Nat
  /\ late \in SUBSET Id
  /\ strayed \in SUBSET Id
  /\ doubtful \in SUBSET Id

Tracked(d) == ephemeral[d] # Absent

Logged(d) == audit[d].verdict = "allow_ok"

\* Task t has had d authorised and has not recorded that in the audit log.
Unlogged(t, d) == call[t].step = "allow_log" /\ call[t].ok /\ call[t].id = d

\* Some task has had d authorised and has yet to insert it in the map.
Pending(d) == \E t \in Task : \/ Unlogged(t, d)
                              \/ call[t].step = "track" /\ call[t].id = d

\* A revocation of d has been tried whose entry is yet to be written.
Owed(d) == \/ \E t \in Task : call[t].step = "revoke_log" /\ call[t].ok /\ call[t].id = d
           \/ sweep.step = "log" /\ sweep.cur = d

Sweeping == sweep.step # "listen"

SleepQueued == \E i \in DOMAIN bus : bus[i] = "sleep"

\* usbguard's exit status, as BackendError or Ok.
Outcome == IF BackendMayFail THEN BOOLEAN ELSE {TRUE}

ValidRequest(d, n, u) == d \in ValidId /\ n \in 1..MaxTtl /\ u > 0

\* Whether the best-effort write of AuditLogger::log succeeds.
Written == IF LogMayFail THEN BOOLEAN ELSE {TRUE}

Record(d, action, written) ==
  audit' = IF ~written THEN audit
           ELSE [audit EXCEPT ![d] =
                  [last |-> action,
                   verdict |-> IF action \in Verdict THEN action ELSE @.verdict]]

Return(t) == call' = [call EXCEPT ![t] = Idle]

Init ==
  /\ authorised = {}
  /\ ephemeral = [d \in Id |-> Absent]
  /\ call = [t \in Task |-> Idle]
  /\ sweep = Listening
  /\ bus = <<>>
  /\ audit = [d \in Id |-> [last |-> "none", verdict |-> "none"]]
  /\ now = 0
  /\ late = {}
  /\ strayed = {}
  /\ doubtful = {}

-----------------------------------------------------------------------------
(***************************************************************************)
(* Faulty variants of the actions below, against which the properties are  *)
(* tried.  None of them is part of Next.                                   *)
(***************************************************************************)

\* The input checks of request_ephemeral_allow are gone.
BeginAllowUnvalidated(t) ==
  /\ call[t].step = "idle"
  /\ \E d \in Id, n \in Ttl :
       call' = [call EXCEPT ![t] = [step |-> "allow_cmd", id |-> d, ttl |-> n, ok |-> FALSE]]
  /\ UNCHANGED <<authorised, ephemeral, sweep, bus, audit, now, late, strayed, doubtful>>

\* The exit status of the revoke is not looked at.
RevokeLogBlind(t) ==
  /\ call[t].step = "revoke_log"
  /\ \E written \in Written : Record(call[t].id, "revoke_ok", written)
  /\ Return(t)
  /\ UNCHANGED <<authorised, ephemeral, sweep, bus, now, late, strayed, doubtful>>

\* Tracking a device lets it in once more.
TrackReasserts(t) ==
  /\ call[t].step = "track"
  /\ authorised' = authorised \cup {call[t].id}
  /\ ephemeral' = [ephemeral EXCEPT ![call[t].id] = now + call[t].ttl]
  /\ Return(t)
  /\ UNCHANGED <<sweep, bus, audit, now, late, strayed, doubtful>>

\* The map forgets the device before usbguard has shut it out.
BeginRevokeUntracks(t) ==
  /\ call[t].step = "idle"
  /\ \E d \in ValidId :
       /\ call' = [call EXCEPT ![t] = [step |-> "revoke_cmd", id |-> d, ttl |-> 0, ok |-> FALSE]]
       /\ ephemeral' = [ephemeral EXCEPT ![d] = Absent]
  /\ UNCHANGED <<authorised, sweep, bus, audit, now, late, strayed, doubtful>>

\* The sweep takes only approvals whose time is up.
WakeExpiredOnly ==
  /\ ~Sweeping
  /\ bus # <<>> /\ Head(bus) = "sleep"
  /\ bus' = Tail(bus)
  /\ sweep' = [step |-> "sweep", todo |-> {d \in Id : Tracked(d) /\ ephemeral[d] <= now}, cur |-> None]
  /\ late' = {}
  /\ UNCHANGED <<authorised, ephemeral, call, audit, now, strayed, doubtful>>

\* The flag of PrepareForSleep is read the wrong way round.
WakeOnResume ==
  /\ ~Sweeping
  /\ bus # <<>> /\ Head(bus) = "resume"
  /\ bus' = Tail(bus)
  /\ sweep' = [step |-> "sweep", todo |-> {d \in Id : Tracked(d)}, cur |-> None]
  /\ late' = {}
  /\ UNCHANGED <<authorised, ephemeral, call, audit, now, strayed, doubtful>>

-----------------------------------------------------------------------------
(***************************************************************************)
(* request_ephemeral_allow                                                 *)
(***************************************************************************)
RejectAllow(t) ==
  /\ call[t].step = "idle"
  /\ \E d \in Id, n \in Ttl, u \in Uid, written \in Written :
       ~ValidRequest(d, n, u) /\ Record(d, "allow_invalid", written)
  /\ UNCHANGED <<authorised, ephemeral, call, sweep, bus, now, late, strayed, doubtful>>

BeginAllow(t) ==
  /\ call[t].step = "idle"
  /\ \E d \in Id, n \in Ttl, u \in Uid :
       /\ ValidRequest(d, n, u)
       /\ call' = [call EXCEPT ![t] = [step |-> "allow_cmd", id |-> d, ttl |-> n, ok |-> FALSE]]
  /\ UNCHANGED <<authorised, ephemeral, sweep, bus, audit, now, late, strayed, doubtful>>

\* `usbguard allow-device` takes effect and exits.
AllowCommand(t) ==
  /\ call[t].step = "allow_cmd"
  /\ \E ok \in Outcome :
       /\ call' = [call EXCEPT ![t].step = "allow_log", ![t].ok = ok]
       /\ authorised' = IF ok THEN authorised \cup {call[t].id} ELSE authorised
       /\ late' = IF ok /\ Sweeping THEN late \cup {call[t].id} ELSE late
       /\ doubtful' = IF ~ok THEN doubtful
                      ELSE IF Owed(call[t].id) THEN doubtful \cup {call[t].id}
                      ELSE doubtful \ {call[t].id}
  /\ UNCHANGED <<ephemeral, sweep, bus, audit, now, strayed>>

AllowLog(t) ==
  /\ call[t].step = "allow_log"
  /\ \E written \in Written :
       /\ Record(call[t].id, IF call[t].ok THEN "allow_ok" ELSE "allow_fail", written)
       /\ doubtful' = IF call[t].ok /\ ~written THEN doubtful \cup {call[t].id} ELSE doubtful
  /\ IF call[t].ok THEN call' = [call EXCEPT ![t].step = "track"] ELSE Return(t)
  /\ UNCHANGED <<authorised, ephemeral, sweep, bus, now, late, strayed>>

Track(t) ==
  /\ call[t].step = "track"
  /\ ephemeral' = [ephemeral EXCEPT ![call[t].id] = now + call[t].ttl]
  /\ Return(t)
  /\ late' = IF Sweeping THEN late \cup {call[t].id} ELSE late
  /\ strayed' = strayed \ {call[t].id}
  /\ UNCHANGED <<authorised, sweep, bus, audit, now, doubtful>>

(***************************************************************************)
(* revoke_device: the entry in the map is left alone.                      *)
(***************************************************************************)
RejectRevoke(t) ==
  /\ call[t].step = "idle"
  /\ \E d \in Id \ ValidId, written \in Written : Record(d, "revoke_invalid", written)
  /\ UNCHANGED <<authorised, ephemeral, call, sweep, bus, now, late, strayed, doubtful>>

BeginRevoke(t) ==
  /\ call[t].step = "idle"
  /\ \E d \in ValidId :
       call' = [call EXCEPT ![t] = [step |-> "revoke_cmd", id |-> d, ttl |-> 0, ok |-> FALSE]]
  /\ UNCHANGED <<authorised, ephemeral, sweep, bus, audit, now, late, strayed, doubtful>>

RevokeCommand(t) ==
  /\ call[t].step = "revoke_cmd"
  /\ \E ok \in Outcome :
       /\ call' = [call EXCEPT ![t].step = "revoke_log", ![t].ok = ok]
       /\ authorised' = IF ok THEN authorised \ {call[t].id} ELSE authorised
       /\ strayed' = IF ok THEN strayed \ {call[t].id} ELSE strayed
  /\ UNCHANGED <<ephemeral, sweep, bus, audit, now, late, doubtful>>

RevokeLog(t) ==
  /\ call[t].step = "revoke_log"
  /\ \E written \in Written :
       Record(call[t].id, IF call[t].ok THEN "revoke_ok" ELSE "revoke_fail", written)
  /\ Return(t)
  /\ UNCHANGED <<authorised, ephemeral, sweep, bus, now, late, strayed, doubtful>>

-----------------------------------------------------------------------------
(***************************************************************************)
(* run_logind_listener and revoke_all_ephemeral.  The keys are copied      *)
(* under the mutex, revoked one by one in the map's arbitrary order, and   *)
(* the map is cleared at the end, whatever it holds by then.               *)
(***************************************************************************)
Wake ==
  /\ ~Sweeping
  /\ bus # <<>> /\ Head(bus) = "sleep"
  /\ bus' = Tail(bus)
  /\ sweep' = [step |-> "sweep", todo |-> {d \in Id : Tracked(d)}, cur |-> None]
  /\ late' = {}
  /\ UNCHANGED <<authorised, ephemeral, call, audit, now, strayed, doubtful>>

SkipSignal ==
  /\ ~Sweeping
  /\ bus # <<>> /\ Head(bus) # "sleep"
  /\ bus' = Tail(bus)
  /\ UNCHANGED <<authorised, ephemeral, call, sweep, audit, now, late, strayed, doubtful>>

\* The exit status of the revoke is discarded.
SweepCommand ==
  /\ sweep.step = "sweep"
  /\ \E d \in sweep.todo, ok \in Outcome :
       /\ sweep' = [step |-> "log", todo |-> sweep.todo \ {d}, cur |-> d]
       /\ authorised' = IF ok THEN authorised \ {d} ELSE authorised
       /\ strayed' = IF ok THEN strayed \ {d} ELSE strayed
       /\ late' = IF ok THEN late ELSE late \cup {d}
       /\ doubtful' = IF ok THEN doubtful ELSE doubtful \cup {d}
  /\ UNCHANGED <<ephemeral, call, bus, audit, now>>

SweepLog ==
  /\ sweep.step = "log"
  /\ \E written \in Written : Record(sweep.cur, "auto_revoke", written)
  /\ sweep' = [sweep EXCEPT !.step = "sweep", !.cur = None]
  /\ UNCHANGED <<authorised, ephemeral, call, bus, now, late, strayed, doubtful>>

SweepClear ==
  /\ sweep.step = "sweep" /\ sweep.todo = {}
  /\ ephemeral' = [d \in Id |-> Absent]
  /\ sweep' = Listening
  /\ strayed' = strayed \cup (late \cap authorised)
  /\ late' = {}
  /\ UNCHANGED <<authorised, call, bus, audit, now, doubtful>>

-----------------------------------------------------------------------------
(***************************************************************************)
(* The environment: logind, the user's hands, the clock and systemd.       *)
(***************************************************************************)
Notify ==
  /\ Len(bus) < MaxQueue
  /\ \E s \in Signal : bus' = Append(bus, s)
  /\ UNCHANGED <<taskVars, sweep, now>>

Unplug(d) ==
  /\ d \in authorised
  /\ authorised' = authorised \ {d}
  /\ strayed' = strayed \ {d}
  /\ UNCHANGED <<ephemeral, call, sweep, bus, audit, now, late, doubtful>>

Tick ==
  /\ now < MaxTime
  /\ now' = now + 1
  /\ UNCHANGED <<taskVars, sweep, bus>>

\* The process dies and Restart=on-failure starts it anew: the map, the
\* calls and the undelivered signals are gone, usbguard keeps its state.
Restart ==
  /\ MayRestart
  /\ ephemeral' = [d \in Id |-> Absent]
  /\ call' = [t \in Task |-> Idle]
  /\ sweep' = Listening
  /\ bus' = <<>>
  /\ late' = {}
  /\ strayed' = authorised
  /\ doubtful' = doubtful \cup {d \in authorised : \E t \in Task : Unlogged(t, d)}
  /\ UNCHANGED <<authorised, audit, now>>

Serve(t) == \/ AllowCommand(t) \/ AllowLog(t) \/ Track(t)
            \/ RevokeCommand(t) \/ RevokeLog(t)

Accept(t) == RejectAllow(t) \/ BeginAllow(t) \/ RejectRevoke(t) \/ BeginRevoke(t)

Listener == Wake \/ SkipSignal \/ SweepCommand \/ SweepLog \/ SweepClear

Environment == Notify \/ Tick \/ Restart \/ \E d \in ValidId : Unplug(d)

Next == \/ \E t \in Task : Accept(t) \/ Serve(t)
        \/ Listener
        \/ Environment

Spec == Init /\ [][Next]_vars

\* tokio polls every task that can run and usbguard's subcommands return;
\* nobody has to call the daemon, unplug a device or let it crash.
Fairness == WF_vars(Listener) /\ \A t \in Task : WF_vars(Serve(t))

FairSpec == Spec /\ Fairness /\ WF_vars(Tick)

-----------------------------------------------------------------------------
(***************************************************************************)
(* What holds.                                                             *)
(***************************************************************************)

\* Every device that is let in is in the map, is about to be put there by
\* the task that had it let in, or was lost by one of the three known ways:
\* it was granted or tracked while a sweep was running, its revoke failed in
\* a sweep, or the daemon restarted.
ApprovalAccountedFor ==
  \A d \in authorised : Tracked(d) \/ Pending(d) \/ d \in strayed

\* A sweep misses nothing that was in the map when it began: at every point
\* of revoke_all_ephemeral, a device that is tracked and still let in is yet
\* to be revoked, or its revoke failed, or it was approved after the start.
SweepComplete ==
  Sweeping => \A d \in authorised : Tracked(d) => d \in sweep.todo \cup late

\* What the audit log last says of the access of a device that is inside is
\* that it was let in, or the granting task is about to write so, although
\* grants and revocations are carried out and recorded in different orders
\* (README.md:5, "fully auditable").  Four things leave doubt until the next
\* grant: that entry got lost in writing, the daemon died before it, the
\* device was let in between a revocation and the entry of that, or it was
\* not shut out by a sweep, which records success whatever usbguard says.
GrantAudited ==
  \A d \in authorised : Logged(d) \/ (\E t \in Task : Unlogged(t, d)) \/ d \in doubtful

\* The device each task is having let in.
asked == [t \in Task |-> IF call[t].step = "allow_cmd" THEN call[t].id ELSE None]

\* Each validated request opens the gate for its own device at most once and
\* nothing else opens it: the code implements the abstract gate.
Gate == INSTANCE DeviceGate WITH
          Device <- ValidId, Client <- Task, inside <- authorised, open <- asked

OnlyRequestsOpenTheGate == Gate!GateSpec

\* A suspend signal in the queue ends the approvals of the devices tracked
\* then: each leaves the map and is shut out, or strayed as above.
SuspendSweeps ==
  \A d \in ValidId :
    SleepQueued /\ Tracked(d) ~> ~Tracked(d) /\ (d \in authorised => d \in strayed)

-----------------------------------------------------------------------------
(***************************************************************************)
(* What the documentation says and the code does not do.                   *)
(***************************************************************************)

\* README.md:10 (and :83): a temporary approval is revoked when its TTL ends
\* and when the session is locked.
TimeoutOrLockRevokes ==
  \A d \in ValidId :
    /\ Tracked(d) /\ now >= ephemeral[d] ~> d \notin authorised
    /\ Tracked(d) /\ (\E i \in DOMAIN bus : bus[i] = "lock") ~> d \notin authorised
=============================================================================
