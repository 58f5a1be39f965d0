---------------------- MODULE EphemeralApprovals_proof ----------------------
(***************************************************************************)
(* Proofs about EphemeralApprovals: its type invariant, the bookkeeping of *)
(* approvals across requests and sweeps, and what the audit log says of    *)
(* them, for any number of devices, tasks and queued signals.              *)
(***************************************************************************)
EXTENDS EphemeralApprovals, TLAPS

\* A call past its input checks names a valid device.
CallsValid == \A t \in Task : call[t].step # "idle" => call[t].id \in ValidId

\* Between its command and its record a sweep is at a device.
SweepValid == sweep.step = "log" => sweep.cur \in Id

Typed == TypeOK /\ CallsValid /\ SweepValid

\* ApprovalAccountedFor is not inductive: when a sweep clears the map it
\* must be known that what is tracked and still inside is late.
Bookkeeping == ApprovalAccountedFor /\ SweepComplete

-----------------------------------------------------------------------------

LEMMA InitTyped == Init => Typed
  BY IdAssumption, TtlAssumption
  DEF Init, Typed, TypeOK, CallsValid, SweepValid, Idle, Listening, Step, Absent

CallType == [step : Step, id : Id \cup {None}, ttl : Nat, ok : BOOLEAN]

\* A call that goes on to another step, with the outcome of its command.
LEMMA CallStaysTyped ==
  ASSUME call \in [Task -> CallType], NEW t \in Task, NEW step \in Step, NEW ok \in BOOLEAN
  PROVE  /\ call' = [call EXCEPT ![t] = [call[t] EXCEPT !.step = step, !.ok = ok]]
              => call' \in [Task -> CallType]
         /\ call' = [call EXCEPT ![t] = [call[t] EXCEPT !.step = step]]
              => call' \in [Task -> CallType]
<1>1. call[t] \in CallType
  OBVIOUS
<1>2. [call[t] EXCEPT !.step = step, !.ok = ok] \in CallType
  BY <1>1 DEF CallType
<1>3. [call[t] EXCEPT !.step = step] \in CallType
  BY <1>1 DEF CallType
<1>4. QED
  BY <1>2, <1>3

AuditType == [Id -> [last : AuditAction \cup {"none"}, verdict : Verdict \cup {"none"}]]

\* An entry, written or lost, leaves the log well-formed; a written one that
\* opens or ends the access of a device becomes its last word on the device.
LEMMA RecordTyped ==
  ASSUME audit \in AuditType, NEW d \in Id, NEW action \in AuditAction,
         NEW written \in BOOLEAN, Record(d, action, written)
  PROVE  /\ audit' \in AuditType
         /\ \A e \in Id \ {d} : audit'[e] = audit[e]
         /\ audit'[d].verdict = IF written /\ action \in Verdict THEN action ELSE audit[d].verdict
<1>1. CASE ~written
  BY <1>1 DEF Record
<1>2. CASE written
  <2> DEFINE new == [last |-> action,
                     verdict |-> IF action \in Verdict THEN action ELSE audit[d].verdict]
  <2>1. audit' = [audit EXCEPT ![d] = new]
    BY <1>2 DEF Record
  <2>2. audit[d].verdict \in Verdict \cup {"none"}
    BY DEF AuditType
  <2>3. new \in [last : AuditAction \cup {"none"}, verdict : Verdict \cup {"none"}]
    BY <2>2
  <2>4. audit' \in AuditType /\ audit'[d] = new /\ \A e \in Id \ {d} : audit'[e] = audit[e]
    BY <2>1, <2>3 DEF AuditType
  <2>5. QED
    BY <1>2, <2>4
<1>3. QED
  BY <1>1, <1>2

LEMMA NextTyped == Typed /\ [Next]_vars => Typed'
<1> SUFFICES ASSUME Typed, [Next]_vars
             PROVE  Typed'
  OBVIOUS
<1> USE DEF Typed, TypeOK, CallsValid, SweepValid
<1>0. /\ call \in [Task -> CallType]
      /\ [step : Step, id : Id \cup {None}, ttl : Nat, ok : BOOLEAN] = CallType
      /\ audit \in AuditType
      /\ audit' \in AuditType =>
           audit' \in [Id -> [last : AuditAction \cup {"none"}, verdict : Verdict \cup {"none"}]]
      /\ Written \subseteq BOOLEAN
  BY DEF CallType, AuditType, Written
<1>1. ASSUME NEW t \in Task, RejectAllow(t)
      PROVE  Typed'
  <2>1. audit' \in AuditType
    BY <1>0, <1>1, RecordTyped DEF RejectAllow, AuditAction
  <2>2. QED
    BY <1>0, <1>1, <2>1 DEF RejectAllow
<1>2. ASSUME NEW t \in Task, BeginAllow(t)
      PROVE  Typed'
  BY <1>2, TtlAssumption, IdAssumption DEF BeginAllow, ValidRequest, Step
<1>3. ASSUME NEW t \in Task, AllowCommand(t)
      PROVE  Typed'
  <2>1. call[t].id \in ValidId
    BY <1>3 DEF AllowCommand
  <2>2. PICK ok \in BOOLEAN :
          call' = [call EXCEPT ![t] = [call[t] EXCEPT !.step = "allow_log", !.ok = ok]]
    BY <1>3 DEF AllowCommand, Outcome
  <2>3. call' \in [Task -> [step : Step, id : Id \cup {None}, ttl : Nat, ok : BOOLEAN]]
    BY <1>0, <2>2, CallStaysTyped DEF Step
  <2>4. CallsValid'
    BY <2>1, <2>2
  <2>5. authorised' \in SUBSET ValidId /\ late' \in SUBSET Id /\ doubtful' \in SUBSET Id
    BY <1>3, <2>1, IdAssumption DEF AllowCommand
  <2>6. QED
    BY <1>3, <2>3, <2>4, <2>5 DEF AllowCommand
<1>4. ASSUME NEW t \in Task, AllowLog(t)
      PROVE  Typed'
  <2>1. \/ call' = [call EXCEPT ![t] = [call[t] EXCEPT !.step = "track"]]
        \/ call' = [call EXCEPT ![t] = Idle]
    BY <1>4 DEF AllowLog, Return
  <2>2. /\ call' \in [Task -> [step : Step, id : Id \cup {None}, ttl : Nat, ok : BOOLEAN]]
        /\ CallsValid'
    <3>1. call[t].id \in ValidId
      BY <1>4 DEF AllowLog
    <3>2. CASE call' = [call EXCEPT ![t] = [call[t] EXCEPT !.step = "track"]]
      <4>1. call' \in [Task -> CallType]
        BY <1>0, <3>2, CallStaysTyped DEF Step
      <4>2. CallsValid'
        BY <3>1, <3>2
      <4>3. QED
        BY <1>0, <4>1, <4>2
    <3>3. CASE call' = [call EXCEPT ![t] = Idle]
      BY <3>3 DEF Idle, Step
    <3>4. QED
      BY <2>1, <3>2, <3>3
  <2>3. call[t].id \in Id
    BY <1>4, IdAssumption DEF AllowLog
  <2>4. audit' \in AuditType
    BY <1>0, <1>4, <2>3, RecordTyped DEF AllowLog, AuditAction
  <2>5. QED
    BY <1>0, <1>4, <2>2, <2>3, <2>4 DEF AllowLog
<1>5. ASSUME NEW t \in Task, Track(t)
      PROVE  Typed'
  BY <1>5, IdAssumption DEF Track, Return, Idle, Step
<1>6. ASSUME NEW t \in Task, RejectRevoke(t)
      PROVE  Typed'
  <2>1. audit' \in AuditType
    BY <1>0, <1>6, RecordTyped DEF RejectRevoke, AuditAction
  <2>2. QED
    BY <1>0, <1>6, <2>1 DEF RejectRevoke
<1>7. ASSUME NEW t \in Task, BeginRevoke(t)
      PROVE  Typed'
  BY <1>7, IdAssumption DEF BeginRevoke, Step
<1>8. ASSUME NEW t \in Task, RevokeCommand(t)
      PROVE  Typed'
  <2>1. PICK ok \in BOOLEAN :
          call' = [call EXCEPT ![t] = [call[t] EXCEPT !.step = "revoke_log", !.ok = ok]]
    BY <1>8 DEF RevokeCommand, Outcome
  <2>2. call' \in [Task -> [step : Step, id : Id \cup {None}, ttl : Nat, ok : BOOLEAN]]
    BY <1>0, <2>1, CallStaysTyped DEF Step
  <2>3. CallsValid'
    BY <1>8, <2>1 DEF RevokeCommand
  <2>4. QED
    BY <1>8, <2>2, <2>3 DEF RevokeCommand
<1>9. ASSUME NEW t \in Task, RevokeLog(t)
      PROVE  Typed'
  <2>1. call[t].id \in Id
    BY <1>9, IdAssumption DEF RevokeLog
  <2>2. audit' \in AuditType
    BY <1>0, <1>9, <2>1, RecordTyped DEF RevokeLog, AuditAction
  <2>3. QED
    BY <1>0, <1>9, <2>2, IdAssumption DEF RevokeLog, Return, Idle, Step
<1>10. CASE Wake
  BY <1>10 DEF Wake, Tracked
<1>11. CASE SkipSignal
  BY <1>11 DEF SkipSignal
<1>12. CASE SweepCommand
  BY <1>12 DEF SweepCommand, Outcome
<1>13. CASE SweepLog
  <2>1. sweep' = [sweep EXCEPT !.step = "sweep", !.cur = None]
    BY <1>13 DEF SweepLog
  <2>2. sweep' \in [step : {"listen", "sweep", "log"}, todo : SUBSET Id, cur : Id \cup {None}]
    BY <2>1
  <2>3. SweepValid'
    BY <2>1
  <2>4. audit' \in AuditType
    BY <1>0, <1>13, RecordTyped DEF SweepLog, AuditAction
  <2>5. QED
    BY <1>0, <1>13, <2>2, <2>3, <2>4 DEF SweepLog
<1>14. CASE SweepClear
  BY <1>14, IdAssumption DEF SweepClear, Listening
<1>15. CASE Notify
  BY <1>15 DEF Notify, taskVars
<1>16. CASE Tick
  BY <1>16 DEF Tick, taskVars
<1>17. CASE Restart
  BY <1>17, IdAssumption DEF Restart, Idle, Listening, Step
<1>18. ASSUME NEW d \in ValidId, Unplug(d)
       PROVE  Typed'
  BY <1>18 DEF Unplug
<1>19. CASE UNCHANGED vars
  BY <1>19 DEF vars
<1>20. QED
  BY <1>1, <1>2, <1>3, <1>4, <1>5, <1>6, <1>7, <1>8, <1>9, <1>10, <1>11, <1>12,
     <1>13, <1>14, <1>15, <1>16, <1>17, <1>18, <1>19
  DEF Next, Accept, Serve, Listener, Environment

\* Every variable keeps its type: in particular no device whose id fails the
\* checks of request_ephemeral_allow is ever let in.
THEOREM TypeCorrect == Spec => []TypeOK
<1>1. Typed => TypeOK
  BY DEF Typed
<1>2. QED
  BY InitTyped, NextTyped, <1>1, PTL DEF Spec

-----------------------------------------------------------------------------

LEMMA InitBookkeeping == Init => Bookkeeping
  BY DEF Init, Bookkeeping, ApprovalAccountedFor, SweepComplete

LEMMA NextBookkeeping == Typed /\ Bookkeeping /\ [Next]_vars => Bookkeeping'
<1> SUFFICES ASSUME Typed, Bookkeeping, [Next]_vars
             PROVE  Bookkeeping'
  OBVIOUS
<1> USE DEF Bookkeeping, ApprovalAccountedFor, SweepComplete, Tracked, Pending,
            Unlogged, Sweeping, Typed, TypeOK
<1>1. ASSUME NEW t \in Task, RejectAllow(t)
      PROVE  Bookkeeping'
  BY <1>1 DEF RejectAllow
<1>2. ASSUME NEW t \in Task, BeginAllow(t)
      PROVE  Bookkeeping'
  BY <1>2 DEF BeginAllow
<1>3. ASSUME NEW t \in Task, AllowCommand(t)
      PROVE  Bookkeeping'
  <2>1. PICK ok \in BOOLEAN :
          /\ call' = [call EXCEPT ![t] = [call[t] EXCEPT !.step = "allow_log", !.ok = ok]]
          /\ authorised' = IF ok THEN authorised \cup {call[t].id} ELSE authorised
          /\ late' = IF ok /\ Sweeping THEN late \cup {call[t].id} ELSE late
    BY <1>3 DEF AllowCommand, Outcome
  <2>2. \A u \in Task \ {t} : call'[u] = call[u]
    BY <2>1
  <2>3. /\ call[t].step = "allow_cmd"
        /\ call'[t] = [call[t] EXCEPT !.step = "allow_log", !.ok = ok]
    BY <1>3, <2>1 DEF AllowCommand
  <2>4. /\ \A d : Pending(d) => Pending(d)'
        /\ ok => Pending(call[t].id)'
    <3>1. \A d : Pending(d) => Pending(d)'
      BY <2>2, <2>3
    <3>2. ASSUME ok PROVE Unlogged(t, call[t].id)'
      <4>1. call'[t].step = "allow_log" /\ call'[t].id = call[t].id
        BY <2>3
      <4>2. call'[t].ok
        BY <2>3, <3>2
      <4>3. QED
        BY <4>1, <4>2
    <3>3. QED
      BY <3>1, <3>2
  <2>5. UNCHANGED <<ephemeral, sweep, strayed>>
    BY <1>3 DEF AllowCommand
  <2>6. ApprovalAccountedFor'
    BY <2>1, <2>3, <2>4, <2>5
  <2>7. SweepComplete'
    BY <2>1, <2>5
  <2>8. QED
    BY <2>6, <2>7
<1>4. ASSUME NEW t \in Task, AllowLog(t)
      PROVE  Bookkeeping'
  <2>1. /\ \A u \in Task \ {t} : call'[u] = call[u]
        /\ call[t].step = "allow_log"
        /\ call[t].ok => call'[t].step = "track" /\ call'[t].id = call[t].id
        /\ UNCHANGED <<authorised, ephemeral, sweep, late, strayed>>
    BY <1>4 DEF AllowLog, Return
  <2>2. \A d : Pending(d) => Pending(d)'
    BY <2>1
  <2>3. QED
    BY <2>1, <2>2
<1>5. ASSUME NEW t \in Task, Track(t)
      PROVE  Bookkeeping'
  <2>1. call[t].id \in Id
    BY <1>5, IdAssumption DEF Track, CallsValid
  <2>2. /\ call[t].step = "track"
        /\ \A u \in Task \ {t} : call'[u] = call[u]
        /\ ephemeral' = [ephemeral EXCEPT ![call[t].id] = now + call[t].ttl]
        /\ strayed' = strayed \ {call[t].id}
        /\ UNCHANGED <<authorised, sweep>>
    BY <1>5 DEF Track, Return
  <2>3. now + call[t].ttl # Absent
    BY DEF Absent
  <2>4. ApprovalAccountedFor'
    BY <2>1, <2>2, <2>3
  <2>5. SweepComplete'
    BY <1>5, <2>1 DEF Track
  <2>6. QED
    BY <2>4, <2>5
<1>6. ASSUME NEW t \in Task, RejectRevoke(t)
      PROVE  Bookkeeping'
  BY <1>6 DEF RejectRevoke
<1>7. ASSUME NEW t \in Task, BeginRevoke(t)
      PROVE  Bookkeeping'
  BY <1>7 DEF BeginRevoke
<1>8. ASSUME NEW t \in Task, RevokeCommand(t)
      PROVE  Bookkeeping'
  <2>1. PICK ok \in BOOLEAN :
          /\ call' = [call EXCEPT ![t] = [call[t] EXCEPT !.step = "revoke_log", !.ok = ok]]
          /\ authorised' = IF ok THEN authorised \ {call[t].id} ELSE authorised
          /\ strayed' = IF ok THEN strayed \ {call[t].id} ELSE strayed
    BY <1>8 DEF RevokeCommand, Outcome
  <2>2. /\ call[t].step = "revoke_cmd"
        /\ \A u \in Task \ {t} : call'[u] = call[u]
        /\ UNCHANGED <<ephemeral, sweep, late>>
    BY <1>8, <2>1 DEF RevokeCommand
  <2>3. \A d : Pending(d) => Pending(d)'
    BY <2>2
  <2>4. QED
    BY <2>1, <2>2, <2>3
<1>9. ASSUME NEW t \in Task, RevokeLog(t)
      PROVE  Bookkeeping'
  BY <1>9 DEF RevokeLog, Return, Idle
<1>10. CASE Wake
  BY <1>10, IdAssumption DEF Wake
<1>11. CASE SkipSignal
  BY <1>11 DEF SkipSignal
<1>12. CASE SweepCommand
  BY <1>12 DEF SweepCommand, Outcome
<1>13. CASE SweepLog
  BY <1>13 DEF SweepLog
<1>14. CASE SweepClear
  BY <1>14 DEF SweepClear, Listening
<1>15. CASE Notify
  BY <1>15 DEF Notify, taskVars
<1>16. CASE Tick
  BY <1>16 DEF Tick, taskVars
<1>17. CASE Restart
  BY <1>17 DEF Restart, Idle, Listening
<1>18. ASSUME NEW d \in ValidId, Unplug(d)
       PROVE  Bookkeeping'
  BY <1>18 DEF Unplug
<1>19. CASE UNCHANGED vars
  BY <1>19 DEF vars
<1>20. QED
  BY <1>1, <1>2, <1>3, <1>4, <1>5, <1>6, <1>7, <1>8, <1>9, <1>10, <1>11, <1>12,
     <1>13, <1>14, <1>15, <1>16, <1>17, <1>18, <1>19
  DEF Next, Accept, Serve, Listener, Environment

\* The daemon loses track of an approval in the three known ways only.
THEOREM ApprovalsAccountedFor == Spec => []ApprovalAccountedFor
<1>1. Bookkeeping => ApprovalAccountedFor
  BY DEF Bookkeeping
<1>2. QED
  BY InitTyped, NextTyped, InitBookkeeping, NextBookkeeping, <1>1, PTL DEF Spec

\* A sweep revokes everything that was tracked when it began.
THEOREM SweepsComplete == Spec => []SweepComplete
<1>1. Bookkeeping => SweepComplete
  BY DEF Bookkeeping
<1>2. QED
  BY InitTyped, NextTyped, InitBookkeeping, NextBookkeeping, <1>1, PTL DEF Spec

-----------------------------------------------------------------------------

\* The map has forgotten d, which is out or in a known way lost.
Settled(d) == ~Tracked(d) /\ (d \in authorised => d \in strayed)

\* Only the end of a sweep and the end of the daemon make the map forget a
\* device, and neither forgets one that is inside and not known to be lost.
LEMMA ForgetsSettled ==
  ASSUME Typed, Bookkeeping, [Next]_vars, NEW d \in ValidId, Tracked(d)
  PROVE  /\ Tracked(d)' \/ Settled(d)'
         /\ SweepClear \/ Restart => Settled(d)'
<1>1. d \in Id /\ ephemeral \in [Id -> Nat \cup {Absent}] /\ ephemeral[d] # Absent
  BY IdAssumption DEF Typed, TypeOK, Tracked
<1>2. ASSUME SweepClear PROVE Settled(d)'
  <2>1. ephemeral'[d] = Absent /\ strayed' = strayed \cup (late \cap authorised)
        /\ UNCHANGED authorised
    BY <1>1, <1>2 DEF SweepClear
  <2>2. d \in authorised => d \in late
    BY <1>2 DEF SweepClear, Bookkeeping, SweepComplete, Sweeping
  <2>3. QED
    BY <2>1, <2>2 DEF Settled, Tracked
<1>3. ASSUME Restart PROVE Settled(d)'
  BY <1>1, <1>3 DEF Restart, Settled, Tracked
<1>4. ASSUME NEW t \in Task, Track(t)
      PROVE  Tracked(d)'
  <2>1. now + call[t].ttl \in Nat /\ Absent \notin Nat
    BY DEF Typed, TypeOK, Absent
  <2>2. ephemeral' = [ephemeral EXCEPT ![call[t].id] = now + call[t].ttl]
    BY <1>4 DEF Track
  <2>3. QED
    BY <1>1, <2>1, <2>2 DEF Tracked
<1>5. UNCHANGED ephemeral => Tracked(d)'
  BY <1>1 DEF Tracked
<1>6. SweepClear \/ Restart \/ (\E t \in Task : Track(t)) \/ UNCHANGED ephemeral
  <2>1. ASSUME NEW t \in Task, Accept(t) PROVE UNCHANGED ephemeral
    BY <2>1 DEF Accept, RejectAllow, BeginAllow, RejectRevoke, BeginRevoke
  <2>2. ASSUME NEW t \in Task, Serve(t) PROVE Track(t) \/ UNCHANGED ephemeral
    <3>1. AllowCommand(t) => UNCHANGED ephemeral
      BY DEF AllowCommand
    <3>2. AllowLog(t) \/ RevokeCommand(t) \/ RevokeLog(t) => UNCHANGED ephemeral
      BY DEF AllowLog, RevokeCommand, RevokeLog
    <3>3. QED
      BY <2>2, <3>1, <3>2 DEF Serve
  <2>3. Listener => SweepClear \/ UNCHANGED ephemeral
    BY DEF Listener, Wake, SkipSignal, SweepCommand, SweepLog
  <2>4. Environment => Restart \/ UNCHANGED ephemeral
    BY DEF Environment, Notify, Tick, Unplug, taskVars
  <2>5. QED
    BY <2>1, <2>2, <2>3, <2>4 DEF Next, vars
<1>7. SweepClear \/ Restart => Settled(d)'
  BY <1>2, <1>3
<1>8. QED
  BY <1>4, <1>5, <1>6, <1>7

\* Once it has begun, a sweep is ended by its clear() or with the daemon.
LEMMA SweepEndsClear ==
  ASSUME Typed, [Next]_vars
  PROVE  /\ Wake => Sweeping'
         /\ Sweeping /\ ~Sweeping' => SweepClear \/ Restart
<1>1. Wake => Sweeping'
  BY DEF Wake, Sweeping
<1>2. SweepCommand \/ SweepLog => Sweeping'
  <2>1. sweep \in [step : {"listen", "sweep", "log"}, todo : SUBSET Id, cur : Id \cup {None}]
    BY DEF Typed, TypeOK
  <2>2. SweepCommand => Sweeping'
    BY DEF SweepCommand, Sweeping
  <2>3. SweepLog => Sweeping'
    BY <2>1 DEF SweepLog, Sweeping
  <2>4. QED
    BY <2>2, <2>3
<1>3. SkipSignal => UNCHANGED sweep
  BY DEF SkipSignal
<1>4. ASSUME NEW t \in Task, Accept(t) \/ Serve(t) PROVE UNCHANGED sweep
  <2>1. Accept(t) => UNCHANGED sweep
    BY DEF Accept, RejectAllow, BeginAllow, RejectRevoke, BeginRevoke
  <2>2. AllowCommand(t) \/ AllowLog(t) \/ Track(t) => UNCHANGED sweep
    BY DEF AllowCommand, AllowLog, Track
  <2>3. RevokeCommand(t) \/ RevokeLog(t) => UNCHANGED sweep
    BY DEF RevokeCommand, RevokeLog
  <2>4. QED
    BY <1>4, <2>1, <2>2, <2>3 DEF Serve
<1>5. Environment => Restart \/ UNCHANGED sweep
  BY DEF Environment, Notify, Tick, Unplug
<1>6. UNCHANGED sweep => Sweeping' = Sweeping
  BY DEF Sweeping
<1>7. QED
  BY <1>1, <1>2, <1>3, <1>4, <1>5, <1>6 DEF Next, Listener, vars

\* The listener reads the suspend signals that are in its queue, and a sweep
\* ends, unless the daemon dies: a matter of tokio and of usbguard's commands.
SignalsAreRead == [](SleepQueued => <><<Wake \/ Restart>>_vars)

SweepsEnd == [](Sweeping => <>~Sweeping)

LEMMA SuspendSettles ==
  ASSUME NEW d \in ValidId
  PROVE  Spec /\ SignalsAreRead /\ SweepsEnd => (SleepQueued /\ Tracked(d) ~> Settled(d))
<1>1. Typed /\ Bookkeeping /\ [Next]_vars /\ Tracked(d) => Tracked(d)' \/ Settled(d)'
  BY ForgetsSettled
<1>2. Typed /\ Bookkeeping /\ [Next]_vars /\ Tracked(d) /\ Restart => Settled(d)'
  BY ForgetsSettled
<1>3. Typed /\ Bookkeeping /\ [Next]_vars /\ Tracked(d) /\ Sweeping /\ ~Sweeping' => Settled(d)'
  BY ForgetsSettled, SweepEndsClear
<1>4. Typed /\ [Next]_vars /\ Wake => Sweeping'
  BY SweepEndsClear
<1>5. QED
  BY InitTyped, NextTyped, InitBookkeeping, NextBookkeeping, <1>1, <1>2, <1>3, <1>4, PTL
  DEF Spec, SignalsAreRead, SweepsEnd

\* If suspend signals are read and sweeps end, a suspend ends the approvals of
\* the devices that were tracked when it came, whatever calls and crashes come
\* in between.
THEOREM ServedSuspendsSweep == Spec /\ SignalsAreRead /\ SweepsEnd => SuspendSweeps
  BY SuspendSettles DEF SuspendSweeps, Settled

-----------------------------------------------------------------------------

\* GrantAudited, with why it is preserved: where a revocation is still to be
\* recorded, a device that is inside again is known to be in doubt.
GrantsTold == GrantAudited /\ \A d \in authorised : Owed(d) => d \in doubtful

LEMMA InitGrantsTold == Init => GrantsTold
  BY DEF Init, GrantsTold, GrantAudited

\* A step that lets nothing in, records nothing and neither settles doubts nor
\* forgets what calls and sweep have to record changes nothing of this.
LEMMA NothingToTell ==
  ASSUME GrantsTold, authorised' \subseteq authorised, doubtful \subseteq doubtful',
         UNCHANGED audit,
         \A t \in Task, d \in authorised : Unlogged(t, d) => Unlogged(t, d)' \/ d \in doubtful',
         \A d \in authorised' : Owed(d)' => Owed(d) \/ d \in doubtful'
  PROVE  GrantsTold'
  BY DEF GrantsTold, GrantAudited, Logged

\* So does an entry on the end of an access, which is only written when the
\* device is outside or known to be in doubt.
LEMMA EndTold ==
  ASSUME Typed, GrantsTold, NEW d \in Id, NEW action \in AuditAction,
         NEW written \in BOOLEAN, Record(d, action, written),
         action \in Verdict => Owed(d), action # "allow_ok",
         UNCHANGED <<authorised, doubtful>>,
         \A t \in Task, e \in authorised : Unlogged(t, e) => Unlogged(t, e)',
         \A e \in authorised : Owed(e)' => Owed(e)
  PROVE  GrantsTold'
<1>1. audit \in AuditType
  BY DEF Typed, TypeOK, AuditType
<1>2. /\ \A e \in Id \ {d} : audit'[e] = audit[e]
      /\ audit'[d].verdict = IF written /\ action \in Verdict THEN action ELSE audit[d].verdict
  BY <1>1, RecordTyped
<1>3. SUFFICES ASSUME NEW e \in authorised
               PROVE  Logged(e)' \/ (\E t \in Task : Unlogged(t, e)') \/ e \in doubtful
  BY DEF GrantsTold, GrantAudited
<1>4. Logged(e) \/ (\E t \in Task : Unlogged(t, e)) \/ e \in doubtful
  BY DEF GrantsTold, GrantAudited
<1>5. CASE e = d /\ action \in Verdict
  BY <1>5 DEF GrantsTold
<1>6. CASE e # d \/ action \notin Verdict
  <2>1. e \in Id
    BY IdAssumption DEF Typed, TypeOK
  <2>2. Logged(e) => Logged(e)'
    BY <1>2, <1>6, <2>1 DEF Logged
  <2>3. QED
    BY <1>4, <2>2
<1>7. QED
  BY <1>5, <1>6

LEMMA NextGrantsTold == Typed /\ GrantsTold /\ [Next]_vars => GrantsTold'
<1> SUFFICES ASSUME Typed, GrantsTold, [Next]_vars
             PROVE  GrantsTold'
  OBVIOUS
<1> USE DEF Typed, TypeOK
<1>0. Written \subseteq BOOLEAN /\ Outcome \subseteq BOOLEAN
  BY DEF Written, Outcome
<1>1. ASSUME NEW t \in Task, RejectAllow(t)
      PROVE  GrantsTold'
  <2>1. PICK d \in Id, written \in BOOLEAN : Record(d, "allow_invalid", written)
    BY <1>0, <1>1 DEF RejectAllow
  <2>2. \A u, e : Unlogged(u, e)' = Unlogged(u, e) /\ Owed(e)' = Owed(e)
    BY <1>1 DEF RejectAllow, Unlogged, Owed
  <2>3. QED
    BY <1>1, <2>1, <2>2, EndTold DEF RejectAllow, AuditAction, Verdict
<1>2. ASSUME NEW t \in Task, BeginAllow(t) \/ BeginRevoke(t)
      PROVE  GrantsTold'
  <2>1. /\ \A u \in Task \ {t} : call'[u] = call[u]
        /\ call[t].step = "idle" /\ call'[t].step \in {"allow_cmd", "revoke_cmd"}
        /\ UNCHANGED <<authorised, audit, doubtful, sweep>>
    BY <1>2 DEF BeginAllow, BeginRevoke
  <2>2. /\ \A u \in Task, e \in authorised : Unlogged(u, e) => Unlogged(u, e)'
        /\ \A e \in authorised : Owed(e)' => Owed(e)
    BY <2>1 DEF Unlogged, Owed
  <2>3. QED
    BY <2>1, <2>2, NothingToTell
<1>3. ASSUME NEW t \in Task, AllowCommand(t)
      PROVE  GrantsTold'
  <2>1. PICK ok \in BOOLEAN :
          /\ call' = [call EXCEPT ![t] = [call[t] EXCEPT !.step = "allow_log", !.ok = ok]]
          /\ authorised' = IF ok THEN authorised \cup {call[t].id} ELSE authorised
          /\ doubtful' = IF ~ok THEN doubtful
                         ELSE IF Owed(call[t].id) THEN doubtful \cup {call[t].id}
                         ELSE doubtful \ {call[t].id}
    BY <1>0, <1>3 DEF AllowCommand
  <2>2. /\ \A u \in Task \ {t} : call'[u] = call[u]
        /\ call[t].step = "allow_cmd" /\ call'[t].step = "allow_log"
        /\ call'[t].id = call[t].id
        /\ UNCHANGED <<audit, sweep>>
    BY <1>3, <2>1 DEF AllowCommand
  <2>3. ASSUME ok PROVE Unlogged(t, call[t].id)'
    <3>1. call'[t].ok
      BY <2>1, <2>3
    <3>2. QED
      BY <2>2, <3>1 DEF Unlogged
  <2>4. /\ \A u \in Task, e \in authorised : Unlogged(u, e) => Unlogged(u, e)'
        /\ \A e : Owed(e)' => Owed(e)
    BY <2>2 DEF Unlogged, Owed
  <2>5. CASE ~ok
    BY <2>1, <2>2, <2>4, <2>5, NothingToTell
  <2>6. CASE ok
    <3>1. \A e \in authorised' : e = call[t].id \/ (e \in authorised /\ (e \in doubtful <=> e \in doubtful'))
      BY <2>1, <2>6
    <3>2. call[t].id \in doubtful' <=> Owed(call[t].id)
      BY <2>1, <2>6
    <3>3. \A e \in authorised' : Owed(e)' => e \in doubtful'
      BY <2>4, <3>1, <3>2 DEF GrantsTold
    <3>4. \A e \in authorised' : Logged(e)' \/ (\E u \in Task : Unlogged(u, e)') \/ e \in doubtful'
      BY <2>2, <2>3, <2>4, <2>6, <3>1 DEF GrantsTold, GrantAudited, Logged
    <3>5. QED
      BY <3>3, <3>4 DEF GrantsTold, GrantAudited
  <2>7. QED
    BY <2>5, <2>6
<1>4. ASSUME NEW t \in Task, AllowLog(t)
      PROVE  GrantsTold'
  <2>0. PICK d : d = call[t].id
    OBVIOUS
  <2>1. PICK written \in BOOLEAN :
          /\ Record(d, IF call[t].ok THEN "allow_ok" ELSE "allow_fail", written)
          /\ doubtful' = IF call[t].ok /\ ~written THEN doubtful \cup {d} ELSE doubtful
    BY <1>0, <1>4, <2>0 DEF AllowLog
  <2>2. /\ \A u \in Task \ {t} : call'[u] = call[u]
        /\ call[t].step = "allow_log" /\ call'[t].step \in {"track", "idle"}
        /\ d \in Id
        /\ UNCHANGED <<authorised, sweep>>
    BY <1>4, <2>0, IdAssumption DEF AllowLog, Return, Idle, CallsValid
  <2>3. /\ \A u \in Task \ {t} : \A e : Unlogged(u, e) => Unlogged(u, e)'
        /\ \A e : Owed(e)' => Owed(e)
    BY <2>2 DEF Unlogged, Owed
  <2>4. CASE ~call[t].ok
    <3>1. Record(d, "allow_fail", written) /\ UNCHANGED doubtful
      BY <2>1, <2>4
    <3>2. \A u \in Task, e \in authorised : Unlogged(u, e) => Unlogged(u, e)'
      BY <2>3, <2>4 DEF Unlogged
    <3>3. QED
      BY <2>2, <2>3, <3>1, <3>2, EndTold DEF AuditAction, Verdict
  <2>5. CASE call[t].ok
    <3>1. Record(d, "allow_ok", written)
      BY <2>1, <2>5
    <3>2. audit \in AuditType
      BY DEF AuditType
    <3>3. /\ \A e \in Id \ {d} : audit'[e] = audit[e]
          /\ audit'[d].verdict = IF written THEN "allow_ok" ELSE audit[d].verdict
      BY <2>2, <3>1, <3>2, RecordTyped DEF AuditAction, Verdict
    <3>4. \A e \in Id : e # d => (Unlogged(t, e) => FALSE) /\ (Logged(e) => Logged(e)')
      BY <2>0, <3>3 DEF Unlogged, Logged
    <3>5. Logged(d)' \/ d \in doubtful'
      BY <2>1, <2>5, <3>3 DEF Logged
    <3>6. authorised \subseteq Id /\ doubtful \subseteq doubtful'
      BY <2>1, IdAssumption
    <3>7. \A e \in authorised : Logged(e)' \/ (\E u \in Task : Unlogged(u, e)') \/ e \in doubtful'
      BY <2>3, <3>4, <3>5, <3>6 DEF GrantsTold, GrantAudited
    <3>8. QED
      BY <2>2, <2>3, <3>6, <3>7 DEF GrantsTold, GrantAudited
  <2>6. QED
    BY <2>4, <2>5
<1>5. ASSUME NEW t \in Task, Track(t)
      PROVE  GrantsTold'
  <2>1. /\ \A u \in Task \ {t} : call'[u] = call[u]
        /\ call[t].step = "track" /\ call'[t].step = "idle"
        /\ UNCHANGED <<authorised, audit, doubtful, sweep>>
    BY <1>5 DEF Track, Return, Idle
  <2>2. /\ \A u \in Task, e \in authorised : Unlogged(u, e) => Unlogged(u, e)'
        /\ \A e \in authorised : Owed(e)' => Owed(e)
    BY <2>1 DEF Unlogged, Owed
  <2>3. QED
    BY <2>1, <2>2, NothingToTell
<1>6. ASSUME NEW t \in Task, RejectRevoke(t)
      PROVE  GrantsTold'
  <2>1. PICK d \in Id, written \in BOOLEAN : Record(d, "revoke_invalid", written)
    BY <1>0, <1>6 DEF RejectRevoke
  <2>2. \A u, e : Unlogged(u, e)' = Unlogged(u, e) /\ Owed(e)' = Owed(e)
    BY <1>6 DEF RejectRevoke, Unlogged, Owed
  <2>3. QED
    BY <1>6, <2>1, <2>2, EndTold DEF RejectRevoke, AuditAction, Verdict
<1>7. ASSUME NEW t \in Task, RevokeCommand(t)
      PROVE  GrantsTold'
  <2>1. PICK ok \in BOOLEAN :
          /\ call' = [call EXCEPT ![t] = [call[t] EXCEPT !.step = "revoke_log", !.ok = ok]]
          /\ authorised' = IF ok THEN authorised \ {call[t].id} ELSE authorised
    BY <1>0, <1>7 DEF RevokeCommand
  <2>2. /\ \A u \in Task \ {t} : call'[u] = call[u]
        /\ call[t].step = "revoke_cmd" /\ call'[t].id = call[t].id
        /\ call'[t].step = "revoke_log"
        /\ UNCHANGED <<audit, doubtful, sweep>>
    BY <1>7, <2>1 DEF RevokeCommand
  <2>3. call'[t].ok => call[t].id \notin authorised'
    BY <2>1
  <2>4. \A u \in Task, e \in authorised : Unlogged(u, e) => Unlogged(u, e)'
    BY <2>2 DEF Unlogged
  <2>5. \A e \in authorised' : Owed(e)' => Owed(e)
    BY <2>2, <2>3 DEF Owed
  <2>6. QED
    BY <2>1, <2>2, <2>4, <2>5, NothingToTell
<1>8. ASSUME NEW t \in Task, RevokeLog(t)
      PROVE  GrantsTold'
  <2>0. PICK d, action : d = call[t].id /\ action = IF call[t].ok THEN "revoke_ok" ELSE "revoke_fail"
    OBVIOUS
  <2>1. PICK written \in BOOLEAN : Record(d, action, written)
    BY <1>0, <1>8, <2>0 DEF RevokeLog
  <2>2. /\ \A u \in Task \ {t} : call'[u] = call[u]
        /\ call[t].step = "revoke_log" /\ call'[t].step = "idle"
        /\ d \in Id
        /\ UNCHANGED <<authorised, doubtful, sweep>>
    BY <1>8, <2>0, IdAssumption DEF RevokeLog, Return, Idle, CallsValid
  <2>3. /\ \A u \in Task, e \in authorised : Unlogged(u, e) => Unlogged(u, e)'
        /\ \A e \in authorised : Owed(e)' => Owed(e)
    BY <2>2 DEF Unlogged, Owed
  <2>4. action \in AuditAction /\ action # "allow_ok" /\ (action \in Verdict => Owed(d))
    BY <2>0, <2>2 DEF AuditAction, Verdict, Owed
  <2>5. QED
    BY <2>1, <2>2, <2>3, <2>4, EndTold
<1>9. CASE Wake
  <2>1. /\ \A u, e : Unlogged(u, e)' = Unlogged(u, e)
        /\ \A e : Owed(e)' => Owed(e)
    BY <1>9 DEF Wake, Unlogged, Owed
  <2>2. QED
    BY <1>9, <2>1, NothingToTell DEF Wake
<1>10. CASE SkipSignal
  BY <1>10, NothingToTell DEF SkipSignal, Unlogged, Owed
<1>11. CASE SweepCommand
  <2>1. PICK d \in sweep.todo, ok \in BOOLEAN :
          /\ sweep' = [step |-> "log", todo |-> sweep.todo \ {d}, cur |-> d]
          /\ authorised' = IF ok THEN authorised \ {d} ELSE authorised
          /\ doubtful' = IF ok THEN doubtful ELSE doubtful \cup {d}
    BY <1>0, <1>11 DEF SweepCommand
  <2>2. UNCHANGED <<audit, call>>
    BY <1>11 DEF SweepCommand
  <2>3. /\ \A u, e : Unlogged(u, e)' = Unlogged(u, e)
        /\ \A e \in authorised' : Owed(e)' => Owed(e) \/ e \in doubtful'
    BY <2>1, <2>2 DEF Unlogged, Owed
  <2>4. QED
    BY <2>1, <2>2, <2>3, NothingToTell
<1>12. CASE SweepLog
  <2>1. PICK written \in BOOLEAN : Record(sweep.cur, "auto_revoke", written)
    BY <1>0, <1>12 DEF SweepLog
  <2>2. sweep.step = "log" /\ sweep.cur \in Id /\ sweep'.step = "sweep"
        /\ UNCHANGED <<authorised, doubtful, call>>
    BY <1>12 DEF SweepLog, SweepValid
  <2>3. /\ \A u, e : Unlogged(u, e)' = Unlogged(u, e)
        /\ \A e : Owed(e)' => Owed(e)
    BY <2>2 DEF Unlogged, Owed
  <2>4. Owed(sweep.cur) /\ "auto_revoke" \in AuditAction
    BY <2>2 DEF Owed, AuditAction
  <2>5. QED
    BY <2>1, <2>2, <2>3, <2>4, EndTold
<1>13. CASE SweepClear
  <2>1. /\ \A u, e : Unlogged(u, e)' = Unlogged(u, e)
        /\ \A e : Owed(e)' => Owed(e)
    BY <1>13 DEF SweepClear, Listening, Unlogged, Owed
  <2>2. QED
    BY <1>13, <2>1, NothingToTell DEF SweepClear
<1>14. CASE Notify \/ Tick
  <2>1. /\ \A u, e : Unlogged(u, e)' = Unlogged(u, e)
        /\ \A e : Owed(e)' => Owed(e)
    BY <1>14 DEF Notify, Tick, taskVars, Unlogged, Owed
  <2>2. QED
    BY <1>14, <2>1, NothingToTell DEF Notify, Tick, taskVars
<1>15. CASE Restart
  <2>1. /\ \A t \in Task, d \in authorised : Unlogged(t, d) => d \in doubtful'
        /\ \A d : ~Owed(d)'
    BY <1>15 DEF Restart, Idle, Listening, Owed
  <2>2. QED
    BY <1>15, <2>1, NothingToTell DEF Restart
<1>16. ASSUME NEW d \in ValidId, Unplug(d)
       PROVE  GrantsTold'
  <2>1. /\ \A u, e : Unlogged(u, e)' = Unlogged(u, e)
        /\ \A e : Owed(e)' => Owed(e)
    BY <1>16 DEF Unplug, Unlogged, Owed
  <2>2. QED
    BY <1>16, <2>1, NothingToTell DEF Unplug
<1>17. CASE UNCHANGED vars
  BY <1>17, NothingToTell DEF vars, Unlogged, Owed
<1>18. QED
  BY <1>1, <1>2, <1>3, <1>4, <1>5, <1>6, <1>7, <1>8, <1>9, <1>10, <1>11, <1>12,
     <1>13, <1>14, <1>15, <1>16, <1>17
  DEF Next, Accept, Serve, Listener, Environment

\* The log's last word on a device that is inside is its grant, or the grant
\* is about to be recorded, but for the four reasons of GrantAudited: whatever
\* fails and however often the daemon dies.
THEOREM GrantsAudited == Spec => []GrantAudited
<1>1. GrantsTold => GrantAudited
  BY DEF GrantsTold
<1>2. QED
  BY InitTyped, NextTyped, InitGrantsTold, NextGrantsTold, <1>1, PTL DEF Spec

-----------------------------------------------------------------------------

LEMMA InitGate == Init => Gate!GateInit
  BY DEF Init, Gate!GateInit, asked, Idle

LEMMA NextGate == Typed /\ [Next]_vars => [Gate!GateNext]_Gate!gateVars
<1> SUFFICES ASSUME Typed, [Next]_vars
             PROVE  Gate!GateNext \/ UNCHANGED <<authorised, asked>>
  BY DEF Gate!gateVars
<1> USE DEF Typed, TypeOK, asked
<1>1. ASSUME NEW t \in Task, BeginAllow(t)
      PROVE  Gate!GateNext
  <2>1. PICK d \in ValidId, n \in Ttl :
          call' = [call EXCEPT ![t] = [step |-> "allow_cmd", id |-> d, ttl |-> n, ok |-> FALSE]]
    BY <1>1 DEF BeginAllow, ValidRequest
  <2>2. asked[t] = None /\ asked' = [asked EXCEPT ![t] = d] /\ UNCHANGED authorised
    BY <1>1, <2>1 DEF BeginAllow
  <2>3. Gate!Submit(t, d)
    BY <2>2 DEF Gate!Submit
  <2>4. QED
    BY <2>3 DEF Gate!GateNext
<1>2. ASSUME NEW t \in Task, AllowCommand(t)
      PROVE  Gate!GateNext
  <2>1. PICK ok \in BOOLEAN :
          /\ call' = [call EXCEPT ![t] = [call[t] EXCEPT !.step = "allow_log", !.ok = ok]]
          /\ authorised' = IF ok THEN authorised \cup {call[t].id} ELSE authorised
    BY <1>2 DEF AllowCommand, Outcome
  <2>2. /\ asked[t] = call[t].id
        /\ asked[t] # None
    BY <1>2, IdAssumption DEF AllowCommand, CallsValid
  <2>3. asked' = [asked EXCEPT ![t] = None]
    <3>1. call'[t].step = "allow_log" /\ \A u \in Task \ {t} : call'[u] = call[u]
      BY <2>1
    <3>2. QED
      BY <3>1
  <2>4. Gate!Grant(t) \/ Gate!Refuse(t)
    BY <2>1, <2>2, <2>3 DEF Gate!Grant, Gate!Refuse
  <2>5. QED
    BY <2>4 DEF Gate!GateNext
<1>3. ASSUME NEW t \in Task, RejectAllow(t) \/ RejectRevoke(t)
      PROVE  UNCHANGED <<authorised, asked>>
  BY <1>3 DEF RejectAllow, RejectRevoke
<1>4. ASSUME NEW t \in Task, AllowLog(t) \/ Track(t) \/ BeginRevoke(t) \/ RevokeLog(t)
      PROVE  UNCHANGED <<authorised, asked>>
  <2>1. /\ \A u \in Task \ {t} : call'[u] = call[u]
        /\ call[t].step # "allow_cmd" /\ call'[t].step # "allow_cmd"
        /\ UNCHANGED authorised
    <3>1. AllowLog(t) => call[t].step = "allow_log" /\ UNCHANGED authorised
                          /\ (\/ call' = [call EXCEPT ![t] = [call[t] EXCEPT !.step = "track"]]
                              \/ call' = [call EXCEPT ![t] = Idle])
      BY DEF AllowLog, Return
    <3>2. CASE AllowLog(t)
      BY <3>1, <3>2 DEF Idle
    <3>3. CASE Track(t) \/ BeginRevoke(t) \/ RevokeLog(t)
      BY <3>3 DEF Track, BeginRevoke, RevokeLog, Return, Idle
    <3>4. QED
      BY <1>4, <3>2, <3>3
  <2>2. QED
    BY <2>1
<1>5. ASSUME NEW t \in Task, RevokeCommand(t)
      PROVE  Gate!GateNext \/ UNCHANGED <<authorised, asked>>
  <2>1. PICK ok \in BOOLEAN :
          /\ call' = [call EXCEPT ![t] = [call[t] EXCEPT !.step = "revoke_log", !.ok = ok]]
          /\ authorised' = IF ok THEN authorised \ {call[t].id} ELSE authorised
    BY <1>5 DEF RevokeCommand, Outcome
  <2>2. UNCHANGED asked /\ call[t].id \in ValidId
    BY <1>5, <2>1 DEF RevokeCommand, CallsValid
  <2>3. CASE ok
    BY <2>1, <2>2, <2>3 DEF Gate!GateNext, Gate!Withdraw
  <2>4. CASE ~ok
    BY <2>1, <2>2, <2>4
  <2>5. QED
    BY <2>3, <2>4
<1>6. CASE SweepCommand
  <2>1. PICK d \in Id, ok \in BOOLEAN :
          authorised' = IF ok THEN authorised \ {d} ELSE authorised
    BY <1>6 DEF SweepCommand, Outcome
  <2>2. UNCHANGED asked
    BY <1>6 DEF SweepCommand
  <2>3. CASE ok /\ d \in ValidId
    BY <2>1, <2>2, <2>3 DEF Gate!GateNext, Gate!Withdraw
  <2>4. CASE ~ok \/ d \notin ValidId
    BY <2>1, <2>2, <2>4
  <2>5. QED
    BY <2>3, <2>4
<1>7. CASE Wake \/ SkipSignal \/ SweepLog \/ SweepClear
  BY <1>7 DEF Wake, SkipSignal, SweepLog, SweepClear
<1>8. CASE Notify \/ Tick
  BY <1>8 DEF Notify, Tick, taskVars
<1>9. CASE Restart
  BY <1>9 DEF Restart, Idle, Gate!GateNext, Gate!Forget
<1>10. ASSUME NEW d \in ValidId, Unplug(d)
       PROVE  Gate!GateNext
  BY <1>10 DEF Unplug, Gate!GateNext, Gate!Withdraw
<1>11. CASE UNCHANGED vars
  BY <1>11 DEF vars
<1>12. QED
  BY <1>1, <1>2, <1>3, <1>4, <1>5, <1>6, <1>7, <1>8, <1>9, <1>10, <1>11
  DEF Next, Accept, Serve, Listener, Environment

\* The daemon implements the gate: whatever requests, sweeps, unplugging and
\* restarts interleave, a device passes only by a validated request of its own.
THEOREM ImplementsGate == Spec => OnlyRequestsOpenTheGate
  BY InitTyped, NextTyped, InitGate, NextGate, PTL
  DEF Spec, OnlyRequestsOpenTheGate, Gate!GateSpec
=============================================================================
