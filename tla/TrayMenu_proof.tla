---------------------------- MODULE TrayMenu_proof ----------------------------
(* Proofs about TrayMenu, for any number of devices, threads and ticks.    *)
EXTENDS TrayMenu, TLAPS

(* What a thread has captured is an id, one the daemon takes once a        *)
(* request is open, and the countdown was started for an id.               *)
Captured ==
  /\ \A t \in Thread : at[t] # "idle" => aim[t] \in Id
  /\ \A t \in Thread : at[t] = "asked" => aim[t] \in Device
  /\ approvalEnd # Off => counted \in Id

(* A firm revocation is on its way, and no approval of its device is.      *)
FirmAlone == \A t \in firm : at[t] = "revoke" /\ ~UnderWay(aim[t])

(* No approval of a device that was shut out for good is under way.        *)
ShutAlone == \A d \in shut : ~UnderWay(d)

IInv == TypeOK /\ Captured /\ CountdownAccountedFor /\ FirmAlone /\ ShutAlone /\ RevokeIsFinal

LEMMA InitInv == Init => IInv
  BY MenuAssumption DEF Init, IInv, TypeOK, Captured, CountdownAccountedFor, FirmAlone, ShutAlone,
     RevokeIsFinal, Client, Off

(* A click on "Approve", with or without the countdown.                    *)
LEMMA ApproveClicked ==
  ASSUME NEW t \in Thread, NEW d \in Id, IInv, at[t] \in {"idle", "notified"}, ClickApprove(t, d),
         UNCHANGED <<gate, lastSeen, label, menu, ttl>>,
         \/ UNCHANGED <<approvalEnd, counted>>
         \/ approvalEnd' \in Nat /\ counted' = d
  PROVE  IInv'
<1> USE DEF IInv
<1>1. TypeOK'
  BY MenuAssumption DEF TypeOK, ClickApprove, gate
<1>2. Captured'
  BY DEF TypeOK, ClickApprove, Captured
<1>3. CountdownAccountedFor'
  BY DEF TypeOK, Captured, ClickApprove, CountdownAccountedFor, Approving, gate
<1>4. FirmAlone'
  BY DEF TypeOK, ClickApprove, FirmAlone, UnderWay, Approving, gate
<1>5. ShutAlone' /\ RevokeIsFinal'
  BY DEF TypeOK, ClickApprove, ShutAlone, RevokeIsFinal, UnderWay, Approving, gate
<1> QED BY <1>1, <1>2, <1>3, <1>4, <1>5

(* A click on one of the buttons that revoke.                              *)
LEMMA RevokeClicked ==
  ASSUME NEW t \in Thread, NEW d \in Id, IInv, at[t] \in {"idle", "notified"}, ClickRevoke(t, d),
         UNCHANGED <<gate, lastSeen, label, menu, ttl>>,
         \/ UNCHANGED <<approvalEnd, counted>>
         \/ approvalEnd' = Off /\ counted' = None
  PROVE  IInv'
<1> USE DEF IInv
<1>1. TypeOK'
  BY MenuAssumption DEF TypeOK, ClickRevoke, gate
<1>2. Captured'
  BY DEF TypeOK, ClickRevoke, Captured
<1>3. \A e : Approving(e)' <=> Approving(e)
  BY DEF TypeOK, ClickRevoke, Approving
<1>4. CountdownAccountedFor'
  BY <1>3 DEF TypeOK, ClickRevoke, CountdownAccountedFor, gate
<1>u. \A e : UnderWay(e)' <=> UnderWay(e)
  BY <1>3 DEF UnderWay, gate
<1>5. FirmAlone'
  <2> SUFFICES ASSUME NEW u \in firm'
               PROVE  at'[u] = "revoke" /\ ~UnderWay(aim[u])'
    BY DEF FirmAlone
  <2>0. UnderWay(aim[u])' <=> UnderWay(aim'[u])
    BY <1>u DEF UnderWay, Approving
  <2>1. CASE u = t
    BY <2>0, <2>1 DEF TypeOK, ClickRevoke, FirmAlone
  <2>2. CASE u # t
    BY <2>0, <2>2 DEF TypeOK, ClickRevoke, FirmAlone
  <2> QED BY <2>1, <2>2
<1>6. ShutAlone' /\ RevokeIsFinal'
  BY <1>u DEF TypeOK, ClickRevoke, ShutAlone, RevokeIsFinal, gate
<1> QED BY <1>1, <1>2, <1>4, <1>5, <1>6

(* The end of a thread: what it was to approve has been let in or failed.  *)
LEMMA Ended ==
  ASSUME NEW t \in Thread, IInv, at[t] # "idle", End(t), UNCHANGED <<ui, ttl>>,
         inside' \subseteq Device,
         open' = [open EXCEPT ![t] = None],
         failed' \subseteq Id, shut' \subseteq Id,
         inside \cup failed \subseteq inside' \cup failed',
         at[t] \in {"allow", "asked"} => aim[t] \in inside' \cup failed',
         shut' \cap inside' = {},
         \A d \in shut' : ~UnderWay(d)
  PROVE  IInv'
<1> USE DEF IInv
<1>1. TypeOK'
  BY MenuAssumption DEF TypeOK, End, Client, ui
<1>2. Captured'
  BY DEF TypeOK, End, Captured, ui
<1>3. \A e : Approving(e)' => Approving(e)
  BY DEF TypeOK, End, Approving
<1>4. \A e : Approving(e) => Approving(e)' \/ e \in inside' \cup failed'
  BY DEF TypeOK, End, Approving
<1>5. CountdownAccountedFor'
  BY <1>4 DEF TypeOK, CountdownAccountedFor, ui
<1>u. \A e : UnderWay(e)' => UnderWay(e)
  <2>1. \A c \in Others : open'[c] = open[c]
    BY MenuAssumption DEF TypeOK, Client
  <2> QED BY <1>3, <2>1 DEF UnderWay
<1>6. FirmAlone'
  BY <1>u DEF TypeOK, End, FirmAlone
<1>7. ShutAlone' /\ RevokeIsFinal'
  BY <1>u DEF ShutAlone, RevokeIsFinal
<1> QED BY <1>1, <1>2, <1>5, <1>6, <1>7

-----------------------------------------------------------------------------
LEMMA ClickInv == ASSUME NEW t \in Thread, IInv, Click(t) PROVE IInv'
<1>t. TypeOK /\ Captured
  BY DEF IInv
<1>1. CASE Approve(t)
  <2> ttl \in Nat
    BY <1>t, MenuAssumption DEF TypeOK
  <2> QED BY <1>1, <1>t, ApproveClicked, lastSeen \in Id DEF Approve, TypeOK
<1>2. CASE RevokeNow(t)
  BY <1>2, <1>t, RevokeClicked DEF RevokeNow, TypeOK
<1>3. CASE RevokeLast(t)
  BY <1>3, <1>t, RevokeClicked DEF RevokeLast, TypeOK, ui
<1>4. CASE NotifyApprove(t)
  BY <1>4, <1>t, ApproveClicked DEF NotifyApprove, Captured, ui
<1>5. CASE NotifyRevoke(t)
  BY <1>5, <1>t, RevokeClicked DEF NotifyRevoke, Captured, ui
<1>6. CASE NotifyClose(t)
  BY <1>6, Ended DEF NotifyClose, IInv, TypeOK, gate, RevokeIsFinal, ShutAlone
<1> QED BY <1>1, <1>2, <1>3, <1>4, <1>5, <1>6 DEF Click

LEMMA ProceedInv == ASSUME NEW t \in Thread, IInv, Proceed(t) PROVE IInv'
<1>t. TypeOK /\ Captured /\ RevokeIsFinal /\ ShutAlone /\ FirmAlone
  BY DEF IInv
<1>a. at[t] \in {"allow", "asked"} => UnderWay(aim[t])
  BY DEF UnderWay, Approving
<1>1. CASE Ask(t)
  <2>1. /\ at[t] = "allow" /\ aim[t] \in Device
        /\ open' = [open EXCEPT ![t] = aim[t]] /\ at' = [at EXCEPT ![t] = "asked"]
        /\ UNCHANGED <<aim, firm, inside, ui, ttl, failed, shut>>
    BY <1>1 DEF Ask, ValidRequest, Daemon!Submit
  <2>2. \A e : Approving(e)' <=> Approving(e)
    BY <2>1, <1>t DEF TypeOK, Approving
  <2>u. \A e : UnderWay(e)' <=> UnderWay(e)
    <3>1. \A c \in Others : open'[c] = open[c]
      BY <2>1, <1>t, MenuAssumption DEF TypeOK, Client
    <3> QED BY <2>2, <3>1 DEF UnderWay
  <2>3. TypeOK' /\ Captured'
    BY <2>1, <1>t, MenuAssumption DEF TypeOK, Captured, Client, ui
  <2>4. CountdownAccountedFor' /\ ShutAlone' /\ RevokeIsFinal'
    BY <2>1, <2>2, <2>u, <1>t DEF IInv, CountdownAccountedFor, ShutAlone, RevokeIsFinal, ui
  <2>5. FirmAlone'
    BY <2>1, <2>u, <1>t DEF TypeOK, FirmAlone
  <2> QED BY <2>3, <2>4, <2>5 DEF IInv
<1>2. CASE AskInVain(t)
  BY <1>2, <1>t, Ended DEF AskInVain, TypeOK, Captured, gate, RevokeIsFinal, ShutAlone
<1>3. CASE Granted(t)
  BY <1>3, <1>t, <1>a, Ended DEF Granted, Daemon!Grant, TypeOK, Captured, RevokeIsFinal, ShutAlone
<1>4. CASE Refused(t)
  BY <1>4, <1>t, Ended DEF Refused, Daemon!Refuse, TypeOK, Captured, RevokeIsFinal, ShutAlone
<1>5. CASE Revoked(t)
  BY <1>5, <1>t, Ended DEF Revoked, Daemon!Withdraw, TypeOK, Captured, RevokeIsFinal, ShutAlone, FirmAlone
<1>6. CASE RevokeInVain(t)
  BY <1>6, <1>t, Ended DEF RevokeInVain, TypeOK, gate, RevokeIsFinal, ShutAlone
<1> QED BY <1>1, <1>2, <1>3, <1>4, <1>5, <1>6 DEF Proceed

(* The rest of the tray, and what others do to the daemon.                 *)
LEMMA RestInv ==
  ASSUME IInv,
         \/ Refresh \/ Quit \/ Tick \/ UNCHANGED vars
         \/ \E d \in Id : Inserted(d) \/ Removed(d)
  PROVE  IInv'
<1>t. TypeOK /\ Captured
  BY DEF IInv
<1>0. /\ UNCHANGED <<inside, open, counted, ttl, firm, failed, shut>>
      /\ approvalEnd' = approvalEnd \/ Tick
  BY DEF Refresh, Quit, Tick, Inserted, Removed, vars, gate, ui, threads
<1>1. /\ UNCHANGED <<inside, open, counted, ttl, firm, failed, shut>>
      /\ approvalEnd' \in Nat \cup {Off} /\ (approvalEnd' # Off <=> approvalEnd # Off)
      /\ lastSeen' \in Id \cup {None} /\ label' \in {"--", "counting", "expired"}
      /\ menu' \in BOOLEAN
  <2>1. CASE Refresh
    BY <2>1, <1>0, <1>t DEF Refresh, TypeOK
  <2>2. CASE Quit
    BY <2>2, <1>0, <1>t DEF Quit, TypeOK
  <2>3. CASE Tick
    BY <2>3, <1>0, <1>t DEF Tick, TypeOK, Off
  <2>4. CASE \E d \in Id : Inserted(d) \/ Removed(d)
    BY <2>4, <1>0, <1>t DEF Inserted, Removed, TypeOK
  <2>5. CASE UNCHANGED vars
    BY <2>5, <1>0, <1>t DEF vars, TypeOK, ui
  <2> QED BY <2>1, <2>2, <2>3, <2>4, <2>5
<1>2. \/ UNCHANGED <<at, aim>>
      \/ \E t \in Thread, d \in Id : /\ at[t] = "idle"
                                    /\ at' = [at EXCEPT ![t] = "notified"]
                                    /\ aim' = [aim EXCEPT ![t] = d]
  BY DEF Refresh, Quit, Tick, Inserted, Removed, vars, threads
<1>3. \A e : Approving(e)' <=> Approving(e)
  BY <1>2, <1>t DEF TypeOK, Approving
<1>u. \A e : UnderWay(e)' <=> UnderWay(e)
  BY <1>1, <1>3 DEF UnderWay
<1>4. TypeOK'
  BY <1>1, <1>2, <1>t DEF TypeOK
<1>5. Captured'
  BY <1>1, <1>2, <1>t DEF TypeOK, Captured
<1>6. CountdownAccountedFor' /\ ShutAlone' /\ RevokeIsFinal'
  BY <1>1, <1>3, <1>u DEF IInv, CountdownAccountedFor, ShutAlone, RevokeIsFinal
<1>7. FirmAlone'
  BY <1>1, <1>2, <1>u, <1>t DEF IInv, TypeOK, FirmAlone
<1> QED BY <1>4, <1>5, <1>6, <1>7 DEF IInv

LEMMA OthersInv ==
  ASSUME IInv,
         \/ DaemonRestart
         \/ \E d \in Device : Elsewhere(d) \/ \E c \in Others : OtherAsks(c, d)
         \/ \E c \in Others : OtherGranted(c) \/ OtherRefused(c)
  PROVE  IInv'
<1>t. TypeOK /\ Captured
  BY DEF IInv
<1>1. CASE DaemonRestart
  <2> DEFINE asked == {t \in Thread : at[t] = "asked"}
  <2>1. /\ open' = [c \in Client |-> None]
        /\ at' = [t \in Thread |-> IF t \in asked THEN "idle" ELSE at[t]]
        /\ aim' = [t \in Thread |-> IF t \in asked THEN None ELSE aim[t]]
        /\ failed' = failed \cup {aim[t] : t \in asked}
        /\ UNCHANGED <<inside, ui, firm, ttl, shut>>
    BY <1>1 DEF DaemonRestart, Daemon!Forget
  <2>u. \A e \in Id : UnderWay(e)' => UnderWay(e)
    BY <2>1, <1>t, MenuAssumption DEF TypeOK, UnderWay, Approving, Client
  <2>2. TypeOK'
    BY <2>1, <1>t, MenuAssumption DEF TypeOK, Captured, Client, ui
  <2>3. Captured'
    BY <2>1, <1>t DEF TypeOK, Captured, ui
  <2>5. \A e : Approving(e) => Approving(e)' \/ e \in failed'
    BY <2>1, <1>t DEF TypeOK, Approving
  <2>6. CountdownAccountedFor' /\ ShutAlone' /\ RevokeIsFinal'
    BY <2>1, <2>u, <2>5, <1>t DEF IInv, TypeOK, CountdownAccountedFor, ShutAlone, RevokeIsFinal, ui
  <2>7. FirmAlone'
    <3> \A t \in firm : t \notin asked
      BY DEF IInv, FirmAlone
    <3> QED BY <2>1, <2>u, <1>t DEF IInv, TypeOK, Captured, FirmAlone
  <2> QED BY <2>2, <2>3, <2>6, <2>7 DEF IInv
<1>2. ASSUME NEW d \in Device, Elsewhere(d) PROVE IInv'
  <2>1. /\ inside' = inside \ {d} /\ failed' = failed \cup {d}
        /\ UNCHANGED <<open, ui, threads, ttl, shut>>
    BY <1>2 DEF Elsewhere, Daemon!Withdraw
  <2>2. TypeOK' /\ Captured'
    BY <2>1, <1>t, MenuAssumption DEF TypeOK, Captured, ui, threads
  <2>3. CountdownAccountedFor' /\ ShutAlone' /\ RevokeIsFinal' /\ FirmAlone'
    BY <2>1 DEF IInv, CountdownAccountedFor, ShutAlone, RevokeIsFinal, FirmAlone, UnderWay,
       Approving, ui, threads
  <2> QED BY <2>2, <2>3 DEF IInv
<1>3. ASSUME NEW c \in Others, NEW d \in Device, OtherAsks(c, d) PROVE IInv'
  <2>1. /\ open' = [open EXCEPT ![c] = d]
        /\ firm' = {u \in firm : aim[u] # d} /\ shut' = shut \ {d}
        /\ UNCHANGED <<inside, ui, at, aim, ttl, failed>>
    BY <1>3 DEF OtherAsks, Daemon!Submit
  <2>2. \A e : e # d => (UnderWay(e)' => UnderWay(e))
    BY <2>1, <1>t DEF TypeOK, UnderWay, Approving
  <2>3. TypeOK' /\ Captured'
    BY <2>1, <1>t, MenuAssumption DEF TypeOK, Captured, Client, ui
  <2>4. CountdownAccountedFor' /\ ShutAlone' /\ RevokeIsFinal'
    BY <2>1, <2>2 DEF IInv, CountdownAccountedFor, ShutAlone, RevokeIsFinal, Approving, ui
  <2>5. FirmAlone'
    <3> SUFFICES ASSUME NEW u \in firm'
                 PROVE  at'[u] = "revoke" /\ ~UnderWay(aim[u])'
      BY DEF FirmAlone
    <3>1. u \in firm /\ aim[u] # d /\ aim'[u] = aim[u]
      BY <2>1
    <3>2. UnderWay(aim[u])' => UnderWay(aim[u])
      BY <2>1, <2>2, <3>1, <1>t DEF TypeOK, UnderWay, Approving
    <3> QED BY <2>1, <3>1, <3>2 DEF IInv, FirmAlone
  <2> QED BY <2>3, <2>4, <2>5 DEF IInv
<1>4. ASSUME NEW c \in Others, OtherGranted(c) \/ OtherRefused(c) PROVE IInv'
  <2>1. /\ open[c] # None /\ open[c] \in Device
        /\ open' = [open EXCEPT ![c] = None]
        /\ \/ inside' = inside \cup {open[c]} /\ failed' = failed \ {open[c]}
           \/ UNCHANGED <<inside, failed>>
        /\ UNCHANGED <<ui, threads, ttl, shut>>
    BY <1>4, <1>t DEF OtherGranted, OtherRefused, Daemon!Grant, Daemon!Refuse, TypeOK, Client
  <2>2. \A e \in Id : UnderWay(e)' => UnderWay(e)
    BY <2>1, <1>t, MenuAssumption DEF TypeOK, UnderWay, Approving, Client, threads
  <2>3. TypeOK' /\ Captured'
    BY <2>1, <1>t, MenuAssumption DEF TypeOK, Captured, Client, ui, threads
  <2>4. open[c] \notin shut
    BY <2>1 DEF IInv, ShutAlone, UnderWay
  <2>5. RevokeIsFinal'
    BY <2>1, <2>4 DEF IInv, RevokeIsFinal
  <2>6. CountdownAccountedFor'
    BY <2>1 DEF IInv, CountdownAccountedFor, Approving, ui, threads
  <2>7. ShutAlone'
    BY <2>1, <2>2, <1>t DEF IInv, TypeOK, ShutAlone
  <2>8. FirmAlone'
    <3> SUFFICES ASSUME NEW u \in firm
                 PROVE  ~UnderWay(aim[u])'
      BY <2>1 DEF IInv, FirmAlone, threads
    <3>1. aim[u] \in Id /\ aim'[u] = aim[u] /\ ~UnderWay(aim[u])
      BY <2>1, <1>t DEF IInv, FirmAlone, TypeOK, Captured, threads
    <3>2. UnderWay(aim[u])' => UnderWay(aim[u])
      BY <2>1, <3>1, <1>t, MenuAssumption DEF UnderWay, Approving, TypeOK, Client, threads
    <3> QED BY <3>1, <3>2
  <2> QED BY <2>3, <2>5, <2>6, <2>7, <2>8 DEF IInv
<1> QED BY <1>1, <1>2, <1>3, <1>4

(* The inductive invariant holds in every behaviour.                       *)
THEOREM Invariance == Spec => []IInv
<1>1. IInv /\ [Next]_vars => IInv'
  BY ClickInv, ProceedInv, RestInv, OthersInv DEF Next
<1> QED BY <1>1, InitInv, PTL DEF Spec

(* Every variable keeps its type, for any number of threads and devices.   *)
THEOREM TypeCorrect == Spec => []TypeOK
  BY Invariance, PTL DEF IInv

(* A running countdown always stands for an approval that was really asked *)
(* for: its device is inside, or its call is under way or has failed, or   *)
(* the approval was withdrawn.                                             *)
THEOREM CountdownAlwaysAccountedFor == Spec => []CountdownAccountedFor
  BY Invariance, PTL DEF IInv

(* A revocation clicked while no approval of its device was under way is   *)
(* never undone by a call that was clicked before it.                      *)
THEOREM RevocationsAreFinal == Spec => []RevokeIsFinal
  BY Invariance, PTL DEF IInv

-----------------------------------------------------------------------------
(* The part of the gate's requests that the tray makes.                    *)
waits == [t \in Thread |-> IF at[t] \in {"allow", "asked"} /\ aim[t] \in Device
                             THEN aim[t] ELSE None]

OthersWait == \A c \in Others : open'[c] = open[c]

LEMMA WantedWaits ==
  /\ \A t \in Thread : t \in Client /\ wanted[t] = waits[t]
  /\ \A c \in Others : c \in Client /\ c \notin Thread /\ wanted[c] = open[c]
  /\ OthersWait /\ waits' = waits => wanted' = wanted
  /\ \A t \in Thread : \A x : OthersWait /\ waits' = [waits EXCEPT ![t] = x] =>
                            wanted' = [wanted EXCEPT ![t] = x]
<1>1. \A t \in Thread : t \in Client /\ t \notin Others /\ wanted[t] = waits[t]
  BY MenuAssumption DEF wanted, waits, Client
<1>2. \A t \in Thread : wanted'[t] = waits'[t]
  BY MenuAssumption DEF wanted, waits, Client
<1>3. \A c \in Others : c \in Client /\ c \notin Thread /\ wanted[c] = open[c] /\ wanted'[c] = open'[c]
  BY MenuAssumption DEF wanted, Client
<1>4. /\ wanted = [c \in Client |-> wanted[c]] /\ wanted' = [c \in Client |-> wanted'[c]]
      /\ waits = [t \in Thread |-> waits[t]] /\ Client = Thread \cup Others
  BY DEF wanted, waits, Client
<1>5. OthersWait /\ waits' = waits => wanted' = wanted
  <2> SUFFICES ASSUME OthersWait, waits' = waits
               PROVE  \A c \in Client : wanted'[c] = wanted[c]
    BY <1>4
  <2> QED BY <1>1, <1>2, <1>3, <1>4 DEF OthersWait
<1>6. ASSUME NEW t \in Thread, NEW x, OthersWait, waits' = [waits EXCEPT ![t] = x]
      PROVE  wanted' = [wanted EXCEPT ![t] = x]
  <2>1. /\ \A u \in Thread : waits'[u] = IF u = t THEN x ELSE waits[u]
        /\ t \notin Others
    BY <1>1, <1>4, <1>6
  <2>2. \A c \in Client : wanted'[c] = IF c = t THEN x ELSE wanted[c]
    BY <1>1, <1>2, <1>3, <1>4, <1>6, <2>1 DEF OthersWait
  <2> QED BY <1>1, <1>4, <2>2
<1> QED BY <1>1, <1>3, <1>5, <1>6

(* Every step is a step of the gate whose requests are clicks and other    *)
(* clients' requests, or none.                                             *)
LEMMA StepOfClicks ==
  ASSUME IInv, [Next]_vars
  PROVE  [Clicks!GateNext]_Clicks!gateVars
<1>t. TypeOK /\ Captured
  BY DEF IInv
<1>n. None \notin Device /\ Thread \subseteq Client /\ Thread \cap Others = {}
  BY MenuAssumption DEF Client
<1>s. ASSUME UNCHANGED <<inside, waits>>, OthersWait PROVE [Clicks!GateNext]_Clicks!gateVars
  BY <1>s, WantedWaits DEF Clicks!gateVars
<1>o. \A t \in Thread : \A x : open' = [open EXCEPT ![t] = x] => OthersWait
  BY <1>t, <1>n DEF OthersWait, TypeOK, Client
<1>g. UNCHANGED open => OthersWait
  BY DEF OthersWait
<1>1. ASSUME NEW t \in Thread, Click(t) PROVE [Clicks!GateNext]_Clicks!gateVars
  <2>0. UNCHANGED <<inside, open>> /\ OthersWait
    BY <1>1, <1>g DEF Click, Approve, RevokeNow, RevokeLast, NotifyApprove, NotifyRevoke,
                      NotifyClose, gate
  <2>1. ASSUME NEW d \in Id, at[t] \in {"idle", "notified"}, ClickApprove(t, d)
        PROVE  [Clicks!GateNext]_Clicks!gateVars
    <3>1. CASE d \in Device
      <4>1. waits[t] = None /\ waits' = [waits EXCEPT ![t] = d]
        BY <2>1, <3>1, <1>t, <1>n DEF waits, ClickApprove, TypeOK
      <4>2. Clicks!Submit(t, d)
        BY <4>1, <2>0, WantedWaits DEF Clicks!Submit
      <4> QED BY <4>2, <3>1, <1>n DEF Clicks!GateNext
    <3>2. CASE d \notin Device
      <4>1. waits' = waits
        BY <2>1, <3>2, <1>t DEF waits, ClickApprove, TypeOK
      <4> QED BY <4>1, <2>0, <1>s
    <3> QED BY <3>1, <3>2
  <2>2. ASSUME at[t] \in {"idle", "notified"}, NEW x \in {"idle", "revoke"},
               at' = [at EXCEPT ![t] = x],
               NEW y, aim' = [aim EXCEPT ![t] = y]
        PROVE  [Clicks!GateNext]_Clicks!gateVars
    <3>1. waits' = waits
      BY <2>2, <1>t DEF waits, TypeOK
    <3> QED BY <3>1, <2>0, <1>s
  <2>3. CASE Approve(t)
    BY <2>1, <2>3, <1>t DEF Approve, TypeOK
  <2>4. CASE RevokeNow(t) \/ RevokeLast(t) \/ NotifyRevoke(t)
    BY <2>2, <2>4 DEF RevokeNow, RevokeLast, NotifyRevoke, ClickRevoke
  <2>5. CASE NotifyApprove(t)
    BY <2>1, <2>5, <1>t DEF NotifyApprove, Captured
  <2>6. CASE NotifyClose(t)
    BY <2>2, <2>6 DEF NotifyClose, End
  <2> QED BY <1>1, <2>3, <2>4, <2>5, <2>6 DEF Click
<1>2. ASSUME NEW t \in Thread, Proceed(t) PROVE [Clicks!GateNext]_Clicks!gateVars
  <2>0. OthersWait
    BY <1>2, <1>o, <1>g DEF Proceed, Ask, AskInVain, Granted, Refused, Revoked, RevokeInVain,
         Daemon!Submit, Daemon!Grant, Daemon!Refuse, Daemon!Withdraw, gate
  <2>1. CASE Ask(t)
    <3>1. waits' = waits /\ UNCHANGED inside
      BY <2>1, <1>t DEF Ask, Daemon!Submit, waits, TypeOK
    <3> QED BY <3>1, <2>0, <1>s
  <2>2. ASSUME End(t) PROVE waits' = [waits EXCEPT ![t] = None]
    BY <2>2, <1>t DEF End, waits, TypeOK
  <2>3. CASE AskInVain(t)
    <3>1. wanted' = [wanted EXCEPT ![t] = None] /\ UNCHANGED inside
      BY <2>0, <2>2, <2>3, WantedWaits DEF AskInVain, gate
    <3>2. Clicks!Forget({t})
      BY <3>1, <1>n DEF Clicks!Forget, wanted
    <3> QED BY <3>2, <1>n DEF Clicks!GateNext
  <2>4. CASE Granted(t)
    <3>1. open[t] = aim[t] /\ wanted[t] = aim[t] /\ aim[t] # None
      BY <2>4, <1>t, <1>n, WantedWaits DEF Granted, TypeOK, Captured, waits
    <3>2. wanted' = [wanted EXCEPT ![t] = None]
      BY <2>0, <2>2, <2>4, WantedWaits DEF Granted
    <3>3. Clicks!Grant(t)
      BY <2>4, <3>1, <3>2 DEF Granted, Daemon!Grant, Clicks!Grant
    <3> QED BY <3>3, <1>n DEF Clicks!GateNext
  <2>5. CASE Refused(t)
    <3>1. wanted[t] # None
      BY <2>5, <1>t, <1>n, WantedWaits DEF Refused, TypeOK, Captured, waits
    <3>2. wanted' = [wanted EXCEPT ![t] = None]
      BY <2>0, <2>2, <2>5, WantedWaits DEF Refused
    <3>3. Clicks!Refuse(t)
      BY <2>5, <3>1, <3>2 DEF Refused, Daemon!Refuse, Clicks!Refuse
    <3> QED BY <3>3, <1>n DEF Clicks!GateNext
  <2>6. ASSUME at[t] = "revoke", End(t) PROVE wanted' = wanted
    <3>1. waits' = waits
      BY <2>6, <1>t DEF End, waits, TypeOK
    <3> QED BY <3>1, <2>0, WantedWaits
  <2>7. CASE Revoked(t)
    <3>1. Clicks!Withdraw(aim[t]) /\ aim[t] \in Device
      BY <2>6, <2>7 DEF Revoked, Daemon!Withdraw, Clicks!Withdraw
    <3> QED BY <3>1 DEF Clicks!GateNext
  <2>8. CASE RevokeInVain(t)
    BY <2>6, <2>8 DEF RevokeInVain, gate, Clicks!gateVars
  <2> QED BY <1>2, <2>1, <2>3, <2>4, <2>5, <2>7, <2>8 DEF Proceed
<1>3. CASE Refresh \/ Quit \/ Tick \/ UNCHANGED vars \/ \E d \in Id : Removed(d)
  <2>1. UNCHANGED <<inside, open, at, aim>>
    BY <1>3 DEF Refresh, Quit, Tick, Removed, vars, gate, threads
  <2> QED BY <2>1, <1>g, <1>s DEF waits
<1>4. CASE \E d \in Id : Inserted(d)
  <2>1. waits' = waits /\ UNCHANGED <<inside, open>>
    BY <1>4, <1>t DEF Inserted, waits, TypeOK, gate
  <2> QED BY <2>1, <1>g, <1>s
<1>5. CASE DaemonRestart
  <2> DEFINE asked == {t \in Thread : at[t] = "asked"} \cup Others
  <2>1. /\ UNCHANGED inside /\ open' = [c \in Client |-> None]
        /\ waits' = [t \in Thread |-> IF t \in asked THEN None ELSE waits[t]]
    BY <1>5, <1>t, <1>n DEF DaemonRestart, Daemon!Forget, waits, TypeOK
  <2>2. \A c \in Client : wanted'[c] = IF c \in asked THEN None ELSE wanted[c]
    <3>1. ASSUME NEW c \in Others PROVE wanted'[c] = None
      BY <2>1 DEF wanted, Client
    <3>2. ASSUME NEW t \in Thread PROVE wanted'[t] = IF t \in asked THEN None ELSE wanted[t]
      <4>1. wanted[t] = waits[t] /\ wanted'[t] = waits'[t]
        BY <1>n DEF wanted, waits
      <4> QED BY <2>1, <4>1
    <3> QED BY <3>1, <3>2 DEF Client
  <2>3. wanted' = [c \in Client |-> IF c \in asked THEN None ELSE wanted[c]]
    BY <2>2 DEF wanted
  <2>4. Clicks!Forget(asked) /\ asked \in SUBSET Client
    BY <2>1, <2>3 DEF Clicks!Forget, Client
  <2> HIDE DEF asked
  <2> QED BY <2>4 DEF Clicks!GateNext
<1>6. ASSUME NEW d \in Device, Elsewhere(d) PROVE [Clicks!GateNext]_Clicks!gateVars
  <2>1. Clicks!Withdraw(d)
    BY <1>6 DEF Elsewhere, Daemon!Withdraw, Clicks!Withdraw, threads, wanted
  <2> QED BY <2>1 DEF Clicks!GateNext
<1>7. ASSUME NEW c \in Others,
             (\E d \in Device : OtherAsks(c, d)) \/ OtherGranted(c) \/ OtherRefused(c)
      PROVE  [Clicks!GateNext]_Clicks!gateVars
  <2>0. c \in Client /\ wanted[c] = open[c]
    BY WantedWaits
  <2>1. ASSUME NEW x, open' = [open EXCEPT ![c] = x], UNCHANGED <<at, aim>>
        PROVE  wanted' = [wanted EXCEPT ![c] = x]
    BY <2>1, <1>t DEF TypeOK, wanted
  <2>2. ASSUME NEW d \in Device, OtherAsks(c, d) PROVE Clicks!Submit(c, d)
    BY <2>0, <2>1, <2>2 DEF OtherAsks, Daemon!Submit, Clicks!Submit
  <2>3. OtherGranted(c) => Clicks!Grant(c)
    BY <2>0, <2>1 DEF OtherGranted, Daemon!Grant, Clicks!Grant, threads
  <2>4. OtherRefused(c) => Clicks!Refuse(c)
    BY <2>0, <2>1 DEF OtherRefused, Daemon!Refuse, Clicks!Refuse, threads
  <2> QED BY <1>7, <2>0, <2>2, <2>3, <2>4 DEF Clicks!GateNext
<1> QED BY <1>1, <1>2, <1>3, <1>4, <1>5, <1>6, <1>7 DEF Next

(* Tray and daemon together let in only what a click on "Approve" or       *)
(* another client asked for, once per request.                             *)
THEOREM ImplementsClicks == Spec => ClicksOpenTheGate
<1>1. Init => Clicks!GateInit
  BY MenuAssumption DEF Init, Clicks!GateInit, wanted, Client
<1>2. IInv /\ [Next]_vars => [Clicks!GateNext]_Clicks!gateVars
  BY StepOfClicks
<1> QED BY <1>1, <1>2, Invariance, PTL DEF Spec, ClicksOpenTheGate, Clicks!GateSpec
=============================================================================
