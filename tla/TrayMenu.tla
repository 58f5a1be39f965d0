------------------------------ MODULE TrayMenu ------------------------------
(***************************************************************************)
(* The buttons of lusby-tray (crates/tray/src/ui.rs, and the notifications *)
(* of crates/tray/src/main.rs) composed with the daemon, which is taken by *)
(* its specification DeviceGate.  The daemon has other clients too, such   *)
(* as `lusbyctl allow` (crates/cli/src/main.rs).                           *)
(*                                                                         *)
(* A click captures a device id and leaves the D-Bus call to a new thread, *)
(* whose answer nobody reads; the countdown of the menu is set by the      *)
(* click.  Calls of two clicks may reach the daemon in either order.       *)
(***************************************************************************)
EXTENDS Integers

CONSTANTS
  Id,       \* the ids signals carry
  Device,   \* those the daemon takes: an interface has the empty id
  Thread,   \* the threads of notifications and calls
  Others,   \* the other clients of the daemon
  None,     \* no device
  Ttls,     \* what default_ttl_secs may be, in ticks
  MaxTtl,   \* the longest TTL the daemon accepts
  MayFail   \* whether a bus, a call, usbguard or a notification may fail

ASSUME MenuAssumption ==
  /\ Device \subseteq Id /\ None \notin Id /\ Thread \cap Others = {}
  /\ Ttls \subseteq Nat /\ MaxTtl \in Nat
  /\ MayFail \in BOOLEAN

VARIABLES
  inside, open,  \* those of DeviceGate: the devices let in, the open requests
  lastSeen,      \* last_seen, the slot the menu reads
  approvalEnd,   \* approval_end, as the ticks left until then, or Off
  label,         \* what the menu shows of it
  menu,          \* whether the GTK loop runs
  ttl,           \* default_ttl_secs
  at, aim,       \* where each thread is, and the id it has captured
  counted,       \* history: the device the countdown was started for
  failed,        \* history: ids whose last approval failed or was withdrawn
  firm,          \* history: threads whose revocation was clicked while no
                 \* approval of its device was under way
  shut           \* history: ids such a revocation has shut out since approved

gate == <<inside, open>>
ui == <<lastSeen, approvalEnd, label, menu, counted>>
threads == <<at, aim, firm>>
vars == <<gate, ui, threads, ttl, failed, shut>>

Off == -1

Client == Thread \cup Others

\* There is no menu without the feature tray-ui, or if GTK refuses the loop.
Init ==
  /\ inside = {} /\ open = [c \in Client |-> None]
  /\ lastSeen = None /\ approvalEnd = Off /\ label = "--" /\ menu \in BOOLEAN
  /\ ttl \in Ttls
  /\ at = [t \in Thread |-> "idle"] /\ aim = [t \in Thread |-> None]
  /\ counted = None /\ failed = {}
  /\ firm = {} /\ shut = {}

Daemon == INSTANCE DeviceGate

\* An approval of d is under way: one from the tray, one from anywhere.
Approving(d) == \E t \in Thread : at[t] \in {"allow", "asked"} /\ aim[t] = d

UnderWay(d) == Approving(d) \/ \E c \in Others : open[c] = d

\* What request_ephemeral_allow accepts: load_config_ttl takes any number.
ValidRequest(d) == d \in Device /\ ttl \in 1..MaxTtl

-----------------------------------------------------------------------------
(* A click: the id is cloned out of the slot, a thread is spawned.         *)
ClickApprove(t, d) ==
  /\ at' = [at EXCEPT ![t] = "allow"]
  /\ aim' = [aim EXCEPT ![t] = d]
  /\ firm' = {u \in firm : aim[u] # d}
  /\ failed' = failed \ {d}
  /\ shut' = shut \ {d}

ClickRevoke(t, d) ==
  /\ at' = [at EXCEPT ![t] = "revoke"]
  /\ aim' = [aim EXCEPT ![t] = d]
  /\ firm' = IF UnderWay(d) THEN firm ELSE firm \cup {t}
  /\ UNCHANGED <<failed, shut>>

\* The mistake of a countdown without a call.
ApproveCountsOnly(t) ==
  /\ menu /\ at[t] = "idle"
  /\ lastSeen # None
  /\ approvalEnd = Off
  /\ approvalEnd' = ttl
  /\ counted' = lastSeen
  /\ UNCHANGED <<gate, lastSeen, label, menu, threads, ttl, failed, shut>>

(* "Approve for N minutes": the countdown starts, or starts anew, with the *)
(* click.                                                                  *)
Approve(t) ==
  /\ menu /\ at[t] = "idle"
  /\ lastSeen # None
  /\ approvalEnd' = ttl
  /\ counted' = lastSeen
  /\ ClickApprove(t, lastSeen)
  /\ UNCHANGED <<gate, lastSeen, label, menu, ttl>>

(* "Revoke now" and "Revoke last device" act on the slot as it is now.     *)
RevokeNow(t) ==
  /\ menu /\ at[t] = "idle"
  /\ lastSeen # None
  /\ approvalEnd' = Off
  /\ counted' = None
  /\ ClickRevoke(t, lastSeen)
  /\ UNCHANGED <<gate, lastSeen, label, menu, ttl>>

RevokeLast(t) ==
  /\ menu /\ at[t] = "idle"
  /\ lastSeen # None
  /\ ClickRevoke(t, lastSeen)
  /\ UNCHANGED <<gate, ui, ttl>>

\* The mistake of a label that stays at zero.
RefreshNeverExpires ==
  /\ menu
  /\ label' = IF approvalEnd = Off THEN "--" ELSE "counting"
  /\ label' # label
  /\ UNCHANGED <<gate, lastSeen, approvalEnd, menu, counted, threads, ttl, failed, shut>>

(* The timer of the countdown: nothing is revoked at its end.              *)
Refresh ==
  /\ menu
  /\ label' = IF approvalEnd = Off THEN "--"
              ELSE IF approvalEnd > 0 THEN "counting" ELSE "expired"
  /\ label' # label
  /\ UNCHANGED <<gate, lastSeen, approvalEnd, menu, counted, threads, ttl, failed, shut>>

(* "Quit" ends the GTK loop; the signal loop and the threads go on.        *)
Quit ==
  /\ menu
  /\ menu' = FALSE
  /\ UNCHANGED <<gate, lastSeen, approvalEnd, label, counted, threads, ttl, failed, shut>>

-----------------------------------------------------------------------------
(* The signal loop: an insertion fills the slot and shows a notification,  *)
(* whose thread waits for one of its buttons.                              *)
Inserted(d) ==
  /\ lastSeen' = d
  /\ \/ \E t \in Thread : /\ at[t] = "idle"
                          /\ at' = [at EXCEPT ![t] = "notified"]
                          /\ aim' = [aim EXCEPT ![t] = d]
     \/ MayFail /\ UNCHANGED <<at, aim>>
  /\ UNCHANGED <<gate, approvalEnd, label, menu, counted, firm, ttl, failed, shut>>

Removed(d) ==
  /\ lastSeen = d
  /\ lastSeen' = None
  /\ UNCHANGED <<gate, approvalEnd, label, menu, counted, threads, ttl, failed, shut>>

\* The mistake of reading the slot when the button is pressed.
NotifyApproveSlot(t) ==
  /\ at[t] = "notified"
  /\ lastSeen # None
  /\ at' = [at EXCEPT ![t] = "allow"]
  /\ aim' = [aim EXCEPT ![t] = lastSeen]
  /\ firm' = {u \in firm : aim[u] # aim[t]}
  /\ shut' = shut \ {aim[t]}
  /\ UNCHANGED <<gate, ui, ttl, failed>>

NotifyApprove(t) ==
  /\ at[t] = "notified"
  /\ ClickApprove(t, aim[t])
  /\ UNCHANGED <<gate, ui, ttl>>

NotifyRevoke(t) ==
  /\ at[t] = "notified"
  /\ ClickRevoke(t, aim[t])
  /\ UNCHANGED <<gate, ui, ttl>>

-----------------------------------------------------------------------------
(* A thread ends: its call is answered, or there is no bus or no daemon,   *)
(* or the notification is closed.                                          *)
End(t) ==
  /\ at' = [at EXCEPT ![t] = "idle"]
  /\ aim' = [aim EXCEPT ![t] = None]
  /\ firm' = firm \ {t}

NotifyClose(t) ==
  /\ at[t] = "notified"
  /\ End(t)
  /\ UNCHANGED <<gate, ui, ttl, failed, shut>>

\* The mistake of asking for the device that is in the slot by now.
AskForSlot(t) ==
  /\ at[t] = "allow"
  /\ lastSeen # None /\ ValidRequest(lastSeen)
  /\ Daemon!Submit(t, lastSeen)
  /\ at' = [at EXCEPT ![t] = "asked"]
  /\ UNCHANGED <<aim, firm, ui, ttl, failed, shut>>

Ask(t) ==
  /\ at[t] = "allow"
  /\ ValidRequest(aim[t])
  /\ Daemon!Submit(t, aim[t])
  /\ at' = [at EXCEPT ![t] = "asked"]
  /\ UNCHANGED <<aim, firm, ui, ttl, failed, shut>>

\* Invalid input, or no call at all.
AskInVain(t) ==
  /\ at[t] = "allow"
  /\ ~ValidRequest(aim[t]) \/ MayFail
  /\ End(t)
  /\ failed' = failed \cup {aim[t]}
  /\ UNCHANGED <<gate, ui, ttl, shut>>

\* The mistake of a call that is repeated after it was answered.
GrantedTwice(t) ==
  /\ at[t] = "asked"
  /\ Daemon!Grant(t)
  /\ at' = [at EXCEPT ![t] = "allow"]
  /\ failed' = failed \ {aim[t]}
  /\ UNCHANGED <<aim, firm, ui, ttl, shut>>

Granted(t) ==
  /\ at[t] = "asked"
  /\ Daemon!Grant(t)
  /\ End(t)
  /\ failed' = failed \ {aim[t]}
  /\ UNCHANGED <<ui, ttl, shut>>

Refused(t) ==
  /\ MayFail
  /\ at[t] = "asked"
  /\ Daemon!Refuse(t)
  /\ End(t)
  /\ failed' = failed \cup {aim[t]}
  /\ UNCHANGED <<ui, ttl, shut>>

Revoked(t) ==
  /\ at[t] = "revoke" /\ aim[t] \in Device
  /\ Daemon!Withdraw(aim[t])
  /\ End(t)
  /\ failed' = failed \cup {aim[t]}
  /\ shut' = IF t \in firm THEN shut \cup {aim[t]} ELSE shut
  /\ UNCHANGED <<ui, ttl>>

RevokeInVain(t) ==
  /\ at[t] = "revoke"
  /\ aim[t] \notin Device \/ MayFail
  /\ End(t)
  /\ UNCHANGED <<gate, ui, ttl, failed, shut>>

-----------------------------------------------------------------------------
(* A suspend, another client or the user's hands end an access, and other  *)
(* clients have devices let in.                                            *)
Elsewhere(d) ==
  /\ d \in inside
  /\ Daemon!Withdraw(d)
  /\ failed' = failed \cup {d}
  /\ UNCHANGED <<ui, threads, ttl, shut>>

OtherAsks(c, d) ==
  /\ Daemon!Submit(c, d)
  /\ firm' = {u \in firm : aim[u] # d}
  /\ shut' = shut \ {d}
  /\ UNCHANGED <<ui, at, aim, ttl, failed>>

OtherGranted(c) ==
  /\ Daemon!Grant(c)
  /\ failed' = failed \ {open[c]}
  /\ UNCHANGED <<ui, threads, ttl, shut>>

OtherRefused(c) ==
  /\ MayFail
  /\ Daemon!Refuse(c)
  /\ UNCHANGED <<ui, threads, ttl, failed, shut>>

\* A crash of the daemon: the calls it was serving return an error, at which
\* the threads of the menu panic and those of a notification end.
DaemonRestart ==
  LET asked == {t \in Thread : at[t] = "asked"}
  IN /\ MayFail /\ \E c \in Client : open[c] # None
     /\ Daemon!Forget(Client)
     /\ at' = [t \in Thread |-> IF t \in asked THEN "idle" ELSE at[t]]
     /\ aim' = [t \in Thread |-> IF t \in asked THEN None ELSE aim[t]]
     /\ failed' = failed \cup {aim[t] : t \in asked}
     /\ UNCHANGED <<ui, firm, ttl, shut>>

\* Time passes, which nothing but the countdown depends on.
Tick ==
  /\ approvalEnd > 0
  /\ approvalEnd' = approvalEnd - 1
  /\ UNCHANGED <<gate, lastSeen, label, menu, counted, threads, ttl, failed, shut>>

Click(t) == \/ Approve(t) \/ RevokeNow(t) \/ RevokeLast(t)
            \/ NotifyApprove(t) \/ NotifyRevoke(t) \/ NotifyClose(t)

Proceed(t) == \/ Ask(t) \/ AskInVain(t) \/ Granted(t) \/ Refused(t)
              \/ Revoked(t) \/ RevokeInVain(t)

Next == \/ \E t \in Thread : Click(t) \/ Proceed(t)
        \/ Refresh \/ Quit \/ Tick \/ DaemonRestart
        \/ \E d \in Id : Inserted(d) \/ Removed(d)
        \/ \E d \in Device : Elsewhere(d) \/ \E c \in Others : OtherAsks(c, d)
        \/ \E c \in Others : OtherGranted(c) \/ OtherRefused(c)

Spec == Init /\ [][Next]_vars

(* A spawned thread runs and its call is answered, the timer fires while   *)
(* the GTK loop runs, and the clock ticks.  Nobody has to click.           *)
FairSpec == /\ Spec /\ WF_vars(Refresh) /\ WF_vars(Tick)
            /\ \A t \in Thread : WF_vars(Proceed(t))

-----------------------------------------------------------------------------
(* Every variable keeps its type, and a request is open in the daemon for  *)
(* just those threads that wait for its answer, other clients aside.       *)
TypeOK ==
  /\ inside \subseteq Device
  /\ lastSeen \in Id \cup {None} /\ counted \in Id \cup {None}
  /\ approvalEnd \in Nat \cup {Off} /\ label \in {"--", "counting", "expired"}
  /\ menu \in BOOLEAN /\ ttl \in Ttls
  /\ at \in [Thread -> {"idle", "notified", "allow", "asked", "revoke"}]
  /\ aim \in [Thread -> Id \cup {None}]
  /\ open \in [Client -> Device \cup {None}]
  /\ \A t \in Thread : open[t] = IF at[t] = "asked" THEN aim[t] ELSE None
  /\ failed \subseteq Id /\ firm \subseteq Thread /\ shut \subseteq Id

(* A running countdown stands for a device that is inside, or for one      *)
(* whose approval is under way, has failed or was withdrawn: it is set     *)
(* before the daemon has answered and never corrected, but never without a *)
(* call (ui.rs:44-68).                                                     *)
CountdownAccountedFor ==
  (approvalEnd # Off) => counted \in inside \cup failed \/ Approving(counted)

(* A revocation that was clicked while no approval of its device was under *)
(* way, and that the daemon carried out, is final: the device stays out    *)
(* until the user or another client approves it again, whatever other      *)
(* threads are about to do.  Clicked earlier it may be overtaken.          *)
RevokeIsFinal == shut \cap inside = {}

(* Each click on "Approve" lets in the device it was made for, once at     *)
(* most, though the call is made later and by another thread, and nothing  *)
(* else lets one in but the other clients' own requests: tray and daemon   *)
(* together are a gate whose requests are clicks and those.                *)
wanted == [c \in Client |-> IF c \in Others THEN open[c]
                            ELSE IF at[c] \in {"allow", "asked"} /\ aim[c] \in Device THEN aim[c]
                            ELSE None]

Clicks == INSTANCE DeviceGate WITH open <- wanted

ClicksOpenTheGate == Clicks!GateSpec

(* A countdown is in the end shown as expired (ui.rs:79-87), unless it is  *)
(* stopped, the menu is closed, or the user clicks on "Approve" again and  *)
(* again, which starts it anew each time.                                  *)
CountdownExpires ==
  \/ approvalEnd # Off ~> approvalEnd = Off \/ ~menu \/ label = "expired"
  \/ []<><<\E t \in Thread : Approve(t)>>_vars
=============================================================================
