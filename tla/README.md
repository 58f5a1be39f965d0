# A verification development for lusby

lusby blocks unknown USB devices through USBGuard and lets them in temporarily
(for a TTL) or permanently (by a signed baseline). This directory models the
part of it that decides who is let in, what is recorded and what is left on
disk, checks it with TLC on small instances and proves its main properties with
TLAPS for every instance.

## The system

| Component | Source (`crates/`) | State | Operations |
| --- | --- | --- | --- |
| Temporary approvals | `daemon/src/dbus.rs`, `backend-usbguard/src/lib.rs` | the map `ephemeral`: device id -> expiry, behind a mutex; usbguard's device states | `request_ephemeral_allow`, `revoke_device`, `revoke_all_ephemeral` |
| logind listener | `daemon/src/logind.rs` | a D-Bus message stream | sweeps on `PrepareForSleep(true)` |
| Audit logger | `daemon/src/audit.rs` | `last_hash`, the file `audit.log` | `new`, `log` |
| Audit chain | `common/src/audit.rs`, `cli/src/main.rs` | - | `compute_hash`, `verify_chain`, `lusbyctl audit verify` |
| Rule installation | `backend-usbguard/src/lib.rs` | `rules.conf`, `rules.conf.tmp`, `rules.conf.bak`, the rules usbguard has loaded | `apply_rules_atomically` |
| Persistent allow, trusted keys | `daemon/src/dbus.rs`, `daemon/src/polkit.rs`, `common/src/baseline.rs` | directories `baselines`, `trusted_pubkeys` | `apply_persistent_allow`, `add_`/`remove_`/`list_trusted_pubkeys` |
| udev monitor | `daemon/src/udev_monitor.rs` | a datagram socket, one readiness flag | relays udev events as D-Bus signals |
| Tray | `tray/src/main.rs`, `tray/src/ui.rs` | `last_seen`, `approval_end` | signal loop, notification actions, menu |
| Baseline editor | `cli/src/tui.rs`, `cli/src/main.rs` | selection, chosen devices, the terminal's mode | keys, `baseline init` |
| Device listing, rule generation | `backend-usbguard/src/lib.rs`, `daemon/src/dbus.rs` | - | `parse_list_devices`, `generate_rules_from_baseline` |

The rest has no state of its own: status queries, fingerprints and signatures,
the other commands of `lusbyctl`, the mock backend and the packaging.

**How they interact.** The tray and `lusbyctl` call the daemon over D-Bus.
zbus serves every call in a task of its own on a multi-threaded tokio runtime,
and the logind listener is one more task. They share the map and the logger,
each behind a mutex held for one statement, and usbguard, which they run as a
subprocess and await. The daemon reports insertions and removals to the tray by
signals. The audit log and the rule files outlive the daemon, which systemd
restarts on failure; usbguard and what it has let in do too.

**What is hard here.** A sweep awaits one subprocess per device while requests
come in. A request is three steps (command, record, map), and a crash may come
between any two. Failures of commands and writes are discarded in several
places. The file names of the rule installation are shared by calls that may
overlap. Every click in the tray makes its call from a thread of its own, while
the menu has moved on. A serial is converted four times between the listing and
the rule that is to match it. `PROJECT.json` lists the hazards with their lines.

## Modules

| Module | Models | Checked by | Proved in |
| --- | --- | --- | --- |
| `EphemeralApprovals` | temporary approvals and the logind listener | `MCEphemeral` with `Ephemeral*.cfg` | `EphemeralApprovals_proof` |
| `DeviceGate` | what they promise: a gate that only a request opens | as a property of the above and of `TrayMenu` | refinements in `EphemeralApprovals_proof`, `TrayMenu_proof` |
| `AuditLog` | logger, chain and verification | `AuditLog*.cfg` | `AuditLog_proof` |
| `RulesFile` | `apply_rules_atomically` | `Rules*.cfg` | `RulesFile_proof` |
| `AtomicRules` | what it promises: an atomic replacement | as a property of the above and of `PersistentAllow` | refinements in `RulesFile_proof`, `PersistentAllow_proof` |
| `PersistentAllow` | `apply_persistent_allow` and the key operations, composed with `RulesFile` | `MCPersistent` with `PersistentAllow.cfg` | `PersistentAllow_proof` |
| `UdevRelay` | the udev monitor, its socket and readiness flag, the tray's signal loop | `UdevRelay.cfg`, `UdevStall.cfg` | `UdevRelay_proof` |
| `EventFeed` | what it promises: each event is told at most once, and only that changes what is shown | as a property of the above | refinement in `UdevRelay_proof` |
| `TrayMenu` | the tray's buttons, notifications and countdown, composed with `DeviceGate` for the daemon | `TrayMenu.cfg` | `TrayMenu_proof` |
| `BaselineEditor` | listing, editor, `baseline init` and rule generation | `MCEditor` with `BaselineEditor.cfg` | `BaselineEditor_proof` |
| `Serials` | the spellings of a serial between a device and a rule, computed | through `MCEditor` | - |
| `LeastNatural` | the least-member principle, a lemma of the audit proofs | - | itself |

### EphemeralApprovals

A handler is the sequence of its mutex sections and subprocesses. `call[t]` is
the call task `t` serves: its step and the locals that survive an await
(`device_id`, `ttl`, `ok`). `BeginAllow`/`RejectAllow` are the input checks of
`request_ephemeral_allow`, `AllowCommand` the moment `usbguard allow-device`
takes effect and exits, `AllowLog` the audit record, `Track` the insertion into
the map; `BeginRevoke`, `RevokeCommand` and `RevokeLog` are `revoke_device`, which
leaves the map alone. `Wake` reads `PrepareForSleep(true)` and copies the keys;
`SweepCommand` and `SweepLog` are one turn of the loop, in any order of the keys;
`SweepClear` is `clear()`. `Restart` is a crash and systemd's restart: all that is
in memory is lost, the audit log and usbguard's state are not.

Abstractions: a device id is a model value, valid or not; a TTL is a number of
ticks, and the clock matters in `eph_timeout_lock` only; of the audit log `audit` keeps, for each device,
the last entry and the last that tells of a change of access (`verdict`), its chain
being the subject of `AuditLog`; an entry may get lost in writing (`LogMayFail`), as
`AuditLogger::log` ignores every error; an `ok` of a command means that it took effect,
an error that it did not. `authorised` holds only devices let in temporarily.
`late`, `strayed` and `doubtful` are history variables: the first two say which approvals the
daemon has lost track of, and how, the third which accesses the log may show wrongly: a
lost entry, a crash before it, a grant between a revocation and its entry, a sweep
that did not shut the device out and records that it did.

### AuditLog

The file is the sequence of its lines, an entry or `Torn` each. `log()` updates
`last_hash` first and then writes the JSON and the line feed separately, ignoring
errors: `Log`, `LogLost` (nothing written) and `LogCut` (part of the JSON, or no line
feed; the next entry is then glued to the line) are its outcomes. A hash is what
was fed to it, so SHA-256 is taken to be injective and the damage that is
modelled cannot produce new hashes. A payload is the ordinal of the call that
made it: timestamps differ. `Verified` is `lusbyctl audit verify`, which also fails
on a line that does not parse. The order of calls is that of the logger's mutex.

### RulesFile

Paths lead to inodes, since a call may go on writing to a file that another call
has renamed. One action per file operation: `File::create` and the permissions,
`write_all`, `sync_all`, the two halves of `fs::copy`, `rename`, `usbguard reload`, and
the rollback. Each may fail where the code has a `?`; the two results the code
discards are discarded. `fs::metadata` has a third outcome: any error of it counts as the file
not being there (`lib.rs:170`, `lib.rs:184`), so that `Backup` may go on without a copy and `Reload` without
a rollback. A file holds a rule set or is `Partial`. `before`, what
`rules.conf` held when the call began, and `blind`, whether it went on without a copy of that,
are history. `Crash` ends the daemon, `LosePower` the machine: data not synced may be
lost, and the paths lead again where the directory on disk says (`disk`), which is
written when the file system sees fit (`Flush`), since the code never syncs it. The directory
reaches the disk as a whole, as on the usual journaling file systems, which keep the order of renames.
`PowerSpec` is the specification with power loss; `PersistentAllow` is the module that takes `LosePower` and `Flush`.

### PersistentAllow

Once polkit has agreed, `apply_persistent_allow` and the key operations run
without an await, on as many threads as there are calls, and share the file system
without a lock. `req[a]` is the call of `apply_persistent_allow` that `a` serves:
`Begin` has read the baseline and lists the key files, `TryKey` tries one of them,
`Reject` ends the loop without success, `Open` and `Store` are the two halves of
writing the copy, `Record` is the audit record that the baseline is applied,
whose write may fail unnoticed and which comes before its rules are generated, and `Install` is a step of `Files!Proceed`, that is of
`RulesFile`. A key file is absent, a key, torn, or empty and waiting for the call
that created it: `CreateKey` (`create_new`) and `WriteKey` are the two halves of
`add_trusted_pubkey`, `RemoveKey` is `remove_trusted_pubkey`. The name of a stored copy has a
resolution of one second (`Second`), so calls may share it. `Crash`, `LosePower` and `Flush`
extend those of `RulesFile`.

`logged` is what has become of the record of each call: due, made, or lost in writing.
`vouched` (the calls during which the key of their baseline's signer was trusted),
`steady` (the key files unchanged and readable since a call began), `shared` (the calls whose file name
another call has taken since, or was still writing to) and `origin` are history. `origin` says of each
file of rules whether the call that wrote its content was vouched for and recorded: it
follows the data through `fs::copy` and, with the inode, through every rename, so that the properties about
`rules.conf` speak of the very call that wrote what is in place, also when a rollback or a power loss brings
it back. A call that polkit refuses, or whose baseline cannot be read
or parsed, changes only the audit log and is left out: `AuditLog` models any call
of the logger. The verification of a signature is a predicate: `Signer` gives the one key it succeeds with.

### UdevRelay

An event is its place in `events`, what the kernel did so far. `Send` is one turn of
the udev thread, which blocks while the socket holds `Capacity` datagrams. `Report` is
tokio's reactor: the socket is registered edge-triggered, so that the datagrams
that arrived since the last report (`edge`) set the flag `ready` once. `Readable`, `Recv` and
`ClearReady` are one turn of the listener: `readable_mut()` returns a guard that
remembers the tick of the flag, one datagram is received and a task spawned for
it, and `clear_ready()` clears the flag unless it was set since (`newer`). `Emit` and
`EmitNothing` are the spawned tasks, in any order. `ShowInserted` and `ShowRemoved` are the
tray's loop, with `slot` for `last_seen`.

`merged` (announcements that fell on a flag or an edge already set), `shown`, `dropped` and
`earlier` are history. What tokio, epoll and the socket do is taken from their
documentation; epoll is assumed never to report an edge twice. Interfaces of a
device have no device node, so that their signals carry the empty id `NoNode`.
Restarts of the daemon or the tray are left out, as are failures to set up the
monitor.

### TrayMenu

`ui.rs` keeps `last_seen` and `approval_end` behind mutexes and gives every click a
thread with its own runtime and D-Bus connection. `at[t]` and `aim[t]` are the thread `t`
and the id it captured: a notification that waits (`"notified"`), a call of
`request_ephemeral_allow` not yet sent (`"allow"`) or served (`"asked"`), one of `revoke_device`
(`"revoke"`). `Approve` and `RevokeNow` are the menu items, which also set and clear the
countdown, `RevokeLast` the one that leaves it alone, `NotifyApprove` and `NotifyRevoke` the
buttons of a notification, `Refresh` the timer of the label, `Quit` the end of the GTK
loop. `Inserted` and `Removed` are the signal loop of `main.rs`, here without the order of
events, which is the subject of `UdevRelay`.

The daemon is `DeviceGate`: what `EphemeralApprovals` is shown to implement, the tray builds
on. `Ask`, `Granted` and `Refused` are `Submit`, `Grant` and `Refuse`; `AskInVain` is a call with invalid input
or one that is never made, since there is no bus or no daemon. `Revoked` is
`Withdraw`. The daemon has other clients (`Others`), such as `lusbyctl allow`: `OtherAsks`, `OtherGranted` and
`OtherRefused` are their requests, and `Elsewhere` is any end of an access that does not come from the
tray. `DaemonRestart` ends the calls that are being
served with an error. `load_config_ttl` takes any number, so that `Ttls` holds one the daemon
refuses. `approvalEnd` is the time left, in ticks, the least difference of time that matters, so that no clock is
needed and a countdown may be started again without bound. The label is one
of "--", "counting" and "expired".

`counted` (the device the countdown was started for), `failed` (ids whose last approval
failed or was withdrawn), `firm` (threads whose revocation was clicked while no approval
of its device was under way) and `shut` (what those have shut out, until the next approval from anywhere) are history.

### BaselineEditor

`screen` is what `lusbyctl` is doing or how it ended, `raw` the mode of the terminal,
`devices` the listing, `selected` the cursor (counted from 1), `entries` the list
`baseline_devices`. One action per key; an error of the terminal (`IoError`) or the panic of Enter on an
empty listing (`EnterNothing`) leaves the terminal as it is. `InitDraft` is `lusbyctl baseline init`.
`Row` is what `parse_list_devices` makes of a device, `RuleOf` what `generate_rules_from_baseline` makes of an
entry, and `LetIn` which devices usbguard lets in by those rules.

A device is a kind (vendor and product) and a serial. What the conversions leave of a serial
are the functions `Listed` (usbguard escapes it, `parse_list_devices` un-escapes it) and `Ruled`
(control characters become "?", quotes are escaped and backslashes are not, and usbguard
un-escapes the result). `Serials` computes both character by character, and the run takes them from there:
quotes come through, a backslash is lost on the way into the rule, and a control character is
listed as other text. `Plain` are the serials without backslashes and control characters.
`odd` (the rows with a serial chosen an odd number of times) and `ever` (the kinds ever chosen
without one) are history: they say what the user chose without the list of entries.

## Runs

Passing runs:

| Run | Question | Bounds |
| --- | --- | --- |
| `eph_failures` | Is every approval accounted for? Does the log's last word on a device inside say that it was let in, but for known reasons? Does only a request open the gate? | 1 valid and 1 invalid id, TTL 0 to 2 with limit 1, uid 0 and 1, 2 calls, failing commands, lost audit entries, crashes |
| `eph_suspend` | Does a sweep miss nothing it found, and does a suspend end the approvals tracked then? | 2 devices, 1 call, a queued signal, failing commands, crashes |
| `audit_damage` | What does a log that verifies say? Can a broken one heal? | 3 calls, 3 starts of the daemon, any number of damages |
| `rules_one_call` | When does `rules.conf` stop being whole, are the previous rules kept, does Ok mean installed? Is it a replacement as a whole? | 2 rule sets, 4 inodes, 1 call at a time, any number of calls, every operation, stat and reload may fail, the daemon may die |
| `persistent` | Was the call that wrote the rules in place vouched for, and its baseline stored and recorded before? Does a steady key count, and is none replaced? Is `rules.conf` whole when the machine may lose power, and are the rules replaced as a whole? Does a call that returned true have its rules in force? | a signed and an unsigned baseline, 2 keys, 2 key files, 1 file name for the stored baselines, 3 inodes, 1 call of each kind at a time, any number of calls |
| `udev_relay` | Can the listener block? What stays in the socket, and does the rest arrive, once each? When does the tray show a device that is gone? | 2 devices, 4 events, a socket of 2 datagrams, signals may fail |
| `tray_menu` | What does a countdown stand for, and does it expire? Which revocations are final? Do only clicks and other clients' requests let a device in, and once each? | 2 devices, 2 threads, 1 other client, a TTL the daemon accepts and one it refuses, every call may fail, the daemon may crash |
| `baseline_editor` | Are the entries what was chosen, and do the rules let in just that? Is the terminal given back? | every listing of up to 3 rows of 2 kinds and 6 serials (empty, ordinary, "?", quote, backslash, control character), up to 4 entries, any keys |

Why the bounds are enough: an approval is disturbed by at most one other call
and one sweep at a time, so two tasks or two devices and one sweep with a signal
behind it contain every pair of conflicting steps; three calls of `log` give a
chain a first, an inner and a last entry, and three starts two places where a
chain begins anew; two rule sets tell new from old, and four inodes are the three paths and the rules the
directory on disk still leads to; `persistent` has three, so that there a second call
may have to wait until the directory has reached the disk; two key files let one be
removed, replaced or be torn while the other is tried; with one file name every call overwrites the baseline the
last one stored; four events are an insertion and a
removal of two devices, or the whole life of one, and two datagrams fill the
socket; two threads are an approval and a revocation that overtake each other, or
a menu and a notification of two devices; three rows of two kinds hold two of one
kind, equal or with other serials, next to a third. `EphemeralApprovals` rejects a device id
without a call to usbguard, so that `TrayMenu` needs no id the daemon refuses in its run: a TTL
it refuses takes the same path. The proofs do without bounds: those
about `PersistentAllow` cover any number of overlapping calls, which `persistent`
does not.

Runs that end in a violation each check what a document, comment or test says and
the code does not do; `PROJECT.json` quotes it under `findings`:

| Run | What happens |
| --- | --- |
| `eph_timeout_lock` | neither the end of a TTL nor a lock revokes anything |
| `audit_restart` | the log no longer verifies after a restart |
| `rules_overlap` | two calls at once leave a partial `rules.conf` |
| `udev_stall` | the second of two events that arrive together is not received until another one comes |

Two more disagreements are contained in `EphemeralApprovals` and have no run of their own;
`ApprovalAccountedFor` names both ways of losing an approval (`late`, `strayed`). An approval
tracked while a sweep runs is forgotten by its `clear()` (`dbus.rs:54`) and not revoked, though
`logind.rs:26` says "Revoke all ephemeral approvals immediately". And a sweep whose revoke fails
records `auto_revoke` all the same (`dbus.rs:46`), which `dbus_integration.rs:83` takes as the proof that
the device is revoked.

What the tray and the editor do, and their models contain: the countdown starts with
the click and runs on if the daemon refuses, and at its end the label says "expired"
under a comment "Auto-revoke" (`ui.rs:86`) while nothing is revoked; "Revoke now" acts on
the device seen last, not on the one counted down for; a revocation may be overtaken by an
approval that was clicked before it (`RevokeIsFinal` holds only of those clicked when none was
under way); clicking "Approve" again and again keeps the countdown from ever ending (`CountdownExpires` excepts it). A row without a serial is never marked as selected and Enter does not
remove it again, though the title says "Enter to add/remove" (`tui.rs:66`): the entry holds
`None` and is compared with `Some("")`. And a serial does not always come through its conversions: a device
that was chosen, with a backslash in its serial, is not let in by its rule, and another one may be, though the
repository's README says "Only explicitly approved devices are allowed" (`README.md:69`); `RulesMatchSelection` says
for which serials selection and rules agree.

Limits of the code that the models contain and no document denies, so that no run
is about them: a restarted daemon knows none of its approvals (`Restart`); a crash
between command and record, or an audit entry whose write fails, leaves a device inside that no
record mentions, and in the same way rules in place without a record; when `fs::metadata` fails on a `rules.conf`
that is there, the call makes no copy, the previous rules are lost, and if usbguard refuses the new ones,
whatever an earlier call left in the place of a copy is put back, which may be the rules of an older call
or half a file (`StaysWhole`, `PreviousRecoverable` and `AtomicRules` name this case); when
usbguard refuses the first rules there ever were, they stay, since there is no copy
to put back; a copy that was put back is not synced and may be lost in a power
failure; no rename is synced either, so that a power failure may bring the earlier rules back,
as a whole, after `true` was returned; nor are the stored baselines, the key files and the audit log, of which
nothing is said after a power failure (`InstalledIsStored` speaks of calls that are not cut off);
two permanent approvals of the same second share the file of the stored
baseline; the tray keeps one device, which the event of an interface, with its
empty id, replaces.

**Fairness.** Only the liveness properties need it. tokio polls every task that
can run: weak fairness of the listener and of the steps of each accepted call.
It includes that a usbguard command returns, which the code does not enforce by a
timeout. The same holds of the udev thread, the reactor, the listener, the tasks it
spawns and the tray's loop, which wait for nothing but their input. Time passes
(the clock of `eph_timeout_lock`, the countdown of `tray_menu`), GLib's timer fires while the GTK loop runs, and a
thread of the tray gets an answer or an error. Nobody has to make a call, unplug a
device, send a signal or let the daemon crash.

## Proofs

Every theorem holds for all values of the constants that meet the named
assumptions of the module.

*Temporary approvals.* The invariant joins the types with, for each property,
what makes it inductive: of a device that is inside and not in doubt no
revocation is about to be recorded, so that an entry that is late cannot hide its grant; a tracked device that is inside is yet to be revoked by a running sweep, or late,
and everything inside is tracked, pending, late or strayed.
`GrantsAudited` holds without a condition on failures, lost entries or crashes: what they do is in `doubtful`. `ServedSuspendsSweep` takes
`SuspendSweeps` apart: if suspend signals are read (`SignalsAreRead`) and a sweep that has
begun ends (`SweepsEnd`), each device tracked when a signal is queued comes to be outside
or strayed and no longer tracked. What is left to TLC is that fairness gives the two.
`ImplementsGate` maps each step to one of `DeviceGate` or to a stutter.

*Audit log.* `VerifiedLogIsPrefix` is proved for any number of damages. It rests on
the invariant that every hash found in the file or in the logger is a prefix of
the calls of one start of the daemon, and on the lemma that in a chain that
verifies the hash of entry `i` is the sequence of the first `i` payloads. The lemma
needs induction over the entries, which is done by taking the least index at
which it fails (`LeastNatural`). `BrokenLogStaysBroken` uses that a chain with
another entry behind it verifies only if it did without it.

*Rule installation.* The results are about behaviours in which calls come one after
another (`Exclusive`), from any number of threads; `rules_overlap` shows what overlapping
calls do, and `TypeCorrect` covers those too. The invariant `Sound` says what the three files
hold at each step of a call, that no two paths lead to one file, that a copy exists only next to a `rules.conf`, without which the first rules
could be rolled back to a copy, and that a call that is not `blind` has a copy of what it found by the time it renames. A step of one call disturbs only what `Sound` says of that call,
and of idle calls `Sound` says nothing. From it follow `RulesStayWhole`, that `rules.conf` stops being whole only by a rollback
of a call that made no copy or of one that found it so, and, for behaviours without such a rollback
(`[][~BlindRollback]_vars`), `RulesNeverPartial`. `ImplementsAtomicRules` needs no such condition: `AtomicRules` lets a call put back
what it has kept, which of a blind call is anything. `PreviousAlwaysRecoverable` and `OkAlwaysMeansInstalled` speak of the last call,
which the model knows per thread, and are proved for one thread (`OneCall`).

With power losses (`PowerSpec`) the invariant is joined by `Durable`: what is at
`rules.conf`, and what the directory on disk leads to, has been synced, as has the temporary file once the call is past
`sync_all`. It holds as long as no copy is put back, since the rollback renames a
copy that `fs::copy` has not synced; the theorems say so by `[][~RollsBack]_vars`.
`NeverPartialAfterPowerLoss` and `AtomicAcrossPowerLoss` are the two properties under that condition. What a power
loss brings back is `kept` in `AtomicRules`: rules that were stored as a whole before.

*Permanent approvals.* `ImplementsRulesFile` shows that every step of `PersistentAllow` is a
step of `PowerSpec` of `RulesFile` or leaves its variables alone. `PersistentAllow_proof` instantiates
`RulesFile_proof`, so that its lemmas and theorems carry over: the typing that
`TypeCorrect` needs, `RulesNeverPartial`, and `ApprovalsInstallAtomically`, the refinement of
`AtomicRules` by the composed system. `RulesAlwaysVouched` and `InstalledIsAlwaysRecorded` hold without any
condition on overlaps, failures or power, from one invariant: a call past its scan was vouched for, one past
its record has made it or lost it (`Backed`), and every inode that holds rules of a baseline holds those of such
a call (`Traced`), whether they were written, copied or renamed. `SteadyKeysCount` needs that a steady key file
is still to be tried or does not verify, `InstalledIsAlwaysStored` that of two calls with one
file name one knows it as shared; `TrustedKeysStay` follows from the types, since the mark of
the call that writes a file is never a key. The carried-over
theorems let calls overlap in all but their installation (`InstallsApart`), which the
code does not enforce. `ApprovalsInstallAtomically` assumes `SafeBackups`: the machine does not lose power, or
usbguard does not refuse rules, so that no unsynced copy is put back. `RulesNeverPartial` has two parts for the same two cases;
where rules may be refused it excludes the rollback of a blind call.
`TrueAlwaysMeansInForce` joins the two modules' results for one caller: what is stored and
loaded after `apply_persistent_allow` has returned true is vouched and on record, unless the record was lost in writing.

*udev relay.* `WaitingAlwaysAccountedFor` and `ListenerNeverBlocks` rest on counting: what waits in the socket equals what is
announced (an edge, a flag not looked at, the datagram a guard stands for, a
flag set since) plus what was merged, with the strengthening that the flag is set
while a guard exists. `TrayAlwaysAccountedFor` needs that an inserted device that is out has a
later removal among the events, and that none of the signals read since the slot
was filled tells of one. `ImplementsFeed` maps thread, reactor, listener and tasks to
`EventFeed`: an event may still be told while it has not been read or dropped, and
the invariant `OnceInv` says that it is in one place only, so that no event is told twice.
`AtRestOnlyMergedWait` is the other direction, that no event is forgotten: in a state in
which the relay has no step to take (`AtRest`), all it has received is settled and exactly
as many datagrams wait as announcements were merged. `RestingKeepsUp` derives `KeepsUp` from it
for a relay that comes to rest again and again. None of this depends on the bounds
of the runs.

*Tray.* The invariant says that a thread past its click has captured an id, and that no
approval of its device is under way while a revocation marked as firm is, nor after
it has shut the device out. `ImplementsClicks` maps each step to one
of `DeviceGate`: a click on "Approve" submits, the answer of the daemon grants or refuses, and
the call in between is a stutter. It uses nothing of the daemon but `DeviceGate`, which
`ImplementsGate` justifies.

*Baseline editor.* To `SelectionKept` the invariant adds that an empty serial never gets into an
entry of the editor, without which Enter could not tell a row without a serial from one
that was added. Removing the first entry like a row is then removing that row, since
an entry with a serial stands once.
`RulesAlwaysMatchSelection` follows for conversions that leave the serials of `Plain` as they are, as those of
`Serials` do in the run; `FaithfulSerials` says what a faithful conversion would give: the chosen devices and, but for
kinds chosen without a serial, no others.

Only model-checked, because liveness under fairness is beyond the prover: that
fairness makes a sweep end, a suspend signal be read and the relay come to rest (the
hypotheses of `ServedSuspendsSweep` and `RestingKeepsUp`; TLC checks the properties they
imply, `SuspendSweeps` and `KeepsUp`, under fairness), and `CountdownExpires`. Not proved and not
true: `NeverPartial` when usbguard refuses rules and the machine then loses power or the call had failed to see
`rules.conf`, that rules reported as installed survive a power loss, and that `rules.conf` is whole when installations overlap.

## Plan

Done: `EphemeralApprovals`, `AuditLog`, `RulesFile`, `PersistentAllow`, `UdevRelay`, `TrayMenu`, `BaselineEditor`, each with
its abstract specification where it has one, its run and its proofs. What could
be added, in this order:

1. `TrayMenu` over `UdevRelay`'s order of signals, and over `EphemeralApprovals` itself.
2. The results about the last call (`PreviousRecoverable`, `OkMeansInstalled`, `TrueMeansInForce`)
   for calls from several threads, which needs the order of the calls as history.

## Not modelled

`get_policy_status` reads a flag that never changes. `lusbyctl`'s argument parsing, the
wiring of the daemon's start, the mock backend and the packaging change no state of
the system. The cryptography is a predicate. `config.toml` is read by the tray for its
TTL only. Of a listed device the models keep kind and serial: its `fingerprint` is always
empty, and `allowed` is false of every line with a rule number, since `lib.rs:142` expects
"allow" at its start. D-Bus itself (delivery,
back-pressure on a stream that is not read) and usbguard's own behaviour are
outside the repository and appear as environment actions. The streams of the
logind listener and of the tray are made without a D-Bus match rule; the models
assume that the bus delivers the signals all the same.
