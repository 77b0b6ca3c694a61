# openvpn3-gui-rs, verified

TLA+ models, TLC runs and TLAPS proofs of openvpn3-gui-rs: the tray GUI
(`gui/`), its root helper (`helper/`), and the OpenVPN3 services as far as the
GUI sees them.

## The system

| component | state it keeps | operations | module |
|---|---|---|---|
| helper, firewall (`helper/src/service.rs`, `watcher.rs`) | the nft table in the kernel; `State.sender`, `State.watcher`, `State.bypass_cidrs`; one watcher task per client | `AddRules`, `RemoveRules`, `SetBypassCidrs`, `ClearBypassCidrs`, clean-up when the client leaves the bus, clean-up on SIGTERM | `HelperFirewall` |
| helper, routing (`bypass.rs`, `service.rs`) | ip rules, table 100 and `rp_filter` in the kernel; `bypass_routes_applied`, `rp_filter_original` | `ApplyBypassRoutes`, `RemoveBypassRoutes`, the same two clean-ups | `HelperRouting` |
| GUI, kill-switch life cycle (`signal_handlers.rs`, `status_handler/`, `session_ops.rs`, `actions.rs`, reconnect notification, Preferences) | `tray.sessions` with `kill_switch_active`, `USER_DISCONNECTED`, `AUTH_RETRY_SESSIONS`, `RECENT_DESTROYED_SESSIONS`, `CREDENTIAL_ATTEMPTS`, open notifications | one handler per `StatusChange` and `SessionManagerEvent`, the tray menu, the notification's buttons, the preference | `GuiKillSwitch` |
| GUI, start-up and service watching (`dbus_init.rs`, `application.rs`, `service_watcher.rs`) | the tray's maps, the two subscriptions | scan and its retries, re-subscription, identity backfill, delayed removal | `SessionMirror` (re-apply of the rules: `GuiKillSwitch`) |
| GUI, split tunnelling (`bypass_apply.rs`, `stats_poller/drift.rs`) | `bypass_state`, the enabled networks | push, withdraw, rebind, verify and announce drift | `BypassSync`, `BypassReport` |
| GUI, editor of networks (`routing_tab.rs`) with `validation.rs` | the rows, their ticks, the entry field, validations on their way | add, edit, delete, tick | `BypassEditor` |
| GUI, time-out watchers (`timeout_watcher.rs`) | `TIMEOUT_GEN`, the sleeping futures | spawn at Connecting, wake and warn, forget a destroyed session | `TimeoutWatcher` |
| GUI, statistics poller (`stats_poller/`) | idle clocks of the entries, `AUTO_RECONNECT_ATTEMPTED_AT` | poll, stall detection, stop of a stalled session, cooldown | `StatsPoller` |
| GUI, authentication retries (`credential_handler/retry.rs`) | `CREDENTIAL_ATTEMPTS` with their times | count, expire, surrender, reset | `AuthBudget` |
| GUI, authentication dialogs (`credential_handler/`, `auth_dispatch.rs`, `auth_handlers.rs`, `dialogs/credentials.rs`) | one window per session, the input slots | dispatch, request, submit, retry with a new tunnel | `CredentialFlow` |
| GUI, keyring (`credentials/store.rs`, `keyring.rs`, `config_ops.rs`) | the Secret Service's items | read with migration, save, forget, wipe, clear | `KeyringStore` |
| GUI, notifications (`dialogs/notification/`) | `NOTIFICATION_IDS`, one lock per key, listeners | show, replace, retry with a fresh id, buttons | `Notifications` |
| GUI, logs (`log_buffer.rs`, `dialogs/logs/`) | `LOG_BUFFER`, the tabs of the viewer | capture, evict, open, tail, filter | `LogStream` |
| nft rendering (`nft.rs`); tray menu; settings; statistics, configuration and about windows; packaging | text, widgets, files | presentation and I/O | not modelled |

How they interact.  Two signal streams of the OpenVPN3 services reach the GUI,
`StatusChange` of each tunnel and `SessionManagerEvent`; each has a loop of its
own and they are not ordered with respect to each other.  A third stream
carries the log.  The GUI is one GLib thread: a handler runs to its end and
leaves its D-Bus calls to futures it spawns.  Those futures call the helper,
which runs every call in a tokio task of its own, so calls interleave at every
await.  The helper owns one nft table and one set of routes for all sessions;
it learns that the GUI died from `NameOwnerChanged`.

What is hard: whatever is read before an await is stale after it (the survivors
of a disconnect, the bypass list of an `AddRules`, an interface's `rp_filter`,
the list a drift check compares with, the row an edit was started on); a task
aborted while its `nft` runs; one session's end that takes another's
protection; a mark left by one path and consumed by another; a scan that
replaces what signals wrote meanwhile; two deletions, or a read and a save, of
one secret; the helper's clean-up against the next client's calls.
PROJECT.json lists these hazards one by one, at the line where each bites.

## Modules

**HelperFirewall.**  An action is the code between two awaits.  A call is named
by its message, and the watcher it spawns and the table its script builds by
the call.  `AddRules` copies the bypass list under the lock, `AddCommit` or
`AddFailed` is the nft run, `AddLock` takes the lock again (aborts the watcher
before, records the sender, spawns the new watcher), `AddStore` stores its
handle.  `RemoveRules`/`RemoveCommit`/`RemoveFailed` are the other call.  A
watcher is spawned, subscribes (`Subscribe`), hears its client leave
(`ClientVanished`), runs its delete (`CleanupCommit`, `CleanupFailed`) and then
forgets the client under the lock and tears the routes down (`Unwind`).
Aborting a task that waits for nft leaves the process running:
`watch[c] = "detached"`, and `DetachedCommit` may still delete the table.  A
task that is running when it is aborted runs to its next await: `Resume` takes
a watcher past its last await before the lock, from where an abort no longer
stops its `Unwind` ("late" in `Events`).  `Sigterm`, `ShutdownSweep`, `LoseTasks`, `Exit` are main.rs;
after `Exit` or `Crash` the bus activates the helper again with an empty State.
The history variable `abandoned` records the faults after which no promise is
made: a failed delete, a watcher that erred or missed its event, a dead helper.

**HelperRouting.**  A task is one call or clean-up; its steps are the commands
it runs: `DeleteRule`, `Flush`, `Capture`, `ReadRpFilter`, `LoosenRpFilter`,
`InstallRule`, `PopulateTable`, then `RecordApplied` or `UndoRpFilter`, and
`RestoreRpFilter` for the clean-ups.  The interfaces, their boot values, the
uplink and its moves are the environment.

**GuiKillSwitch.**  `live`, `inbox`, `created`, `destroyed` are OpenVPN3;
`tray`, `known`, `flag` are the fields of the tray entries; `fading`,
`recent`, `userDisc`, `authRetry`, `attempts` the side maps; `job` the spawned
futures, one step per await; `table` the session to whose interface the
helper's table is bound.  One action per StatusChange handler, one per session
event, one per menu entry and notification button.  Here the helper is its
table alone.  Both calls to it may fail (`addfail`, `removefail` in `Events`),
and as in the code the caller goes on as if they had not.

**BypassSync, BypassReport, BypassStates.**  `enabled` is the list in the
settings, `list`, `routes` and `sets` what the helper has of it, `bypass` what
the tray says.  `push` holds the futures that call the helper step by step:
the apply at connect, at start-up and after Preferences, the clear with the
last session, the pause, the tear-down, the loss of the session manager.
`poll` is the drift check: it reads the list, awaits the verification, and
applies the answer to whatever the tray says by then.  `BypassReport` is the
abstract specification, with three variables only: the tray's state, the last
notification and the outcome of the last apply.  `BypassSync!Reporting` is the
refinement mapping.

**BypassEditor.**  The rows as a sequence, a validation as the list that was
sent; its answer replaces the list that is there by then.  Canonicalisation
clears the host bits of an address, a string of `Width` bits.

**SessionMirror.**  `real` is OpenVPN3, `shown` the tray.  Every loop keeps its
order, and the futures (`scan`, `creating`, `filling`, `fading`, `inserting`)
move one await at a time.  A restart of the services loses the sessions, the
subscriptions and the signals on their way.

**CredentialFlow.**  `future` holds requests, submissions, retries and
connects; `dialog` the window of each session (a second request presents the
first window).  A submission walks over its slots.  Every call to a session may
fail, of a live session, too: the query of `dispatch_for_session`, the proxy,
the groups, the fetch of single slots, each provide, Ready, Connect and
Disconnect; and the window may be closed by its own button.

**AuthBudget.**  The counters of `retry.rs` over a clock; `GuiKillSwitch` and
`CredentialFlow` use the count with the window as a choice.  The total over all
configs is the size of a disjoint union, a sum that can be reasoned about.

**KeyringStore.**  The items under the three forms of attributes.  `job` holds
the operations under way; each call of the Secret Service is a step and may
fail.

**Notifications.**  `screen` is the daemon's, `kept` the map of replaces_ids,
`task` the futures that wait for the lock of their key, send, retry and listen.
A listener's stream is made after Notify has answered, and has nothing of what
was clicked or closed before; the reply may be unreadable, and
CloseNotification may fail.

**LogStream.**  `logBuffer` and the viewer's tail are at different positions of
one stream of lines.  A sorted or filtered list is given by the rank of each of
its members, for the same reason.

**TimeoutWatcher.**  `generation` is `TIMEOUT_GEN`, `watchers` the futures that
sleep, in the order in which they were set.  `StatusChange` spawns a watcher
for every status that `is_connecting` accepts; `Fire` is the code after the
sleep.  "connecting" stands for the initial and the connecting state.

**StatsPoller.**  One poll is `PollStarts` (the snapshot of connected
sessions), for each of them `PollReply` and `PollApply` (stall detection and
the decision to disconnect), and `PollEnds`; everything a session can do
happens between these steps.

The MC modules give values to the constants.  Two of them (`MCGuiAnswers`,
`MCGuiParts`) check parts that share no state in one run: a variable `part`
chosen in the initial state says which part moves in that behaviour, and the
others stay as they began, so the state space is the sum of the parts, not
their product.

### Abstractions

In both timer modules a StatusChange is handled when it is sent, time passes
only when all due timers have run, and the entry of a session that ends fades
at any time.  The modelled backend never repeats a status of one session, so
`should_dispatch` lets every signal through in `GuiKillSwitch`; `SessionMirror`
has `last_signal` itself.  The awaits of the bypass calls before an apply are
part of the time a future spends at `query` in `GuiKillSwitch`.  `Serial` there
means that a handler runs only when the futures of earlier ones have ended:
users and networks are slower than the bus.  Without it the code has the race
described under known divergences.  Only the preference may overtake a future
("overtake" in `Events`), since a click on it waits for nothing; `Patient` is
`Serial` without that.  An `AddRules` or `RemoveRules` takes effect
before its answer, in both directions any delay apart.  In `BypassSync` a call
to the helper is one step and either happens as a whole or fails; its inside is
`HelperFirewall` and `HelperRouting`.  `spoiled` there, `raced` and `asked` in
the keyring, `slipped` in the notifications, `gone` in the editor and `settled`
in the mirror are history, read by properties only, and so is `asked` in
`GuiKillSwitch`: that the user or the preference has let the table go.

History that excuses, and what it excuses.  A property that mentions one of
these says nothing of the behaviours named.  Those that the user would notice
are listed under known divergences.

| variable | properties | excused |
|---|---|---|
| `abandoned` | `NoOrphanTable` | a table that is in after a failed delete, after a watcher that erred or missed its event, or after the helper died |
| `refused` | `OffMeansOff NoLockout` | a table that survived a failed `RemoveRules`, until it is replaced or removed |
| `early`, `late` | `OffMeansOff` | a table, or the flag that asks for one, that a future installed after the preference was switched off or the rules removed, if it was under way then (`early`) |
| `spoiled` | `OffMeansUnrouted SavedListInForce` | any call of the last change failed, or two pushes overlapped |
| `raced` | `NewestKept` | a read of the same field was under way when the secret was saved |
| `asked` (keyring) | `NeverLossy` | the user has at any time asked to delete what was kept for a path of that name; it is not reset |
| `gone` | `DeletedStaysDeleted` | a network deleted while a validation was under way is not counted as deleted |
| `settled` | `MirrorFollows` | emptied when a scan replaces the table: what the scan read is trusted only once a signal has written the entry |
| `slipped` | `NoStacking` | a key whose id was lost or given to a toast with buttons; a Notify that fails is taken to have shown nothing |
| `dead` | `ButtonsWork` | a toast whose Notify reply was unreadable or whose CloseNotification failed |
| `forsaken` | `WaitingEnds` | a session that waited when a call to it failed, a slot could not be read or its window was closed, until its next challenge |

`IdentityKnown` and `MirrorFollows` take the reads of a live session to work.
`ConfigBounded` and `AllBounded` count the retries since the config last gave
up or connected: after a lockout the budget starts anew within the same window.
`BoundToTheLiving`, `FlaggedMeansTable` and `DisconnectUnbinds` are checked
where `RemoveRules` works, the first two where `AddRules` does, too.  In
`BypassSync` the answer of the drift check is applied in the step that reads
the helper's sets: a change of the sets between the helper's answer and its
application is left out (with a step of its own the instance of bypass has some
eight million states), one between the start of the check and its answer is not.

## Runs

| run | checks | bounds |
|---|---|---|
| firewall_races | `NoOrphanTable TrustBoundary` | three calls, two clients, all faults, late aborts, every interleaving |
| firewall_serial | `NoStrayWatcher`, `VanishReleases` under `FairSpec` | three calls, one at a time; two clients, failing nft, SIGTERM; no late abort |
| firewall_lockout (violated) | `VanishedClientFreed` | one call, one client that leaves |
| routing_serial | `RecordedIsOriginal OriginalsHeld CleanWhenOff` | three tasks, one at a time, two interfaces, all failures of an apply |
| routing_overlap | `TypeOK OnlyBootOrLoose` | two overlapping tasks, two networks, everything that can fail |
| gui_drops | `NoLockout NeverReleasedUnasked` | one config, two tunnels, queues of two, drops, refused passwords, Dismiss, failing RemoveRules |
| gui_outside | `TypeOK OffMeansOff` | one config, two tunnels, queues of one, tunnels of others, losses, failing AddRules, RemoveRules, NewTunnel and connections, auto-reconnect, the preference while futures are under way |
| answers | `CredentialTypeOK EnabledMeansProtected FlaggedMeansTable BoundToTheLiving`; `DisconnectUnbinds WaitingEnds` under fairness | kill switch: two configs, two sessions, queues of one, pauses, reconnects, the preference, failing NewTunnel and connections, no drop; credentials: two tunnels, three inputs in two rounds, two refusals, two futures, every call may fail |
| parts | `PartsTypeOK` and, by part: | |
| · clocks | `IdleOnlyConnected CooldownKept OnlyStalledStopped`; `GenerationsDrained WarnedWhenLate NeverWarnedEarly`; `ConfigBounded AllBounded` | poller: two tunnels of one config, four ticks; watchers: two sessions, time-out of two ticks, three asleep; budget: three configs, three attempts each, five in all, window of two, five ticks |
| · keyring | `OwnSecretsOnly NewestKept NeverLossy` | two configs of one name, one field, two overlapping operations, one save |
| · windows | `DeletedStaysDeleted`; `MirrorFollows IdentityKnown`; `NoStacking ButtonsWork`; `ViewAgrees` | editor: 3-bit addresses, two rows, two validations; mirror: one session, two signals on their way, two tries, one restart; notifications: two names and the help toast, two ids of which one is kept, two futures; logs: two paths of one profile, three lines, buffers of two |
| timeout_changed (violated) | `NeverWarnedEarly` | one session, time-outs of one and three ticks |
| bypass | `OffMeansUnrouted SavedListInForce ReportsHonestly` | two networks, two sessions, two futures, one saved change, one foreign change of the nft sets |
| bypass_unticked (violated) | `ReconnectCoversSave` | one network, one session, one future |

Why the bounds are enough.  Two clients are a GUI and the one that starts after
it; three calls are the two that a race needs and one after it.  Two interfaces
are needed for a moved uplink, three tasks for apply, re-apply and removal.  Two
sessions of different configs are the smallest system with a survivor, two of
one config the smallest with a replacement; a queue of two (gui_drops) lets a
signal be overtaken by a second one.  Two pushes and a drift check are all that can
overlap on one GLib thread before the third waits for the same state; a list
that loses or gains one of two networks is every kind of change.  Four ticks
see a stop, the replacement's silence and the end of the cooldown.  Two configs
of one name are what the keyring's scheme is about.  The global cap of five is
below the three budgets together and above each, so that it bites by itself.
Three log lines overflow buffers of two.  Deadlock is not checked: every
instance stops when its calls, tasks, sessions or ticks are used up.

Fairness.  `HelperFirewall!FairSpec`: tokio resumes a task whose nft run or
signal is ready, and shutdown ends; clients, faults and SIGTERM owe nothing.
`GuiKillSwitch!FairSpec`: GLib polls every ready future and stream.
`SessDestroyed` gets strong fairness, since under `Serial` other handlers'
futures disable it again and again; the user and the services owe nothing.
`CredentialFlow!CredentialFairness`: the same for its futures and signals, and
strong fairness of `SubmitsAll`, a user who sooner or later fills in the whole
of a dialog that keeps coming back; partial answers are never required to stop
otherwise.

## Proofs

All of them hold for every value of the constants, from the named ASSUMEs of
the modules (`None` is no call or client, bounds are naturals, `NoSecret` is no
secret, `NoEntry` no tray entry, a config's path is no display name, the configs
of the retry budget are finitely many, a session asks in at least one round and
in finitely many, every session path of the log has a profile) and, where it is
said, from hypotheses on the instance.  Those hypotheses are the ones
that the runs have (those of `GuiSettledProofs` on behaviours excepted), and each
has a run or a divergence below that shows what happens without it.

`HelperFirewallProofs` and `HelperRoutingProofs`:

- `TypeCorrect` of both: the type invariant is inductive by itself.
- `OnlyValidListsReachNft`: `TrustBoundary`, inductive with the types.
- `TablesHaveAgents`: `NoOrphanTable`.  It is not inductive: deleting a watcher
  in `AddLock` is harmless only because the call that does it is itself an
  agent until it has spawned its own, so the strengthening relates the recorded
  watcher, the calls between nft and lock, and the state of each watcher.
- `SerialCallersHaveOneWatcher`: `NoStrayWatcher`, assuming `Serial` and no late
  abort (a divergence below); the strengthening says that at most one call is in
  flight.
- `NoForeignValue`: `OnlyBootOrLoose`; the strengthening says that whatever a
  task has read, saved or recorded for an interface is its boot value or loose.
- `OriginalsInCustody` and `RecordsAreOriginals`: `OriginalsHeld` and
  `RecordedIsOriginal`, assuming `Serial` and that a restore does not fail.
- `OffLeavesNoTrace`: `CleanWhenOff`, assuming also that `ip` can be started.
  `Tidy` follows the tear-down through its steps.  Its core is arithmetic: the
  loop deletes at most 2 * MAX_BYPASS rules, which is enough because at most
  MAX_BYPASS are ever in, so the rules and the deletions so far never exceed
  the loop's bound together.

`GuiKillSwitchProofs`, for any number of sessions, configs and futures:

- `TypeCorrect`: `TypeOK`.  Inductive only with the shape of each future, which
  says what its step may find in its fields.
- `SwitchedOffStaysOff`: `OffMeansOff`, with no hypothesis: handlers and futures
  interleave freely, both calls to the helper may fail.  `Switched` says, with
  the preference off and nothing `late`, that a future about to install rules is
  one of `early`, that a table that is left has a future about to remove it or
  survived a failed `RemoveRules`, and that flags are left only until then.
- `LockShownIsLockHeld`: `FlaggedMeansTable`, assuming `Patient` and that
  AddRules does not fail (a divergence below is what happens otherwise).
  `OneAtATime`: one working future at most, the delays of auto-reconnect apart.
  `Locked`: a flag has the table behind it, or a removal whose reply will clear
  it.
- `OnlyTheUserLetsGo`: the action property `NeverReleasedUnasked`, with no
  `Serial`, assuming only `NoErrors` (no tunnel is killed or fails, the session
  manager stays).  `Asked`: every future, mark and signal that can end in a
  release stems from something the user did.
- `NeverBoundToTheGone`: `BoundToTheLiving`, assuming `Patient`, no
  block-during-pause and `Orderly`: every tunnel ends by a Disconnect, and both
  calls to the helper work.  (That RemoveRules works is what the argument takes;
  in answers with "removefail" TLC finds no violation.)  `Bound`
  has five parts, because the table is bound by a future to what it read
  earlier: what the last signal of a paused session says, that a session shown
  as connected has its pause announced, that every end was marked, what a
  future that installs rules may still count on, and that a table bound to a
  session that is leaving has a future or a signal that will rebind it.

`GuiSettledProofs`, what the kill switch promises once it is settled, for any
number of sessions, configs and futures, assuming `Patient`:

- `NobodyLockedOut`: `NoLockout`, if NewTunnel works (RemoveRules may fail).  `Heard`: whenever there is
  a table, or a future about to install one, somebody will see to it: a
  notification, a connect or retry under way, a removal or rebind, or a session
  whose end will be answered (`Answers`: the end is the user's, or its entry has
  a config, and no retry has taken it over).  `Removed`: between the removal and its
  reply there is no table.
- `ConnectedMeansProtected`: `EnabledMeansProtected`, if AddRules works, nothing
  is dismissed and no rebind chose a tunnel that was not up (`FellBack`, the
  divergence below).  `Current`: a session that is connected and whose signals
  are all handled is shown so; `Flagged`: it has its flag or an apply that is
  about it or comes to it; `Clearing`: flags are taken and the table is removed
  only where no such session needs it; with `Locked`, a flag has its table.
- Both rest on `Base`: what the signals on their way say of a session
  (`Spoken`), what its entry, its marks and the lists it is on say (`Placed`),
  and what a future may count on of the sessions that it is about (`Meant`).
- Both are stated for behaviours with `[]AllNamed`: every tunnel that is up has
  an entry with its config.  It is needed: `retain` in `connect_to_config` drops
  every entry of its config, of a tunnel that is up as well, and without it TLC
  finds a lockout with three sessions of one config (a divergence of the kill
  switch below).  With two tunnels of one config, as in gui_drops, `NoLockout`
  holds without it, too.
- `AllNamed` and `FellBack` speak of the GUI; two more theorems reduce them to
  the tunnels.  `TunnelsAreNamed`: where a config's new tunnel is asked for when
  its earlier ones are over, and none starts while the loss of the session
  manager is dealt with (`TunnelsInTurn`), `AllNamed` holds.  `RebindsHold`: where
  a survivor is still connected when the rebind asks for its interface
  (`SurvivorsStay`), no rebind falls back.  `NobodyLockedOutInTurn` and
  `ConnectedStaysProtected` put them together.  Such behaviours include drops,
  reconnects from the notification and the menu, refused passwords with their
  retries, disconnects with survivors, pauses and the preference.

`BypassSyncProofs`:

- `TypeCorrect`, inductive; it bounds the counts by the number of networks.
- `Implements`: `ReportsHonestly`, the refinement of `BypassReport`.  Every
  step maps to a report, a release, a failure, a drift, a recovery or a
  stutter; that a recovery gives back the right counts needs the invariant
  `Honest`, that tray, notification and outcome agree.
- `CountsAreOfLastApply`: the counts that the tray shows are those of the last
  apply, a part of `Honest` and implied by `ReportsHonestly`, so no run has it.
- `OffIsUnrouted` and `SavedIsInForce`: `OffMeansUnrouted` and
  `SavedListInForce`, with no hypothesis.  `Agreement` says what a push has
  settled at each of its steps, and that the others rest: until two pushes
  overlap or a call fails (`spoiled`), either the settings, the helper and the
  tray agree or the one future under way will make them.

`KeyringStoreProofs`:

- `TypeCorrect` and `SecretsStayWithTheirConfig` (`OwnSecretsOnly`), from an
  invariant `Owned`: every operation under way holds a secret of its own config
  or of its display name, and an item under a name is of that name.
- `NewestStays`: `NewestKept`.  `MissIsTrue` is why a migration does not put an
  old secret over a new one: a read that has missed under the path may go on
  only while nothing was saved there, or a save has raced with it.
- `MigrationLosesNothing`: `NeverLossy`, for a set of names each of which is
  the name of some config.  `CopiedFirst` says that before the legacy item is
  erased the new one is there or its deletion was asked for, and `AskedFor`
  that a deletion under way has found only items that were asked for.
- `CredentialTypeCorrect`: `CredentialTypeOK` of the dialogs, inductive: no
  window, submission or answer has a slot that its session has not asked for in
  the rounds so far, and the attempts stay below their limit.

`TimersProofs`, the time-out watchers, the retries and the poller:

- `WatchersTypeCorrect` and `GenerationsAreDrained` (`GenerationsDrained`).
- `LateIsWarned`: `WarnedWhenLate`, also when the time-out changes.
  `WatchedOver`: until the warning, the watcher of the attempt under way is
  asleep, with the generation that lets it warn; and no watcher oversleeps.
- `WarnedInTime`: `NeverWarnedEarly`, if the time-out is not changed
  (timeout_changed is what happens otherwise).  Then the watchers sleep in the
  order in which they wake, and the one with the generation of its session is
  its last.
- `BudgetBoundsConfig`: `ConfigBounded`.  The counter forgets with the window,
  the property counts in any window; `Covered` relates them: the retries that
  are not counted any more are older than the window.
- `BudgetBoundsAll`: `AllBounded`.  By `Covered` the retries of every config in
  the window are among its counted attempts, at most as many as its counter
  says; so the retries of all configs map one to one into the attempts that
  `active_attempt_total` counts, which are below the cap when a retry is granted
  and do not grow otherwise.
- `PollerTypeCorrect` and `IdleClocksOfTheConnected`, inductive with the types.
- `CooldownSurvivesSessions`: `CooldownKept`, from the invariant that the stamp
  of a config is the time of its last stop.
- `OnlySilenceStops`: `OnlyStalledStopped`.  The strengthening says why a
  counter that has not moved means silence: counters only grow, so if one still
  has the value of the last poll, the last byte is older than the idle clock;
  and the same of the counter in a reply that is not yet applied.

`WindowsProofs`, the editor, the notifications, the session list and the log
viewer; none has a hypothesis on the instance:

- `EditorTypeCorrect` and `DeletedStays` (`DeletedStaysDeleted`).  The rows are
  distinct and canonical and hold nothing that was deleted, and no list under
  way to the helper has a network that was deleted since it was last sent.  That
  clearing the host bits twice is clearing them once is what keeps an edited row
  equal to itself.
- `NotificationTypeCorrect`; `ButtonsHaveListeners` (`ButtonsWork`), from
  `Attended`: a toast with buttons has a future that shows it, listens to it or
  is closing it, or is one of `dead`; and `ClosedAreGone`: a listener has heard
  of a `NotificationClosed` only if its toast has gone, so that it stops
  listening only to toasts that are not there.
- `ToastsDoNotStack`: `NoStacking`.  `Single` says for a key that has not
  slipped: one task at most holds the key, and while one does, the key's toasts
  are the one it has shown or is about to replace; otherwise they have the id
  that is kept.
- `MirrorTypeCorrect`; `SessionsIdentified` (`IdentityKnown`), from `Born`
  (nothing is known or awaited of a session before it begins) and `Identified`:
  an entry, a scan's reading or an answer without a config has a backfill under
  way, or its session is gone.
- `TrayFollows`: `MirrorFollows`.  It needs three strengthenings.  `Ends`: only
  what is over fades, is announced as destroyed or has reported so, hence a
  delayed removal takes no live entry.  `Informed`: reports come only with a
  subscription and with LogForward, and the last one that is queued, or else
  the last one handled, is what the session is doing.  `Faithful`: a session
  that is not forwarded has LogForward and the read ahead of it; one whose
  reports are all handled is shown as it is, or handle_session_created has
  still to read it, or has read what it is doing.  This is where the order of
  LogForward and the read matters.

- `LogTypeCorrect` and `TabsShowTheirEntries` (`ViewAgrees`).  A tab renders a
  line as it arrives and renders all of its entries anew when the filter changes
  or the oldest entries go; the two agree because the filter of a longer list is
  the filter of the list and, if it passes, the new line (`FilteredMore`).  By
  ranks this is arithmetic on the sizes of sets, no induction over a list.

Only model-checked:

- liveness (`VanishReleases`, `DisconnectUnbinds`, `WaitingEnds`), which is out
  of the prover's reach;
- `PartsTypeOK`, the conjunction of the type invariants of the parts in one run;
  each of them is a theorem about the part's own specification;
- `NoLockout` without `[]AllNamed`, for the bounds of gui_drops.

## Known divergences

Kept as runs: the three violated ones above.  A client that leaves before its
watcher listens is never noticed; a watcher of an earlier attempt takes itself
for the latest after the time-out was changed; a network unticked as the last
one while the session is down stays routed after the reconnect.

The others come back when a run is widened as said; they bound the passing
runs.

Helper:

- `routing_serial` with `Serial = FALSE`: of two overlapping applies the second
  records the loosened `rp_filter` as the original (service.rs:279).
- firewall, `Events = {"vanish"}`, `OneGui`: the watcher of the GUI that left
  may run its delete after the next GUI's `AddRules` (service.rs:405), so a
  restarted GUI has no rules although docs/kill-switch.md:172 says "No gap".
- firewall_serial with "late": a watcher that is aborted when it is past its
  last await still takes the lock, forgets the client of its successor and drops
  its handle, which goes on unrecorded (service.rs:145-147, 458-474).
  `NoStrayWatcher` fails.
- firewall_races: an `AddRules` that is answered between the shutdown sweep and
  the exit leaves its table with nobody to remove it (main.rs:45); so does a
  crash, after which the helper starts with an empty State (service.rs:56).
- `routing_serial` with `Serial = FALSE`, too: the clean-up after a vanished
  client takes the originals an apply under way relies on (service.rs:449).
- routing, `Events = {"vanish"}`: a client that only applied bypass routes has
  no watcher; its routes outlive it (service.rs:149, comment at 455-459).
- `SetBypassCidrs` never updates the nft sets of a table that is in; only the
  next `AddRules` does.
- `canonicalize_cidr` tests the reserved ranges on the address before its host
  bits are cut (validation.rs), so a network may be canonical and reserved.
- `host_key` (nft.rs) strips "/32" from an IPv6 network, too.

Kill switch:

- answers with three sessions of three configs (pauses and reconnects are
  enough): one is disconnected; the survivor that is chosen to bind the table to
  has just begun to reconnect, the rebind fails, and the table is released
  though the third is up and protected (signal_handlers.rs:403), against
  killswitch_glue.rs:241-242.  `EnabledMeansProtected` fails.
- answers with "addfail": `add_rules` takes an error of the helper for success,
  the session is flagged and there is no table (killswitch.rs:143;
  docs/failure-modes.md:13 announces an error notification).
  `FlaggedMeansTable` and `EnabledMeansProtected` fail.
- gui_outside: an `AddRules` that is under way when the preference is switched
  off, or a rebind that has read the flags by then, takes effect after the
  removal and the table stays, though the preference is off
  (killswitch_glue.rs:58-84), against docs/kill-switch.md:160-163 ("OFF → rules
  removed immediately").  `OffMeansOff` without `late` fails.
- gui_outside, gui_drops: `remove_rules` keeps every failure to itself, a bus or
  a helper that is not there included (killswitch.rs:163-181); its callers clear
  every flag and say "inactive" (signal_handlers.rs:246-256,
  killswitch_glue.rs:207-215), and the table stays with no prompt and nobody to
  try again.  `OffMeansOff` and `NoLockout` without `refused` fail; in answers
  with "removefail" `DisconnectUnbinds` does.
- answers with "drop" and "dismiss": Dismiss of one session's notification
  removes the rules of another that is up (interactive.rs:152).
- gui_drops with "killed", "connfail" or "outside": a tunnel that dies of an
  error is disconnected by `disconnect_with_message`, which marks it as the
  user's own disconnect, and the table is released without a prompt
  (session_ops.rs:285), although docs/kill-switch.md:185-191 calls a killed
  backend process unexpected.
- gui_drops with "lost": losing the session manager removes the rules
  (service_watcher.rs:156; docs/kill-switch.md:186-191 calls it unexpected).
- gui_drops with "tunnel": when the NewTunnel of an authentication retry or of
  the notification's Reconnect fails, the table stays and no prompt is left
  (handlers.rs:324, interactive.rs:127).
- answers with "drop": after an unexpected drop the table stays bound to
  the dead interface while another session is up (signal_handlers.rs:410).
- answers with `Serial = FALSE`: the survivors of a disconnect miss a
  session whose AddRules is on its way (signal_handlers.rs:283).
- "drop" and "tunnel", one config: a notification answered after its config was
  connected again removes the tray entry of the live session
  (session_ops.rs:133).
- answers with "authfail": a late AUTH_FAILED of a session the user has
  disconnected takes the retry path and keeps the table (handlers.rs:243).
- gui_drops with three sessions of one config, drops and dismissals: a prompt of
  an older drop is answered after the config was connected from the menu, which
  takes the live session's entry (session_ops.rs:133) and starts another; that
  one drops and its prompt is dismissed; the late "connected" of the first
  binds the table to an entry without a config, and when it drops before its
  identity is read again, `on_session_destroyed` has no name to prompt for
  (signal_handlers.rs:410).  `NoLockout` fails.
- a Disconnect call that fails keeps the user's mark, so a later drop of the
  session counts as intended (actions.rs:142).
- `full_killswitch_teardown` takes the bypass of another connected session with
  it (signal_handlers.rs:246).

The rest of the GUI:

- events that are sent while the GUI subscribes again are lost
  (signal_handlers.rs:131-166); `MirrorFollows` is about what was heard since.
- `refresh_configs` overwrites `tray.configs` with what it read before its
  awaits (config_ops.rs:44-80).
- a session that the GUI has connected itself is asked about twice; a challenge
  that follows may find an empty dialog of the second request, so `WaitingEnds`
  speaks of sessions that others started.  A session that asked before
  LogForward was on is not asked about until its next signal.
- answers, without `forsaken`: what fails is not tried again, and a live session
  stays waiting with no dialog.  The query of its queue before the request
  (auth_dispatch.rs:65-86; docs/failure-modes.md:22 says so); the proxy or the
  groups of the request (credential_handler/mod.rs:62-73), and a slot that cannot
  be read is not in the dialog (184-193); "any other error" of a provide, the
  proxy or the connect of a submission (submit.rs:202-210); a Ready that fails for
  another reason is taken for "more input needed"; a Disconnect after Cancel
  (session_ops.rs:290).  The window's close button runs neither submit nor cancel
  (singleton.rs:84-89, credentials.rs:171-216).  `WaitingEnds` fails.
- parts, without `dead`: if the reply of Notify cannot be read the future ends
  and nobody listens to the buttons that are on the screen
  (interactive.rs:216-226); if CloseNotification fails after an action the toast
  stays with dead buttons (112-125, 262-266).  `ButtonsWork` fails.
- a click, or a `NotificationClosed`, that comes before the MessageStream is made
  is lost (interactive.rs:231): the first does nothing until it is repeated, after
  the second the future listens for ever to a toast that is gone.  No toast is
  shown at all if the session bus or AddMatch fails.
- the history variables of `BypassSync`: of two overlapping pushes the calls of
  the older may land last (bypass_apply.rs:101), and a list that was replaced is
  in force.
- the editor: the answer of a validation replaces the rows by the list that was
  sent, so a network deleted meanwhile comes back (routing_tab.rs:240).
- a read of the keyring that has missed under the path when a newer secret is
  saved puts the legacy secret over it (store.rs:159-222).
- deletions of several items stop at the first that fails (store.rs,
  `delete_matching` with `?`), although the comment at store.rs:144-146 says
  that each is reported independently.
- a read that overlaps a deletion may restore what was forgotten: its migration
  creates the item after the search.
- the reconnect notification stores its id under the config's name, so that
  the next "connected" toast replaces it; a help notification withdrawn before
  its id was recorded stays.
- a late refusal of a validation enables the Add button past the largest count
  (routing_tab.rs:417-425).
- a log line may be shown twice when the tab is created by a live line that is
  in the buffer already; a path whose config was not known at its first line
  keeps `FALLBACK_NAME` for the life of the viewer.

## Not modelled

The nft script and the JSON of its listing (`nft.rs`): text, of which
`BypassSync` keeps the sets and their difference, and which networks an
interval set refuses is nft's.  The tray menu, icons, statistics,
configuration and about windows: presentation over one call each.  GSettings,
import of profiles, autostart: values and I/O in a straight line.  Web
authentication: it opens a browser.  The other pages of Preferences.  The D-Bus
proxies are declarations; the services behind them are in the models as
external actions.  Packaging and scripts.

## Plan

1. Done: the helper, the kill switch, split tunnelling with its abstract
   specification, start-up, dialogs, keyring, retries, notifications, logs,
   timers; every invariant and action property of a passing run, but for the
   composite `PartsTypeOK`, is a theorem as well.
2. Next: `HelperFirewall` and `HelperRouting` as an implementation of the calls
   `BypassSync` makes in one step (rules on or off).
3. Larger instances of the mirror (two sessions) and of the kill switch (three
   sessions with drops), where a rebind has a choice.
