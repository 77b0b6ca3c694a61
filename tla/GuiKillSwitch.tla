--------------------------- MODULE GuiKillSwitch ---------------------------
(***************************************************************************)
(* What the GUI does with the kill-switch over the life of its sessions:   *)
(* the StatusChange loop (gui/src/app/status_handler), the SessionManager- *)
(* Event loop (signal_handlers.rs), the session operations they spawn      *)
(* (session_ops.rs), the tray menu and the reconnect notification, against *)
(* the one firewall table that the helper keeps for all sessions.          *)
(*                                                                         *)
(* The GUI is one thread.  A handler runs to its end and leaves the rest   *)
(* to futures that it spawns; a future runs from await to await, so        *)
(* handlers and other futures run between the steps of a future.  The two  *)
(* signal streams are not ordered with respect to each other.  The helper  *)
(* is its table alone here (module HelperFirewall has the rest), and an    *)
(* AddRules or RemoveRules takes effect before its reply comes.            *)
(***************************************************************************)
EXTENDS Naturals, FiniteSets, Sequences

CONSTANTS
  Sessions,          \* session paths, each used for one tunnel
  Configs,
  ConfigOf,          \* the config of each session
  Slots,             \* places for spawned futures (bounds how many run)
  MaxQueue,          \* StatusChange signals of a session on their way (bound)
  MaxAttempts,       \* MAX_CREDENTIAL_ATTEMPTS
  Events,            \* what may happen in this instance, see the guards
  AutoReconnect,     \* the preference of that name
  BlockDuringPause,  \* the preference of that name
  Serial,            \* TRUE: handlers wait for the futures of earlier ones
  None

ASSUME ConfigAssumption == ConfigOf \in [Sessions -> Configs]
ASSUME NoneAssumption == None \notin Sessions /\ None \notin Configs
ASSUME BoundAssumption == MaxQueue \in Nat /\ MaxAttempts \in Nat \ {0}
ASSUME SwitchAssumption ==
  AutoReconnect \in BOOLEAN /\ BlockDuringPause \in BOOLEAN /\ Serial \in BOOLEAN

VARIABLES
  live,       \* each session as openvpn3 has it
  inbox,      \* StatusChange signals on their way, by session
  created,    \* sessions whose SessCreated is on its way
  destroyed,  \* sessions whose SessDestroyed is on its way
  tray,       \* status of each entry of tray.sessions, or "absent"
  known,      \* entries with a config_path
  flag,       \* entries with kill_switch_active
  fading,     \* entries with a delayed removal scheduled
  recent,     \* RECENT_DESTROYED_SESSIONS
  userDisc,   \* USER_DISCONNECTED
  authRetry,  \* AUTH_RETRY_SESSIONS
  attempts,   \* CREDENTIAL_ATTEMPTS of each config
  job,        \* the future in each slot
  prompts,    \* configs with an open reconnect notification
  enabled,    \* enable-kill-switch
  table,      \* session to whose interface the helper's table is bound, or None
  asked,      \* history: since AddRules last took effect the user did
              \* something that lets the firewall go, using up the attempts
              \* at a password included
  early,      \* history: slots whose future may have begun before the rules
              \* were last removed, after the preference was switched off
  late,       \* history: since then such a future installed rules or set a flag
  refused     \* history: the rules in the table survived a failed RemoveRules

backend == <<live, inbox, created, destroyed>>
entries == <<tray, known, flag>>
marks   == <<fading, recent, userDisc, authRetry, attempts>>
choice  == <<enabled, early, late, refused>>
ui      == <<prompts, choice, asked>>
vars    == <<backend, entries, marks, job, ui, table>>

(***************************************************************************)
(* Futures: what one is for, the session or config it was spawned about,   *)
(* the session it installs rules for, where it is, and the sessions it has *)
(* still to go through.                                                    *)
(***************************************************************************)
Kinds == {"none", "apply", "all", "pause", "rebind", "release", "lost",
          "disconnect", "drop", "retry", "connect", "auto"}
Steps == {"", "query", "adding", "added", "removing", "removed", "snapshot",
          "mark", "disconnect", "retain", "tunnel"}

Future(kind, step, s, c, target, rest) ==
  [kind |-> kind, step |-> step, session |-> s, config |-> c,
   target |-> target, rest |-> rest]

NoFuture == Future("none", "", None, None, None, {})

Spawn(future) ==
  \E f \in Slots : job[f] = NoFuture /\ job' = [job EXCEPT ![f] = future]

End(f) == job' = [job EXCEPT ![f] = NoFuture]

Goto(f, step) == job' = [job EXCEPT ![f].step = step]

At(f, step) == job[f].step = step

\* A future that only waits for its auto-reconnect delay.
Waiting(f) == job[f].kind = "auto" /\ At(f, "retain")

\* Whether a handler may run now.
Free ==
  Serial => created = {} /\ \A f \in Slots : job[f] = NoFuture \/ Waiting(f)

Connected == {s \in Sessions : tray[s] = "connected"}

\* A mutant: every session stands alone.
NoSurvivors(s) == {}

\* decide_kill_switch_teardown: who else is connected and protected.
Survivors(s) == (Connected \cap flag) \ {s}

\* A mutant: the entry's identity outlives it.
RemoveStatusOnly(gone) ==
  /\ tray' = [s \in Sessions |-> IF s \in gone THEN "absent" ELSE tray[s]]
  /\ flag' = flag \ gone
  /\ UNCHANGED known

Remove(gone) ==
  /\ tray' = [s \in Sessions |-> IF s \in gone THEN "absent" ELSE tray[s]]
  /\ known' = known \ gone
  /\ flag' = flag \ gone

Insert(s, status) ==
  /\ tray' = [tray EXCEPT ![s] = status]
  /\ flag' = flag \ {s}

\* apply_kill_switch_to_sessions and the start-up loop: one after the other.
ApplyAll(set) ==
  IF set = {} THEN {NoFuture}
  ELSE {Future("all", "query", None, None, t, set \ {t}) : t \in set}

\* At start-up some sessions may be connected already: init_dbus puts them in
\* the tray and, with the kill-switch on, applies it to them.
Init ==
  \E up \in SUBSET Sessions :
    /\ "startup" \in Events \/ up = {}
    /\ live = [s \in Sessions |-> IF s \in up THEN "connected" ELSE "unborn"]
    /\ inbox = [s \in Sessions |-> <<>>]
    /\ created = {} /\ destroyed = {}
    /\ tray = [s \in Sessions |-> IF s \in up THEN "connected" ELSE "absent"]
    /\ known = up /\ flag = {}
    /\ fading = {} /\ recent = {} /\ userDisc = {} /\ authRetry = {}
    /\ attempts = [c \in Configs |-> 0]
    /\ prompts = {} /\ asked = FALSE /\ table = None
    /\ early = {} /\ late = FALSE /\ refused = FALSE
    /\ enabled \in IF "toggle" \in Events THEN BOOLEAN ELSE {TRUE}
    /\ \E f \in Slots, first \in ApplyAll(IF enabled THEN up ELSE {}) :
         job = [g \in Slots |-> IF g = f THEN first ELSE NoFuture]

---------------------------------------------------------------------------
(* openvpn3: the session manager and the tunnels *)

\* A session changes state and says so.
Report(s, state, statuses) ==
  /\ Len(inbox[s]) + Len(statuses) <= MaxQueue
  /\ live' = [live EXCEPT ![s] = state]
  /\ inbox' = [inbox EXCEPT ![s] = @ \o statuses]

\* It leaves the bus; a last StatusChange may precede SessDestroyed.
Gone(s) ==
  /\ \E last \in {<<>>, <<"disconnected">>} : Report(s, "gone", last)
  /\ destroyed' = destroyed \cup {s}

Connects(s) ==
  /\ live[s] = "connecting"
  /\ Report(s, "connected", <<"connected">>)
  /\ UNCHANGED <<created, destroyed, entries, marks, job, ui, table>>

Reconnecting(s) ==
  /\ "reconnecting" \in Events
  /\ live[s] = "connected"
  /\ Report(s, "connecting", <<"connecting">>)
  /\ UNCHANGED <<created, destroyed, entries, marks, job, ui, table>>

\* The server refuses the credentials; the session object stays.
AuthFails(s) ==
  /\ "authfail" \in Events
  /\ live[s] = "connecting"
  /\ Report(s, "failed", <<"authfail">>)
  /\ UNCHANGED <<created, destroyed, entries, marks, job, ui, table>>

\* The connection attempt fails; the session object stays.
ConnFails(s) ==
  /\ "connfail" \in Events
  /\ live[s] = "connecting"
  /\ Report(s, "failed", <<"failed">>)
  /\ UNCHANGED <<created, destroyed, entries, marks, job, ui, table>>

\* The backend process is killed: ProcKilled, then SessDestroyed.
Killed(s) ==
  /\ "killed" \in Events
  /\ live[s] = "connected"
  /\ Report(s, "gone", <<"failed">>)
  /\ destroyed' = destroyed \cup {s}
  /\ UNCHANGED <<created, entries, marks, job, ui, table>>

Drops(s) ==
  /\ "drop" \in Events
  /\ live[s] \notin {"unborn", "gone"}
  /\ Gone(s)
  /\ UNCHANGED <<created, entries, marks, job, ui, table>>

\* Somebody else starts a session, with the openvpn3 command line.
Outside(s) ==
  /\ "outside" \in Events
  /\ live[s] = "unborn"
  /\ Report(s, "connecting", <<"connecting">>)
  /\ created' = created \cup {s}
  /\ UNCHANGED <<destroyed, entries, marks, job, ui, table>>

---------------------------------------------------------------------------
(* The StatusChange loop.  Each status first updates the entry, if any.    *)

Receive(s, status) ==
  /\ Free
  /\ inbox[s] # <<>> /\ Head(inbox[s]) = status
  /\ inbox' = [inbox EXCEPT ![s] = Tail(@)]
  /\ UNCHANGED <<live, created, destroyed, prompts, choice, table>>

\* upsert_session_state: an unseen session gets an entry without config_path.
Upsert(s, status) ==
  /\ tray' = [tray EXCEPT ![s] = status]
  /\ UNCHANGED <<known, flag>>

UpdateIfPresent(s, status) ==
  /\ tray' = [tray EXCEPT ![s] = IF @ = "absent" THEN @ ELSE status]
  /\ UNCHANGED <<known, flag>>

StatusConnecting(s) ==
  /\ Receive(s, "connecting")
  /\ Upsert(s, "connecting")
  /\ UNCHANGED <<marks, job, asked>>

\* A mutant: on_connected does not read the preference.
StatusConnectedUngated(s) ==
  /\ Receive(s, "connected")
  /\ Upsert(s, "connected")
  /\ attempts' = IF s \in known THEN [attempts EXCEPT ![ConfigOf[s]] = 0] ELSE attempts
  /\ Spawn(Future("apply", "query", s, None, s, {}))
  /\ UNCHANGED <<fading, recent, userDisc, authRetry, asked>>

\* on_connected reads the preference now and spawns the apply.
StatusConnected(s) ==
  /\ Receive(s, "connected")
  /\ Upsert(s, "connected")
  /\ attempts' = IF s \in known THEN [attempts EXCEPT ![ConfigOf[s]] = 0] ELSE attempts
  /\ IF enabled THEN Spawn(Future("apply", "query", s, None, s, {})) ELSE UNCHANGED job
  /\ UNCHANGED <<fading, recent, userDisc, authRetry, asked>>

\* on_paused leaves the decision to the future.
StatusPaused(s) ==
  /\ Receive(s, "paused")
  /\ Upsert(s, "paused")
  /\ IF enabled /\ ~BlockDuringPause
       THEN Spawn(Future("pause", "snapshot", s, None, None, {}))
       ELSE UNCHANGED job
  /\ UNCHANGED <<marks, asked>>

\* schedule_disconnected_removal: remember the identity, remove the entry later.
StatusDisconnected(s) ==
  /\ Receive(s, "disconnected")
  /\ Upsert(s, "disconnected")
  /\ recent' = recent \cup ({s} \cap known)
  /\ fading' = fading \cup {s}
  /\ UNCHANGED <<userDisc, authRetry, attempts, job, asked>>

\* A mutant: the swap of tunnels is marked as a disconnect by the user.
MarkSwapAsUser(s) == userDisc' = userDisc \cup {s} /\ UNCHANGED authRetry

MarkSwap(s) == authRetry' = authRetry \cup {s} /\ UNCHANGED userDisc

\* handle_auth_failed: a new tunnel for the same config, unless the session
\* has no known config or has used its attempts (earlier ones may have expired).
StatusAuthFailed(s) ==
  LET c == ConfigOf[s]
      count == IF attempts[c] < MaxAttempts THEN attempts[c] + 1 ELSE MaxAttempts IN
  /\ Receive(s, "authfail")
  /\ UpdateIfPresent(s, "error")
  /\ \/ /\ s \in known
        /\ \E n \in {1, count} :
             /\ n < MaxAttempts
             /\ attempts' = [attempts EXCEPT ![c] = n]
        /\ MarkSwap(s)
        /\ Spawn(Future("retry", "disconnect", s, c, None, {}))
        /\ UNCHANGED asked
     \/ /\ s \in known => count = MaxAttempts
        /\ attempts' = IF s \in known THEN [attempts EXCEPT ![c] = 0] ELSE attempts
        /\ Spawn(Future("drop", "mark", s, None, None, {}))
        /\ asked' = TRUE
        /\ UNCHANGED <<userDisc, authRetry>>
  /\ UNCHANGED <<fading, recent>>

\* handle_conn_failed and handle_session_error.
StatusFailed(s) ==
  /\ Receive(s, "failed")
  /\ UpdateIfPresent(s, "error")
  /\ Spawn(Future("drop", "mark", s, None, None, {}))
  /\ UNCHANGED <<marks, asked>>

\* backfill_session_identity reads the config of a session that still exists.
Backfill(s) ==
  /\ tray[s] # "absent" /\ s \notin known
  /\ live[s] # "gone"
  /\ known' = known \cup {s}
  /\ UNCHANGED <<backend, tray, flag, marks, job, ui, table>>

---------------------------------------------------------------------------
(* The SessionManagerEvent loop *)

\* handle_session_created: the reads of a session that is gone all fail.
SessCreated(s) ==
  /\ s \in created
  /\ created' = created \ {s}
  /\ known' = IF live[s] = "gone" THEN known ELSE known \cup {s}
  /\ tray' = [tray EXCEPT ![s] =
       IF @ # "absent" THEN @
       ELSE IF live[s] \in {"connected", "paused"} THEN live[s] ELSE "connecting"]
  /\ UNCHANGED <<live, inbox, destroyed, flag, marks, job, ui, table>>

\* A mutant: RECENT_DESTROYED_SESSIONS is not consulted.
NamedInTray(s) == s \in known

\* The config of a destroyed session is known, from its entry or, when that
\* is gone, from RECENT_DESTROYED_SESSIONS.
Named(s) == s \in known \/ (tray[s] = "absent" /\ s \in recent)

\* handle_session_destroyed: survivors are those of this moment.
SessDestroyed(s) ==
  LET expected == s \in userDisc \cup authRetry IN
  /\ Free
  /\ s \in destroyed
  /\ destroyed' = destroyed \ {s}
  /\ recent' = IF tray[s] = "absent" THEN recent \ {s} ELSE recent
  /\ fading' = fading \cup {s}
  /\ userDisc' = userDisc \ {s}
  /\ authRetry' = authRetry \ {s}
  /\ \/ /\ s \in authRetry \/ (~expected /\ ~Named(s))
        /\ UNCHANGED <<job, prompts>>
     \/ /\ s \in userDisc \ authRetry
        /\ IF Survivors(s) = {}
             THEN Spawn(Future("release", "removing", s, None, None, {}))
             ELSE \E t \in Survivors(s) : Spawn(Future("rebind", "query", s, None, t, {}))
        /\ UNCHANGED prompts
     \/ /\ ~expected /\ Named(s)
        /\ IF AutoReconnect
             THEN Spawn(Future("auto", "retain", None, ConfigOf[s], None, {})) /\ UNCHANGED prompts
             ELSE prompts' = prompts \cup {ConfigOf[s]} /\ UNCHANGED job
  /\ UNCHANGED <<live, inbox, created, entries, attempts, choice, table, asked>>

\* The delayed removals, 3 s and 5 s after the signal.
Fade(s) ==
  /\ s \in fading
  /\ fading' = fading \ {s}
  /\ Remove({s})
  /\ UNCHANGED <<backend, recent, userDisc, authRetry, attempts, job, ui, table>>

\* The session manager leaves the bus with all its sessions, and no signal.
ServiceLost ==
  /\ "lost" \in Events
  /\ Free
  /\ \E s \in Sessions : live[s] \notin {"unborn", "gone"}
  /\ live' = [s \in Sessions |-> IF live[s] = "unborn" THEN "unborn" ELSE "gone"]
  /\ Spawn(Future("lost", "removing", None, None, None, {}))
  /\ UNCHANGED <<inbox, created, destroyed, entries, marks, ui, table>>

---------------------------------------------------------------------------
(* Futures: apply_kill_switch and what follows it *)

\* A mutant: a rebind that cannot be made is taken for done.
GiveUpSilently(f) ==
  IF job[f].rest = {} THEN End(f)
  ELSE \E t \in job[f].rest : job' = [job EXCEPT ![f].target = t, ![f].rest = @ \ {t}]

\* The session cannot anchor rules: an apply is over, or goes on to the next
\* session; a rebind falls back to releasing the table.
GiveUp(f) ==
  CASE job[f].kind = "apply" -> End(f)
    [] job[f].kind = "all" ->
         IF job[f].rest = {} THEN End(f)
         ELSE \E t \in job[f].rest :
                job' = [job EXCEPT ![f].target = t, ![f].rest = @ \ {t}]
    [] OTHER -> Goto(f, "removing")

\* device_name and connected_to; a session that is not connected may have none.
Query(f) ==
  /\ At(f, "query")
  /\ LET state == live[job[f].target] IN
       \/ state \notin {"gone", "failed"} /\ Goto(f, "adding")
       \/ state # "connected" /\ GiveUp(f)
  /\ UNCHANGED <<backend, entries, marks, ui, table>>

\* A request of the user to disconnect, pause or release is under way.
Pending ==
  \/ userDisc # {}
  \/ \E s \in Sessions, i \in 1..MaxQueue : i <= Len(inbox[s]) /\ inbox[s][i] = "paused"
  \/ \E f \in Slots : job[f].kind \in {"pause", "release", "rebind", "drop"}

\* What a future does to the rules or the flags with the preference off.
Lately(f) == late' = (late \/ (~enabled /\ f \in early))

HelperAdds(f) ==
  /\ At(f, "adding")
  /\ Goto(f, "added")
  /\ \/ table' = job[f].target /\ asked' = (asked /\ Pending) /\ refused' = FALSE /\ Lately(f)
     \/ "addfail" \in Events /\ UNCHANGED <<table, asked, refused, late>>
  /\ UNCHANGED <<backend, entries, marks, prompts, enabled, early>>

\* add_rules says true whatever the helper answered.
AddReturned(f) ==
  /\ At(f, "added")
  /\ IF job[f].kind \in {"apply", "all"}
       THEN /\ flag' = flag \cup ({job[f].target} \cap {s \in Sessions : tray[s] # "absent"})
            /\ Lately(f)
       ELSE flag' = flag \ {job[f].session} /\ UNCHANGED late
  /\ IF job[f].kind = "all" /\ job[f].rest # {}
       THEN \E t \in job[f].rest :
              job' = [job EXCEPT ![f].target = t, ![f].rest = @ \ {t}, ![f].step = "query"]
       ELSE End(f)
  /\ UNCHANGED <<backend, tray, known, marks, prompts, enabled, asked, early, refused, table>>

\* remove_rules keeps every failure to itself, its callers go on all the same.
HelperRemoves(f) ==
  /\ At(f, "removing")
  /\ Goto(f, "removed")
  /\ \/ table' = None /\ refused' = FALSE
     \/ "removefail" \in Events /\ refused' = TRUE /\ UNCHANGED table
  /\ UNCHANGED <<backend, entries, marks, prompts, enabled, asked, early, late>>

\* Which futures still count as early, and whether anything late is left.
Settle(f) ==
  LET others == {g \in Slots \ {f} : job[g] # NoFuture} IN
  /\ early' = early \cap others
  /\ late' = (late /\ (table # None \/ others # {}))

\* A mutant: only the entry that the release is about loses its flag.
RemoveReturnedOwn(f) ==
  /\ At(f, "removed")
  /\ End(f)
  /\ IF job[f].kind = "lost"
       THEN Remove(Sessions) /\ recent' = {}
       ELSE flag' = flag \ {job[f].session} /\ UNCHANGED <<tray, known, recent>>
  /\ Settle(f)
  /\ UNCHANGED <<backend, fading, userDisc, authRetry, attempts, prompts, enabled, asked,
                 refused, table>>

\* full_killswitch_teardown, pause_full_teardown, clear_kill_switch_rules and
\* the Dismiss action clear every flag; the loss of the service every entry.
RemoveReturned(f) ==
  /\ At(f, "removed")
  /\ End(f)
  /\ IF job[f].kind = "lost"
       THEN Remove(Sessions) /\ recent' = {}
       ELSE flag' = {} /\ UNCHANGED <<tray, known, recent>>
  /\ Settle(f)
  /\ UNCHANGED <<backend, fading, userDisc, authRetry, attempts, prompts, enabled, asked,
                 refused, table>>

\* A mutant: with a survivor connected the table stays where it is.
PauseSnapshotKeeps(f) ==
  /\ At(f, "snapshot")
  /\ IF Survivors(job[f].session) = {} THEN Goto(f, "removing") ELSE End(f)
  /\ UNCHANGED <<backend, entries, marks, ui, table>>

\* on_paused, in its future: survivors are those of this moment.
PauseSnapshot(f) ==
  /\ At(f, "snapshot")
  /\ IF Survivors(job[f].session) = {}
       THEN Goto(f, "removing")
       ELSE \E t \in Survivors(job[f].session) :
              job' = [job EXCEPT ![f].target = t, ![f].step = "query"]
  /\ UNCHANGED <<backend, entries, marks, ui, table>>

---------------------------------------------------------------------------
(* Futures: session operations *)

\* disconnect_with_message marks the session as disconnected by the user.
MarkDropped(f) ==
  /\ At(f, "mark")
  /\ userDisc' = userDisc \cup {job[f].session}
  /\ Goto(f, "disconnect")
  /\ UNCHANGED <<backend, entries, fading, recent, authRetry, attempts, ui, table>>

\* session_action("disconnect"): fails, with a message, if the session is gone.
DisconnectCall(f) ==
  /\ At(f, "disconnect")
  /\ IF live[job[f].session] = "gone" THEN UNCHANGED <<live, inbox, destroyed>>
                                      ELSE Gone(job[f].session)
  /\ IF job[f].kind = "retry" THEN Goto(f, "retain") ELSE End(f)
  /\ UNCHANGED <<created, entries, marks, ui, table>>

\* connect_to_config drops the entries of its config and asks for a tunnel.
Retain(f) ==
  /\ At(f, "retain")
  /\ Remove({s \in known : ConfigOf[s] = job[f].config})
  /\ Goto(f, "tunnel")
  /\ UNCHANGED <<backend, marks, ui, table>>

\* NewTunnel returns: the session gets an entry and is told to connect, which
\* may yet fail and make an auto-reconnect ask the user.
TunnelCreated(f, s) ==
  /\ At(f, "tunnel")
  /\ live[s] = "unborn" /\ ConfigOf[s] = job[f].config
  /\ live' = [live EXCEPT ![s] = "connecting"]
  /\ Insert(s, "connecting") /\ known' = known \cup {s}
  /\ created' = created \cup {s}
  /\ \/ UNCHANGED prompts
     \/ /\ "tunnel" \in Events /\ job[f].kind = "auto"
        /\ prompts' = prompts \cup {job[f].config}
  /\ End(f)
  /\ UNCHANGED <<inbox, destroyed, marks, choice, table, asked>>

\* NewTunnel fails for good.
TunnelFailed(f) ==
  /\ "tunnel" \in Events
  /\ At(f, "tunnel")
  /\ prompts' = IF job[f].kind = "auto" THEN prompts \cup {job[f].config} ELSE prompts
  /\ End(f)
  /\ UNCHANGED <<backend, entries, marks, choice, table, asked>>

---------------------------------------------------------------------------
(* The user: tray menu, reconnect notification, preferences *)

\* A config is offered when no entry has its path.
Connect(c) ==
  /\ Free
  /\ \A s \in known : ConfigOf[s] # c
  /\ Spawn(Future("connect", "retain", None, c, None, {}))
  /\ UNCHANGED <<backend, entries, marks, ui, table>>

\* Offered on an entry that is disconnected or in error.
Reconnect(s) ==
  /\ Free
  /\ s \in known /\ tray[s] \in {"disconnected", "error"}
  /\ userDisc' = userDisc \cup {s}
  /\ asked' = TRUE
  /\ Spawn(Future("connect", "retain", None, ConfigOf[s], None, {}))
  /\ UNCHANGED <<backend, entries, fading, recent, authRetry, attempts, prompts, choice, table>>

Disconnect(s) ==
  /\ Free
  /\ tray[s] # "absent"
  /\ userDisc' = userDisc \cup {s}
  /\ attempts' = IF s \in known THEN [attempts EXCEPT ![ConfigOf[s]] = 0] ELSE attempts
  /\ asked' = TRUE
  /\ Spawn(Future("disconnect", "disconnect", s, None, None, {}))
  /\ UNCHANGED <<backend, entries, fading, recent, authRetry, prompts, choice, table>>

Pause(s) ==
  /\ "pause" \in Events
  /\ Free
  /\ tray[s] = "connected" /\ live[s] = "connected"
  /\ Report(s, "paused", <<"paused">>)
  /\ asked' = TRUE
  /\ UNCHANGED <<created, destroyed, entries, marks, job, prompts, choice, table>>

\* Resume, of a paused entry, and Restart, of a connected or paused one.
ResumeOrRestart(s) ==
  /\ "pause" \in Events
  /\ Free
  /\ tray[s] \in {"connected", "paused"} /\ live[s] \in {"connected", "paused"}
  /\ Report(s, "connecting", <<"connecting">>)
  /\ UNCHANGED <<created, destroyed, entries, marks, job, ui, table>>

\* The notification's Reconnect button sends Connect, whatever the menu offers.
PromptReconnect(c) ==
  /\ Free
  /\ c \in prompts
  /\ prompts' = prompts \ {c}
  /\ Spawn(Future("connect", "retain", None, c, None, {}))
  /\ UNCHANGED <<backend, entries, marks, choice, asked, table>>

PromptDismiss(c) ==
  /\ "dismiss" \in Events
  /\ Free
  /\ c \in prompts
  /\ prompts' = prompts \ {c}
  /\ asked' = TRUE
  /\ Spawn(Future("release", "removing", None, None, None, {}))
  /\ UNCHANGED <<backend, entries, marks, choice, table>>

\* apply_kill_switch_transition; with "overtake" the preference is switched
\* while futures are under way even where the other handlers wait for them.
Toggle ==
  /\ "toggle" \in Events
  /\ Free \/ "overtake" \in Events
  /\ enabled' = ~enabled
  /\ IF enabled
       THEN /\ asked' = TRUE /\ early' = Slots
            /\ Spawn(Future("release", "removing", None, None, None, {}))
       ELSE /\ UNCHANGED asked /\ early' = {}
            /\ \E first \in ApplyAll(Connected) : Spawn(first)
  /\ late' = FALSE
  /\ UNCHANGED <<backend, entries, marks, prompts, refused, table>>

---------------------------------------------------------------------------
Openvpn3(s) ==
  \/ Connects(s) \/ Reconnecting(s) \/ AuthFails(s) \/ ConnFails(s)
  \/ Killed(s) \/ Drops(s) \/ Outside(s)

Status(s) ==
  \/ StatusConnecting(s) \/ StatusConnected(s) \/ StatusPaused(s)
  \/ StatusDisconnected(s) \/ StatusAuthFailed(s) \/ StatusFailed(s)

Run(f) ==
  \/ Query(f) \/ HelperAdds(f) \/ AddReturned(f) \/ HelperRemoves(f)
  \/ RemoveReturned(f) \/ PauseSnapshot(f) \/ MarkDropped(f)
  \/ DisconnectCall(f) \/ Retain(f) \/ TunnelFailed(f)
  \/ \E s \in Sessions : TunnelCreated(f, s)

User ==
  \/ \E c \in Configs : Connect(c) \/ PromptReconnect(c) \/ PromptDismiss(c)
  \/ \E s \in Sessions : Reconnect(s) \/ Disconnect(s) \/ Pause(s) \/ ResumeOrRestart(s)
  \/ Toggle

Next ==
  \/ \E s \in Sessions : Openvpn3(s) \/ Status(s) \/ Backfill(s)
                         \/ SessCreated(s) \/ SessDestroyed(s) \/ Fade(s)
  \/ \E f \in Slots : Run(f)
  \/ User
  \/ ServiceLost

Spec == Init /\ [][Next]_vars

(***************************************************************************)
(* The GLib loop polls every future that can go on and every stream that   *)
(* has an item, sooner or later; openvpn3 and the user owe nothing.        *)
(***************************************************************************)
FairSpec ==
  /\ Spec
  /\ \A f \in Slots : WF_vars(Run(f))
  /\ \A s \in Sessions : WF_vars(SessCreated(s)) /\ SF_vars(SessDestroyed(s))

---------------------------------------------------------------------------
(* Properties *)

Futures ==
  [kind : Kinds, step : Steps, session : Sessions \cup {None},
   config : Configs \cup {None}, target : Sessions \cup {None}, rest : SUBSET Sessions]

TypeOK ==
  /\ live \in [Sessions -> {"unborn", "connecting", "connected", "paused", "failed", "gone"}]
  /\ inbox \in [Sessions -> Seq({"connecting", "connected", "paused",
                                 "disconnected", "authfail", "failed"})]
  /\ created \subseteq Sessions /\ destroyed \subseteq Sessions
  /\ tray \in [Sessions -> {"absent", "connecting", "connected", "paused",
                            "disconnected", "error"}]
  /\ known \subseteq {s \in Sessions : tray[s] # "absent"}
  /\ flag \subseteq {s \in Sessions : tray[s] # "absent"}
  /\ fading \subseteq Sessions /\ recent \subseteq Sessions
  /\ userDisc \subseteq Sessions /\ authRetry \subseteq Sessions
  /\ attempts \in [Configs -> 0..MaxAttempts]
  /\ job \in [Slots -> Futures]
  /\ prompts \subseteq Configs /\ enabled \in BOOLEAN /\ asked \in BOOLEAN
  /\ early \subseteq Slots /\ late \in BOOLEAN /\ refused \in BOOLEAN
  /\ table \in Sessions \cup {None}

\* Nothing is under way: every signal is handled and every future has ended.
Quiet ==
  /\ \A f \in Slots : job[f] = NoFuture
  /\ \A s \in Sessions : inbox[s] = <<>>
  /\ created = {} /\ destroyed = {}

Up == {s \in Sessions : live[s] = "connected"}

(***************************************************************************)
(* With the kill-switch on, once everything is settled, a connected        *)
(* session has a firewall: what other sessions did (paused, were           *)
(* disconnected, dropped) did not take it away.  A table that a failed     *)
(* RemoveRules left behind counts as a firewall.                           *)
(***************************************************************************)
EnabledMeansProtected == Quiet /\ enabled /\ Up # {} => table # None

(***************************************************************************)
(* The lock in the tray is no lie: once everything is settled, a session   *)
(* shown as protected means that the table is in.  Flags are set and       *)
(* cleared after the replies of the helper, of one session or of all.      *)
(***************************************************************************)
FlaggedMeansTable == Quiet /\ flag # {} => table # None

(***************************************************************************)
(* signal_handlers.rs, lines 196 to 202: the table is not left bound to    *)
(* the interface of a session that is gone or paused while another session *)
(* is connected and protected, whose traffic it would block.               *)
(***************************************************************************)
BoundToTheLiving ==
  Quiet /\ Up \cap flag # {} /\ table # None => live[table] \notin {"paused", "gone"}

(***************************************************************************)
(* Once the kill-switch is switched off and everything is settled no table *)
(* is left, unless RemoveRules failed or a future that was under way when  *)
(* the rules were removed (it had read the preference, or the flags,       *)
(* before) installed rules or set a flag afterwards.  No status, retry,    *)
(* disconnect or pause that comes later brings a table back.               *)
(***************************************************************************)
OffMeansOff == Quiet /\ ~enabled /\ table # None => late \/ refused

(***************************************************************************)
(* Nobody stays locked out without being told: a table that no session is  *)
(* left to release comes with a reconnect notification, whatever entries   *)
(* were removed from the tray before SessDestroyed arrived, unless the     *)
(* RemoveRules that should have taken it failed.                           *)
(***************************************************************************)
NoLockout ==
  Quiet /\ table # None /\ ~refused /\ (\A s \in Sessions : live[s] \in {"unborn", "gone"})
    => prompts # {}

(***************************************************************************)
(* The table goes only when the user did something that lets it go         *)
(* (disconnect, pause, dismiss, switch off, use up the attempts at a       *)
(* password), or when a rebind had nothing to bind to; not at a drop and   *)
(* not when a wrong password is retried.                                   *)
(***************************************************************************)
FellBack == \E f \in Slots : At(f, "removing") /\ job[f].target # None

NeverReleasedUnasked ==
  [][table # None /\ table' = None => asked \/ FellBack]_vars

(***************************************************************************)
(* A table bound to a session that the user disconnected is released or    *)
(* bound to another session, where RemoveRules works: a failure is         *)
(* swallowed and nobody tries again.                                       *)
(***************************************************************************)
DisconnectUnbinds ==
  \A s \in Sessions :
    (table = s /\ s \in destroyed /\ s \in userDisc \ authRetry) ~> table # s
=============================================================================
