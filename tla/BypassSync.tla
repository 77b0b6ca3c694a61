----------------------------- MODULE BypassSync -----------------------------
(***************************************************************************)
(* Split tunnelling as the GUI drives it: the list of networks in the      *)
(* settings, what of it the helper has (its stored list, the ip rules, the *)
(* nft sets inside the kill-switch table) and what the tray says of it.    *)
(*                                                                         *)
(* The list is pushed when a session connects, when the GUI starts next to *)
(* a connected session and when Preferences are saved; it is taken back    *)
(* with the last session.  Each of these is a future that calls the helper *)
(* step by step (app/bypass_apply.rs, status_handler/killswitch_glue.rs,   *)
(* signal_handlers.rs, dialogs/preferences/mod.rs).  Beside them the poll  *)
(* of the statistics compares the nft sets with the list (stats_poller).   *)
(***************************************************************************)
EXTENDS BypassStates, FiniteSets

CONSTANTS
  Cidrs,       \* canonical networks
  Lists,       \* the lists of networks the user chooses from
  Links,       \* sessions
  Pushes,      \* places for futures that call the helper (bound)
  MaxEdits,    \* how often Preferences are saved with another list (bound)
  MaxTampers,  \* how often somebody else changes the nft sets (bound)
  NoTable,     \* the kill-switch table is absent
  NoReport, Nobody

ASSUME PushAssumption ==
  /\ IsFiniteSet(Cidrs) /\ Lists \subseteq SUBSET Cidrs
  /\ MaxEdits \in Nat /\ MaxTampers \in Nat

VARIABLES
  enabled,           \* GSettings: bypass-cidrs without bypass-cidrs-disabled
  killSwitch,        \* GSettings: enable-kill-switch
  link,              \* status of each session
  protected,         \* sessions with kill_switch_active
  list, routes, sets, \* the helper's list, its ip rules, the nft sets
  bypass,            \* tray.bypass_state
  push,              \* the future in each place
  poll,              \* the drift check
  edits, tampers,
  outcome,           \* history: the counts the tray was last told, or none
  toast,             \* history: the last bypass notification, Off once the tray says so
  spoiled            \* history: a call failed, or pushes overlapped, since the
                     \* last one that had the helper for itself

settings == <<enabled, killSwitch>>
sessions == <<link, protected>>
helper   == <<list, routes, sets>>
report   == <<bypass, outcome, toast>>
bypassVars == <<settings, sessions, helper, report, push, poll, edits, tampers, spoiled>>

\* What a future does, with which networks and for which session; a rebind
\* also takes over from a session.
Future(op, step, cidrs, path) ==
  [op |-> op, step |-> step, cidrs |-> cidrs, path |-> path, from |-> Nobody]
NoPush == Future("none", "", {}, Nobody)
NoPoll == [busy |-> FALSE, want |-> {}]

Quiet == \A p \in Pushes : push[p] = NoPush
Up(l) == link[l] = "up"
SomeUp == \E l \in Links : Up(l)

\* A push or a release that has the helper for itself settles the matter.
Settles(f) == f.step \in {"set", "routes"} \/ (f.op \in {"teardown", "lost"} /\ f.step = "unrule")

Start(f) ==
  /\ \E p \in Pushes : push[p] = NoPush /\ push' = [push EXCEPT ![p] = f]
  /\ spoiled' = (~Quiet \/ (spoiled /\ ~Settles(f)))

PushAt(p, step) == push' = [push EXCEPT ![p].step = step]
Becomes(p, f) == push' = [push EXCEPT ![p] = f]
Ends(p) == push' = [push EXCEPT ![p] = NoPush]
Doing(p, op, step) == push[p].op = op /\ push[p].step = step

BypassInit ==
  /\ enabled \in Lists /\ killSwitch \in BOOLEAN
  /\ link = [l \in Links |-> "down"]
  /\ protected = {}
  /\ list = {} /\ routes = {} /\ sets = NoTable
  /\ bypass = Off /\ outcome = NoReport /\ toast = Off
  /\ push = [p \in Pushes |-> NoPush] /\ poll = NoPoll
  /\ edits = 0 /\ tampers = 0 /\ spoiled = FALSE

---------------------------------------------------------------------------
(* Sessions come and go *)

\* on_connected, and the re-apply at start-up: the bypass first, then the
\* rules.  With an empty list apply_bypass returns at once.
Connects(l) ==
  /\ ~Up(l)
  /\ link' = [link EXCEPT ![l] = "up"]
  /\ IF enabled # {} THEN Start(Future("apply", "set", enabled, l))
     ELSE IF killSwitch THEN Start(Future("apply", "rules", {}, l))
     ELSE UNCHANGED push /\ spoiled' = (spoiled \/ ~Quiet)
  /\ UNCHANGED <<settings, protected, helper, report, poll, edits, tampers>>

\* decide_kill_switch_teardown: a survivor is connected and protected.
Survivors(l) == {s \in Links \ {l} : Up(s) /\ s \in protected}

\* The rules are given up, or a survivor takes them over.
GiveUp(op) == Future(op, "unrule", {}, Nobody)
Rebind(op, l, s) == [Future(op, "rebind", {}, s) EXCEPT !.from = l]

\* SessDestroyed of a session the user disconnected: the survivors are those
\* of this moment.
Disconnected(l) ==
  /\ link[l] \in {"up", "paused"}
  /\ link' = [link EXCEPT ![l] = "down"]
  /\ protected' = protected \ {l}
  /\ IF Survivors(l) = {} THEN Start(GiveUp("teardown"))
     ELSE \E s \in Survivors(l) : Start(Rebind("teardown", l, s))
  /\ UNCHANGED <<settings, helper, report, poll, edits, tampers>>

\* ... and of one that dropped: rules and routes stay, the user is asked.
Dropped(l) ==
  /\ Up(l)
  /\ link' = [link EXCEPT ![l] = "dropped"]
  /\ protected' = protected \ {l}
  /\ UNCHANGED <<settings, helper, report, push, poll, edits, tampers, spoiled>>

\* The answer Dismiss, also with another session connected.
Dismissed(l) ==
  /\ link[l] = "dropped"
  /\ link' = [link EXCEPT ![l] = "down"]
  /\ Start(GiveUp("teardown"))
  /\ UNCHANGED <<settings, protected, helper, report, poll, edits, tampers>>

\* handle_sessions_service_lost: the tray is emptied when the helper has answered.
ServiceLost ==
  /\ \E l \in Links : link[l] \in {"up", "paused"}
  /\ Start(GiveUp("lost"))
  /\ UNCHANGED <<settings, sessions, helper, report, poll, edits, tampers>>

\* on_paused: the routes are left alone; with block-during-pause the rules too.
Paused(l) ==
  /\ Up(l)
  /\ link' = [link EXCEPT ![l] = "paused"]
  /\ \/ killSwitch /\ Start(Future("pause", "decide", {}, l))
     \/ UNCHANGED <<push, spoiled>>
  /\ UNCHANGED <<settings, protected, helper, report, poll, edits, tampers>>

\* The future of on_paused looks for survivors when it first runs.
PauseDecides(p) ==
  LET l == push[p].path IN
  /\ Doing(p, "pause", "decide")
  /\ \/ Survivors(l) = {} /\ Becomes(p, GiveUp("pause"))
     \/ \E s \in Survivors(l) : Becomes(p, Rebind("pause", l, s))
  /\ UNCHANGED <<settings, sessions, helper, report, poll, edits, tampers, spoiled>>

\* A mutant: the list is saved and the helper not told.
SavedOnly(new) ==
  /\ edits < MaxEdits /\ new # enabled
  /\ enabled' = new
  /\ edits' = edits + 1
  /\ UNCHANGED <<push, spoiled, killSwitch, sessions, helper, report, poll, tampers>>

\* apply_bypass_changes: saved always, pushed if a session is connected.
Saved(new) ==
  /\ edits < MaxEdits /\ new # enabled
  /\ enabled' = new
  /\ edits' = edits + 1
  /\ IF ~SomeUp THEN UNCHANGED <<push, spoiled>>
     ELSE IF new = {} THEN Start(Future("clear", "routes", {}, Nobody))
     ELSE Start(Future("apply", "set", new, Nobody))
  /\ UNCHANGED <<killSwitch, sessions, helper, report, poll, tampers>>

---------------------------------------------------------------------------
(* The calls of the helper.  Each may fail, which is logged. *)

Tell(state, counts, notification) ==
  bypass' = state /\ outcome' = counts /\ toast' = notification

\* apply_bypass_outcome_to_tray
TellApplied(applied, failed) ==
  Tell(Active(applied, failed), <<applied, failed>>, Active(applied, failed))
TellFailed == Tell(Failed, NoReport, Failed)

\* After the bypass come the rules, for a session that has connected.
ThenRules(p) == IF killSwitch /\ push[p].path # Nobody THEN Becomes(p, Future("apply", "rules", {}, push[p].path)) ELSE Ends(p)

\* set_bypass_cidrs: if it fails the routes are not asked for.
CallSet(p) ==
  /\ Doing(p, "apply", "set")
  /\ \/ /\ list' = push[p].cidrs
        /\ Becomes(p, Future("apply", "routes", {}, push[p].path))
        /\ UNCHANGED <<report, spoiled>>
     \/ TellFailed /\ ThenRules(p) /\ spoiled' = TRUE /\ UNCHANGED list
  /\ UNCHANGED <<settings, sessions, routes, sets, poll, edits, tampers>>

\* apply_bypass_routes: a rule for each network of the list, as far as it goes.
CallApply(p) ==
  /\ Doing(p, "apply", "routes")
  /\ ThenRules(p)
  /\ \/ /\ list # {}
        /\ routes' \in SUBSET list
        /\ TellApplied(Cardinality(routes'), Cardinality(list \ routes'))
        /\ UNCHANGED spoiled
     \/ list = {} /\ TellApplied(0, 0) /\ UNCHANGED <<routes, spoiled>>
     \/ routes' \in {{}, routes} /\ TellFailed /\ spoiled' = TRUE
  /\ UNCHANGED <<settings, sessions, list, sets, poll, edits, tampers>>

\* apply_kill_switch asks the session and then the helper, which builds the
\* table anew with the list it has by then.  If the helper fails, which is
\* only logged, the call counts as done.
AddsRules(p) ==
  /\ Up(push[p].path)
  /\ \/ sets' = list /\ UNCHANGED spoiled
     \/ UNCHANGED sets /\ spoiled' = TRUE

\* The session cannot be asked, or there is no helper.
AddsNone == UNCHANGED sets /\ spoiled' = TRUE

CallAddRules(p) ==
  /\ Doing(p, "apply", "rules")
  /\ Ends(p)
  /\ \/ AddsRules(p) /\ protected' = protected \cup {push[p].path}
     \/ AddsNone /\ UNCHANGED protected
  /\ UNCHANGED <<settings, link, list, routes, report, poll, edits, tampers>>

\* A rebind that cannot be done turns into the full release.
CallRebind(p) ==
  /\ push[p].step = "rebind"
  /\ \/ AddsRules(p) /\ Ends(p) /\ protected' = protected \ {push[p].from}
     \/ AddsNone /\ Becomes(p, GiveUp(push[p].op)) /\ UNCHANGED protected
  /\ UNCHANGED <<settings, link, list, routes, report, poll, edits, tampers>>

\* remove_rules
CallRemoveRules(p) ==
  /\ push[p].step = "unrule"
  /\ sets' \in {NoTable, sets}
  /\ IF push[p].op = "pause" THEN Ends(p) /\ protected' = {}
                             ELSE PushAt(p, "routes") /\ UNCHANGED protected
  /\ UNCHANGED <<settings, link, list, routes, report, poll, edits, tampers, spoiled>>

\* The tray forgets the protection, or after a loss of the service everything.
Released(p) ==
  /\ Ends(p) /\ protected' = {} /\ Tell(Off, NoReport, Off)
  /\ link' = IF push[p].op = "lost" THEN [l \in Links |-> "down"] ELSE link

\* A mutant: the rules are released and the routes forgotten.
CallRemoveRoutesNot(p) ==
  /\ push[p].op \in {"teardown", "lost"} /\ push[p].step = "routes"
  /\ Released(p)
  /\ UNCHANGED <<settings, helper, poll, edits, tampers, spoiled>>

\* remove_bypass_routes; the tray says Off whether or not it succeeds.
CallRemoveRoutes(p) ==
  /\ push[p].op \in {"teardown", "lost"} /\ push[p].step = "routes"
  /\ Released(p)
  /\ \/ routes' = {} /\ spoiled' = (spoiled \/ \E l \in Links : link'[l] = "up")
     \/ UNCHANGED routes /\ spoiled' = TRUE
  /\ UNCHANGED <<settings, list, sets, poll, edits, tampers>>

\* apply_bypass_live with nothing enabled: routes, then list, then the tray.
CallClearRoutes(p) ==
  /\ Doing(p, "clear", "routes")
  /\ PushAt(p, "list")
  /\ \/ routes' = {} /\ UNCHANGED spoiled
     \/ UNCHANGED routes /\ spoiled' = TRUE
  /\ UNCHANGED <<settings, sessions, list, sets, report, poll, edits, tampers>>

CallClearList(p) ==
  /\ Doing(p, "clear", "list")
  /\ Ends(p) /\ Tell(Off, NoReport, Off)
  /\ \/ list' = {} /\ UNCHANGED spoiled
     \/ UNCHANGED list /\ spoiled' = TRUE
  /\ UNCHANGED <<settings, sessions, routes, sets, poll, edits, tampers>>

---------------------------------------------------------------------------
(* check_bypass_drift, once in a poll *)

PollStarts ==
  /\ poll = NoPoll
  /\ Live(bypass) /\ SomeUp
  /\ poll' = [busy |-> TRUE, want |-> enabled]
  /\ UNCHANGED <<settings, sessions, helper, report, push, edits, tampers, spoiled>>

\* recover_from_drift
Recovered(state) == Active(state.applied, state.failed)

\* drift_transition: only from a state that is still live.
StillLive == Live(bypass)

\* A mutant: a drift is announced once, not again when it changes.
NewDriftOnly(state) == bypass.kind = "Active"

\* A new drift is announced, a drift of other counts again.
NewDrift(state) == bypass.kind = "Active" \/ state # bypass

\* diff_bypass_set: desired but not live, live but not desired.
Missing(want, live) == Cardinality(want \ live)
Extra(want, live) == Cardinality(live \ want)

\* verify_bypass_set and what follows from its answer.  Without a table nft
\* fails, and a check that fails says nothing.  The sets are those of the moment
\* at which the answer is applied.
PollEnds ==
  LET drifted == Drifted(bypass.applied, bypass.failed,
                         Missing(poll.want, sets), Extra(poll.want, sets)) IN
  /\ poll.busy
  /\ poll' = NoPoll
  /\ \/ UNCHANGED <<bypass, toast>>
     \/ /\ sets # NoTable /\ sets = poll.want /\ bypass.kind = "Drifted"
        /\ bypass' = Recovered(bypass) /\ toast' = Recovered(bypass)
     \/ /\ sets # NoTable /\ sets # poll.want /\ StillLive
        /\ bypass' = drifted
        /\ toast' = IF NewDrift(drifted) THEN drifted ELSE toast
  /\ UNCHANGED <<settings, sessions, helper, outcome, push, edits, tampers, spoiled>>

\* Somebody else edits the nft sets.
Tamper ==
  /\ tampers < MaxTampers /\ sets # NoTable
  /\ tampers' = tampers + 1
  /\ \E c \in Cidrs : sets' = IF c \in sets THEN sets \ {c} ELSE sets \cup {c}
  /\ UNCHANGED <<settings, sessions, list, routes, report, push, poll, edits, spoiled>>

BypassNext ==
  \/ \E l \in Links : Connects(l) \/ Disconnected(l) \/ Dropped(l) \/ Paused(l) \/ Dismissed(l)
  \/ ServiceLost
  \/ \E new \in Lists : Saved(new)
  \/ \E p \in Pushes :
       \/ PauseDecides(p) \/ CallSet(p) \/ CallApply(p) \/ CallAddRules(p) \/ CallRebind(p)
       \/ CallRemoveRules(p) \/ CallRemoveRoutes(p) \/ CallClearRoutes(p) \/ CallClearList(p)
  \/ PollStarts \/ PollEnds \/ Tamper

BypassSpec == BypassInit /\ [][BypassNext]_bypassVars

---------------------------------------------------------------------------
(* Properties *)

Most == Cardinality(Cidrs)
Ops == {"none", "apply", "clear", "pause", "teardown", "lost"}
Steps == {"", "set", "routes", "list", "rules", "decide", "rebind", "unrule"}

BypassTypeOK ==
  /\ enabled \subseteq Cidrs /\ killSwitch \in BOOLEAN
  /\ link \in [Links -> {"up", "down", "paused", "dropped"}]
  /\ protected \subseteq Links /\ spoiled \in BOOLEAN
  /\ list \subseteq Cidrs /\ routes \subseteq Cidrs
  /\ sets = NoTable \/ sets \subseteq Cidrs
  /\ bypass \in [kind : {"Off", "Active", "Failed", "Drifted"}, applied : 0..Most,
                 failed : 0..Most, missing : 0..Most, extra : 0..Most]
  /\ push \in [Pushes -> [op : Ops, step : Steps, cidrs : SUBSET Cidrs,
                          path : Links \cup {Nobody}, from : Links \cup {Nobody}]]
  /\ \A p \in Pushes : push[p].step \in {"decide", "rules", "rebind"} => push[p].path \in Links
  /\ poll \in [busy : BOOLEAN, want : SUBSET Cidrs]
  /\ edits \in 0..MaxEdits /\ tampers \in 0..MaxTampers

(***************************************************************************)
(* drift.rs: however often the sets drift and recover, and whatever is     *)
(* pushed or released while a check is under way, a live state carries the *)
(* counts of the last apply; one that was released never comes back.       *)
(***************************************************************************)
CountsOfLastApply == Live(bypass) => outcome = <<bypass.applied, bypass.failed>>

(***************************************************************************)
(* Whatever the futures, the poll and the failures of the helper do, tray  *)
(* and notifications are those of module BypassReport: this module         *)
(* implements it.  So the last notification is of the state and counts     *)
(* that the tray shows, and a drift report never brings back a released    *)
(* or failed bypass.                                                       *)
(***************************************************************************)
Reporting ==
  INSTANCE BypassReport WITH state <- bypass, told <- toast, counts <- outcome,
                             NoCounts <- NoReport

ReportsHonestly == Reporting!ReportSpec

(***************************************************************************)
(* What Off promises: when nothing is under way, no call of the last       *)
(* change failed and no pushes overlapped, no network is routed around the *)
(* tunnel.                                                                 *)
(***************************************************************************)
OffMeansUnrouted == (Quiet /\ ~spoiled /\ bypass = Off) => routes = {}

InForce == list = enabled /\ routes \subseteq enabled /\ bypass # Off

(***************************************************************************)
(* A connected session has the networks of the settings and no others,     *)
(* unless a call failed, pushes overlapped or the routes were released     *)
(* under it: those unticked last are not bypassed any more.                *)
(***************************************************************************)
SavedListInForce == (SomeUp /\ Quiet /\ ~spoiled /\ enabled # {}) => InForce

(***************************************************************************)
(* preferences/mod.rs on a list saved while no session is connected: the   *)
(* next connect covers it.  Then a connected session routes no network     *)
(* around the tunnel that the settings do not name.                        *)
(***************************************************************************)
ReconnectCoversSave ==
  (SomeUp /\ Quiet /\ ~spoiled) => routes \subseteq enabled
=============================================================================
