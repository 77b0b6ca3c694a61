---------------------------- MODULE SessionMirror ----------------------------
(***************************************************************************)
(* tray.sessions, the GUI's picture of the sessions openvpn3 has, and what *)
(* fills it: the scan of init_dbus at start-up and again when the          *)
(* configuration service comes back (dbus_init.rs, application.rs,         *)
(* service_watcher.rs), SessCreated and SessDestroyed (signal_handlers.rs),*)
(* StatusChange (status_handler) and connect_to_config (session_ops.rs).   *)
(*                                                                         *)
(* Everything runs on one thread between awaits; the two signal streams    *)
(* keep their own order only.  A failed attempt, a StatusChange that       *)
(* reports an error and what the kill-switch does about it all are in      *)
(* module GuiKillSwitch.                                                   *)
(***************************************************************************)
EXTENDS Naturals, Sequences, FiniteSets, SequencesExt

CONSTANTS
  Sessions, ConfigOf,
  MaxWaiting,   \* signals of a stream on their way (bound)
  MaxTries,     \* attempts of init_dbus: 10 at start-up, 5 later
  MaxRestarts,  \* restarts of the two openvpn3 services (bound)
  NoEntry

Ongoing == {"fresh", "connecting", "auth", "connected"}
Over == {"disconnected", "done"}                       \* is_disconnected
Statuses == Ongoing \cup Over

ASSUME MirrorAssumption ==
  /\ NoEntry \notin [status : Statuses \cup {"unset"}, known : BOOLEAN]
  /\ MaxWaiting \in Nat /\ MaxTries \in Nat \ {0} /\ MaxRestarts \in Nat

VARIABLES
  real,       \* openvpn3: what each session is doing
  forwarded,  \* openvpn3: sessions with LogForward on
  restarts,   \* restarts of openvpn3's services so far
  events,     \* SessionManagerEvents on their way
  changes,    \* StatusChanges on their way
  hearing,    \* the subscriptions the GUI holds
  scan,       \* the init_dbus of the start-up and that of the service watcher
  shown,      \* tray.sessions
  last,       \* last_signal
  creating,   \* handle_session_created: what it has of each session
  filling,    \* sessions with a backfill_session_identity under way
  fading,     \* sessions with a delayed removal scheduled
  inserting,  \* sessions between NewTunnel and their entry
  settled     \* history: sessions that a StatusChange, or with both
              \* subscriptions held SessCreated, has told of when the tray
              \* had no entry, since the tray was last changed as a whole

openvpn3 == <<real, forwarded, restarts>>
streams == <<events, changes, hearing>>
futures == <<creating, filling, fading, inserting>>
mirrorVars == <<openvpn3, streams, scan, shown, last, futures, settled>>

Exists(s) == real[s] \in Statuses

Scanners == {"startup", "watcher"}
Idle == [at |-> "idle", tries |-> 0, todo |-> {}, read |-> {}, seen |-> <<>>]

Entry(status, known) == [status |-> status, known |-> known]

\* Statuses that try_handle_auth takes.
IsAuth(status) == status = "auth"

MirrorInit ==
  /\ \E old \in SUBSET Sessions :
       real \in {r \in [Sessions -> Ongoing \cup {"unborn"}] :
                   \A s \in Sessions : r[s] # "unborn" <=> s \in old}
  /\ forwarded = {} /\ restarts = 0
  /\ events = <<>> /\ changes = <<>> /\ hearing = {}
  /\ scan = [x \in Scanners |-> IF x = "startup" THEN [Idle EXCEPT !.at = "begin"] ELSE Idle]
  /\ shown = [s \in Sessions |-> NoEntry]
  /\ last = [s \in Sessions |-> "none"]
  /\ creating = [s \in Sessions |-> "no"]
  /\ filling = {} /\ fading = {} /\ inserting = {}
  /\ settled = {}

---------------------------------------------------------------------------
(* openvpn3 *)

Announce(kind, s) ==
  IF "events" \in hearing
  THEN Len(events) < MaxWaiting /\ events' = Append(events, <<kind, s>>)
  ELSE UNCHANGED events

\* A StatusChange is sent once or twice, to a connection that listens for it.
Report(s, status) ==
  IF s \in forwarded /\ "changes" \in hearing
  THEN \E copies \in {<<<<s, status>>>>, <<<<s, status>>, <<s, status>>>>} :
         /\ Len(changes) + Len(copies) <= MaxWaiting
         /\ changes' = changes \o copies
  ELSE UNCHANGED changes

\* Somebody else starts a tunnel.
Appears(s) ==
  /\ real[s] = "unborn"
  /\ real' = [real EXCEPT ![s] = "fresh"]
  /\ Announce("created", s)
  /\ UNCHANGED <<forwarded, restarts, changes, hearing, scan, shown, last, futures, settled>>

\* A tunnel of ours waits for our Connect(), or for the credentials.
Moves(s, status) ==
  /\ Exists(s) /\ status # real[s] /\ status # "fresh"
  /\ real[s] \in Over => status = "done"
  /\ status = "done" => real[s] \in Over
  /\ s \in inserting => status = "auth"
  /\ real' = [real EXCEPT ![s] = status]
  /\ Report(s, status)
  /\ UNCHANGED <<forwarded, restarts, events, hearing, scan, shown, last, futures, settled>>

Disappears(s) ==
  /\ Exists(s) /\ s \notin inserting
  /\ real' = [real EXCEPT ![s] = "gone"]
  /\ Announce("destroyed", s)
  /\ UNCHANGED <<forwarded, restarts, changes, hearing, scan, shown, last, futures, settled>>

---------------------------------------------------------------------------
(* init_dbus *)

\* FetchAvailableSessions
ScanLists(x) ==
  /\ scan[x].at = "begin"
  /\ scan' = [scan EXCEPT ![x].at = "reading", ![x].read = {},
                          ![x].todo = {s \in Sessions : Exists(s)},
                          ![x].seen = [s \in Sessions |-> NoEntry]]
  /\ UNCHANGED <<openvpn3, streams, shown, last, futures, settled>>

\* build_session_entry reads first...
ScanReads(x, s) ==
  /\ s \in scan[x].todo /\ scan[x].read = {}
  /\ scan' = [scan EXCEPT ![x].todo = @ \ {s}, ![x].read = {s},
                          ![x].seen[s] = Entry(IF Exists(s) THEN real[s] ELSE "unset", Exists(s))]
  /\ UNCHANGED <<openvpn3, streams, shown, last, futures, settled>>

\* ... and then asks for the signals.
ScanForwards(x) ==
  /\ scan[x].read # {}
  /\ scan' = [scan EXCEPT ![x].read = {}]
  /\ forwarded' = forwarded \cup {s \in scan[x].read : Exists(s)}
  /\ UNCHANGED <<real, restarts, streams, shown, last, futures, settled>>

\* The scan replaces the whole table.  For a session that waits for input the
\* dialog is opened, here and below: see module CredentialFlow.
ScanEnds(x) ==
  /\ scan[x].at = "reading" /\ scan[x].todo = {} /\ scan[x].read = {}
  /\ shown' = scan[x].seen
  /\ settled' = {}
  /\ scan' = [scan EXCEPT ![x] = Idle]
  /\ UNCHANGED <<openvpn3, streams, last, futures>>

\* The configurations cannot be read.  Another attempt, or none.
ScanFails(x) ==
  /\ scan[x].at = "reading"
  /\ scan' = [scan EXCEPT ![x] =
                IF scan[x].tries + 1 < MaxTries
                THEN [Idle EXCEPT !.at = "begin", !.tries = scan[x].tries + 1]
                ELSE Idle]
  /\ UNCHANGED <<openvpn3, streams, shown, last, futures, settled>>

\* setup_signal_handlers, after the start-up's init_dbus: the events first.
\* Also the renewal after the stream of events has ended.
HearsEvents ==
  /\ "events" \notin hearing
  /\ "changes" \notin hearing => scan["startup"].at = "idle"
  /\ hearing' = hearing \cup {"events"}
  /\ UNCHANGED <<openvpn3, events, changes, scan, shown, last, futures, settled>>

HearsChanges ==
  /\ "events" \in hearing /\ "changes" \notin hearing
  /\ hearing' = hearing \cup {"changes"}
  /\ UNCHANGED <<openvpn3, events, changes, scan, shown, last, futures, settled>>

\* The configuration service comes back: handle_config_service_appeared.
ConfigsBack ==
  /\ restarts < MaxRestarts /\ restarts' = restarts + 1
  /\ scan["watcher"].at = "idle"
  /\ scan' = [scan EXCEPT !["watcher"].at = "begin"]
  /\ shown' = [s \in Sessions |-> NoEntry]
  /\ settled' = {}
  /\ UNCHANGED <<real, forwarded, streams, last, futures>>

\* The session manager dies, and its sessions with it: the tray is emptied
\* (handle_sessions_service_lost); the stream of events may end with it.
SessionsLost ==
  /\ restarts < MaxRestarts /\ restarts' = restarts + 1
  /\ scan["watcher"].at = "idle" /\ inserting = {}
  /\ real' = [s \in Sessions |-> IF Exists(s) THEN "gone" ELSE real[s]]
  /\ shown' = [s \in Sessions |-> NoEntry]
  /\ settled' = {}
  /\ hearing' \in {hearing, hearing \ {"events"}}
  /\ UNCHANGED <<forwarded, events, changes, scan, last, futures>>

---------------------------------------------------------------------------
(* SessionManagerEvent *)

\* handle_session_created is spawned; or the entry is to go in five seconds.
Hears ==
  /\ events # <<>> /\ events' = Tail(events)
  /\ LET s == Head(events)[2] IN
       IF Head(events)[1] = "created"
       THEN /\ creating' = [creating EXCEPT ![s] = "begun"]
            /\ settled' = settled \cup (IF "changes" \in hearing /\ shown[s] = NoEntry
                                     THEN {s} \ inserting ELSE {})
            /\ UNCHANGED fading
       ELSE fading' = fading \cup {s} /\ UNCHANGED <<creating, settled>>
  /\ UNCHANGED <<openvpn3, changes, hearing, scan, shown, last, filling, inserting>>

\* A mutant: the status first, as build_session_entry has it.
ForwardsLate(s) ==
  /\ creating[s] = "begun"
  /\ creating' = [creating EXCEPT ![s] = IF Exists(s) THEN real[s] ELSE "unset"]
  /\ UNCHANGED <<openvpn3, streams, scan, shown, last, filling, fading, inserting, settled>>

\* LogForward, and only then the status.
Forwards(s) ==
  /\ creating[s] = "begun"
  /\ creating' = [creating EXCEPT ![s] = "forwarded"]
  /\ forwarded' = IF Exists(s) THEN forwarded \cup {s} ELSE forwarded
  /\ UNCHANGED <<real, restarts, streams, scan, shown, last, filling, fading, inserting, settled>>

ReadsStatus(s) ==
  /\ creating[s] = "forwarded"
  /\ creating' = [creating EXCEPT ![s] = IF Exists(s) THEN real[s] ELSE "unset"]
  /\ UNCHANGED <<openvpn3, streams, scan, shown, last, filling, fading, inserting, settled>>

\* An entry that is there keeps its status, and gets the config it lacks.
Creates(s) ==
  /\ creating[s] \in Statuses \cup {"unset"}
  /\ LET known == creating[s] # "unset" IN
       shown' = IF shown[s] = NoEntry
                THEN [shown EXCEPT ![s] = Entry(creating[s], known)]
                ELSE [shown EXCEPT ![s].known = @ \/ known]
  /\ creating' = [creating EXCEPT ![s] = "no"]
  /\ UNCHANGED <<openvpn3, streams, scan, last, filling, fading, inserting, settled>>

---------------------------------------------------------------------------
(* StatusChange *)

\* A mutant: only a tunnel that is up is asked for its identity.
NeedsIdentityUp(s, status) == shown[s] = NoEntry /\ status = "connected"

\* upsert_session_state has inserted an entry.
NeedsIdentity(s, status) == shown[s] = NoEntry

\* should_dispatch lets a change and every request for credentials through.
\* A request writes no new entry.
Notices ==
  /\ changes # <<>> /\ changes' = Tail(changes)
  /\ LET s == Head(changes)[1]
         status == Head(changes)[2]
         entry == IF shown[s] # NoEntry THEN [shown[s] EXCEPT !.status = status]
                  ELSE IF IsAuth(status) THEN NoEntry ELSE Entry(status, FALSE) IN
       IF last[s] = status /\ ~IsAuth(status)
       THEN UNCHANGED <<last, shown, settled, filling, fading>>
       ELSE /\ last' = [last EXCEPT ![s] = status]
            /\ shown' = [shown EXCEPT ![s] = entry]
            /\ settled' = IF entry = NoEntry THEN settled ELSE settled \cup {s}
            /\ filling' = IF ~IsAuth(status) /\ NeedsIdentity(s, status)
                          THEN filling \cup {s} ELSE filling
            /\ fading' = IF status \in Over THEN fading \cup {s} ELSE fading
  /\ UNCHANGED <<openvpn3, events, hearing, scan, creating, inserting>>

\* backfill_session_identity asks the session, if it is still there.
Fills(s) ==
  /\ s \in filling /\ filling' = filling \ {s}
  /\ shown' = IF shown[s] # NoEntry /\ Exists(s) THEN [shown EXCEPT ![s].known = TRUE]
              ELSE shown
  /\ UNCHANGED <<openvpn3, streams, scan, last, creating, fading, inserting, settled>>

\* Signals and answers that are on their way take less than these 3 or 5 s.
Fades(s) ==
  /\ s \in fading /\ fading' = fading \ {s}
  /\ creating[s] = "no" /\ s \notin filling
  /\ <<"created", s>> \notin ToSet(events) /\ s \notin {m[1] : m \in ToSet(changes)}
  /\ shown' = [shown EXCEPT ![s] = NoEntry]
  /\ UNCHANGED <<openvpn3, streams, scan, last, creating, filling, inserting, settled>>

---------------------------------------------------------------------------
(* connect_to_config *)

\* What lingers of the config is removed; NewTunnel.
ConnectTo(s) ==
  /\ real[s] = "unborn"
  /\ real' = [real EXCEPT ![s] = "fresh"]
  /\ LET stale == {r \in Sessions : ConfigOf[r] = ConfigOf[s] /\ shown[r] # NoEntry
                                     /\ shown[r].known} IN
       /\ shown' = [r \in Sessions |-> IF r \in stale THEN NoEntry ELSE shown[r]]
       /\ settled' = settled \ stale
  /\ inserting' = inserting \cup {s}
  /\ Announce("created", s)
  /\ UNCHANGED <<forwarded, restarts, changes, hearing, scan, last, creating, filling,
                 fading>>

\* Whatever a signal has written meanwhile is overwritten.
Inserts(s) ==
  /\ s \in inserting /\ inserting' = inserting \ {s}
  /\ shown' = [shown EXCEPT ![s] = Entry("fresh", TRUE)]
  /\ settled' = settled \ {s}
  /\ UNCHANGED <<openvpn3, streams, scan, last, creating, filling, fading>>

MirrorNext ==
  \/ \E s \in Sessions :
       \/ Appears(s) \/ Disappears(s)
       \/ \E status \in Statuses : Moves(s, status)
       \/ Forwards(s) \/ ReadsStatus(s) \/ Creates(s)
       \/ Fills(s) \/ Fades(s) \/ ConnectTo(s) \/ Inserts(s)
  \/ \E x \in Scanners :
       ScanLists(x) \/ (\E s \in Sessions : ScanReads(x, s)) \/ ScanForwards(x)
       \/ ScanEnds(x) \/ ScanFails(x)
  \/ HearsEvents \/ HearsChanges \/ ConfigsBack \/ SessionsLost
  \/ Hears \/ Notices

MirrorSpec == MirrorInit /\ [][MirrorNext]_mirrorVars

---------------------------------------------------------------------------
(* Properties *)

MirrorTypeOK ==
  /\ real \in [Sessions -> Statuses \cup {"unborn", "gone"}]
  /\ forwarded \subseteq Sessions
  /\ hearing \subseteq {"events", "changes"}
  /\ \A s \in Sessions : shown[s] # NoEntry =>
       shown[s].status \in Statuses \cup {"unset"} /\ shown[s].known \in BOOLEAN
  /\ creating \in [Sessions -> Statuses \cup {"no", "begun", "forwarded", "unset"}]
  /\ filling \cup fading \cup inserting \cup settled \subseteq Sessions

\* No signal, answer or timer is on its way.
NothingPending ==
  /\ events = <<>> /\ changes = <<>> /\ hearing = {"events", "changes"}
  /\ \A s \in Sessions : creating[s] = "no"
  /\ filling = {} /\ fading = {} /\ inserting = {}
  /\ \A x \in Scanners : scan[x].at = "idle"

(***************************************************************************)
(* Once a signal has written a session's entry, and until the table is     *)
(* next replaced, the tray shows what the session does: no StatusChange    *)
(* falls between LogForward, the read and the insertion.  A request for    *)
(* credentials is the exception, it is not written into a new entry.       *)
(***************************************************************************)
MirrorFollows ==
  NothingPending => \A s \in settled :
    real[s] \in Ongoing \ {"auth"} => shown[s] # NoEntry /\ shown[s].status = real[s]

(***************************************************************************)
(* A live session in the tray has its config: without it a drop of the     *)
(* session is passed over in silence.  The reads of a live session work.   *)
(***************************************************************************)
IdentityKnown ==
  NothingPending => \A s \in Sessions :
    real[s] \in Ongoing /\ shown[s] # NoEntry => shown[s].known
=============================================================================
