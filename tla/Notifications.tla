---------------------------- MODULE Notifications ----------------------------
(***************************************************************************)
(* Desktop notifications (dialogs/notification): the map of replaces_ids,  *)
(* the lock of each key, the retry with a fresh id, and the notifications  *)
(* with buttons.  The notification daemon takes a toast off the screen     *)
(* whenever it likes or the user closes it; it may refuse an id that is    *)
(* no longer on the screen, or show a new toast instead.  A Notify that    *)
(* fails shows nothing, and the toast it was to replace is gone.           *)
(***************************************************************************)
EXTENDS Naturals, FiniteSets, Functions

CONSTANTS
  Tasks,     \* places for notifications being sent (bound)
  Names,     \* config names and the titles of other toasts
  HelpKey,   \* FIRST_RUN_HELP_KEY
  MaxIds,    \* ids the daemon gives out (bound)
  MaxKept    \* MAX_NOTIFICATION_IDS

ASSUME NotificationAssumption ==
  /\ HelpKey \notin Names
  /\ MaxIds \in Nat /\ MaxKept \in Nat \ {0}

VARIABLES
  screen,    \* the toasts on the screen: [key, buttons] of each id
  given,     \* number of ids given out
  up,        \* the daemon takes new toasts
  kept,      \* NOTIFICATION_IDS
  task,      \* the future in each place
  clicked,   \* places in whose stream an ActionInvoked waits
  closed,    \* places in whose stream a NotificationClosed waits
  service,   \* openvpn3's configuration service is there
  slipped,   \* history: keys whose id was lost to the map
  dead       \* history: toasts whose reply could not be read or whose
             \* CloseNotification failed

signals == <<clicked, closed>>
lapses == <<slipped, dead>>
notificationVars == <<screen, given, up, kept, task, signals, service, lapses>>

Keys == Names \cup {HelpKey}
Free == [at |-> "free", key |-> HelpKey, buttons |-> FALSE, id |-> 0]

At(t, place) == task[t].at = place
Goes(t, place) == task' = [task EXCEPT ![t].at = place]

Without(map, gone) == Restrict(map, DOMAIN map \ gone)

NotificationInit ==
  /\ screen = <<>> /\ given = 0 /\ up = TRUE
  /\ kept = <<>>
  /\ task = [t \in Tasks |-> Free]
  /\ clicked = {} /\ closed = {} /\ service = FALSE
  /\ slipped = {} /\ dead = {}

---------------------------------------------------------------------------
(* Toasts without buttons *)

\* show_connection_notification, send_notification, send_state_notification
Shows(t, key) ==
  /\ At(t, "free")
  /\ task' = [task EXCEPT ![t] = [Free EXCEPT !.at = "locking", !.key = key]]
  /\ UNCHANGED <<screen, given, up, kept, signals, service, lapses>>

Locked(key) ==
  \E t \in Tasks :
    task[t].key = key /\ ~task[t].buttons /\ task[t].at \in {"send", "shown", "refused"}

Resolve(key) == IF key \in DOMAIN kept THEN kept[key] ELSE 0

\* A mutant: no lock.
UnlockedReads(t) ==
  /\ At(t, "locking")
  /\ task' = [task EXCEPT ![t].at = "send", ![t].id = Resolve(task[t].key)]
  /\ UNCHANGED <<screen, given, up, kept, signals, service, lapses>>

\* with_key_serialized: the id to replace is read under the lock of the key.
Reads(t) ==
  /\ At(t, "locking") /\ ~Locked(task[t].key)
  /\ task' = [task EXCEPT ![t].at = "send", ![t].id = Resolve(task[t].key)]
  /\ UNCHANGED <<screen, given, up, kept, signals, service, lapses>>

\* The daemon's answer to Notify: the toast is replaced; or it is a new one;
\* or the call fails.
Notify(t) ==
  /\ At(t, "send")
  /\ LET toast == [key |-> task[t].key, buttons |-> task[t].buttons]
         id == task[t].id
         new == given + 1 IN
       \/ /\ id \in DOMAIN screen
          /\ screen' = [screen EXCEPT ![id] = toast]
          /\ Goes(t, "shown") /\ UNCHANGED given
       \/ /\ id \notin DOMAIN screen /\ up /\ new <= MaxIds
          /\ given' = new
          /\ screen' = [i \in DOMAIN screen \cup {new} |-> IF i = new THEN toast ELSE screen[i]]
          /\ task' = [task EXCEPT ![t].at = "shown", ![t].id = new]
       \/ /\ id \notin DOMAIN screen /\ (id # 0 \/ ~up)
          /\ Goes(t, "refused") /\ UNCHANGED <<screen, given>>
  /\ UNCHANGED <<up, kept, signals, service, lapses>>

\* record: a full map is emptied.
Record(key, id) ==
  LET rest == IF Cardinality(DOMAIN kept) >= MaxKept THEN <<>> ELSE kept IN
    /\ kept' = [k \in DOMAIN rest \cup {key} |-> IF k = key THEN id ELSE rest[k]]
    /\ slipped' = slipped \cup (DOMAIN kept \ DOMAIN kept')

Records(t) ==
  /\ At(t, "shown") /\ ~task[t].buttons
  /\ Record(task[t].key, task[t].id)
  /\ task' = [task EXCEPT ![t] = Free]
  /\ UNCHANGED <<screen, given, up, signals, service, dead>>

\* The reply cannot be read: no retry, and nobody listens to the buttons.
Unreadable(t) ==
  /\ At(t, "shown")
  /\ IF task[t].buttons
       THEN dead' = dead \cup {task[t].id} /\ UNCHANGED slipped
       ELSE slipped' = slipped \cup {task[t].key} /\ UNCHANGED dead
  /\ task' = [task EXCEPT ![t] = Free]
  /\ UNCHANGED <<screen, given, up, kept, signals, service>>

\* next_retry_id: once more with a fresh id.
IdRefused(t) ==
  /\ At(t, "refused")
  /\ task' = [task EXCEPT ![t] = IF task[t].id # 0 THEN [@ EXCEPT !.at = "send", !.id = 0]
                                 ELSE Free]
  /\ UNCHANGED <<screen, given, up, kept, signals, service, lapses>>

\* clear_notification_dedup, when the session manager is lost.
Clears ==
  /\ kept # <<>> /\ kept' = <<>>
  /\ slipped' = slipped \cup DOMAIN kept
  /\ UNCHANGED <<screen, given, up, task, signals, service, dead>>

\* Whose streams have the NotificationClosed of a toast: those made by then.
Hearers(id) == {t \in Tasks : At(t, "listening") /\ task[t].id = id}

---------------------------------------------------------------------------
(* Notifications with buttons: run_action_notification *)

\* "VPN Disconnected", or the help on the first run: always a fresh toast.
Prompts(t, key) ==
  /\ At(t, "free") /\ (key = HelpKey => ~service)
  /\ task' = [task EXCEPT ![t] = [Free EXCEPT !.at = "send", !.key = key, !.buttons = TRUE]]
  /\ UNCHANGED <<screen, given, up, kept, signals, service, lapses>>

\* The id goes into the map, under the key of the plain toasts, and the stream
\* is made: it has nothing of what was signalled before.
Listens(t) ==
  /\ At(t, "shown") /\ task[t].buttons
  /\ kept' = [k \in DOMAIN kept \cup {task[t].key} |->
                IF k = task[t].key THEN task[t].id ELSE kept[k]]
  /\ slipped' = slipped \cup {task[t].key}
  /\ Goes(t, "listening")
  /\ UNCHANGED <<screen, given, up, signals, service, dead>>

\* The user picks a button; without a stream nobody hears of it.
Presses(t) ==
  /\ task[t].at \in {"shown", "listening"}
  /\ task[t].id \in DOMAIN screen /\ screen[task[t].id].buttons
  /\ clicked' = IF At(t, "listening") THEN clicked \cup {t} ELSE clicked
  /\ UNCHANGED <<screen, given, up, kept, task, closed, service, lapses>>

\* A terminal action: handled, and then the toast is closed.
Handles(t) ==
  /\ t \in clicked /\ At(t, "listening")
  /\ clicked' = clicked \ {t} /\ closed' = closed \ {t}
  /\ Goes(t, "closing")
  /\ UNCHANGED <<screen, given, up, kept, service, lapses>>

\* close_notification: CloseNotification may fail, the future ends all the same.
UserCloses(t) ==
  /\ At(t, "closing")
  /\ \/ /\ screen' = Without(screen, {task[t].id})
        /\ closed' = closed \cup Hearers(task[t].id) /\ UNCHANGED dead
     \/ dead' = dead \cup {task[t].id} /\ UNCHANGED <<screen, closed>>
  /\ task' = [task EXCEPT ![t] = Free]
  /\ UNCHANGED <<given, up, kept, clicked, service, slipped>>

\* A mutant: an error of the stream ends the listener.
StreamEnds(t) ==
  /\ At(t, "listening")
  /\ task' = [task EXCEPT ![t] = Free]
  /\ clicked' = clicked \ {t} /\ closed' = closed \ {t}
  /\ UNCHANGED <<screen, given, up, kept, service, lapses>>

\* NotificationClosed for this toast, after any action.  An error of the stream
\* ends nothing.
HearsClosed(t) ==
  /\ At(t, "listening") /\ t \in closed \ clicked
  /\ closed' = closed \ {t}
  /\ task' = [task EXCEPT ![t] = Free]
  /\ UNCHANGED <<screen, given, up, kept, clicked, service, lapses>>

\* withdraw_first_run_help_notification: the service has appeared.
Withdraws ==
  /\ ~service /\ service' = TRUE
  /\ \/ /\ screen' = Without(screen, {Resolve(HelpKey)})
        /\ closed' = closed \cup Hearers(Resolve(HelpKey))
     \/ UNCHANGED <<screen, closed>>
  /\ kept' = Without(kept, {HelpKey})
  /\ UNCHANGED <<given, up, task, clicked, lapses>>

---------------------------------------------------------------------------
(* The notification daemon *)

Reaps(id) ==
  /\ id \in DOMAIN screen
  /\ screen' = Without(screen, {id}) /\ closed' = closed \cup Hearers(id)
  /\ UNCHANGED <<given, up, kept, task, clicked, service, lapses>>

Stops ==
  /\ up /\ up' = FALSE
  /\ UNCHANGED <<screen, given, kept, task, signals, service, lapses>>

NotificationNext ==
  \/ \E t \in Tasks :
       \/ \E key \in Names : Shows(t, key)
       \/ \E key \in Keys : Prompts(t, key)
       \/ Reads(t) \/ Notify(t) \/ Records(t) \/ Unreadable(t) \/ IdRefused(t)
       \/ Listens(t) \/ Presses(t) \/ Handles(t) \/ UserCloses(t) \/ HearsClosed(t)
  \/ \E id \in DOMAIN screen : Reaps(id)
  \/ Clears \/ Withdraws \/ Stops

NotificationSpec == NotificationInit /\ [][NotificationNext]_notificationVars

---------------------------------------------------------------------------
(* Properties *)

NotificationTypeOK ==
  /\ given \in 0..MaxIds /\ DOMAIN screen \subseteq 1..given
  /\ DOMAIN kept \subseteq Keys /\ Range(kept) \subseteq 1..given
  /\ clicked \subseteq Tasks /\ closed \subseteq Tasks
  /\ slipped \subseteq Keys /\ dead \subseteq 1..given

Toasts(key) == {id \in DOMAIN screen : screen[id] = [key |-> key, buttons |-> FALSE]}

(***************************************************************************)
(* However fast they come, the notifications of one key replace each       *)
(* other, as long as the id of the last one was recorded and kept.         *)
(***************************************************************************)
NoStacking == \A key \in Keys \ slipped : Cardinality(Toasts(key)) <= 1

(***************************************************************************)
(* A toast with buttons is on the screen only while its future listens to  *)
(* them, is about to, or has acted on one and closes the toast, whatever   *)
(* else replaces, withdraws and closes toasts meanwhile.  Two failures are *)
(* excepted, after which run_action_notification leaves dead buttons       *)
(* behind: a reply that cannot be read, a CloseNotification that fails.    *)
(***************************************************************************)
ButtonsWork ==
  \A id \in DOMAIN screen \ dead : screen[id].buttons =>
    \E t \in Tasks : task[t].id = id /\ task[t].at \in {"shown", "listening", "closing"}
=============================================================================
