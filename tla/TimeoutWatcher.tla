--------------------------- MODULE TimeoutWatcher ---------------------------
(***************************************************************************)
(* The connection time-out watchers (gui/src/app/timeout_watcher.rs): a    *)
(* session that starts to connect gets a future that sleeps for the        *)
(* connection-timeout and then warns the user if the session is still      *)
(* connecting.  Nothing cancels a future; a generation counter tells a     *)
(* watcher that it has been superseded.                                    *)
(*                                                                         *)
(* Time is counted in ticks and passes only when every timer that is due   *)
(* has run.  A StatusChange is handled when openvpn3 sends it.             *)
(***************************************************************************)
EXTENDS Naturals, Sequences, SequencesExt

CONSTANTS
  Tunnels,      \* session paths, each used for one tunnel
  Timeouts,   \* values the connection-timeout preference takes
  LastMoment, \* the clock stops here (bound)
  MaxAsleep   \* watchers asleep at a time (bound)

ASSUME TimeoutAssumption == Timeouts \subseteq Nat
ASSUME WatchBoundAssumption == LastMoment \in Nat /\ MaxAsleep \in Nat

VARIABLES
  moment,      \* the time
  status,      \* what each session reported last
  listed,      \* keys of tray.sessions
  generation,  \* TIMEOUT_GEN, 0 where there is no entry
  watchers,    \* the watchers that sleep, in order of spawning
  deadline,    \* history: when the attempt under way is late
  warned       \* history: sessions warned about since they reported last

watchVars == <<moment, status, listed, generation, watchers, deadline, warned>>

Connecting == {"connecting", "reconnecting"}
Reported == Connecting \cup {"other"}
Watchers == [session : Tunnels, gen : Nat, due : Nat]

WatchInit ==
  /\ moment = 0
  /\ status = [p \in Tunnels |-> "unborn"]
  /\ listed = {}
  /\ generation = [p \in Tunnels |-> 0]
  /\ watchers = <<>>
  /\ deadline = [p \in Tunnels |-> 0]
  /\ warned = {}

Elapse ==
  /\ moment < LastMoment
  /\ \A i \in DOMAIN watchers : watchers[i].due > moment
  /\ moment' = moment + 1
  /\ UNCHANGED <<status, listed, generation, watchers, deadline, warned>>

\* A mutant: every watcher of a session has the same generation.
SpawnWatcherUncounted(p, t) ==
  /\ Len(watchers) < MaxAsleep
  /\ generation' = [generation EXCEPT ![p] = 1]
  /\ watchers' = Append(watchers, [session |-> p, gen |-> 1, due |-> moment + t])

\* spawn_timeout_watcher
SpawnWatcher(p, t) ==
  /\ Len(watchers) < MaxAsleep
  /\ generation' = [generation EXCEPT ![p] = @ + 1]
  /\ watchers' =
       Append(watchers,
              [session |-> p, gen |-> generation[p] + 1, due |-> moment + t])

\* A StatusChange; should_dispatch drops one that repeats the last.  An
\* error or a request for credentials makes no entry.
StatusChange(p, s) ==
  /\ status[p] \notin {s, "gone"}
  /\ status' = [status EXCEPT ![p] = s]
  /\ IF s \in Connecting
       THEN /\ listed' = listed \cup {p}
            /\ \E t \in Timeouts :
                 SpawnWatcher(p, t) /\ deadline' = [deadline EXCEPT ![p] = moment + t]
       ELSE /\ listed' \in {listed, listed \cup {p}}
            /\ UNCHANGED <<generation, watchers, deadline>>
  /\ warned' = warned \ {p}
  /\ UNCHANGED moment

\* connect_to_config drops other entries of its config, and the entry of a
\* session that has disconnected fades.
EntryRemoved(p) ==
  /\ p \in listed
  /\ listed' = listed \ {p}
  /\ UNCHANGED <<moment, status, generation, watchers, deadline, warned>>

\* handle_session_destroyed calls remove_timeout_gen.
SessDestroyed(p) ==
  /\ status[p] \notin {"unborn", "gone"}
  /\ status' = [status EXCEPT ![p] = "gone"]
  /\ generation' = [generation EXCEPT ![p] = 0]
  /\ UNCHANGED <<moment, listed, watchers, deadline, warned>>

(***************************************************************************)
(* A watcher wakes.  GLib runs timers that are due together in the order   *)
(* in which they were set.                                                 *)
(***************************************************************************)
Wakes(i) ==
  /\ watchers[i].due <= moment
  /\ \A j \in 1..i - 1 : watchers[j].due > moment
  /\ watchers' = RemoveAt(watchers, i)
  /\ UNCHANGED <<moment, status, listed, deadline>>

\* Still connecting: the user is told.
Warn(p) ==
  warned' = IF p \in listed /\ status[p] \in Connecting THEN warned \cup {p} ELSE warned

Superseded(w) == generation[w.session] # w.gen

\* A mutant: the generation is not removed.
FireUndrained(i) ==
  /\ Wakes(i)
  /\ IF Superseded(watchers[i]) THEN UNCHANGED warned ELSE Warn(watchers[i].session)
  /\ UNCHANGED generation

\* A mutant: a superseded watcher removes the generation too.
FireAlwaysDrains(i) ==
  /\ Wakes(i)
  /\ IF Superseded(watchers[i]) THEN UNCHANGED warned ELSE Warn(watchers[i].session)
  /\ generation' = [generation EXCEPT ![watchers[i].session] = 0]

Fire(i) ==
  /\ Wakes(i)
  /\ IF Superseded(watchers[i])
       THEN UNCHANGED <<generation, warned>>
       ELSE /\ Warn(watchers[i].session)
            /\ generation' = [generation EXCEPT ![watchers[i].session] = 0]

WatchNext ==
  \/ Elapse
  \/ \E p \in Tunnels : \/ \E s \in Reported : StatusChange(p, s)
                      \/ EntryRemoved(p) \/ SessDestroyed(p)
  \/ \E i \in DOMAIN watchers : Fire(i)

WatchSpec == WatchInit /\ [][WatchNext]_watchVars

---------------------------------------------------------------------------
(* Properties *)

WatchTypeOK ==
  /\ moment \in Nat
  /\ status \in [Tunnels -> Reported \cup {"unborn", "gone"}]
  /\ listed \subseteq Tunnels
  /\ generation \in [Tunnels -> Nat]
  /\ \A p \in Tunnels : status[p] \in {"unborn", "gone"} => generation[p] = 0
  /\ watchers \in Seq(Watchers)
  /\ deadline \in [Tunnels -> Nat]
  /\ warned \subseteq Tunnels

(***************************************************************************)
(* timeout_watcher.rs, lines 62 to 65 and 70 to 72: TIMEOUT_GEN holds only *)
(* generations of watchers still asleep, so it does not grow by an entry   *)
(* for every session there ever was.                                       *)
(***************************************************************************)
GenerationsDrained ==
  \A p \in Tunnels :
    generation[p] # 0 =>
      \E i \in DOMAIN watchers : watchers[i].session = p /\ watchers[i].gen = generation[p]

(***************************************************************************)
(* Lines 3 to 7: a session that stays connecting past its time-out has     *)
(* been warned about, whatever watchers of earlier attempts are still      *)
(* asleep, were superseded or have fired.                                  *)
(***************************************************************************)
WarnedWhenLate ==
  \A p \in listed : status[p] \in Connecting /\ moment > deadline[p] => p \in warned

(***************************************************************************)
(* Lines 5 to 7, "only the latest watcher can fire": the watcher of an     *)
(* earlier attempt does not warn about the attempt under way.              *)
(***************************************************************************)
NeverWarnedEarly ==
  [][\A p \in warned' \ warned : moment >= deadline[p]]_watchVars
=============================================================================
