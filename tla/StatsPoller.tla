----------------------------- MODULE StatsPoller -----------------------------
(***************************************************************************)
(* The statistics poller (gui/src/app/stats_poller): every few seconds it  *)
(* asks each connected session for its byte counters, decides whether the  *)
(* session has stalled, and disconnects a stalled session so that it is    *)
(* connected anew, at most once per cooldown and config.  The status       *)
(* handler resets the clocks the poller keeps in the tray; sessions change *)
(* status, go and come back while the poller waits for a reply.            *)
(*                                                                         *)
(* Of a status only "connected" or not matters here; the counters of a     *)
(* session never restart.  Time is counted in ticks and passes only when   *)
(* every timer that is due has run.                                        *)
(***************************************************************************)
EXTENDS Integers

CONSTANTS
  Paths,      \* session paths, each used for one tunnel
  Configs,
  ConfigAt,   \* the config of each session
  Interval,   \* stats-refresh-interval
  Threshold,  \* health-check-stall-seconds
  Delay,      \* auto-reconnect-delay-seconds
  Horizon,    \* the clock stops here (bound)
  MaxBytes,   \* BYTES_IN + BYTES_OUT of one session (bound)
  None

ASSUME ConfigAssumption == ConfigAt \in [Paths -> Configs]
ASSUME TimeAssumption ==
  Interval \in Nat \ {0} /\ Threshold \in Nat \ {0} /\ Delay \in Nat
ASSUME BoundAssumption == Horizon \in Nat /\ MaxBytes \in Nat
ASSUME NoneAssumption == None \notin Nat /\ None \notin Paths

VARIABLES
  now,
  live,         \* "up" is connected, "down" any other state
  bytes,        \* what statistics() would answer
  rows,         \* keys of tray.sessions
  known,        \* entries with a config_path
  lastBytes,    \* last_bytes_in + last_bytes_out of each entry
  idleStarted,  \* idle_started_at of each entry
  idleSince,    \* entries whose idle_since is set, to idle_started_at
  attempted,    \* AUTO_RECONNECT_ATTEMPTED_AT
  poll,         \* the poller: asleep, asking, or with a reply to apply
  quiet,        \* history: since when a session has been up without traffic
  silent,       \* history: since when the one asked is, as far as its reply tells
  stopped       \* history: when a stall last stopped a session of a config

clocks == <<lastBytes, idleStarted, idleSince>>
tray   == <<rows, known, clocks>>
vars   == <<now, live, bytes, tray, attempted, poll, quiet, silent, stopped>>

Sleeping(due) ==
  [step |-> "sleep", due |-> due, todo |-> {}, at |-> None, read |-> 0]

Asking(todo) == [Sleeping(0) EXCEPT !.step = "ask", !.todo = todo]

Init ==
  /\ now = 0
  /\ live = [p \in Paths |-> "unborn"]
  /\ bytes = [p \in Paths |-> 0]
  /\ rows = {} /\ known = {}
  /\ lastBytes = [p \in Paths |-> 0]
  /\ idleStarted = [p \in Paths |-> None]
  /\ idleSince = {}
  /\ attempted = [c \in Configs |-> None]
  /\ poll = Sleeping(Interval)
  /\ quiet = [p \in Paths |-> 0]
  /\ silent = 0
  /\ stopped = [c \in Configs |-> None]

Tick ==
  /\ now < Horizon
  /\ poll.step = "sleep" => poll.due > now
  /\ now' = now + 1
  /\ UNCHANGED <<live, bytes, tray, attempted, poll, quiet, silent, stopped>>

---------------------------------------------------------------------------
(* Sessions and their entries *)

\* Entries are removed with their counters and clocks.
Forget(gone) ==
  /\ lastBytes' = [p \in Paths |-> IF p \in gone THEN 0 ELSE lastBytes[p]]
  /\ idleStarted' = [p \in Paths |-> IF p \in gone THEN None ELSE idleStarted[p]]
  /\ idleSince' = idleSince \ gone

\* connect_to_config, by the user or after an auto-reconnect's delay: entries
\* of the config go and the new tunnel gets one.
Connect(p) ==
  LET stale == {q \in known : ConfigAt[q] = ConfigAt[p]} IN
  /\ live[p] = "unborn"
  /\ live' = [live EXCEPT ![p] = "down"]
  /\ rows' = (rows \ stale) \cup {p}
  /\ known' = (known \ stale) \cup {p}
  /\ Forget(stale)
  /\ UNCHANGED <<now, bytes, attempted, poll, quiet, silent, stopped>>

\* backfill_session_identity
Backfill(p) ==
  /\ p \in rows \ known
  /\ live[p] \in {"up", "down"}
  /\ known' = known \cup {p}
  /\ UNCHANGED <<now, live, bytes, rows, clocks, attempted, poll, quiet, silent, stopped>>

\* apply_status_transition: the clocks restart at both ends of Connected.
Transition(p, status) ==
  /\ live' = [live EXCEPT ![p] = status]
  /\ lastBytes' = IF status = "up" THEN [lastBytes EXCEPT ![p] = 0] ELSE lastBytes
  /\ idleStarted' = [idleStarted EXCEPT ![p] = None]
  /\ idleSince' = idleSince \ {p}

\* A StatusChange to or from connected; an error makes no entry.
Connects(p) ==
  /\ live[p] = "down"
  /\ Transition(p, "up")
  /\ rows' = rows \cup {p}
  /\ quiet' = [quiet EXCEPT ![p] = now]
  /\ silent' = IF poll.at = p THEN now ELSE silent
  /\ UNCHANGED <<now, bytes, known, attempted, poll, stopped>>

Leaves(p) ==
  /\ live[p] = "up"
  /\ Transition(p, "down")
  /\ rows' \in {rows, rows \cup {p}}
  /\ UNCHANGED <<now, bytes, known, attempted, poll, quiet, silent, stopped>>

Traffic(p) ==
  /\ live[p] = "up"
  /\ bytes[p] < MaxBytes
  /\ bytes' = [bytes EXCEPT ![p] = @ + 1]
  /\ quiet' = [quiet EXCEPT ![p] = now]
  /\ UNCHANGED <<now, live, tray, attempted, poll, silent, stopped>>

\* A mutant: the stamp of a reconnect goes with its session.
DestroyedForgetsAttempt(p) ==
  /\ live[p] \in {"up", "down"}
  /\ live' = [live EXCEPT ![p] = "gone"]
  /\ rows' = rows \ {p} /\ known' = known \ {p}
  /\ Forget({p})
  /\ attempted' = [attempted EXCEPT ![ConfigAt[p]] = None]
  /\ UNCHANGED <<now, bytes, poll, quiet, silent, stopped>>

\* The session goes, after the poller's disconnect or by itself.
Destroyed(p) ==
  /\ live[p] \in {"up", "down"}
  /\ live' = [live EXCEPT ![p] = "gone"]
  /\ rows' = rows \ {p} /\ known' = known \ {p}
  /\ Forget({p})
  /\ UNCHANGED <<now, bytes, attempted, poll, quiet, silent, stopped>>

---------------------------------------------------------------------------
(* The poller *)

Polling(next) ==
  /\ poll' = next
  /\ UNCHANGED <<now, live, bytes, rows, known, quiet>>

\* The snapshot of connected sessions.
PollStarts ==
  /\ poll.step = "sleep" /\ poll.due <= now
  /\ Polling(Asking({p \in rows : live[p] = "up"}))
  /\ UNCHANGED <<silent, clocks, attempted, stopped>>

\* statistics() is answered, or fails.
PollReply(p) ==
  /\ poll.step = "ask" /\ p \in poll.todo
  /\ \/ /\ live[p] # "gone"
        /\ Polling([poll EXCEPT !.step = "apply", !.todo = @ \ {p}, !.at = p,
                                !.read = bytes[p]])
        /\ silent' = quiet[p]
     \/ Polling(Asking(poll.todo \ {p})) /\ UNCHANGED silent
  /\ UNCHANGED <<clocks, attempted, stopped>>

\* A mutant: the status is what it was when the poller asked.
SilentAsAsked(p) == poll.read <= lastBytes[p]

\* No byte since the poll before, and the session is still connected.
Silent(p) == poll.read <= lastBytes[p] /\ live[p] = "up"

\* apply_stall_detection
IdleFrom(p) ==
  CASE ~Silent(p) -> None
    [] Silent(p) /\ idleStarted[p] = None -> now
    [] OTHER -> idleStarted[p]

\* A mutant: one silent poll is enough.
StalledAtOnce(p) == Silent(p)

Stalled(p) == Silent(p) /\ now - IdleFrom(p) >= Threshold

\* should_auto_reconnect_on_stall
CooledDown(c) == attempted[c] = None \/ now - attempted[c] >= 2 * Delay

\* With the entry gone there is nothing to apply and no config to reconnect.
\* The disconnect that a stall causes is awaited; Destroyed follows, or not.
PollApply ==
  LET p == poll.at
      c == ConfigAt[p]
      trigger == p \in known /\ Stalled(p) /\ CooledDown(c) IN
  /\ poll.step = "apply"
  /\ Polling(Asking(poll.todo))
  /\ silent' = 0
  /\ IF p \notin rows
       THEN UNCHANGED <<clocks, attempted, stopped>>
       ELSE /\ lastBytes' = [lastBytes EXCEPT ![p] = poll.read]
            /\ idleStarted' = [idleStarted EXCEPT ![p] = IdleFrom(p)]
            /\ idleSince' = IF Stalled(p) THEN idleSince \cup {p} ELSE idleSince \ {p}
            /\ attempted' = IF trigger THEN [attempted EXCEPT ![c] = now] ELSE attempted
            /\ stopped' = IF trigger THEN [stopped EXCEPT ![c] = now] ELSE stopped

PollEnds ==
  /\ poll.step = "ask" /\ poll.todo = {}
  /\ Polling(Sleeping(now + Interval))
  /\ UNCHANGED <<silent, clocks, attempted, stopped>>

---------------------------------------------------------------------------
Next ==
  \/ Tick
  \/ \E p \in Paths :
       \/ Connect(p) \/ Backfill(p) \/ Connects(p) \/ Leaves(p)
       \/ Traffic(p) \/ Destroyed(p) \/ PollReply(p)
  \/ PollStarts \/ PollApply \/ PollEnds

Spec == Init /\ [][Next]_vars

---------------------------------------------------------------------------
(* Properties *)

TypeOK ==
  /\ now \in Nat
  /\ live \in [Paths -> {"unborn", "down", "up", "gone"}]
  /\ bytes \in [Paths -> Nat] /\ lastBytes \in [Paths -> Nat]
  /\ rows \subseteq Paths /\ known \subseteq rows
  /\ idleStarted \in [Paths -> Nat \cup {None}]
  /\ idleSince \subseteq {p \in rows : idleStarted[p] # None}
  /\ attempted \in [Configs -> Nat \cup {None}]
  /\ poll \in [step : {"sleep", "ask", "apply"}, due : Nat, todo : SUBSET Paths,
               at : Paths \cup {None}, read : Nat]
  /\ quiet \in [Paths -> Nat] /\ silent \in Nat
  /\ stopped \in [Configs -> Nat \cup {None}]

(***************************************************************************)
(* stall.rs, lines 42 to 48: the idle clock and its warning belong to      *)
(* connected sessions, also when the session left Connected between the    *)
(* poller's request and the reply; otherwise the idle icon masks an error. *)
(***************************************************************************)
IdleOnlyConnected ==
  \A p \in Paths : idleStarted[p] # None \/ p \in idleSince => live[p] = "up"

(***************************************************************************)
(* session_ops.rs, lines 20 to 26: stalls stop sessions of one config no   *)
(* more often than once in two reconnect delays, also when the sessions in *)
(* between were destroyed and created anew.                                *)
(***************************************************************************)
CooldownKept ==
  [][\A c \in Configs :
       stopped'[c] # stopped[c] /\ stopped[c] # None =>
         stopped'[c] - stopped[c] >= 2 * Delay]_vars

(***************************************************************************)
(* A session is stopped for a stall only if it has been up and without a   *)
(* byte for the threshold when its counters are applied: a pause, a        *)
(* reconnect or a poll that failed does not count as silence.              *)
(***************************************************************************)
OnlyStalledStopped ==
  [][stopped' # stopped => now - silent >= Threshold]_vars
=============================================================================
