-------------------------- MODULE GuiSettledProofs --------------------------
(***************************************************************************)
(* What GuiKillSwitch promises once everything is settled, for any number  *)
(* of sessions, configs, slots and any bounds: nobody is locked out        *)
(* without a notification, and a connected session keeps its firewall.     *)
(*                                                                         *)
(* Both hold as long as the tray knows the config of every tunnel that is  *)
(* up, which a second tunnel of the same config undoes: connect_to_config  *)
(* drops the entries of its config, of tunnels that are up as well.        *)
(***************************************************************************)
EXTENDS GuiKillSwitchProofs

\* Every tunnel that is up, or on its way up, has an entry with its config.
AllNamed ==
  \A s \in Sessions :
    live[s] \in {"connecting", "connected", "paused"} => s \in known \cup created

\* What the signals still on their way say of a session in state l.
Right(l, signals) ==
  /\ \A i \in 1..Len(signals) :
       /\ signals[i] = "disconnected" => i = Len(signals) /\ l = "gone"
       /\ signals[i] = "authfail" => l \in {"failed", "gone"}
  /\ l = "connected" /\ signals # <<>> => signals[Len(signals)] = "connected"
  /\ l = "unborn" => signals = <<>>

Spoken == \A s \in Sessions : Right(live[s], inbox[s])

\* Entries and marks keep to what has become of the session.
Placed ==
  \A s \in Sessions :
    /\ tray[s] # "absent" \/ s \in created => live[s] # "unborn"
    /\ tray[s] = "connected" => s \notin created
    /\ s \in authRetry => live[s] \in {"failed", "gone"}
    /\ s \in destroyed \cup fading => live[s] = "gone"
    /\ s \in recent => live[s] = "gone" /\ inbox[s] = <<>> /\ s \notin created
    /\ s \in fading /\ s \in destroyed /\ s \in known => s \in recent

\* A session that was created and of which SessCreated was handled.
Counted(s) == live[s] # "unborn" /\ s \notin created

\* What a future may count on of the sessions that it is about.
Means(j) ==
  /\ j.kind \in {"drop", "retry", "disconnect"} => live[j.session] # "unborn"
  /\ j.kind = "pause" => Counted(j.session) /\ tray[j.session] # "connected"
  /\ j.kind = "rebind" => live[j.session] = "gone"
  /\ j.kind # "all" => j.rest = {}
  /\ j.step \in {"query", "adding", "added"} => \A t \in {j.target} \cup j.rest : Counted(t)

Meant == \A f \in Slots : Means(job[f])

Base == TypeInv /\ OneAtATime /\ Spoken /\ Placed /\ Meant

---------------------------------------------------------------------------
(* The states of a session and its signals *)

LEMMA RightTail ==
  ASSUME NEW l, NEW q \in Seq(Statuses), q # <<>>, Right(l, q)
  PROVE  Right(l, Tail(q))
<1>1. /\ Len(q) \in Nat /\ Len(Tail(q)) = Len(q) - 1
      /\ \A i \in 1..Len(Tail(q)) : i + 1 \in 1..Len(q) /\ Tail(q)[i] = q[i + 1]
  OBVIOUS
<1>2. Tail(q) # <<>> => Tail(q)[Len(Tail(q))] = q[Len(q)]
  OBVIOUS
<1>3. \A i \in 1..Len(Tail(q)) : i + 1 = Len(q) => i = Len(Tail(q))
  <2>1. ASSUME NEW n \in Nat, NEW m, m = n - 1, NEW i \in 1..m, i + 1 = n PROVE i = m
    BY <2>1
  <2> QED
    BY <1>1, <2>1
<1> QED
  BY <1>1, <1>2, <1>3 DEF Right

LEMMA RightAppend ==
  ASSUME NEW l, NEW m, NEW q \in Seq(Statuses), NEW y \in Statuses, Right(l, q),
         l # "gone", m # "unborn", l = "failed" => m = "gone",
         y = "disconnected" => m = "gone", y = "authfail" => m \in {"failed", "gone"},
         m = "connected" => y = "connected"
  PROVE  Right(m, q \o <<y>>)
<1> DEFINE r == q \o <<y>>
<1>1. /\ Len(q) \in Nat /\ Len(r) = Len(q) + 1 /\ r[Len(r)] = y
      /\ \A i \in 1..Len(q) : r[i] = q[i]
  OBVIOUS
<1>2. \A i \in 1..Len(r) : i \in 1..Len(q) \/ i = Len(r)
  BY <1>1
<1> HIDE DEF r
<1>3. ASSUME NEW i \in 1..Len(r), i # Len(r)
      PROVE  r[i] # "disconnected" /\ (r[i] = "authfail" => m \in {"failed", "gone"})
  BY <1>1, <1>2, <1>3 DEF Right
<1>4. Right(m, r)
  BY <1>1, <1>3 DEF Right
<1> QED
  BY <1>4 DEF r

LEMMA RightGone ==
  ASSUME NEW l, NEW q \in Seq(Statuses), Right(l, q), l \notin {"unborn", "gone"}
  PROVE  Right("gone", q)
  BY DEF Right

LEMMA RightBorn ==
  ASSUME NEW q \in Seq(Statuses), Right("unborn", q)
  PROVE  q = <<>> /\ Right("connecting", q) /\ Right("connecting", q \o <<"connecting">>)
<1>1. q = <<>>
  BY DEF Right
<1>2. Len(q) = 0
  BY <1>1
<1>3. Right("connecting", q)
  BY <1>2 DEF Right
<1>4. "connecting" \in Statuses
  BY DEF Statuses
<1>5. Right("connecting", q \o <<"connecting">>)
  BY <1>3, <1>4, RightAppend
<1> QED
  BY <1>1, <1>3, <1>5

\* What a step may do to a session and its signals.
Moved(q) ==
  \/ live'[q] = live[q] /\ inbox'[q] = inbox[q]
  \/ /\ live[q] = "unborn" /\ live'[q] = "connecting"
     /\ inbox'[q] \in {inbox[q], inbox[q] \o <<"connecting">>}
  \/ /\ live[q] \notin {"unborn", "gone"} /\ live'[q] = "gone"
     /\ inbox'[q] \in {inbox[q], inbox[q] \o <<"disconnected">>, inbox[q] \o <<"failed">>}
  \/ /\ live[q] = "connecting" /\ live'[q] = "failed"
     /\ inbox'[q] \in {inbox[q] \o <<"authfail">>, inbox[q] \o <<"failed">>}
  \/ /\ live[q] \in {"connecting", "connected", "paused"}
     /\ live'[q] \in {"connecting", "connected", "paused"}
     /\ inbox'[q] = inbox[q] \o <<live'[q]>>
  \/ /\ Status(q) /\ live'[q] = live[q]
     /\ inbox[q] # <<>> /\ inbox'[q] = Tail(inbox[q])

LEMMA LiveMoves ==
  ASSUME TypeInv, Spoken, Placed, Meant, [Next]_vars, NEW q \in Sessions
  PROVE  Moved(q)
<1> USE DEF Moved
<1>a. live \in [Sessions -> LiveStates] /\ inbox \in [Sessions -> Seq(Statuses)]
  BY DEF TypeInv, BackendOK
<1>b. CASE UNCHANGED <<live, inbox>>
  BY <1>b
<1>c. ASSUME NEW s \in Sessions, NEW state, NEW statuses, Report(s, state, statuses)
      PROVE  /\ live'[s] = state /\ inbox'[s] = inbox[s] \o statuses
             /\ q # s => live'[q] = live[q] /\ inbox'[q] = inbox[q]
  BY <1>a, <1>c DEF Report
<1>d. ASSUME NEW s \in Sessions, live[s] \notin {"unborn", "gone"}, Gone(s) PROVE Moved(q)
  <2>1. PICK last \in {<<>>, <<"disconnected">>} : Report(s, "gone", last)
    BY <1>d DEF Gone
  <2>2. inbox[s] \o <<>> = inbox[s]
    BY <1>a
  <2> QED
    BY <1>d, <1>c, <2>1, <2>2
<1>1. ASSUME NEW s \in Sessions, Openvpn3(s) PROVE Moved(q)
  <2>1. CASE Connects(s)
    BY <1>c, <2>1 DEF Connects
  <2>2. CASE Reconnecting(s)
    BY <1>c, <2>2 DEF Reconnecting
  <2>3. CASE AuthFails(s)
    BY <1>c, <2>3 DEF AuthFails
  <2>4. CASE ConnFails(s)
    BY <1>c, <2>4 DEF ConnFails
  <2>5. CASE Killed(s)
    BY <1>c, <2>5 DEF Killed
  <2>6. CASE Drops(s)
    BY <1>d, <2>6 DEF Drops
  <2>7. CASE Outside(s)
    BY <1>c, <2>7 DEF Outside
  <2> HIDE DEF Moved
  <2> QED
    BY <1>1, <2>1, <2>2, <2>3, <2>4, <2>5, <2>6, <2>7 DEF Openvpn3
<1>2. ASSUME NEW s \in Sessions, Status(s) PROVE Moved(q)
  <2>1. PICK x : Receive(s, x)
    BY <1>2 DEF Status, StatusConnecting, StatusConnected, StatusPaused, StatusDisconnected,
                StatusAuthFailed, StatusFailed
  <2>2. /\ live' = live /\ inbox[s] # <<>> /\ inbox' = [inbox EXCEPT ![s] = Tail(inbox[s])]
    BY <2>1 DEF Receive
  <2> QED
    BY <1>a, <1>2, <2>2
<1>3. ASSUME NEW s \in Sessions, EntryStep(s) \/ SessDestroyed(s) PROVE Moved(q)
  BY <1>b, <1>3, EntryTypes, DestroyedTypes
<1>4. CASE User
  <2>1. ASSUME NEW s \in Sessions, Pause(s) PROVE Moved(q)
    BY <1>c, <2>1 DEF Pause
  <2>2. ASSUME NEW s \in Sessions, ResumeOrRestart(s) PROVE Moved(q)
    BY <1>c, <2>2 DEF ResumeOrRestart
  <2>3. ASSUME ~\E s \in Sessions : Pause(s) \/ ResumeOrRestart(s) PROVE UNCHANGED <<live, inbox>>
    BY <1>4, <2>3 DEF User, Connect, Reconnect, Disconnect, PromptReconnect, PromptDismiss,
                      Toggle, backend
  <2> QED
    BY <1>b, <2>1, <2>2, <2>3
<1>5. CASE ServiceLost
  <2>1. /\ live' = [s \in Sessions |-> IF live[s] = "unborn" THEN "unborn" ELSE "gone"]
        /\ inbox' = inbox
    BY <1>5 DEF ServiceLost
  <2> QED
    BY <2>1
<1>6. ASSUME NEW f \in Slots, Run(f) PROVE Moved(q)
  <2>1. CASE DisconnectCall(f)
    <3>1. job[f].session \in Sessions /\ live[job[f].session] # "unborn"
      BY <2>1 DEF DisconnectCall, At, TypeInv, JobsOK, WellFormed, Meant, Means
    <3> QED
      BY <1>b, <1>d, <2>1, <3>1 DEF DisconnectCall
  <2>2. ASSUME NEW s \in Sessions, TunnelCreated(f, s) PROVE Moved(q)
    BY <1>a, <2>2 DEF TunnelCreated
  <2>3. ASSUME ~DisconnectCall(f), ~\E s \in Sessions : TunnelCreated(f, s)
        PROVE  UNCHANGED <<live, inbox>>
    BY <1>6, <2>3 DEF Run, Query, HelperAdds, AddReturned, HelperRemoves, RemoveReturned,
                      PauseSnapshot, MarkDropped, Retain, TunnelFailed, backend
  <2> QED
    BY <1>b, <2>1, <2>2, <2>3
<1>7. CASE UNCHANGED vars
  BY <1>b, <1>7 DEF vars, backend
<1> HIDE DEF Moved
<1> QED
  BY <1>1, <1>2, <1>3, <1>4, <1>5, <1>6, <1>7, NextCases

LEMMA SpokenInductive ==
  ASSUME TypeInv, Spoken, Placed, Meant, [Next]_vars
  PROVE  Spoken'
<1> SUFFICES ASSUME NEW q \in Sessions PROVE Right(live'[q], inbox'[q])
  BY DEF Spoken
<1>1. inbox[q] \in Seq(Statuses) /\ Right(live[q], inbox[q])
  BY DEF TypeInv, BackendOK, Spoken
<1>2. {"connecting", "connected", "paused", "disconnected", "authfail", "failed"} \subseteq Statuses
  BY DEF Statuses
<1>3. ASSUME live[q] \notin {"unborn", "gone"} PROVE Right("gone", inbox[q])
  BY <1>1, <1>3, RightGone
<1>4. ASSUME live[q] \notin {"unborn", "gone"}, NEW y \in {"disconnected", "failed"}
      PROVE  Right("gone", inbox[q] \o <<y>>)
  BY <1>1, <1>2, <1>4, RightAppend
<1>5. ASSUME live[q] = "connecting", NEW y \in {"authfail", "failed"}
      PROVE  Right("failed", inbox[q] \o <<y>>)
  BY <1>1, <1>2, <1>5, RightAppend
<1>6. ASSUME live[q] \in {"connecting", "connected", "paused"},
             NEW y \in {"connecting", "connected", "paused"}
      PROVE  Right(y, inbox[q] \o <<y>>)
  BY <1>1, <1>2, <1>6, RightAppend
<1>7. ASSUME inbox[q] # <<>> PROVE Right(live[q], Tail(inbox[q]))
  BY <1>1, <1>7, RightTail
<1>8. ASSUME live[q] = "unborn"
      PROVE  Right("connecting", inbox[q]) /\ Right("connecting", inbox[q] \o <<"connecting">>)
  BY <1>1, <1>8, RightBorn
<1> QED
  BY <1>1, <1>3, <1>4, <1>5, <1>6, <1>7, <1>8, LiveMoves DEF Moved
\* An entry appears with a status, with SessCreated or with its tunnel.
LEMMA EntryMoves ==
  ASSUME TypeInv, [Next]_vars, NEW q \in Sessions, tray'[q] # tray[q]
  PROVE  \/ Status(q)
         \/ SessCreated(q)
         \/ live'[q] = "connecting" /\ tray'[q] = "connecting"
         \/ tray'[q] = "absent"
<1> USE DEF TypeInv, EntriesOK
<1>1. ASSUME NEW s \in Sessions, Status(s), s # q PROVE FALSE
  BY <1>1 DEF Status, StatusConnecting, StatusConnected, StatusPaused, StatusDisconnected,
              StatusAuthFailed, StatusFailed, Upsert, UpdateIfPresent
<1>2. ASSUME NEW s \in Sessions, EntryStep(s) PROVE SessCreated(q) \/ tray'[q] = "absent"
  BY <1>2 DEF EntryStep, Backfill, SessCreated, Fade, Remove
<1>3. ASSUME NEW f \in Slots, Run(f)
      PROVE  (live'[q] = "connecting" /\ tray'[q] = "connecting") \/ tray'[q] = "absent"
  <2>1. \/ UNCHANGED tray \/ (\E gone : Remove(gone))
        \/ \E s \in Sessions : Insert(s, "connecting") /\ live' = [live EXCEPT ![s] = "connecting"]
    BY <1>3 DEF Run, Query, HelperAdds, AddReturned, HelperRemoves, RemoveReturned, PauseSnapshot,
                MarkDropped, DisconnectCall, Retain, TunnelFailed, TunnelCreated, entries
  <2> QED
    BY <2>1 DEF Remove, Insert, BackendOK
<1>4. (\E s \in Sessions : Openvpn3(s) \/ SessDestroyed(s)) \/ User \/ ServiceLost \/ UNCHANGED vars
      => UNCHANGED tray
  BY Openvpn3Types, DestroyedTypes, UserTypes, LostTypes DEF vars, entries
<1> QED
  BY <1>1, <1>2, <1>3, <1>4, NextCases

\* SessCreated is announced of a session that nobody knew, and once.
LEMMA CreatedMoves ==
  ASSUME TypeInv, [Next]_vars, NEW q \in Sessions, (q \in created') # (q \in created)
  PROVE  \/ SessCreated(q)
         \/ live[q] = "unborn" /\ live'[q] = "connecting" /\ (UNCHANGED tray \/ tray'[q] = "connecting")
<1>1. ASSUME NEW s \in Sessions, Openvpn3(s)
      PROVE  live[q] = "unborn" /\ live'[q] = "connecting" /\ UNCHANGED tray
  BY <1>1 DEF Openvpn3, Connects, Reconnecting, AuthFails, ConnFails, Killed, Drops, Outside, Report,
              entries, TypeInv, BackendOK
<1>2. ASSUME NEW s \in Sessions, EntryStep(s) PROVE SessCreated(q)
  BY <1>2 DEF EntryStep, Backfill, SessCreated, Fade, backend
<1>3. ASSUME NEW f \in Slots, Run(f)
      PROVE  live[q] = "unborn" /\ live'[q] = "connecting" /\ tray'[q] = "connecting"
  <2>1. UNCHANGED created \/ \E s \in Sessions : TunnelCreated(f, s)
    BY <1>3 DEF Run, Query, HelperAdds, AddReturned, HelperRemoves, RemoveReturned, PauseSnapshot,
                MarkDropped, DisconnectCall, Retain, TunnelFailed, backend
  <2> QED
    BY <2>1 DEF TunnelCreated, Insert, TypeInv, BackendOK, EntriesOK
<1>4. (\E s \in Sessions : Status(s) \/ SessDestroyed(s)) \/ ServiceLost \/ UNCHANGED vars
      => UNCHANGED created
  BY StatusTypes, DestroyedTypes, LostTypes DEF vars, backend
<1>5. User => UNCHANGED created
  BY DEF User, Connect, Reconnect, Disconnect, PromptReconnect, PromptDismiss, Toggle, Pause,
         ResumeOrRestart, backend
<1> QED
  BY <1>1, <1>2, <1>3, <1>4, <1>5, NextCases

\* Who marks a session, and who takes a mark back.
Marking(q) ==
  /\ q \in authRetry' => q \in authRetry \/ StatusAuthFailed(q)
  /\ q \in fading' => q \in fading \/ StatusDisconnected(q) \/ SessDestroyed(q)
  /\ q \in destroyed' => \/ q \in destroyed
                         \/ live[q] # "gone" /\ live'[q] = "gone" /\ UNCHANGED fading
  /\ q \in recent' => q \in recent \/ StatusDisconnected(q)
  /\ q \in recent => q \in recent' \/ SessDestroyed(q) \/ known' = {}
  /\ q \in known' => q \in known \/ live[q] # "gone"

LEMMA MarksMove ==
  ASSUME TypeInv, Meant, [Next]_vars, NEW q \in Sessions
  PROVE  Marking(q)
<1> USE DEF Marking
<1>1. CASE UNCHANGED <<authRetry, fading, destroyed, recent, known>>
  BY <1>1
<1>2. ASSUME NEW s \in Sessions, Gone(s), live[s] # "gone",
             UNCHANGED <<authRetry, fading, recent, known>>
      PROVE  Marking(q)
  BY <1>2 DEF Gone, Report, TypeInv, BackendOK
<1>3. ASSUME NEW s \in Sessions, Openvpn3(s) PROVE Marking(q)
  <2>1. CASE Killed(s)
    BY <2>1 DEF Killed, Report, entries, marks, TypeInv, BackendOK
  <2>2. CASE Drops(s)
    BY <1>2, <2>2 DEF Drops, entries, marks
  <2>3. CASE ~Killed(s) /\ ~Drops(s)
    BY <1>1, <1>3, <2>3 DEF Openvpn3, Connects, Reconnecting, AuthFails, ConnFails, Outside,
                            entries, marks
  <2> QED
    BY <2>1, <2>2, <2>3
<1>4. ASSUME NEW s \in Sessions, Status(s) PROVE Marking(q)
  BY <1>4, StatusTypes DEF Status, StatusConnecting, StatusConnected, StatusPaused,
                           StatusDisconnected, StatusAuthFailed, StatusFailed, MarkSwap, marks
<1>5. ASSUME NEW s \in Sessions, EntryStep(s) PROVE Marking(q)
  BY <1>5 DEF EntryStep, Backfill, SessCreated, Fade, Remove, backend, marks
<1>6. ASSUME NEW s \in Sessions, SessDestroyed(s) PROVE Marking(q)
  BY <1>6 DEF SessDestroyed, entries
<1>7. ASSUME NEW f \in Slots, Run(f) PROVE Marking(q)
  <2>1. CASE DisconnectCall(f)
    <3>1. job[f].session \in Sessions
      BY <2>1 DEF DisconnectCall, At, TypeInv, JobsOK, WellFormed
    <3> QED
      BY <1>1, <1>2, <2>1, <3>1 DEF DisconnectCall, entries, marks
  <2>2. CASE RemoveReturned(f)
    BY <2>2 DEF RemoveReturned, Remove, backend, TypeInv, EntriesOK
  <2>3. ASSUME NEW s \in Sessions, TunnelCreated(f, s) PROVE Marking(q)
    BY <2>3 DEF TunnelCreated, Insert, marks
  <2>4. CASE Retain(f)
    BY <2>4 DEF Retain, Remove, backend, marks
  <2>5. CASE ~DisconnectCall(f) /\ ~RemoveReturned(f) /\ ~Retain(f)
             /\ ~\E s \in Sessions : TunnelCreated(f, s)
    BY <1>1, <1>7, <2>5 DEF Run, Query, HelperAdds, AddReturned, HelperRemoves, PauseSnapshot,
                            MarkDropped, TunnelFailed, backend, entries, marks
  <2> QED
    BY <2>1, <2>2, <2>3, <2>4, <2>5
<1>8. CASE User
  BY <1>1, <1>8 DEF User, Connect, Reconnect, Disconnect, PromptReconnect, PromptDismiss, Toggle,
                    Pause, ResumeOrRestart, backend, entries, marks
<1>9. CASE ServiceLost \/ UNCHANGED vars
  BY <1>1, <1>9, LostTypes DEF vars, backend, entries, marks
<1> HIDE DEF Marking
<1> QED
  BY <1>3, <1>4, <1>5, <1>6, <1>7, <1>8, <1>9, NextCases

\* What a signal says that is now handled.
LEMMA HeardRight ==
  ASSUME TypeInv, Spoken, NEW s \in Sessions, NEW x, Receive(s, x)
  PROVE  /\ live'[s] = live[s] /\ live[s] # "unborn" /\ created' = created
         /\ x = "disconnected" => live[s] = "gone" /\ inbox'[s] = <<>>
         /\ x = "authfail" => live[s] \in {"failed", "gone"}
<1>1. /\ inbox[s] \in Seq(Statuses) /\ inbox[s] # <<>> /\ Head(inbox[s]) = x
      /\ live' = live /\ created' = created /\ inbox'[s] = Tail(inbox[s])
  BY DEF Receive, TypeInv, BackendOK
<1>2. Len(inbox[s]) \in Nat \ {0} /\ inbox[s][1] = x /\ 1 \in 1..Len(inbox[s])
  BY <1>1
<1>3. Right(live[s], inbox[s])
  BY DEF Spoken
<1>4. live[s] # "unborn"
  BY <1>1, <1>3 DEF Right
<1>5. /\ x = "disconnected" => live[s] = "gone" /\ Len(inbox[s]) = 1
      /\ x = "authfail" => live[s] \in {"failed", "gone"}
  BY <1>2, <1>3 DEF Right
<1>6. Len(inbox[s]) = 1 => Tail(inbox[s]) = <<>>
  <2>1. Tail(inbox[s]) \in Seq(Statuses) /\ Len(Tail(inbox[s])) = Len(inbox[s]) - 1
    BY <1>1
  <2>2. ASSUME NEW r \in Seq(Statuses), Len(r) = 0 PROVE r = <<>>
    BY <2>2
  <2>3. Len(inbox[s]) = 1 => Len(Tail(inbox[s])) = 0
    BY <1>2, <2>1
  <2> QED
    BY <2>1, <2>2, <2>3, Zenon
<1> QED
  BY <1>1, <1>4, <1>5, <1>6

LEMMA PlacedInductive ==
  ASSUME Patient, TypeInv, Spoken, Placed, Meant, [Next]_vars
  PROVE  Placed'
<1> SUFFICES ASSUME NEW q \in Sessions
    PROVE  /\ tray'[q] # "absent" \/ q \in created' => live'[q] # "unborn"
           /\ tray'[q] = "connected" => q \notin created'
           /\ q \in authRetry' => live'[q] \in {"failed", "gone"}
           /\ q \in destroyed' \cup fading' => live'[q] = "gone"
           /\ q \in recent' => live'[q] = "gone" /\ inbox'[q] = <<>> /\ q \notin created'
           /\ q \in fading' /\ q \in destroyed' /\ q \in known' => q \in recent'
  BY DEF Placed
<1>1. /\ live[q] # "unborn" => live'[q] # "unborn"
      /\ live[q] = "gone" => live'[q] = "gone" /\ (inbox[q] = <<>> => inbox'[q] = <<>>)
      /\ live[q] = "failed" => live'[q] \in {"failed", "gone"}
  BY LiveMoves DEF Moved
<1>2. Status(q) => live[q] # "unborn" /\ created = {} /\ created' = created
  <2>1. Status(q) => \E x : Receive(q, x)
    BY DEF Status, StatusConnecting, StatusConnected, StatusPaused, StatusDisconnected,
           StatusAuthFailed, StatusFailed
  <2> QED
    BY <2>1, HeardRight, HandlersWait, FreeIsIdle
<1>3. StatusDisconnected(q) => /\ live[q] = "gone" /\ inbox'[q] = <<>> /\ created = {}
                               /\ created' = created /\ (q \in known => q \in recent')
  <2>1. StatusDisconnected(q) => Receive(q, "disconnected") /\ Status(q)
    BY DEF StatusDisconnected, Status
  <2>2. StatusDisconnected(q) /\ q \in known => q \in recent'
    BY DEF StatusDisconnected
  <2> QED
    BY <1>2, <2>1, <2>2, HeardRight
<1>4. StatusAuthFailed(q) => live[q] \in {"failed", "gone"}
  <2>1. StatusAuthFailed(q) => Receive(q, "authfail")
    BY DEF StatusAuthFailed
  <2> QED
    BY <2>1, HeardRight
<1>5. /\ SessCreated(q) => q \in created /\ q \notin created'
      /\ SessDestroyed(q) => q \in destroyed /\ q \notin destroyed'
  BY DEF SessCreated, SessDestroyed
<1>6. tray'[q] # "absent" \/ q \in created' => live'[q] # "unborn"
  BY <1>1, <1>2, <1>5, EntryMoves, CreatedMoves DEF Placed
<1>7. tray'[q] = "connected" => q \notin created'
  BY <1>2, <1>5, EntryMoves, CreatedMoves DEF Placed
<1>8. q \in authRetry' => live'[q] \in {"failed", "gone"}
  BY <1>1, <1>4, MarksMove DEF Placed, Marking
<1>9. q \in destroyed' \cup fading' => live'[q] = "gone"
  BY <1>1, <1>3, <1>5, MarksMove DEF Placed, Marking
<1>10. ASSUME q \in recent'
       PROVE  live'[q] = "gone" /\ inbox'[q] = <<>> /\ q \notin created'
  <2>1. q \in recent \/ StatusDisconnected(q)
    BY <1>10, MarksMove DEF Marking
  <2>2. CASE StatusDisconnected(q)
    BY <1>1, <1>3, <2>2
  <2>3. CASE q \in recent
    <3>1. live[q] = "gone" /\ inbox[q] = <<>> /\ q \notin created
      BY <2>3 DEF Placed
    <3>2. q \notin created'
      BY <1>5, <3>1, CreatedMoves
    <3> QED
      BY <1>1, <3>1, <3>2
  <2> QED
    BY <2>1, <2>2, <2>3
<1>11. q \in fading' /\ q \in destroyed' /\ q \in known' => q \in recent'
  BY <1>3, <1>5, MarksMove DEF Placed, Marking
<1> QED
  BY <1>6, <1>7, <1>8, <1>9, <1>10, <1>11

\* A session that a future counts on stays so, until the next status.
LEMMA MeantStays ==
  ASSUME TypeInv, Spoken, Placed, Meant, [Next]_vars, NEW j \in Futures, WellFormed(j), Means(j),
         j.kind = "pause" => ~Status(j.session)
  PROVE  Means(j)'
<1>1. ASSUME NEW q \in Sessions
      PROVE  /\ live[q] # "unborn" => live'[q] # "unborn"
             /\ live[q] = "gone" => live'[q] = "gone"
  BY LiveMoves DEF Moved
<1>2. ASSUME NEW q \in Sessions, Counted(q) PROVE Counted(q)' /\ ~SessCreated(q)
  BY <1>1, <1>2, CreatedMoves DEF Counted, SessCreated
<1>3. j.kind = "pause" => tray'[j.session] # "connected"
  <2> SUFFICES ASSUME j.kind = "pause" PROVE tray'[j.session] # "connected"
    OBVIOUS
  <2>1. /\ j.session \in Sessions /\ Counted(j.session) /\ tray[j.session] # "connected"
        /\ ~Status(j.session)
    BY DEF WellFormed, Means
  <2> QED
    BY <1>2, <2>1, EntryMoves
<1>4. /\ j.kind \in {"drop", "retry", "disconnect", "pause", "rebind"} => j.session \in Sessions
      /\ j.step \in {"query", "adding", "added"} => {j.target} \cup j.rest \subseteq Sessions
  BY DEF WellFormed, Futures
<1> QED
  BY <1>1, <1>2, <1>3, <1>4 DEF Means

LEMMA SpawnMeans ==
  ASSUME TypeInv, Idle, Meant, NEW j \in Futures, Spawn(j), Means(j)'
  PROVE  Meant'
<1>1. PICK f \in Slots : job'[f] = j /\ \A g \in Slots \ {f} : job'[g] = job[g]
  BY SpawnOne DEF TypeInv
<1>2. ASSUME NEW g \in Slots PROVE Means(job[g])'
  <2>1. CASE g = f
    BY <1>1, <2>1 DEF Means, Counted
  <2>2. CASE g # f
    <3>1. job'[g] = job[g]
      BY <1>1, <2>2
    <3> QED
      BY <3>1 DEF Means, Meant, Idle
  <2> QED
    BY <2>1, <2>2
<1> QED
  BY <1>2 DEF Meant

LEMMA IdleMeans ==
  ASSUME Idle, Meant, UNCHANGED job
  PROVE  Meant'
  BY DEF Idle, Meant, Means

LEMMA MeantInductive ==
  ASSUME Patient, TypeInv, Spoken, Placed, Meant, [Next]_vars
  PROVE  Meant'
<1>a. \A q \in Sessions : live[q] # "unborn" => live'[q] # "unborn"
  BY LiveMoves DEF Moved
<1>b. \A t \in Connected : t \in Sessions /\ Counted(t)
  BY DEF Connected, Counted, Placed
<1>1. ASSUME NEW s \in Sessions, Status(s) PROVE Meant'
  <2>1. Idle /\ created = {}
    BY <1>1, HandlersWait, FreeIsIdle
  <2>2. Counted(s)' /\ live'[s] # "unborn"
    <3>1. PICK x : Receive(s, x)
      BY <1>1 DEF Status, StatusConnecting, StatusConnected, StatusPaused, StatusDisconnected,
                  StatusAuthFailed, StatusFailed
    <3> QED
      BY <2>1, <3>1, HeardRight DEF Counted
  <2>3. StatusPaused(s) => tray'[s] # "connected"
    BY DEF StatusPaused, Upsert, TypeInv, EntriesOK
  <2> DEFINE j1 == Future("apply", "query", s, None, s, {})
             j2 == Future("pause", "snapshot", s, None, None, {})
             j3 == Future("retry", "disconnect", s, ConfigOf[s], None, {})
             j4 == Future("drop", "mark", s, None, None, {})
  <2>4. j1 \in Futures /\ j2 \in Futures /\ j3 \in Futures /\ j4 \in Futures
    BY ConfigAssumption DEF Futures, Future, Kinds, Steps
  <2>5. Means(j1)' /\ Means(j3)' /\ Means(j4)' /\ (StatusPaused(s) => Means(j2)')
    BY <2>2, <2>3 DEF Means, Future
  <2>6. \/ UNCHANGED job \/ Spawn(j1) \/ (StatusPaused(s) /\ Spawn(j2)) \/ Spawn(j3) \/ Spawn(j4)
    BY <1>1, StatusFuture
  <2> HIDE DEF j1, j2, j3, j4
  <2> QED
    BY <2>1, <2>4, <2>5, <2>6, SpawnMeans, IdleMeans
<1>2. ASSUME NEW s \in Sessions, SessDestroyed(s) PROVE Meant'
  <2>1. Idle
    BY <1>2, HandlersWait, FreeIsIdle
  <2>2. \A t \in Survivors(s) : t \in Sessions /\ Counted(t)'
    BY <1>b, <1>2, DestroyedTypes DEF Survivors, Counted
  <2>3. live'[s] = "gone"
    BY <1>2, DestroyedTypes DEF SessDestroyed, Placed
  <2> DEFINE j1 == Future("release", "removing", s, None, None, {})
             j2(t) == Future("rebind", "query", s, None, t, {})
             j3 == Future("auto", "retain", None, ConfigOf[s], None, {})
  <2>4. j1 \in Futures /\ j3 \in Futures /\ \A t \in Survivors(s) : j2(t) \in Futures
    BY <2>2, ConfigAssumption DEF Futures, Future, Kinds, Steps
  <2>5. Means(j1)' /\ Means(j3)' /\ \A t \in Survivors(s) : Means(j2(t))'
    BY <2>2, <2>3 DEF Means, Future
  <2>6. UNCHANGED job \/ Spawn(j1) \/ (\E t \in Survivors(s) : Spawn(j2(t))) \/ Spawn(j3)
    BY <1>2, DestroyedFuture
  <2> HIDE DEF j1, j2, j3
  <2> QED
    BY <2>1, <2>4, <2>5, <2>6, SpawnMeans, IdleMeans
<1>3. CASE User
  <2>1. Idle
    BY <1>3, HandlersWait, FreeIsIdle
  <2>2. Toggle => \A t \in Connected : Counted(t)'
    BY <1>b DEF Toggle, backend, Counted
  <2>3. \A s \in Sessions : Disconnect(s) => live'[s] # "unborn"
    BY <1>a DEF Disconnect, Placed
  <2> DEFINE j1(c) == Future("connect", "retain", None, c, None, {})
             j2(s) == Future("disconnect", "disconnect", s, None, None, {})
             j3 == Future("release", "removing", None, None, None, {})
  <2>4. /\ \A c \in Configs : j1(c) \in Futures /\ Means(j1(c))'
        /\ \A s \in Sessions : j2(s) \in Futures /\ (Disconnect(s) => Means(j2(s))')
        /\ j3 \in Futures /\ Means(j3)'
    BY <2>3 DEF Futures, Future, Kinds, Steps, Means
  <2>5. ASSUME Toggle, NEW first \in ApplyAll(Connected) PROVE first \in Futures /\ Means(first)'
    <3>1. Connected \in SUBSET Sessions
      BY DEF Connected
    <3>2. first = NoFuture \/ \E t \in Connected :
            first = Future("all", "query", None, None, t, Connected \ {t})
      BY DEF ApplyAll
    <3>3. ASSUME NEW t \in Connected,
                 first = Future("all", "query", None, None, t, Connected \ {t})
          PROVE  Means(first)'
      BY <2>2, <2>5, <3>3 DEF Future, Means
    <3>4. Means(NoFuture)'
      BY NoFutureFields DEF Means
    <3> QED
      BY <3>1, <3>2, <3>3, <3>4, ApplyAllTypes
  <2>6. \/ UNCHANGED job \/ (\E c \in Configs : Spawn(j1(c)))
        \/ (\E s \in Sessions : Disconnect(s) /\ Spawn(j2(s))) \/ Spawn(j3)
        \/ Toggle /\ \E first \in ApplyAll(Connected) : Spawn(first)
    <3>1. \A c \in Configs : Connect(c) \/ PromptReconnect(c) => Spawn(j1(c))
      BY DEF Connect, PromptReconnect
    <3>2. \A c \in Configs : PromptDismiss(c) => Spawn(j3)
      BY DEF PromptDismiss
    <3>3. \A s \in Sessions : Reconnect(s) => ConfigOf[s] \in Configs /\ Spawn(j1(ConfigOf[s]))
      BY ConfigAssumption DEF Reconnect
    <3>4. \A s \in Sessions : Disconnect(s) => Spawn(j2(s))
      BY DEF Disconnect
    <3>5. \A s \in Sessions : Pause(s) \/ ResumeOrRestart(s) => UNCHANGED job
      BY DEF Pause, ResumeOrRestart
    <3>6. Toggle => Spawn(j3) \/ \E first \in ApplyAll(Connected) : Spawn(first)
      BY DEF Toggle
    <3> HIDE DEF j1, j2, j3
    <3> QED
      BY <1>3, <3>1, <3>2, <3>3, <3>4, <3>5, <3>6 DEF User
  <2> HIDE DEF j1, j2, j3
  <2> QED
    BY <2>1, <2>4, <2>5, <2>6, SpawnMeans, IdleMeans
<1>4. CASE ServiceLost
  <2>1. Idle
    BY <1>4, HandlersWait, FreeIsIdle
  <2> DEFINE j == Future("lost", "removing", None, None, None, {})
  <2>2. Spawn(j) /\ j \in Futures /\ Means(j)'
    BY <1>4 DEF ServiceLost, Futures, Future, Kinds, Steps, Means
  <2> HIDE DEF j
  <2> QED
    BY <2>1, <2>2, SpawnMeans
<1>5. ASSUME NEW g \in Slots, job'[g] = job[g], \A s \in Sessions : ~Status(s) PROVE Means(job[g])'
  <2>1. job[g] \in Futures /\ WellFormed(job[g]) /\ Means(job[g])
    BY DEF TypeInv, JobsOK, Meant
  <2>2. job[g].kind = "pause" => job[g].session \in Sessions
    BY <2>1 DEF WellFormed
  <2>3. \A j \in Futures : j = job[g] => Means(j)'
    BY <1>5, <2>1, <2>2, MeantStays
  <2> QED
    BY <1>5, <2>1, <2>3 DEF Means, Counted
<1>6. CASE (\E s \in Sessions : Openvpn3(s) \/ EntryStep(s)) \/ UNCHANGED vars
  <2>1. UNCHANGED job
    BY <1>6, Openvpn3Types, EntryTypes DEF vars
  <2> QED
    BY <1>1, <1>5, <2>1 DEF Meant
<1>7. ASSUME NEW f \in Slots, Run(f), \A s \in Sessions : ~Status(s) PROVE Meant'
  <2>1. \A g \in Slots \ {f} : Means(job[g])'
    BY <1>5, <1>7, RunMoves
  <2>2. Means(job[f])'
    <3>a. job[f] \in Futures /\ WellFormed(job[f]) /\ Means(job[f])
      BY DEF TypeInv, JobsOK, Meant
    <3>b. \A j \in Futures : j = job[f] => Means(j)'
      <4>1. job[f].kind = "pause" => job[f].session \in Sessions
        BY <3>a DEF WellFormed
      <4> QED
        BY <1>7, <3>a, <4>1, MeantStays
    <3>1. CASE job'[f] = NoFuture
      BY <3>1, NoFutureFields DEF Means
    <3>2. CASE /\ job'[f].kind = job[f].kind /\ job'[f].session = job[f].session
               /\ <<job[f].step, job'[f].step>> \in Moves
               /\ job'[f].target = job[f].target /\ job'[f].rest = job[f].rest
               /\ job[f].step = "snapshot" => job'[f].step = "removing"
      <4>1. job'[f].step \in {"query", "adding", "added"} =>
              job[f].step \in {"query", "adding", "added"}
        BY <3>2 DEF Moves
      <4> QED
        BY <3>a, <3>b, <3>2, <4>1 DEF Means, Counted
    <3>3. CASE /\ job'[f].kind = job[f].kind
               /\ job[f].kind = "all" /\ job[f].step \in {"query", "added"}
               /\ job'[f].rest \subseteq job[f].rest /\ job'[f].target \in job[f].rest
      BY <3>a, <3>b, <3>3 DEF Means, Counted
    <3>4. CASE /\ At(f, "snapshot") /\ job'[f].step = "query" /\ job'[f].rest = job[f].rest
               /\ job'[f].kind = job[f].kind /\ job'[f].session = job[f].session
               /\ job'[f].target \in Survivors(job[f].session)
      <4>1. job[f].kind = "pause" /\ job[f].rest = {}
        BY <3>a, <3>4 DEF WellFormed, Means, At
      <4>2. PauseSnapshot(f)
        BY <1>7, <3>4 DEF Run, At, Query, HelperAdds, AddReturned, HelperRemoves, RemoveReturned,
                          MarkDropped, DisconnectCall, Retain, TunnelFailed, TunnelCreated
      <4>3. \A t \in Survivors(job[f].session) : Counted(t)'
        BY <1>b, <4>2 DEF Survivors, PauseSnapshot, backend, Counted
      <4>4. \A j \in Futures : j = job[f] =>
              Counted(j.session)' /\ tray'[j.session] # "connected"
        BY <3>b, <4>1 DEF Means
      <4> QED
        BY <3>a, <3>4, <4>1, <4>3, <4>4 DEF Means, Counted
    <3> QED
      BY <1>7, <3>1, <3>2, <3>3, <3>4, RunMoves
  <2> QED
    BY <2>1, <2>2 DEF Meant
<1> QED
  BY <1>1, <1>2, <1>3, <1>4, <1>6, <1>7, NextCases

LEMMA BaseInitially == Init => Base
<1> SUFFICES ASSUME Init PROVE Base
  OBVIOUS
<1>1. PICK up \in SUBSET Sessions :
        /\ live = [s \in Sessions |-> IF s \in up THEN "connected" ELSE "unborn"]
        /\ inbox = [s \in Sessions |-> <<>>]
        /\ tray = [s \in Sessions |-> IF s \in up THEN "connected" ELSE "absent"]
        /\ created = {} /\ destroyed = {} /\ fading = {} /\ recent = {} /\ authRetry = {}
  BY DEF Init
<1>2. Spoken
  <2>1. \A s \in Sessions : inbox[s] = <<>> /\ Len(inbox[s]) = 0
    BY <1>1
  <2> QED
    BY <2>1 DEF Spoken, Right
<1>3. Placed
  BY <1>1 DEF Placed
<1>4. \A t \in Connected : Counted(t)
  BY <1>1 DEF Connected, Counted
<1>5. ASSUME NEW f \in Slots PROVE Means(job[f])
  <2>1. \/ job[f] = NoFuture
        \/ \E t \in Connected : job[f] = Future("all", "query", None, None, t, Connected \ {t})
    BY InitOne DEF ApplyAll
  <2>2. Means(NoFuture)
    BY NoFutureFields DEF Means
  <2>3. \A t \in Connected : Means(Future("all", "query", None, None, t, Connected \ {t}))
    BY <1>4 DEF Means, Future
  <2> QED
    BY <2>1, <2>2, <2>3
<1> QED
  BY <1>2, <1>3, <1>5, InitTypes, InitOne DEF Base, Meant

LEMMA BaseInductive == ASSUME Patient, Base, [Next]_vars PROVE Base'
  BY TypeInductive, OneInductive, SpokenInductive, PlacedInductive, MeantInductive DEF Base

---------------------------------------------------------------------------
(* Nobody is locked out without being told *)

\* A session whose end will be answered, by a release or by a notification.
Answers(s) ==
  /\ live[s] \notin {"unborn", "gone"} \/ s \in destroyed
  /\ s \in userDisc \/ Named(s)
  /\ s \notin authRetry

\* Who will see to the table: the user, a new tunnel, a release or a session.
Seen ==
  \/ prompts # {}
  \/ \E f \in Slots : job[f].kind \in {"connect", "retry", "auto"}
  \/ \E f \in Slots : At(f, "removing") \/ (job[f].kind = "rebind" /\ At(f, "query"))
  \/ \E s \in Sessions : Answers(s)

Heard == (table # None /\ ~refused) \/ (\E f \in Slots : At(f, "adding")) => Seen

Removed == \A f \in Slots : At(f, "removed") => table = None \/ refused

LEMMA RemovedInductive ==
  ASSUME Patient, TypeInv, OneAtATime, Removed, [Next]_vars
  PROVE  Removed'
<1>1. CASE (\E s \in Sessions : Status(s) \/ SessDestroyed(s)) \/ User \/ ServiceLost
  <2>1. Idle /\ UNCHANGED <<table, refused>>
    BY <1>1, HandlersWait, FreeIsIdle, HandlersLeaveTable
  <2>2. CASE UNCHANGED job
    BY <2>1, <2>2 DEF Removed, At
  <2>3. ASSUME NEW j \in Starts, Spawn(j) PROVE Removed'
    <3>1. PICK f \in Slots : job'[f] = j /\ \A g \in Slots \ {f} : job'[g] = job[g]
      BY <2>3, SpawnOne DEF Starts, TypeInv
    <3> QED
      BY <2>1, <3>1 DEF Idle, At, Starts, Removed
  <2> QED
    BY <1>1, <2>2, <2>3, HandlerSpawns
<1>2. ASSUME NEW f \in Slots, Run(f) PROVE Removed'
  <2>1. CASE HelperAdds(f)
    <3>1. Working(f) /\ \A g \in Slots : At(g, "removed") => Working(g)
      BY <2>1 DEF HelperAdds, At, Working, TypeInv, JobsOK, WellFormed, Applies
    <3>2. \A g \in Slots : ~At(g, "removed")
      BY <2>1, <3>1 DEF HelperAdds, At, OneAtATime
    <3> QED
      BY <2>1, <3>2 DEF HelperAdds, Goto, At, Removed, TypeInv, JobsOK, Futures
  <2>2. CASE AddReturned(f) \/ RemoveReturned(f)
    <3>1. UNCHANGED <<table, refused>>
      BY <2>2 DEF AddReturned, RemoveReturned
    <3>2. \A g \in Slots : At(g, "removed")' => At(g, "removed")
      BY <2>2, RunMoves, NoFutureFields DEF Run, At, AddReturned, RemoveReturned, Moves
    <3> QED
      BY <3>1, <3>2 DEF Removed
  <2>3. CASE HelperRemoves(f)
    BY <2>3 DEF HelperRemoves, Removed
  <2>4. CASE ~TableStep(f)
    BY <1>2, <2>4, OtherRun DEF Removed, At
  <2> QED
    BY <2>1, <2>2, <2>3, <2>4 DEF TableStep
<1>3. CASE (\E s \in Sessions : Openvpn3(s) \/ EntryStep(s)) \/ UNCHANGED vars
  BY <1>3, Openvpn3Types, EntryTypes DEF vars, ui, choice, Removed, At
<1> QED
  BY <1>1, <1>2, <1>3, NextCases

\* A handler that spawns a future leaves the others alone.
LEMMA SpawnStays ==
  ASSUME JobsOK, NEW j \in Futures, Spawn(j)
  PROVE  /\ \A f \in Slots : job[f].kind # "none" => job'[f] = job[f]
         /\ \E f \in Slots : job'[f] = j
  BY NoFutureFields DEF Spawn, JobsOK

LEMMA HandlerStays ==
  ASSUME TypeInv,
         (\E s \in Sessions : Status(s) \/ SessDestroyed(s)) \/ User \/ ServiceLost
  PROVE  \A f \in Slots : job[f].kind # "none" => job'[f] = job[f]
  BY HandlerSpawns, SpawnStays DEF Starts, TypeInv

LEMMA HeardByStatus ==
  ASSUME Patient, Base, Heard, NEW s \in Sessions, Status(s)
  PROVE  Heard'
<1>1. Idle /\ UNCHANGED <<table, refused, live, destroyed, known, prompts>>
  BY HandlersWait, FreeIsIdle, StatusTypes, HandlersLeaveTable DEF Base
<1>2. \A f \in Slots : job[f].kind # "none" => job'[f] = job[f]
  BY HandlerStays DEF Base
<1>3. ASSUME NEW q \in Sessions, Answers(q), ~Answers(q)'
      PROVE  StatusAuthFailed(s) /\ q \in authRetry'
  <2>1. inbox[s] # <<>>
    BY DEF Status, StatusConnecting, StatusConnected, StatusPaused, StatusDisconnected,
           StatusAuthFailed, StatusFailed, Receive
  <2>2. UNCHANGED userDisc /\ recent \subseteq recent'
    BY DEF Status, StatusConnecting, StatusConnected, StatusPaused, StatusDisconnected,
           StatusAuthFailed, StatusFailed, marks, MarkSwap
  <2>3. q # s => tray'[q] = tray[q]
    BY DEF Status, StatusConnecting, StatusConnected, StatusPaused, StatusDisconnected,
           StatusAuthFailed, StatusFailed, Upsert, UpdateIfPresent, Base, TypeInv, EntriesOK
  <2>4. Named(q) => Named(q)'
    BY <1>1, <2>1, <2>2, <2>3 DEF Named, Base, Placed
  <2>5. ~StatusAuthFailed(s) => UNCHANGED authRetry
    BY DEF Status, StatusConnecting, StatusConnected, StatusPaused, StatusDisconnected,
           StatusFailed, marks
  <2> QED
    BY <1>1, <1>3, <2>2, <2>4, <2>5 DEF Answers
<1>4. CASE \E q \in Sessions : Answers(q) /\ ~Answers(q)'
  <2>1. PICK q \in Sessions : Answers(q) /\ StatusAuthFailed(s) /\ q \in authRetry'
    BY <1>3, <1>4
  <2>2. Spawn(Future("retry", "disconnect", s, ConfigOf[s], None, {}))
    BY <2>1 DEF StatusAuthFailed, Answers
  <2> DEFINE j == Future("retry", "disconnect", s, ConfigOf[s], None, {})
  <2>3. j \in Futures /\ j.kind = "retry"
    BY ConfigAssumption DEF Future, Futures, Kinds, Steps
  <2>4. \E f \in Slots : job'[f].kind = "retry"
    BY <2>2, <2>3, SpawnStays DEF Base, TypeInv
  <2> QED
    BY <2>4 DEF Heard, Seen
<1>5. CASE \A q \in Sessions : Answers(q) => Answers(q)'
  <2>1. (\E f \in Slots : At(f, "adding"))' => FALSE
    <3>1. UNCHANGED job \/ \E j \in Starts : Spawn(j)
      BY HandlerSpawns DEF Base
    <3> QED
      BY <1>1, <3>1, SpawnOne DEF Starts, Idle, At, Base, TypeInv
  <2>2. Seen => Seen'
    BY <1>1, <1>2, <1>5 DEF Seen, Idle, At
  <2> QED
    BY <1>1, <2>1, <2>2 DEF Heard
<1> QED
  BY <1>4, <1>5

\* No handler leads to an AddRules at once.
LEMMA NoneAdds ==
  ASSUME TypeInv, Idle,
         (\E s \in Sessions : Status(s) \/ SessDestroyed(s)) \/ User \/ ServiceLost
  PROVE  ~\E f \in Slots : At(f, "adding")'
<1>1. UNCHANGED job \/ \E j \in Starts : Spawn(j)
  BY HandlerSpawns
<1> QED
  BY <1>1, SpawnOne DEF Starts, Idle, At, TypeInv

LEMMA HeardByDestroyed ==
  ASSUME Patient, Base, Heard, NEW s \in Sessions, SessDestroyed(s)
  PROVE  Heard'
<1>1. Idle /\ UNCHANGED <<table, refused, live, entries>>
  BY HandlersWait, FreeIsIdle, DestroyedTypes, HandlersLeaveTable DEF Base
<1>2. \A f \in Slots : job[f].kind # "none" => job'[f] = job[f]
  BY HandlerStays DEF Base
<1>3. \A q \in Sessions \ {s} : Answers(q) => Answers(q)'
  BY <1>1 DEF SessDestroyed, Answers, Named, entries
<1>4. prompts \subseteq prompts'
  BY DEF SessDestroyed
<1>5. ASSUME Answers(s) PROVE Seen'
  <2> DEFINE j1 == Future("release", "removing", s, None, None, {})
             j2(q) == Future("rebind", "query", s, None, q, {})
             j3 == Future("auto", "retain", None, ConfigOf[s], None, {})
  <2>1. /\ j1 \in Futures /\ j1.step = "removing"
        /\ j3 \in Futures /\ j3.kind = "auto"
        /\ \A q \in Survivors(s) : j2(q) \in Futures /\ j2(q).kind = "rebind" /\ j2(q).step = "query"
    BY ConfigAssumption DEF Future, Futures, Kinds, Steps, Survivors, Connected
  <2>2. \/ Spawn(j1) \/ (\E q \in Survivors(s) : Spawn(j2(q))) \/ Spawn(j3)
        \/ ConfigOf[s] \in prompts'
    BY <1>5 DEF SessDestroyed, Answers
  <2> HIDE DEF j1, j2, j3
  <2> QED
    BY <2>1, <2>2, SpawnStays DEF Seen, At, Base, TypeInv
<1>6. Seen => Seen'
  BY <1>1, <1>2, <1>3, <1>4, <1>5 DEF Seen, Idle, At
<1> QED
  BY <1>1, <1>6, NoneAdds DEF Heard, Base

LEMMA HeardByUser ==
  ASSUME Patient, Base, Heard, User \/ ServiceLost
  PROVE  Heard'
<1>1. Idle /\ UNCHANGED <<table, refused>> /\ UNCHANGED <<known, fading, recent, authRetry, tray>>
  BY HandlersWait, FreeIsIdle, UserTypes, LostTypes, HandlersLeaveTable DEF Base, entries, marks
<1>2. \A f \in Slots : job[f].kind # "none" => job'[f] = job[f]
  BY HandlerStays DEF Base
<1>3. ASSUME NEW c \in Configs, Spawn(Future("connect", "retain", None, c, None, {})) PROVE Seen'
  <2> DEFINE j == Future("connect", "retain", None, c, None, {})
  <2>1. j \in Futures /\ j.kind = "connect"
    BY DEF Future, Futures, Kinds, Steps
  <2> QED
    BY <1>3, <2>1, SpawnStays DEF Seen, Base, TypeInv
<1>4. ASSUME NEW kind \in {"release", "lost"},
             Spawn(Future(kind, "removing", None, None, None, {}))
      PROVE  Seen'
  <2> DEFINE j == Future(kind, "removing", None, None, None, {})
  <2>1. j \in Futures /\ j.step = "removing"
    BY DEF Future, Futures, Kinds, Steps
  <2> QED
    BY <1>4, <2>1, SpawnStays DEF Seen, At, Base, TypeInv
<1>5. ASSUME ServiceLost PROVE Seen'
  <2>1. Spawn(Future("lost", "removing", None, None, None, {}))
    BY <1>5 DEF ServiceLost
  <2> QED
    BY <1>4, <2>1
<1>6. ASSUME NEW c \in Configs, Connect(c) \/ PromptReconnect(c) \/ PromptDismiss(c) PROVE Seen'
  BY <1>3, <1>4, <1>6 DEF Connect, PromptReconnect, PromptDismiss
<1>7. ASSUME NEW s \in Sessions, Reconnect(s) PROVE Seen'
  BY <1>3, <1>7, ConfigAssumption DEF Reconnect
<1>8. ASSUME NEW s \in Sessions, Disconnect(s) \/ Pause(s) \/ ResumeOrRestart(s), Seen PROVE Seen'
  <2>1. UNCHANGED <<prompts, destroyed>> /\ userDisc \subseteq userDisc'
    BY <1>8 DEF Disconnect, Pause, ResumeOrRestart, backend, marks, ui, choice
  <2>2. \A q \in Sessions : live'[q] = live[q] \/ live'[q] \in {"paused", "connecting"}
    BY <1>8 DEF Disconnect, Pause, ResumeOrRestart, Report, backend, Base, TypeInv, BackendOK
  <2>3. \A q \in Sessions : Answers(q) => Answers(q)'
    BY <1>1, <2>1, <2>2 DEF Answers, Named
  <2> QED
    BY <1>1, <1>2, <1>8, <2>1, <2>3 DEF Seen, Idle, At
<1>9. ASSUME Toggle, Seen PROVE Seen'
  <2>1. CASE enabled
    BY <1>4, <1>9, <2>1 DEF Toggle
  <2>2. CASE ~enabled
    <3>1. UNCHANGED <<prompts, live, destroyed, userDisc>>
      BY <1>9, <2>2 DEF Toggle, backend, marks
    <3>2. \A q \in Sessions : Answers(q) => Answers(q)'
      BY <1>1, <3>1 DEF Answers, Named
    <3> QED
      BY <1>1, <1>2, <1>9, <3>1, <3>2 DEF Seen, Idle, At
  <2> QED
    BY <2>1, <2>2
<1>10. ASSUME Seen PROVE Seen'
  <2>1. CASE User
    <3>1. \/ \E c \in Configs : Connect(c) \/ PromptReconnect(c) \/ PromptDismiss(c)
          \/ \E s \in Sessions : Reconnect(s) \/ Disconnect(s) \/ Pause(s) \/ ResumeOrRestart(s)
          \/ Toggle
      BY <2>1 DEF User
    <3> QED
      BY <1>6, <1>7, <1>8, <1>9, <1>10, <3>1
  <2> QED
    BY <1>5, <2>1
<1> QED
  BY <1>1, <1>10, NoneAdds DEF Heard, Base

LEMMA HeardByOthers ==
  ASSUME Patient, Base, Heard,
         (\E s \in Sessions : Openvpn3(s) \/ EntryStep(s)) \/ UNCHANGED vars
  PROVE  Heard'
<1>1. UNCHANGED <<job, prompts, table, refused, userDisc, authRetry>>
  BY Openvpn3Types, EntryTypes DEF Base, vars, marks, ui, choice
<1>2. ASSUME NEW s \in Sessions, Openvpn3(s), NEW q \in Sessions, Answers(q) PROVE Answers(q)'
  <2>1. UNCHANGED <<tray, known, recent>>
    BY <1>2, Openvpn3Types DEF Base, entries, marks
  <2>2. live[q] \notin {"unborn", "gone"} \/ q \in destroyed
    BY <1>2 DEF Answers
  <2>3. live'[q] \notin {"unborn", "gone"} \/ q \in destroyed'
    BY <1>2, <2>2 DEF Openvpn3, Connects, Reconnecting, AuthFails, ConnFails, Killed, Drops, Outside,
                      Gone, Report, Base, TypeInv, BackendOK
  <2> QED
    BY <1>1, <1>2, <2>1, <2>3 DEF Answers, Named
<1>3. ASSUME NEW s \in Sessions, EntryStep(s), NEW q \in Sessions, Answers(q) PROVE Answers(q)'
  <2>1. UNCHANGED <<live, destroyed, recent>>
    BY <1>3, EntryTypes DEF Base
  <2>2. ASSUME q \notin userDisc PROVE Named(q)'
    <3>1. Named(q) /\ (live[q] = "gone" => q \in destroyed)
      BY <1>3, <2>2 DEF Answers
    <3>2. CASE Backfill(s)
      BY <3>1, <3>2 DEF Backfill, Named, marks
    <3>3. CASE SessCreated(s)
      <4>1. known \subseteq known' /\ s \notin recent /\ UNCHANGED recent
        BY <3>3 DEF SessCreated, Base, Placed, marks
      <4>2. q # s => tray'[q] = tray[q]
        BY <3>3 DEF SessCreated, Base, TypeInv, EntriesOK
      <4> QED
        BY <3>1, <4>1, <4>2 DEF Named
    <3>4. CASE Fade(s)
      <4>1. q = s => tray'[q] = "absent" /\ (q \in known => q \in recent)
        BY <3>1, <3>4 DEF Fade, Remove, Base, Placed, TypeInv, EntriesOK
      <4>2. q # s => tray'[q] = tray[q] /\ (q \in known => q \in known')
        BY <3>4 DEF Fade, Remove, Base, TypeInv, EntriesOK
      <4> QED
        BY <2>1, <3>1, <4>1, <4>2 DEF Named
    <3> QED
      BY <1>3, <3>2, <3>3, <3>4 DEF EntryStep
  <2> QED
    BY <1>1, <1>3, <2>1, <2>2 DEF Answers
<1>4. UNCHANGED vars => \A q \in Sessions : Answers(q) => Answers(q)'
  BY DEF vars, backend, entries, marks, Answers, Named
<1>5. \A q \in Sessions : Answers(q) => Answers(q)'
  BY <1>2, <1>3, <1>4
<1> QED
  BY <1>1, <1>5 DEF Heard, Seen, At

\* The table is not bound before somebody is there to see to it.
LEMMA HeardByQuery ==
  ASSUME Base, AllNamed, Heard, NEW f \in Slots, Query(f)
  PROVE  Heard'
<1>1. UNCHANGED <<backend, entries, marks, ui, table>>
  BY DEF Query
<1>2. \A q \in Sessions : Answers(q) => Answers(q)'
  BY <1>1 DEF backend, entries, marks, Answers, Named
<1>3. /\ job[f] \in Futures /\ WellFormed(job[f]) /\ Means(job[f]) /\ At(f, "query")
      /\ \A g \in Slots \ {f} : job'[g] = job[g]
  BY RunMoves DEF Query, Run, Base, TypeInv, JobsOK, Meant
<1>4. CASE Goto(f, "adding") /\ live[job[f].target] \notin {"gone", "failed"}
  <2> DEFINE t == job[f].target
  <2>1. t \in Sessions /\ live[t] # "unborn" /\ t \notin created
    BY <1>3 DEF WellFormed, Means, Counted, At
  <2>2. live[t] \in {"connecting", "connected", "paused"}
    BY <1>4, <2>1 DEF Base, TypeInv, BackendOK, LiveStates
  <2>3. Answers(t)
    BY <2>1, <2>2 DEF AllNamed, Answers, Named, Base, Placed
  <2> QED
    BY <1>2, <2>1, <2>3 DEF Heard, Seen
<1>5. CASE GiveUp(f)
  <2>1. job'[f].step # "adding" /\ (job[f].kind = "rebind" => At(f, "removing")')
    <3>1. CASE job[f].kind = "apply" \/ (job[f].kind = "all" /\ job[f].rest = {})
      BY <1>3, <1>5, <3>1, NoFutureFields DEF GiveUp, End, Base, TypeInv, JobsOK
    <3>2. CASE job[f].kind = "all" /\ job[f].rest # {}
      <4>1. PICK t \in job[f].rest : job' = [job EXCEPT ![f].target = t, ![f].rest = @ \ {t}]
        BY <1>5, <3>2 DEF GiveUp
      <4> QED
        BY <1>3, <3>2, <4>1 DEF At, Base, TypeInv, JobsOK, Futures
    <3>3. CASE job[f].kind \notin {"apply", "all"}
      <4>1. Goto(f, "removing")
        BY <1>5, <3>3 DEF GiveUp
      <4> QED
        BY <4>1 DEF Goto, At, Base, TypeInv, JobsOK, Futures
    <3> QED
      BY <3>1, <3>2, <3>3
  <2>2. \A g \in Slots : job[g].kind \in {"connect", "retry", "auto"} => job'[g] = job[g]
    BY <1>3 DEF WellFormed, Applies, At
  <2>3. Seen => Seen'
    BY <1>1, <1>2, <1>3, <2>1, <2>2 DEF Seen, At, ui, choice
  <2>4. (\E g \in Slots : At(g, "adding"))' => \E g \in Slots : At(g, "adding")
    BY <1>3, <2>1 DEF At
  <2> QED
    BY <1>1, <2>3, <2>4 DEF Heard, ui, choice
<1> QED
  BY <1>4, <1>5 DEF Query

LEMMA HeardByRun ==
  ASSUME "tunnel" \notin Events, Base, Removed, AllNamed, Heard, NEW f \in Slots, Run(f)
  PROVE  Heard'
<1>a. job[f] \in Futures /\ WellFormed(job[f]) /\ \A g \in Slots \ {f} : job'[g] = job[g]
  BY RunMoves DEF Base, TypeInv, JobsOK
<1>b. \A g \in Slots : job[g].step \in {"adding", "removing", "removed"} => Working(g)
  BY DEF Base, TypeInv, JobsOK, WellFormed, Working, Applies
<1>1. CASE HelperRemoves(f)
  <2>1. (table' = None \/ refused') /\ At(f, "removing") /\ job'[f].step = "removed"
    BY <1>1 DEF HelperRemoves, Goto, Base, TypeInv, JobsOK, Futures
  <2>2. \A g \in Slots : ~At(g, "adding")'
    BY <1>a, <1>b, <2>1 DEF At, Base, OneAtATime
  <2> QED
    BY <2>1, <2>2 DEF Heard
<1>2. CASE RemoveReturned(f)
  <2>1. (table' = None \/ refused') /\ At(f, "removed") /\ job'[f].step = ""
    BY <1>2, NoFutureFields DEF RemoveReturned, Removed, End, ui, choice, Base, TypeInv, JobsOK
  <2>2. \A g \in Slots : ~At(g, "adding")'
    BY <1>a, <1>b, <2>1 DEF At, Base, OneAtATime
  <2> QED
    BY <2>1, <2>2 DEF Heard
<1>3. ASSUME At(f, "retain") \/ At(f, "tunnel") PROVE Heard'
  <2>1. CASE Retain(f)
    <3>1. job'[f].kind = job[f].kind /\ job[f].kind \in {"connect", "retry", "auto"}
      BY <1>3, <2>1, <1>a DEF Retain, Goto, WellFormed, At, Base, TypeInv, JobsOK, Futures
    <3> QED
      BY <3>1 DEF Heard, Seen
  <2>2. ASSUME NEW s \in Sessions, TunnelCreated(f, s) PROVE Heard'
    <3>1. live'[s] = "connecting" /\ s \in known' /\ s \notin authRetry'
      BY <2>2 DEF TunnelCreated, Insert, marks, Base, Placed, TypeInv, BackendOK
    <3> QED
      BY <3>1 DEF Heard, Seen, Answers, Named
  <2> QED
    BY <1>3, <2>1, <2>2 DEF Run, At, Query, HelperAdds, AddReturned, HelperRemoves, RemoveReturned,
                            PauseSnapshot, MarkDropped, DisconnectCall, TunnelFailed
<1>4. ASSUME HelperAdds(f) \/ AddReturned(f) \/ PauseSnapshot(f) \/ MarkDropped(f) \/ DisconnectCall(f)
      PROVE  Heard'
  <2>1. job[f].step \in {"adding", "added", "snapshot", "mark", "disconnect"}
    BY <1>4 DEF HelperAdds, AddReturned, PauseSnapshot, MarkDropped, DisconnectCall, At
  <2>2. job[f].kind \notin {"connect", "auto"} /\ (job[f].kind = "retry" => job'[f].kind = "retry")
    <3>1. job[f].kind \notin {"connect", "auto"} /\ (job[f].kind = "retry" => At(f, "disconnect"))
      BY <1>a, <2>1 DEF WellFormed, Applies, At
    <3>2. At(f, "disconnect") => DisconnectCall(f)
      BY <1>4 DEF HelperAdds, AddReturned, PauseSnapshot, MarkDropped, At
    <3>3. DisconnectCall(f) /\ job[f].kind = "retry" => Goto(f, "retain")
      BY DEF DisconnectCall
    <3>4. Goto(f, "retain") => job'[f].kind = job[f].kind
      BY <1>a DEF Goto, Base, TypeInv, JobsOK, Futures
    <3> QED
      BY <3>1, <3>2, <3>3, <3>4
  <2>3. job'[f].step # "adding"
    <3>1. job'[f] = NoFuture \/ <<job[f].step, job'[f].step>> \in Moves
      BY RunMoves DEF Base
    <3> QED
      BY <2>1, <3>1, NoFutureFields DEF Moves
  <2>4. UNCHANGED <<tray, known, recent, authRetry, prompts>> /\ userDisc \subseteq userDisc'
    BY <1>4 DEF HelperAdds, AddReturned, PauseSnapshot, MarkDropped, DisconnectCall,
                entries, marks, ui, choice
  <2>5. ASSUME NEW q \in Sessions, live[q] \notin {"unborn", "gone"} \/ q \in destroyed
        PROVE  live'[q] \notin {"unborn", "gone"} \/ q \in destroyed'
    <3>1. UNCHANGED backend \/ DisconnectCall(f)
      BY <1>4 DEF HelperAdds, AddReturned, PauseSnapshot, MarkDropped
    <3>2. ASSUME DisconnectCall(f), Gone(job[f].session)
          PROVE  live'[q] \notin {"unborn", "gone"} \/ q \in destroyed'
      BY <2>5, <3>2 DEF Gone, Report, Base, TypeInv, BackendOK
    <3> QED
      BY <2>5, <3>1, <3>2 DEF DisconnectCall, backend
  <2>6. \A q \in Sessions : Answers(q) => Answers(q)'
    BY <2>4, <2>5 DEF Answers, Named
  <2>7. Seen => Seen'
    BY <1>a, <2>1, <2>2, <2>4, <2>6 DEF Seen, At
  <2>8. (table' # None /\ ~refused') \/ (\E g \in Slots : At(g, "adding"))'
          => (table # None /\ ~refused) \/ \E g \in Slots : At(g, "adding")
    <3>1. HelperAdds(f) \/ UNCHANGED <<table, refused>>
      BY <1>4 DEF AddReturned, PauseSnapshot, MarkDropped, DisconnectCall, ui, choice
    <3>2. HelperAdds(f) => At(f, "adding")
      BY DEF HelperAdds
    <3> QED
      BY <1>a, <2>3, <3>1, <3>2 DEF At
  <2> QED
    BY <2>7, <2>8 DEF Heard
<1>5. ~TunnelFailed(f)
  BY DEF TunnelFailed
<1> QED
  BY <1>1, <1>2, <1>3, <1>4, <1>5, HeardByQuery DEF Run, Retain, TunnelCreated

(***************************************************************************)
(* If the handlers wait for the futures of earlier ones and NewTunnel      *)
(* works, and as long as the tray knows the config of every tunnel that is *)
(* up, a firewall that no session is left to release comes with a          *)
(* reconnect notification: for any number of sessions, whether they drop,  *)
(* fail, are killed, are started outside the GUI or are lost with the      *)
(* session manager, and whatever the user clicks.                          *)
(***************************************************************************)
THEOREM NobodyLockedOut ==
  ASSUME Patient, "tunnel" \notin Events
  PROVE  Spec /\ []AllNamed => []NoLockout
<1> DEFINE Inv == Base /\ Removed /\ Heard
<1>1. Init => Inv
  <2> SUFFICES ASSUME Init PROVE Inv
    OBVIOUS
  <2>1. (IF enabled THEN Connected ELSE {}) \in SUBSET Sessions
    BY DEF Connected
  <2>2. \A f \in Slots : job[f].step \in {"", "query"}
    BY <2>1, InitOne, ApplyAllTypes, NoFutureFields
  <2>3. table = None
    BY DEF Init
  <2> QED
    BY <2>2, <2>3, BaseInitially DEF Removed, Heard, At
<1>2. Inv /\ AllNamed /\ [Next]_vars => Inv'
  <2> SUFFICES ASSUME Inv, AllNamed, [Next]_vars PROVE Inv'
    OBVIOUS
  <2>1. Base' /\ Removed'
    BY BaseInductive, RemovedInductive DEF Base
  <2>2. Heard'
    BY NextCases, HeardByStatus, HeardByDestroyed, HeardByUser, HeardByRun, HeardByOthers
  <2> QED
    BY <2>1, <2>2
<1>3. Inv => NoLockout
  <2> SUFFICES ASSUME Base, Heard, Quiet, table # None, ~refused,
                      \A s \in Sessions : live[s] \in {"unborn", "gone"}
               PROVE  prompts # {}
    BY DEF NoLockout
  <2>1. \A f \in Slots : job[f].kind = "none" /\ job[f].step = ""
    BY NoFutureFields DEF Quiet
  <2>2. \A s \in Sessions : ~Answers(s)
    BY DEF Answers, Quiet
  <2> QED
    BY <2>1, <2>2 DEF Heard, Seen, At
<1> QED
  BY <1>1, <1>2, <1>3, PTL DEF Spec

---------------------------------------------------------------------------
(* A connected session keeps its firewall *)

\* A session that is connected and of which everything was handled.
Fresh(s) == live[s] = "connected" /\ inbox[s] = <<>>

Current == \A s \in Sessions : Fresh(s) => tray[s] = "connected"

\* An apply that is about session s, or comes to it.
Applying(f, s) ==
  /\ job[f].kind \in {"apply", "all"}
  /\ job[f].step \in {"query", "adding", "added"}
  /\ s = job[f].target \/ s \in job[f].rest

Flagged ==
  enabled => \A s \in Sessions : Fresh(s) => s \in flag \/ \E f \in Slots : Applying(f, s)

\* A table is taken away where no session needs it.
Clearing ==
  \A f \in Slots :
    At(f, "removing") \/ At(f, "removed") =>
      (enabled \/ job[f].kind = "lost" => \A s \in Sessions : ~Fresh(s))

LEMMA FreshMoves ==
  ASSUME TypeInv, Spoken, Placed, Meant, [Next]_vars, NEW q \in Sessions, Fresh(q)'
  PROVE  Fresh(q) \/ StatusConnected(q)
<1>1. inbox[q] \in Seq(Statuses) /\ Right(live[q], inbox[q])
  BY DEF TypeInv, BackendOK, Spoken
<1>2. \A y : inbox[q] \o <<y>> # <<>>
  <2>1. \A y : Len(inbox[q] \o <<y>>) = Len(inbox[q]) + 1 /\ Len(inbox[q]) \in Nat
    BY <1>1
  <2>2. Len(<<>>) = 0
    OBVIOUS
  <2>3. ASSUME NEW y, inbox[q] \o <<y>> = <<>> PROVE FALSE
    <3>1. Len(inbox[q] \o <<y>>) = 0
      BY <2>2, <2>3, Zenon
    <3> QED
      BY <2>1, <3>1
  <2> QED
    BY <2>3
<1>3. live'[q] = "connected" /\ inbox'[q] = <<>>
  BY DEF Fresh
<1>4. CASE live'[q] = live[q] /\ inbox'[q] = inbox[q]
  BY <1>3, <1>4 DEF Fresh
<1>5. CASE Status(q) /\ live'[q] = live[q] /\ inbox[q] # <<>> /\ inbox'[q] = Tail(inbox[q])
  <2>1. inbox[q][Len(inbox[q])] = "connected"
    BY <1>1, <1>3, <1>5 DEF Right
  <2>2. Len(inbox[q]) = 1
    <3>1. Len(Tail(inbox[q])) = Len(inbox[q]) - 1 /\ Len(inbox[q]) \in Nat
      BY <1>1, <1>5
    <3>2. Len(Tail(inbox[q])) = 0
      <4>1. Len(<<>>) = 0
        OBVIOUS
      <4> QED
        BY <1>3, <1>5, <4>1, Zenon
    <3> QED
      BY <3>1, <3>2
  <2>3. Head(inbox[q]) = "connected"
    BY <1>1, <1>5, <2>1, <2>2
  <2> QED
    BY <1>5, <2>3 DEF Status, StatusConnecting, StatusPaused, StatusDisconnected, StatusAuthFailed,
                      StatusFailed, Receive
<1> QED
  BY <1>2, <1>3, <1>4, <1>5, LiveMoves DEF Moved

\* Where the tray knows every tunnel, connect_to_config spares those that count.
LEMMA RetainSpares ==
  ASSUME Base, Current, AllNamed', NEW f \in Slots, Retain(f), NEW q \in Sessions, Fresh(q)
  PROVE  tray'[q] = tray[q] /\ (q \in flag => q \in flag')
<1>1. tray[q] = "connected" /\ q \notin created /\ live[q] = "connected"
  BY DEF Current, Base, Placed, Fresh
<1>2. q \in known'
  BY <1>1 DEF Retain, backend, AllNamed
<1> QED
  BY <1>2 DEF Retain, Remove, Base, TypeInv, EntriesOK

LEMMA CurrentInductive ==
  ASSUME Patient, Base, Current, Clearing, [Next]_vars, AllNamed'
  PROVE  Current'
<1> SUFFICES ASSUME NEW q \in Sessions, Fresh(q)' PROVE tray'[q] = "connected"
  BY DEF Current
<1> USE DEF Base
<1>1. CASE StatusConnected(q)
  BY <1>1 DEF StatusConnected, Upsert, TypeInv, EntriesOK
<1>2. CASE Fresh(q) /\ tray'[q] # tray[q] /\ ~StatusConnected(q)
  <2>1. tray[q] = "connected" /\ live'[q] = "connected"
    BY <1>2 DEF Current, Fresh
  <2>2. ~Status(q)
    <3>1. inbox[q] = <<>>
      BY <1>2 DEF Fresh
    <3> QED
      BY <3>1 DEF Status, StatusConnecting, StatusConnected, StatusPaused, StatusDisconnected,
                  StatusAuthFailed, StatusFailed, Receive
  <2>3. ~SessCreated(q)
    BY <2>1 DEF SessCreated, Placed
  <2>4. tray'[q] = "absent"
    BY <1>2, <2>1, <2>2, <2>3, EntryMoves
  <2>5. ASSUME NEW s \in Sessions, EntryStep(s) PROVE FALSE
    <3>1. q \notin fading
      BY <1>2 DEF Fresh, Placed
    <3> QED
      BY <2>1, <2>4, <2>5, <3>1 DEF EntryStep, Backfill, SessCreated, Fade, Remove, TypeInv, EntriesOK
  <2>6. ASSUME NEW f \in Slots, Run(f) PROVE FALSE
    <3>1. CASE Retain(f)
      BY <1>2, <3>1, RetainSpares
    <3>2. CASE RemoveReturned(f)
      <4>1. job[f].kind = "lost" /\ At(f, "removed")
        BY <1>2, <3>2 DEF RemoveReturned
      <4> QED
        BY <1>2, <4>1 DEF Clearing
    <3>3. ASSUME NEW s \in Sessions, TunnelCreated(f, s) PROVE FALSE
      BY <2>1, <2>4, <3>3 DEF TunnelCreated, Insert, TypeInv, EntriesOK
    <3>4. UNCHANGED tray => FALSE
      BY <1>2
    <3> QED
      BY <2>6, <3>1, <3>2, <3>3, <3>4 DEF Run, Query, HelperAdds, AddReturned, HelperRemoves,
             PauseSnapshot, MarkDropped, DisconnectCall, TunnelFailed, entries
  <2>7. ASSUME NEW s \in Sessions, Status(s) PROVE FALSE
    <3>1. s # q
      BY <2>2, <2>7
    <3> QED
      BY <1>2, <2>7, <3>1 DEF Status, StatusConnecting, StatusConnected, StatusPaused,
              StatusDisconnected, StatusAuthFailed, StatusFailed, Upsert, UpdateIfPresent,
              TypeInv, EntriesOK
  <2>8. (\E s \in Sessions : Openvpn3(s) \/ SessDestroyed(s)) \/ User \/ ServiceLost \/ UNCHANGED vars
        => UNCHANGED tray
    BY Openvpn3Types, DestroyedTypes, UserTypes, LostTypes DEF vars, entries
  <2> QED
    BY <1>2, <2>5, <2>6, <2>7, <2>8, NextCases
<1>3. Fresh(q) \/ StatusConnected(q)
  BY FreshMoves
<1> QED
  BY <1>1, <1>2, <1>3 DEF Current

LEMMA IdleFlags ==
  ASSUME Idle, Flagged, enabled, NEW q \in Sessions, Fresh(q)
  PROVE  q \in flag
<1>1. \A f \in Slots : ~Applying(f, q)
  BY DEF Idle, Applying
<1> QED
  BY <1>1 DEF Flagged

\* A step of a future leaves the fresh sessions protected.
LEMMA FlaggedByRun ==
  ASSUME Base, Current, Flagged, Clearing, AllNamed', enabled,
         NEW f \in Slots, Run(f), NEW q \in Sessions, Fresh(q)
  PROVE  q \in flag' \/ \E g \in Slots : Applying(g, q)'
<1>a. /\ job[f] \in Futures /\ WellFormed(job[f]) /\ Means(job[f])
      /\ \A g \in Slots \ {f} : job'[g] = job[g]
  BY RunMoves DEF Base, TypeInv, JobsOK, Meant
<1>b. tray[q] = "connected" /\ live[q] = "connected"
  BY DEF Current, Fresh
<1>1. ASSUME q \in flag, q \notin flag' PROVE FALSE
  <2>1. CASE AddReturned(f)
    <3>1. job[f].kind \notin {"apply", "all"} /\ q = job[f].session /\ At(f, "added")
      BY <1>1, <2>1 DEF AddReturned
    <3>2. job[f].kind \in {"pause", "rebind"}
      BY <1>a, <3>1 DEF WellFormed, Applies, At
    <3> QED
      BY <1>a, <1>b, <3>1, <3>2 DEF Means
  <2>2. CASE RemoveReturned(f)
    BY <2>2 DEF RemoveReturned, Clearing
  <2>3. CASE Retain(f)
    BY <1>1, <2>3, RetainSpares
  <2>4. ASSUME NEW s \in Sessions, TunnelCreated(f, s) PROVE FALSE
    BY <1>1, <1>b, <2>4 DEF TunnelCreated, Insert
  <2>5. UNCHANGED flag => FALSE
    BY <1>1
  <2> QED
    BY <2>1, <2>2, <2>3, <2>4, <2>5 DEF Run, Query, HelperAdds, HelperRemoves, PauseSnapshot,
           MarkDropped, DisconnectCall, TunnelFailed, entries
<1>2. ASSUME NEW g \in Slots, g # f, Applying(g, q) PROVE Applying(g, q)'
  BY <1>a, <1>2 DEF Applying
<1>3. ASSUME Applying(f, q), q \notin flag' PROVE Applying(f, q)'
  <2>1. Query(f) \/ HelperAdds(f) \/ AddReturned(f)
    BY <1>3 DEF Applying, Run, At, HelperRemoves, RemoveReturned, PauseSnapshot, MarkDropped,
                DisconnectCall, Retain, TunnelFailed, TunnelCreated
  <2>2. ASSUME NEW step \in {"adding", "added"}, Goto(f, step) PROVE Applying(f, q)'
    BY <1>3, <2>2 DEF Applying, Goto, Base, TypeInv, JobsOK, Futures
  <2>3. ASSUME NEW t \in job[f].rest, job[f].kind = "all", q # job[f].target,
               job'[f].kind = job[f].kind, job'[f].target = t, job'[f].rest = job[f].rest \ {t},
               job'[f].step = "query"
        PROVE  Applying(f, q)'
    BY <1>3, <2>3 DEF Applying
  <2>4. CASE Query(f)
    <3>1. CASE Goto(f, "adding")
      BY <2>2, <3>1
    <3>2. CASE GiveUp(f) /\ live[job[f].target] # "connected"
      <4>1. q # job[f].target /\ q \in job[f].rest
        BY <1>3, <1>b, <3>2 DEF Applying
      <4>2. job[f].kind = "all" /\ job[f].rest # {}
        BY <1>3, <1>a, <4>1 DEF Applying, Means
      <4>3. PICK t \in job[f].rest : job' = [job EXCEPT ![f].target = t, ![f].rest = @ \ {t}]
        BY <3>2, <4>2 DEF GiveUp
      <4>4. /\ job'[f].kind = job[f].kind /\ job'[f].target = t /\ job'[f].rest = job[f].rest \ {t}
            /\ job'[f].step = "query"
        BY <1>a, <2>4, <4>3 DEF Query, At, Base, TypeInv, JobsOK, Futures
      <4> QED
        BY <2>3, <4>1, <4>2, <4>4
    <3> QED
      BY <2>4, <3>1, <3>2 DEF Query
  <2>5. CASE HelperAdds(f)
    BY <2>2, <2>5 DEF HelperAdds
  <2>6. CASE AddReturned(f)
    <3>1. q # job[f].target /\ q \in job[f].rest
      BY <1>3, <1>b, <2>6 DEF Applying, AddReturned
    <3>2. job[f].kind = "all" /\ job[f].rest # {}
      BY <1>3, <1>a, <3>1 DEF Applying, Means
    <3>3. PICK t \in job[f].rest :
            job' = [job EXCEPT ![f].target = t, ![f].rest = @ \ {t}, ![f].step = "query"]
      BY <2>6, <3>2 DEF AddReturned
    <3>4. /\ job'[f].kind = job[f].kind /\ job'[f].target = t /\ job'[f].rest = job[f].rest \ {t}
          /\ job'[f].step = "query"
      BY <1>a, <3>3 DEF Base, TypeInv, JobsOK, Futures
    <3> QED
      BY <2>3, <3>1, <3>2, <3>4
  <2> QED
    BY <2>1, <2>4, <2>5, <2>6
<1>4. q \in flag \/ \E g \in Slots : Applying(g, q)
  BY DEF Flagged
<1> QED
  BY <1>1, <1>2, <1>3, <1>4

LEMMA FlaggedInductive ==
  ASSUME Patient, Base, Current, Flagged, Clearing, [Next]_vars, AllNamed'
  PROVE  Flagged'
<1> SUFFICES ASSUME enabled', NEW q \in Sessions, Fresh(q)'
             PROVE  q \in flag' \/ \E f \in Slots : Applying(f, q)'
  BY DEF Flagged
<1> USE DEF Base
<1>1. Fresh(q) \/ StatusConnected(q)
  BY FreshMoves
<1>2. CASE StatusConnected(q)
  <2>1. enabled
    BY <1>2 DEF StatusConnected, Receive, choice
  <2> DEFINE j == Future("apply", "query", q, None, q, {})
  <2>2. Spawn(j)
    BY <1>2, <2>1 DEF StatusConnected
  <2>3. j \in Futures /\ j.kind = "apply" /\ j.step = "query" /\ j.target = q
    BY DEF Future, Futures, Kinds, Steps
  <2> HIDE DEF j
  <2>4. PICK f \in Slots : job'[f] = j
    BY <2>2, <2>3, SpawnOne DEF TypeInv
  <2> QED
    BY <2>3, <2>4 DEF Applying
<1>3. ASSUME Fresh(q), (\E s \in Sessions : Status(s) \/ SessDestroyed(s)) \/ User \/ ServiceLost
      PROVE  q \in flag' \/ \E f \in Slots : Applying(f, q)'
  <2>1. Idle /\ UNCHANGED flag
    BY <1>3, HandlersWait, FreeIsIdle, HandlersLeaveTable
  <2>2. CASE enabled
    BY <1>3, <2>1, <2>2, IdleFlags
  <2>3. CASE ~enabled
    <3>1. Toggle
      BY <1>3, <2>3, StatusTypes, DestroyedTypes, LostTypes
      DEF User, Connect, Reconnect, Disconnect, Pause, ResumeOrRestart, PromptReconnect,
          PromptDismiss, ui, choice
    <3>2. q \in Connected /\ Connected \in SUBSET Sessions
      BY <1>3 DEF Current, Connected
    <3>3. PICK first \in ApplyAll(Connected) : Spawn(first)
      BY <2>3, <3>1 DEF Toggle
    <3>4. PICK t \in Connected : first = Future("all", "query", None, None, t, Connected \ {t})
      BY <3>2, <3>3 DEF ApplyAll
    <3>5. /\ first \in Futures /\ first.kind = "all" /\ first.step = "query" /\ first.target = t
          /\ first.rest = Connected \ {t}
      BY <3>2, <3>3, <3>4, ApplyAllTypes DEF Future
    <3>6. PICK f \in Slots : job'[f] = first
      BY <3>3, <3>5, SpawnOne DEF TypeInv
    <3> QED
      BY <3>2, <3>5, <3>6 DEF Applying
  <2> QED
    BY <2>2, <2>3
<1>4. ASSUME Fresh(q), (\E s \in Sessions : Openvpn3(s) \/ EntryStep(s)) \/ UNCHANGED vars
      PROVE  q \in flag' \/ \E f \in Slots : Applying(f, q)'
  <2>1. UNCHANGED <<job, enabled>>
    BY <1>4, Openvpn3Types, EntryTypes DEF vars, ui, choice
  <2>2. q \in flag => q \in flag'
    <3>1. q \notin fading
      BY <1>4 DEF Fresh, Placed
    <3>2. ASSUME NEW s \in Sessions, EntryStep(s), q \in flag PROVE q \in flag'
      BY <3>1, <3>2 DEF EntryStep, Backfill, SessCreated, Fade, Remove
    <3> QED
      BY <1>4, <3>2, Openvpn3Types DEF vars, entries
  <2> QED
    BY <1>4, <2>1, <2>2 DEF Flagged, Applying
<1>5. ASSUME Fresh(q), NEW f \in Slots, Run(f)
      PROVE  q \in flag' \/ \E g \in Slots : Applying(g, q)'
  <2>1. enabled
    BY <1>5 DEF Run, Query, HelperAdds, AddReturned, HelperRemoves, RemoveReturned, PauseSnapshot,
                MarkDropped, DisconnectCall, Retain, TunnelFailed, TunnelCreated, ui, choice
  <2> QED
    BY <1>5, <2>1, FlaggedByRun
<1> QED
  BY <1>1, <1>2, <1>3, <1>4, <1>5, NextCases

LEMMA ClearingInductive ==
  ASSUME Patient, "dismiss" \notin Events, Base, Current, Flagged, Clearing, [Next]_vars, ~FellBack'
  PROVE  Clearing'
<1> USE DEF Base
<1>a. \A q \in Sessions : Fresh(q)' => Fresh(q) \/ Status(q)
  BY FreshMoves DEF Status
<1>1. CASE (\E s \in Sessions : Status(s) \/ SessDestroyed(s)) \/ User \/ ServiceLost
  <2>1. Idle
    BY <1>1, HandlersWait, FreeIsIdle
  <2>2. ASSUME NEW j \in Futures, Spawn(j), j.step # "removed",
               j.step = "removing" =>
                 (enabled' \/ j.kind = "lost" => \A s \in Sessions : ~Fresh(s)')
        PROVE  Clearing'
    <3>1. PICK f \in Slots : job'[f] = j /\ \A g \in Slots \ {f} : job'[g] = job[g]
      BY <2>2, SpawnOne DEF TypeInv
    <3>2. \A g \in Slots \ {f} : ~At(g, "removing")' /\ ~At(g, "removed")'
      BY <2>1, <3>1 DEF Idle, At
    <3> QED
      BY <2>2, <3>1, <3>2 DEF Clearing, At
  <2>3. CASE UNCHANGED job
    BY <2>1, <2>3 DEF Clearing, Idle, At
  <2>4. ASSUME NEW s \in Sessions, Status(s) PROVE Clearing'
    BY <2>2, <2>3, <2>4, StatusFuture, ConfigAssumption DEF Future, Futures, Kinds, Steps
  <2>5. ASSUME NEW s \in Sessions, SessDestroyed(s) PROVE Clearing'
    <3>1. UNCHANGED <<live, inbox, enabled, tray, flag>> /\ live[s] = "gone"
      BY <2>5, DestroyedTypes DEF SessDestroyed, entries, choice, Placed
    <3>2. ASSUME enabled, NEW q \in Sessions, Fresh(q) PROVE q \in Survivors(s)
      BY <2>1, <3>1, <3>2, IdleFlags DEF Current, Survivors, Connected, Fresh
    <3>3. \/ UNCHANGED job
          \/ Survivors(s) = {} /\ Spawn(Future("release", "removing", s, None, None, {}))
          \/ (\E t \in Survivors(s) : Spawn(Future("rebind", "query", s, None, t, {})))
          \/ Spawn(Future("auto", "retain", None, ConfigOf[s], None, {}))
      BY <2>5 DEF SessDestroyed
    <3> DEFINE j1 == Future("release", "removing", s, None, None, {})
               j2(t) == Future("rebind", "query", s, None, t, {})
               j3 == Future("auto", "retain", None, ConfigOf[s], None, {})
    <3>4. /\ j1 \in Futures /\ j1.step = "removing" /\ j1.kind = "release"
          /\ \A t \in Survivors(s) : j2(t) \in Futures /\ j2(t).step = "query"
          /\ j3 \in Futures /\ j3.step = "retain"
      BY ConfigAssumption DEF Future, Futures, Kinds, Steps, Survivors, Connected
    <3> HIDE DEF j1, j2, j3
    <3>5. UNCHANGED job \/ (Survivors(s) = {} /\ Spawn(j1)) \/ (\E t \in Survivors(s) : Spawn(j2(t)))
          \/ Spawn(j3)
      BY <3>3 DEF j1, j2, j3
    <3>6. CASE Survivors(s) = {} /\ Spawn(j1)
      <4>1. enabled' => \A q \in Sessions : ~Fresh(q)'
        BY <3>1, <3>2, <3>6 DEF Fresh
      <4> QED
        BY <2>2, <3>4, <3>6, <4>1
    <3> QED
      BY <2>2, <2>3, <3>4, <3>5, <3>6
  <2>6. ASSUME User PROVE Clearing'
    <3> DEFINE j1(c) == Future("connect", "retain", None, c, None, {})
               j2(s) == Future("disconnect", "disconnect", s, None, None, {})
               j3 == Future("release", "removing", None, None, None, {})
    <3>1. /\ \A c \in Configs : j1(c) \in Futures /\ j1(c).step = "retain"
          /\ \A s \in Sessions : j2(s) \in Futures /\ j2(s).step = "disconnect"
          /\ j3 \in Futures /\ j3.kind = "release" /\ j3.step = "removing"
      BY DEF Future, Futures, Kinds, Steps
    <3>2. Connected \in SUBSET Sessions
      BY DEF Connected
    <3>3. \A first \in ApplyAll(Connected) :
            first \in Futures /\ first.step # "removing" /\ first.step # "removed"
      BY <3>2, ApplyAllTypes
    <3>4. Toggle => \/ ~enabled' /\ Spawn(j3)
                    \/ \E first \in ApplyAll(Connected) : Spawn(first)
      BY DEF Toggle, TypeInv, UiOK
    <3>5. ~Toggle => \/ UNCHANGED job \/ (\E c \in Configs : Spawn(j1(c)))
                     \/ \E s \in Sessions : Spawn(j2(s))
      BY <2>6, ConfigAssumption
      DEF User, Connect, Reconnect, Disconnect, Pause, ResumeOrRestart, PromptReconnect, PromptDismiss
    <3> HIDE DEF j1, j2, j3
    <3> QED
      BY <2>2, <2>3, <3>1, <3>3, <3>4, <3>5
  <2>7. ASSUME ServiceLost PROVE Clearing'
    <3> DEFINE j == Future("lost", "removing", None, None, None, {})
    <3>1. Spawn(j) /\ j \in Futures /\ j.step = "removing"
      BY <2>7 DEF ServiceLost, Future, Futures, Kinds, Steps
    <3>2. \A q \in Sessions : ~Fresh(q)'
      BY <2>7 DEF ServiceLost, Fresh
    <3> HIDE DEF j
    <3> QED
      BY <2>2, <3>1, <3>2
  <2> QED
    BY <1>1, <2>4, <2>5, <2>6, <2>7
<1>2. ASSUME \A s \in Sessions : ~Status(s), UNCHANGED enabled, NEW g \in Slots,
             job'[g].kind = job[g].kind, At(g, "removing") \/ At(g, "removed"),
             enabled' \/ job'[g].kind = "lost", NEW q \in Sessions
      PROVE  ~Fresh(q)'
  BY <1>a, <1>2 DEF Clearing
<1>3. ASSUME \A s \in Sessions : ~Status(s),
             (\E s \in Sessions : Openvpn3(s) \/ EntryStep(s)) \/ UNCHANGED vars
      PROVE  Clearing'
  <2>1. UNCHANGED <<job, enabled>>
    BY <1>3, Openvpn3Types, EntryTypes DEF vars, ui, choice
  <2> QED
    BY <1>2, <1>3, <2>1 DEF Clearing, At
<1>4. ASSUME \A s \in Sessions : ~Status(s), NEW f \in Slots, Run(f) PROVE Clearing'
  <2>a. /\ job[f] \in Futures /\ WellFormed(job[f]) /\ Means(job[f])
        /\ \A g \in Slots \ {f} : job'[g] = job[g]
    BY <1>4, RunMoves DEF TypeInv, JobsOK, Meant
  <2>1. UNCHANGED enabled
    BY <1>4 DEF Run, Query, HelperAdds, AddReturned, HelperRemoves, RemoveReturned, PauseSnapshot,
                MarkDropped, DisconnectCall, Retain, TunnelFailed, TunnelCreated, ui, choice
  <2>2. SUFFICES ASSUME At(f, "removing")' \/ At(f, "removed")', enabled \/ job'[f].kind = "lost",
                        NEW q \in Sessions, Fresh(q)'
                 PROVE  FALSE
    BY <1>2, <1>4, <2>1, <2>a DEF Clearing, At
  <2>3. /\ job'[f].kind = job[f].kind /\ <<job[f].step, job'[f].step>> \in Moves
        /\ job[f].step # "snapshot" => job'[f].target = job[f].target \/ job[f].kind = "all"
    BY <1>4, <2>2, RunMoves, NoFutureFields DEF At
  <2>4. job[f].step \in {"query", "removing", "snapshot"}
    BY <2>2, <2>3 DEF Moves, At
  <2>5. CASE job[f].step = "removing"
    BY <1>2, <1>4, <2>1, <2>2, <2>3, <2>5 DEF At
  <2>6. CASE job[f].step = "query"
    <3>1. At(f, "removing")'
      BY <2>2, <2>3, <2>6 DEF Moves, At
    <3>2. job[f].kind \in {"pause", "rebind"}
      <4>1. job'[f].kind \in {"release", "lost", "pause", "rebind"}
        BY <3>1, TypeInductive DEF TypeInv, JobsOK, WellFormed, At
      <4> QED
        BY <2>3, <2>6, <2>a, <4>1 DEF WellFormed, Applies
    <3>3. job'[f].target # None
      BY <2>3, <2>6, <2>a, <3>2, NoneAssumption DEF WellFormed
    <3> QED
      BY <3>1, <3>3 DEF FellBack
  <2>7. CASE job[f].step = "snapshot"
    <3>1. PauseSnapshot(f) /\ job[f].kind = "pause"
      BY <1>4, <2>7, <2>a DEF WellFormed, Run, At, Query, HelperAdds, AddReturned, HelperRemoves,
         RemoveReturned, MarkDropped, DisconnectCall, Retain, TunnelFailed, TunnelCreated
    <3>2. Survivors(job[f].session) = {}
      <4>1. ASSUME NEW t \in Survivors(job[f].session),
                   job' = [job EXCEPT ![f].target = t, ![f].step = "query"]
            PROVE  FALSE
        BY <2>2, <2>a, <4>1 DEF At, TypeInv, JobsOK, Futures
      <4> QED
        BY <3>1, <4>1 DEF PauseSnapshot
    <3>3. enabled /\ Fresh(q)
      BY <1>4, <1>a, <2>2, <2>3, <3>1
    <3>4. \A g \in Slots : ~Applying(g, q)
      BY <3>1 DEF Applying, OneAtATime, Working
    <3>5. q \in flag /\ tray[q] = "connected" /\ q # job[f].session
      BY <2>a, <3>1, <3>3, <3>4 DEF Flagged, Current, Means
    <3> QED
      BY <3>2, <3>5 DEF Survivors, Connected
  <2> QED
    BY <2>4, <2>5, <2>6, <2>7
<1> QED
  BY <1>1, <1>3, <1>4, NextCases

(***************************************************************************)
(* With the kill-switch on and everything settled, a connected session has *)
(* a firewall, for any number of sessions, whatever became of the others:  *)
(* if the handlers wait for the futures of earlier ones, AddRules works,   *)
(* the firewall is not dismissed by the notification, every rebind finds   *)
(* its survivor and the tray knows the config of every tunnel that is up.  *)
(***************************************************************************)
THEOREM ConnectedMeansProtected ==
  ASSUME Patient, "addfail" \notin Events, "dismiss" \notin Events
  PROVE  Spec /\ []AllNamed /\ []~FellBack => []EnabledMeansProtected
<1> DEFINE Inv == Base /\ Locked /\ Current /\ Flagged /\ Clearing
<1>1. Init => Inv
  <2> SUFFICES ASSUME Init PROVE Inv
    OBVIOUS
  <2>1. PICK up \in SUBSET Sessions :
          /\ live = [s \in Sessions |-> IF s \in up THEN "connected" ELSE "unborn"]
          /\ tray = [s \in Sessions |-> IF s \in up THEN "connected" ELSE "absent"]
          /\ \E f \in Slots, first \in ApplyAll(IF enabled THEN up ELSE {}) :
               job = [g \in Slots |-> IF g = f THEN first ELSE NoFuture]
    BY DEF Init
  <2>2. Current
    BY <2>1 DEF Current, Fresh
  <2>3. ASSUME enabled, NEW q \in Sessions, Fresh(q) PROVE \E f \in Slots : Applying(f, q)
    <3>1. q \in up
      BY <2>1, <2>3 DEF Fresh
    <3>2. PICK f \in Slots, first \in ApplyAll(up) : job[f] = first
      BY <2>1, <2>3
    <3>3. PICK t \in up : first = Future("all", "query", None, None, t, up \ {t})
      BY <3>1, <3>2 DEF ApplyAll
    <3> QED
      BY <3>1, <3>2, <3>3 DEF Applying, Future
  <2>4. (IF enabled THEN Connected ELSE {}) \in SUBSET Sessions
    BY DEF Connected
  <2>5. \A f \in Slots : job[f].step \in {"", "query"}
    BY <2>4, InitOne, ApplyAllTypes, NoFutureFields
  <2> QED
    BY <2>2, <2>3, <2>5, BaseInitially, LockedInitially DEF Flagged, Clearing, At
<1>2. Inv /\ AllNamed' /\ ~FellBack' /\ [Next]_vars => Inv'
  BY BaseInductive, LockedInductive, CurrentInductive, FlaggedInductive, ClearingInductive DEF Base
<1>3. Inv => EnabledMeansProtected
  <2> SUFFICES ASSUME Locked, Flagged, Quiet, enabled, Up # {} PROVE table # None
    BY DEF EnabledMeansProtected
  <2>1. PICK s \in Sessions : Fresh(s)
    BY DEF Up, Quiet, Fresh
  <2>2. \A f \in Slots : ~Applying(f, s) /\ ~At(f, "removed")
    BY NoFutureFields DEF Quiet, Applying, At
  <2> QED
    BY <2>1, <2>2 DEF Flagged, Locked
<1> QED
  BY <1>1, <1>2, <1>3, PTL DEF Spec

---------------------------------------------------------------------------
(* Where the tray knows the config of every tunnel *)

\* A new tunnel of a config is asked for when its earlier ones are over, and
\* none starts while the loss of the session manager is dealt with.  This is
\* about the tunnels alone, whatever the tray knows.
TunnelsInTurn ==
  \A f \in Slots, s \in Sessions :
    live[s] \in {"connecting", "connected", "paused"} =>
      /\ At(f, "tunnel") => ConfigOf[s] # job[f].config
      /\ ~(job[f].kind = "lost" /\ At(f, "removed"))

\* Who takes the config of an entry, and what happens as a session is born.
Keeping(q) ==
  /\ q \in known => \/ q \in known' \/ Fade(q)
                    \/ \E f \in Slots : \/ Retain(f) /\ ConfigOf[q] = job[f].config
                                        \/ job[f].kind = "lost" /\ At(f, "removed")
  /\ q \in created => q \in created' \/ SessCreated(q)
  /\ live[q] = "unborn" /\ live'[q] = "connecting" => q \in created'

LEMMA KeepingMoves ==
  ASSUME TypeInv, [Next]_vars, NEW q \in Sessions
  PROVE  Keeping(q)
<1> USE DEF Keeping
<1>1. CASE UNCHANGED <<known, created, live>>
  BY <1>1
<1>2. ASSUME NEW s \in Sessions, Openvpn3(s) PROVE Keeping(q)
  BY <1>2 DEF Openvpn3, Connects, Reconnecting, AuthFails, ConnFails, Killed, Drops, Outside,
              Gone, Report, entries, TypeInv, BackendOK
<1>3. ASSUME NEW s \in Sessions, Status(s) PROVE Keeping(q)
  BY <1>1, <1>3 DEF Status, StatusConnecting, StatusConnected, StatusPaused, StatusDisconnected,
                    StatusAuthFailed, StatusFailed, Receive, Upsert, UpdateIfPresent
<1>4. ASSUME NEW s \in Sessions, EntryStep(s) PROVE Keeping(q)
  BY <1>4 DEF EntryStep, Backfill, SessCreated, Fade, Remove, backend
<1>5. ASSUME NEW s \in Sessions, SessDestroyed(s) PROVE Keeping(q)
  BY <1>1, <1>5 DEF SessDestroyed, entries
<1>6. ASSUME NEW f \in Slots, Run(f) PROVE Keeping(q)
  <2>1. CASE Retain(f)
    <3>1. UNCHANGED <<created, live>> /\ known' = known \ {s \in known : ConfigOf[s] = job[f].config}
      BY <2>1 DEF Retain, Remove, backend
    <3>2. q \in known /\ q \notin known' => Retain(f) /\ ConfigOf[q] = job[f].config
      BY <2>1, <3>1
    <3> QED
      BY <3>1, <3>2
  <2>2. CASE RemoveReturned(f)
    <3>1. /\ UNCHANGED <<created, live>>
          /\ known' = known \/ (job[f].kind = "lost" /\ At(f, "removed"))
      BY <2>2 DEF RemoveReturned, Remove, backend
    <3> QED
      BY <3>1
  <2>3. CASE DisconnectCall(f)
    BY <2>3 DEF DisconnectCall, Gone, Report, entries, TypeInv, BackendOK
  <2>4. ASSUME NEW s \in Sessions, TunnelCreated(f, s) PROVE Keeping(q)
    BY <2>4 DEF TunnelCreated, TypeInv, BackendOK
  <2> QED
    BY <1>1, <1>6, <2>1, <2>2, <2>3, <2>4 DEF Run, Query, HelperAdds, AddReturned,
       HelperRemoves, PauseSnapshot, MarkDropped, TunnelFailed, backend, entries
<1>7. CASE User
  BY <1>7 DEF User, Connect, Reconnect, Disconnect, Pause, ResumeOrRestart, PromptReconnect,
              PromptDismiss, Toggle, Report, backend, entries, TypeInv, BackendOK
<1>8. CASE ServiceLost
  BY <1>8 DEF ServiceLost, entries
<1>9. CASE UNCHANGED vars
  BY <1>1, <1>9 DEF vars, backend, entries
<1> QED
  BY <1>2, <1>3, <1>4, <1>5, <1>6, <1>7, <1>8, <1>9, NextCases

(***************************************************************************)
(* The condition of the two theorems above holds where the tunnels of a    *)
(* config come one after the other: no signal, removal from the tray or    *)
(* answer, in whatever order, costs a tunnel that is up its config.        *)
(***************************************************************************)
THEOREM TunnelsAreNamed ==
  ASSUME Patient
  PROVE  Spec /\ []TunnelsInTurn => []AllNamed
<1> DEFINE up(s) == live[s] \in {"connecting", "connected", "paused"}
           Inv == Base /\ AllNamed
<1>1. Init => Inv
  BY BaseInitially DEF Init, AllNamed
<1>2. ASSUME Inv, [Next]_vars, TunnelsInTurn, TunnelsInTurn' PROVE AllNamed'
  <2> SUFFICES ASSUME NEW q \in Sessions, up(q)' PROVE q \in (known \cup created)'
    BY DEF AllNamed
  <2> USE <1>2 DEF Base
  <2>1. CASE ~up(q)
    <3>1. live[q] = "unborn" /\ live'[q] = "connecting"
      BY <2>1, LiveMoves DEF Moved
    <3>2. q \in created'
      BY <3>1, KeepingMoves DEF Keeping
    <3> QED BY <3>2
  <2>2. CASE up(q) /\ q \in created /\ q \notin created'
    <3>1. SessCreated(q)
      BY <2>2, KeepingMoves DEF Keeping
    <3> QED BY <3>1, <2>2 DEF SessCreated
  <2>3. CASE up(q) /\ q \in known
    <3>1. ASSUME q \notin known' PROVE FALSE
      <4>1. ~Fade(q)
        BY <2>3 DEF Placed, Fade
      <4>2. PICK f \in Slots : \/ Retain(f) /\ ConfigOf[q] = job[f].config
                               \/ job[f].kind = "lost" /\ At(f, "removed")
        BY <2>3, <3>1, <4>1, KeepingMoves DEF Keeping
      <4>3. CASE Retain(f) /\ ConfigOf[q] = job[f].config
        <5>1. At(f, "tunnel")' /\ job'[f].config = job[f].config /\ live' = live
          BY <4>3 DEF Retain, Goto, At, TypeInv, JobsOK, backend
        <5> QED BY <2>3, <4>3, <5>1 DEF TunnelsInTurn, At
      <4>4. CASE job[f].kind = "lost" /\ At(f, "removed")
        BY <2>3, <4>4 DEF TunnelsInTurn
      <4> QED BY <4>2, <4>3, <4>4
    <3> QED BY <3>1
  <2> QED
    BY <2>1, <2>2, <2>3 DEF AllNamed
<1>3. Inv /\ TunnelsInTurn /\ TunnelsInTurn' /\ [Next]_vars => Inv'
  BY <1>2, BaseInductive
<1>4. Inv => AllNamed
  OBVIOUS
<1> HIDE DEF Inv
<1> QED
  BY <1>1, <1>3, <1>4, PTL DEF Spec

\* A survivor that was chosen to bind the table to is still connected when the
\* future asks for its interface.
SurvivorsStay ==
  \A f \in Slots :
    At(f, "query") /\ job[f].kind \notin {"apply", "all"} => live[job[f].target] = "connected"

\* Before a removal no session has been chosen.
Settling(j) == j.step \in {"snapshot", "removing"} => j.target = None

LEMMA SettlingStarts ==
  ASSUME TypeInv, (\E s \in Sessions : Status(s) \/ SessDestroyed(s)) \/ User \/ ServiceLost
  PROVE  UNCHANGED job \/ \E j \in Futures : Settling(j) /\ Spawn(j)
<1> USE ConfigAssumption DEF Futures, Future, Kinds, Steps, Settling
<1>1. ASSUME NEW s \in Sessions, Status(s)
      PROVE  UNCHANGED job \/ \E j \in Futures : Settling(j) /\ Spawn(j)
  BY <1>1, StatusFuture
<1>2. ASSUME NEW s \in Sessions, SessDestroyed(s)
      PROVE  UNCHANGED job \/ \E j \in Futures : Settling(j) /\ Spawn(j)
  <2>1. Survivors(s) \subseteq Sessions
    BY DEF Survivors, Connected
  <2> QED
    BY <1>2, <2>1, DestroyedFuture
<1>3. ASSUME User PROVE UNCHANGED job \/ \E j \in Futures : Settling(j) /\ Spawn(j)
  <2>1. Connected \in SUBSET Sessions
    BY DEF Connected
  <2>2. \A first \in ApplyAll(Connected) : first \in Futures /\ Settling(first)
    BY <2>1, ApplyAllTypes
  <2> QED
    BY <1>3, <2>2, UserFuture
<1>4. ASSUME ServiceLost PROVE \E j \in Futures : Settling(j) /\ Spawn(j)
  BY <1>4 DEF ServiceLost
<1> QED
  BY <1>1, <1>2, <1>3, <1>4

LEMMA SettlingInductive ==
  ASSUME TypeInv, \A f \in Slots : Settling(job[f]), SurvivorsStay, [Next]_vars
  PROVE  \A f \in Slots : Settling(job'[f])
<1>1. CASE UNCHANGED job
  BY <1>1
<1>2. ASSUME NEW j \in Futures, Settling(j), Spawn(j) PROVE \A f \in Slots : Settling(job'[f])
  <2>1. PICK f \in Slots : job'[f] = j /\ \A g \in Slots \ {f} : job'[g] = job[g]
    BY <1>2, SpawnOne DEF TypeInv
  <2>2. ASSUME NEW g \in Slots PROVE Settling(job'[g])
    BY <1>2, <2>1 DEF Settling
  <2> QED
    BY <2>2
<1>3. ASSUME NEW f \in Slots, Run(f) PROVE \A g \in Slots : Settling(job'[g])
  <2>1. \A g \in Slots \ {f} : job'[g] = job[g]
    BY <1>3, RunMoves
  <2>2. ASSUME job[f].step = "query" PROVE job'[f].step # "removing"
    <3>1. Query(f)
      BY <1>3, <2>2 DEF Run, At, HelperAdds, AddReturned, HelperRemoves, RemoveReturned,
                    PauseSnapshot, MarkDropped, DisconnectCall, Retain, TunnelFailed, TunnelCreated
    <3>2. CASE Goto(f, "adding")
      BY <3>2 DEF Goto, TypeInv, JobsOK, Futures
    <3>3. CASE live[job[f].target] # "connected" /\ GiveUp(f)
      <4>1. job[f].kind \in {"apply", "all"}
        BY <2>2, <3>3 DEF SurvivorsStay, At
      <4>2. \/ End(f)
            \/ \E t \in job[f].rest : job' = [job EXCEPT ![f].target = t, ![f].rest = @ \ {t}]
        BY <3>3, <4>1 DEF GiveUp
      <4> QED
        BY <2>2, <4>2, NoFutureFields DEF End, TypeInv, JobsOK, Futures
    <3> QED
      BY <3>1, <3>2, <3>3 DEF Query
  <2>3. Settling(job'[f])
    BY <1>3, <2>2, RunMoves, NoFutureFields DEF Settling, Moves, At
  <2> QED
    BY <2>1, <2>3
<1>4. ASSUME NEW s \in Sessions, Openvpn3(s) \/ EntryStep(s) PROVE UNCHANGED job
  BY <1>4, Openvpn3Types, EntryTypes
<1>5. UNCHANGED vars => UNCHANGED job
  BY DEF vars
<1> QED
  BY <1>1, <1>2, <1>3, <1>4, <1>5, SettlingStarts, NextCases

(***************************************************************************)
(* A rebind that finds its survivor still connected never falls back to    *)
(* releasing the table.                                                    *)
(***************************************************************************)
THEOREM RebindsHold == Spec /\ []SurvivorsStay => []~FellBack
<1> DEFINE Inv == TypeInv /\ \A f \in Slots : Settling(job[f])
<1>1. Init => Inv
  <2> SUFFICES ASSUME Init PROVE \A f \in Slots : Settling(job[f])
    BY InitTypes
  <2>2. (IF enabled THEN Connected ELSE {}) \in SUBSET Sessions
    BY DEF Connected
  <2>3. \A f \in Slots : job[f].step \in {"", "query"}
    BY <2>2, InitOne, ApplyAllTypes, NoFutureFields
  <2> QED
    BY <2>3 DEF Settling
<1>2. Inv /\ SurvivorsStay /\ [Next]_vars => Inv'
  BY TypeInductive, SettlingInductive
<1>3. Inv => ~FellBack
  BY DEF FellBack, Settling, At
<1> QED
  BY <1>1, <1>2, <1>3, PTL DEF Spec

(***************************************************************************)
(* The two promises under conditions on tunnels only, whatever the tray    *)
(* knows of them: nobody is locked out where the tunnels of a config come  *)
(* in turn ...                                                             *)
(***************************************************************************)
COROLLARY NobodyLockedOutInTurn ==
  ASSUME Patient, "tunnel" \notin Events
  PROVE  Spec /\ []TunnelsInTurn => []NoLockout
  BY NobodyLockedOut, TunnelsAreNamed, PTL

(***************************************************************************)
(* ... and a connected session keeps its firewall where, besides, a        *)
(* survivor stays up until the table is bound to it.                       *)
(***************************************************************************)
COROLLARY ConnectedStaysProtected ==
  ASSUME Patient, "addfail" \notin Events, "dismiss" \notin Events
  PROVE  Spec /\ []TunnelsInTurn /\ []SurvivorsStay => []EnabledMeansProtected
  BY ConnectedMeansProtected, TunnelsAreNamed, RebindsHold, PTL
=============================================================================
