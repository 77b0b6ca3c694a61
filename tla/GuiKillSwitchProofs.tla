------------------------ MODULE GuiKillSwitchProofs ------------------------
(***************************************************************************)
(* Theorems about GuiKillSwitch, for any sessions, configs, slots and      *)
(* bounds.                                                                 *)
(***************************************************************************)
EXTENDS GuiKillSwitch, TLAPS

Statuses == {"connecting", "connected", "paused", "disconnected", "authfail", "failed"}

\* Futures that work on the table through apply_kill_switch.
Applies == {"apply", "all", "pause", "rebind"}

\* Which kinds of futures are where, and what they then know.
WellFormed(j) ==
  /\ j.kind = "none" => j = NoFuture
  /\ j.kind # "none" => j.step # ""
  /\ j.step \in {"query", "adding", "added"} => j.kind \in Applies /\ j.target \in Sessions
  /\ j.step \in {"removing", "removed"} => j.kind \in {"release", "lost", "pause", "rebind"}
  /\ j.step = "snapshot" => j.kind = "pause"
  /\ j.step = "mark" => j.kind = "drop"
  /\ j.step = "disconnect" => j.kind \in {"drop", "retry", "disconnect"}
  /\ j.step \in {"retain", "tunnel"} => j.kind \in {"retry", "connect", "auto"}
  /\ j.kind \in {"drop", "retry", "disconnect", "pause", "rebind"} => j.session \in Sessions
  /\ j.kind \in {"retry", "connect", "auto"} => j.config \in Configs
  /\ j.kind = "rebind" => j.target \in Sessions

LiveStates == {"unborn", "connecting", "connected", "paused", "failed", "gone"}

TrayStates == {"absent", "connecting", "connected", "paused", "disconnected", "error"}

BackendOK ==
  /\ live \in [Sessions -> LiveStates] /\ inbox \in [Sessions -> Seq(Statuses)]
  /\ created \subseteq Sessions /\ destroyed \subseteq Sessions

EntriesOK ==
  /\ tray \in [Sessions -> TrayStates]
  /\ known \subseteq {s \in Sessions : tray[s] # "absent"}
  /\ flag \subseteq {s \in Sessions : tray[s] # "absent"}

MarksOK ==
  /\ fading \subseteq Sessions /\ recent \subseteq Sessions
  /\ userDisc \subseteq Sessions /\ authRetry \subseteq Sessions
  /\ attempts \in [Configs -> 0..MaxAttempts]

UiOK ==
  /\ prompts \subseteq Configs /\ enabled \in BOOLEAN /\ asked \in BOOLEAN
  /\ early \subseteq Slots /\ late \in BOOLEAN /\ refused \in BOOLEAN
  /\ table \in Sessions \cup {None}

JobsOK == job \in [Slots -> Futures] /\ \A f \in Slots : WellFormed(job[f])

TypeInv == BackendOK /\ EntriesOK /\ MarksOK /\ UiOK /\ JobsOK

\* Handlers wait for the futures of earlier ones, switching the preference
\* included.
Patient == Serial /\ "overtake" \notin Events

\* At most one future is under way, those of auto-reconnect apart.
Working(f) == job[f].kind \notin {"none", "auto"}

OneAtATime == \A f, g \in Slots : Working(f) /\ Working(g) => f = g

\* Futures on their way to AddRules.
Installing == {"snapshot", "query", "adding", "added"}

\* With the preference off and nothing late: who may still install, and why
\* there may still be a table or a flag.
Switched ==
  ~enabled /\ ~late =>
    /\ \A f \in Slots \ early : job[f].step \notin Installing
    /\ table = None \/ refused \/ \E f \in Slots : At(f, "removing")
    /\ flag = {} \/ early = Slots

\* The same where the handlers are patient and RemoveRules works.
Off ==
  ~enabled =>
    /\ \A f \in Slots : job[f].step \notin {"snapshot", "query", "adding", "added"}
    /\ table = None \/ \E f \in Slots : At(f, "removing")
    /\ flag = {} \/ \E f \in Slots : At(f, "removing") \/ At(f, "removed")

Locked ==
  /\ \A f \in Slots : At(f, "added") => table # None
  /\ flag # {} => table # None \/ \E f \in Slots : At(f, "removed")

\* A signal x of session s is on its way.
Says(s, x) == \E i \in 1..Len(inbox[s]) : inbox[s][i] = x

Asked ==
  /\ userDisc # {} => asked
  /\ \A f \in Slots :
       /\ job[f].kind \in {"pause", "release", "drop"} => asked
       /\ job[f].kind # "lost"
  /\ \A s \in Sessions :
       Len(inbox[s]) <= MaxQueue /\ (Says(s, "paused") => asked) /\ ~Says(s, "failed")

Last(s) == inbox[s][Len(inbox[s])]

\* A paused session that says so in a signal still on its way.
Announced(s) == live[s] = "paused" => inbox[s] # <<>>

\* A future that takes the table from session t.
Leaving(f, t) ==
  \/ At(f, "removing")
  \/ job[f].kind \in {"pause", "rebind"} /\ job[f].session = t
     /\ job[f].step \in {"snapshot", "query", "adding"}

\* The last signal on its way of a paused session says so.
Signalled ==
  \A s \in Sessions :
    /\ inbox[s] # <<>> /\ live[s] = "paused" => Last(s) = "paused"
    /\ ~Says(s, "authfail")

Shown == \A s \in Sessions : tray[s] = "connected" => Announced(s)

\* Every end of a session was marked as the user's.
Marked ==
  /\ authRetry = {} /\ destroyed \subseteq userDisc
  /\ \A f \in Slots :
       job[f].kind # "retry" /\ (At(f, "disconnect") => job[f].session \in userDisc)

\* What a future that installs rules may still count on.
Targeted ==
  \A f \in Slots :
    /\ job[f].kind \in {"pause", "rebind"} => job[f].target # job[f].session
    /\ job[f].kind # "all" => job[f].rest = {}
    /\ job[f].step \in {"query", "adding", "added"} =>
         \A t \in {job[f].target} \cup job[f].rest : Announced(t)
    /\ At(f, "adding") /\ live[job[f].target] = "gone" => job[f].target \in destroyed

\* Whom the table is bound to, or who will see to it.
Anchored ==
  \A t \in Sessions : table = t =>
    \/ \E f \in Slots : Leaving(f, t)
    \/ Announced(t) /\ (live[t] = "gone" => t \in destroyed)

Bound == Signalled /\ Shown /\ Marked /\ Targeted /\ Anchored

---------------------------------------------------------------------------
(* What the helpers of the actions do *)

LEMMA TypeInvTypes == TypeInv => TypeOK
  BY DEF TypeInv, TypeOK, BackendOK, EntriesOK, MarksOK, UiOK, JobsOK, LiveStates,
         TrayStates, Statuses

LEMMA ReportTypes ==
  ASSUME live \in [Sessions -> LiveStates], inbox \in [Sessions -> Seq(Statuses)],
         NEW s \in Sessions, NEW state \in LiveStates, NEW statuses \in Seq(Statuses),
         Report(s, state, statuses)
  PROVE  live' \in [Sessions -> LiveStates] /\ inbox' \in [Sessions -> Seq(Statuses)]
<1>1. inbox[s] \o statuses \in Seq(Statuses)
  OBVIOUS
<1> QED
  BY <1>1 DEF Report

LEMMA GoneTypes ==
  ASSUME BackendOK, NEW s \in Sessions, Gone(s)
  PROVE  /\ live' \in [Sessions -> LiveStates] /\ inbox' \in [Sessions -> Seq(Statuses)]
         /\ destroyed' \subseteq Sessions
<1>1. PICK last \in {<<>>, <<"disconnected">>} : Report(s, "gone", last)
  BY DEF Gone
<1>2. <<>> \in Seq(Statuses) /\ <<"disconnected">> \in Seq(Statuses)
  BY DEF Statuses
<1>3. "gone" \in LiveStates
  BY DEF LiveStates
<1> QED
  BY <1>1, <1>2, <1>3, ReportTypes DEF Gone, BackendOK

LEMMA JobReplaced ==
  ASSUME JobsOK, NEW f \in Slots, NEW j \in Futures, WellFormed(j),
         job' = [job EXCEPT ![f] = j]
  PROVE  JobsOK'
  BY DEF JobsOK

LEMMA NoFutureFits == NoFuture \in Futures /\ WellFormed(NoFuture)
  BY DEF NoFuture, Future, Futures, Kinds, Steps, WellFormed

LEMMA NoFutureFields ==
  /\ NoFuture.kind = "none" /\ NoFuture.step = "" /\ NoFuture.session = None
  /\ NoFuture.target = None /\ NoFuture.rest = {}
  BY DEF NoFuture, Future

LEMMA SpawnTypes ==
  ASSUME JobsOK, NEW j \in Futures, WellFormed(j), Spawn(j)
  PROVE  JobsOK'
<1>1. PICK f \in Slots : job' = [job EXCEPT ![f] = j]
  BY DEF Spawn
<1> QED
  BY <1>1, JobReplaced

LEMMA EndTypes ==
  ASSUME JobsOK, NEW f \in Slots, End(f)
  PROVE  JobsOK'
<1>1. job' = [job EXCEPT ![f] = NoFuture]
  BY DEF End
<1> QED
  BY <1>1, JobReplaced, NoFutureFits

LEMMA GotoTypes ==
  ASSUME JobsOK, NEW f \in Slots, NEW step \in Steps, Goto(f, step),
         WellFormed([job[f] EXCEPT !.step = step])
  PROVE  JobsOK'
<1>1. job' = [job EXCEPT ![f] = [job[f] EXCEPT !.step = step]]
  BY DEF Goto, JobsOK
<1>2. [job[f] EXCEPT !.step = step] \in Futures
  BY DEF JobsOK, Futures
<1> QED
  BY <1>1, <1>2, JobReplaced

---------------------------------------------------------------------------
(* Type correctness *)

LEMMA Openvpn3Types ==
  ASSUME TypeInv, NEW s \in Sessions, Openvpn3(s)
  PROVE  TypeInv' /\ UNCHANGED <<entries, marks, job, ui, table>>
<1>1. UNCHANGED <<entries, marks, job, ui, table>>
  BY DEF Openvpn3, Connects, Reconnecting, AuthFails, ConnFails, Killed, Drops, Outside
<1>2. /\ <<"connected">> \in Seq(Statuses) /\ <<"connecting">> \in Seq(Statuses)
      /\ <<"authfail">> \in Seq(Statuses) /\ <<"failed">> \in Seq(Statuses)
      /\ {"connected", "connecting", "failed", "gone"} \subseteq LiveStates
  BY DEF Statuses, LiveStates
<1>3. BackendOK'
  <2>1. CASE Connects(s)
    BY <2>1, <1>2, ReportTypes DEF Connects, TypeInv, BackendOK
  <2>2. CASE Reconnecting(s)
    BY <2>2, <1>2, ReportTypes DEF Reconnecting, TypeInv, BackendOK
  <2>3. CASE AuthFails(s)
    BY <2>3, <1>2, ReportTypes DEF AuthFails, TypeInv, BackendOK
  <2>4. CASE ConnFails(s)
    BY <2>4, <1>2, ReportTypes DEF ConnFails, TypeInv, BackendOK
  <2>5. CASE Killed(s)
    BY <2>5, <1>2, ReportTypes DEF Killed, TypeInv, BackendOK
  <2>6. CASE Drops(s)
    BY <2>6, GoneTypes DEF Drops, TypeInv, BackendOK
  <2>7. CASE Outside(s)
    BY <2>7, <1>2, ReportTypes DEF Outside, TypeInv, BackendOK
  <2> QED
    BY <2>1, <2>2, <2>3, <2>4, <2>5, <2>6, <2>7 DEF Openvpn3
<1> QED
  BY <1>1, <1>3 DEF TypeInv, EntriesOK, MarksOK, UiOK, JobsOK, entries, marks, ui, choice

LEMMA ReceiveTypes ==
  ASSUME BackendOK, NEW s \in Sessions, NEW status, Receive(s, status)
  PROVE  BackendOK' /\ UNCHANGED <<prompts, choice, table>>
<1>1. Tail(inbox[s]) \in Seq(Statuses)
  BY DEF Receive, BackendOK
<1> QED
  BY <1>1 DEF Receive, BackendOK

\* A status spawns at most one future, of which kind and when, or none.
LEMMA StatusFuture ==
  ASSUME TypeInv, NEW s \in Sessions, Status(s)
  PROVE  \/ UNCHANGED job
         \/ enabled /\ StatusConnected(s) /\ Spawn(Future("apply", "query", s, None, s, {}))
         \/ /\ enabled /\ StatusPaused(s)
            /\ Spawn(Future("pause", "snapshot", s, None, None, {}))
         \/ /\ StatusAuthFailed(s)
            /\ Spawn(Future("retry", "disconnect", s, ConfigOf[s], None, {}))
         \/ /\ asked' \/ Head(inbox[s]) = "failed"
            /\ Spawn(Future("drop", "mark", s, None, None, {}))
<1>1. CASE StatusConnecting(s) \/ StatusDisconnected(s)
  BY <1>1 DEF StatusConnecting, StatusDisconnected
<1>2. CASE StatusConnected(s)
  BY <1>2 DEF StatusConnected
<1>3. CASE StatusPaused(s)
  BY <1>3 DEF StatusPaused
<1>4. CASE StatusAuthFailed(s)
  BY <1>4 DEF StatusAuthFailed
<1>5. CASE StatusFailed(s)
  BY <1>5 DEF StatusFailed, Receive
<1> QED
  BY <1>1, <1>2, <1>3, <1>4, <1>5 DEF Status

LEMMA StatusTypes ==
  ASSUME TypeInv, NEW s \in Sessions, Status(s)
  PROVE  /\ TypeInv'
         /\ UNCHANGED <<live, created, destroyed, known, flag, prompts, choice, table>>
<1> USE ConfigAssumption, BoundAssumption
<1>1. \/ Receive(s, "connecting") \/ Receive(s, "connected") \/ Receive(s, "paused")
      \/ Receive(s, "disconnected") \/ Receive(s, "authfail") \/ Receive(s, "failed")
  BY DEF Status, StatusConnecting, StatusConnected, StatusPaused, StatusDisconnected,
         StatusAuthFailed, StatusFailed
<1>2. BackendOK' /\ UNCHANGED <<prompts, choice, table, live, created, destroyed>>
  BY <1>1, ReceiveTypes DEF TypeInv, Receive
<1>3. EntriesOK' /\ UNCHANGED <<known, flag>>
  <2>1. \/ Upsert(s, "connecting") \/ Upsert(s, "connected") \/ Upsert(s, "paused")
        \/ Upsert(s, "disconnected") \/ UpdateIfPresent(s, "error")
    BY DEF Status, StatusConnecting, StatusConnected, StatusPaused, StatusDisconnected,
           StatusAuthFailed, StatusFailed
  <2> QED
    BY <2>1 DEF TypeInv, EntriesOK, Upsert, UpdateIfPresent, TrayStates
<1>4. MarksOK' /\ asked' \in BOOLEAN
  <2> USE DEF TypeInv, MarksOK, UiOK, marks
  <2>1. CASE StatusConnecting(s) \/ StatusPaused(s) \/ StatusFailed(s)
    BY <2>1 DEF StatusConnecting, StatusPaused, StatusFailed
  <2>2. CASE StatusConnected(s)
    BY <2>2 DEF StatusConnected
  <2>3. CASE StatusDisconnected(s)
    BY <2>3 DEF StatusDisconnected
  <2>4. CASE StatusAuthFailed(s)
    <3>1. attempts[ConfigOf[s]] \in 0..MaxAttempts
      OBVIOUS
    <3> DEFINE count == IF attempts[ConfigOf[s]] < MaxAttempts
                          THEN attempts[ConfigOf[s]] + 1 ELSE MaxAttempts
    <3>2. count \in 0..MaxAttempts
      BY <3>1
    <3> HIDE DEF count
    <3>3. \/ UNCHANGED attempts
          \/ \E n \in {0, 1, count} : attempts' = [attempts EXCEPT ![ConfigOf[s]] = n]
      BY <2>4 DEF StatusAuthFailed, count
    <3>4. attempts' \in [Configs -> 0..MaxAttempts]
      BY <3>2, <3>3
    <3> QED
      BY <2>4, <3>4 DEF StatusAuthFailed, MarkSwap
  <2> QED
    BY <2>1, <2>2, <2>3, <2>4 DEF Status
<1>5. JobsOK'
  <2> DEFINE j1 == Future("apply", "query", s, None, s, {})
             j2 == Future("pause", "snapshot", s, None, None, {})
             j3 == Future("retry", "disconnect", s, ConfigOf[s], None, {})
             j4 == Future("drop", "mark", s, None, None, {})
  <2>1. /\ j1 \in Futures /\ j2 \in Futures /\ j3 \in Futures /\ j4 \in Futures
        /\ WellFormed(j1) /\ WellFormed(j2) /\ WellFormed(j3) /\ WellFormed(j4)
    BY DEF Futures, Future, Kinds, Steps, WellFormed, Applies
  <2>2. \/ UNCHANGED job \/ Spawn(j1) \/ Spawn(j2) \/ Spawn(j3) \/ Spawn(j4)
    BY StatusFuture
  <2> HIDE DEF j1, j2, j3, j4
  <2> QED
    BY <2>1, <2>2, SpawnTypes DEF TypeInv, JobsOK
<1> QED
  BY <1>2, <1>3, <1>4, <1>5 DEF TypeInv, UiOK, choice

\* The reads that fill in an entry, and its delayed removal.
EntryStep(s) == Backfill(s) \/ SessCreated(s) \/ Fade(s)

LEMMA EntryTypes ==
  ASSUME TypeInv, NEW s \in Sessions, EntryStep(s)
  PROVE  /\ TypeInv'
         /\ UNCHANGED <<live, inbox, destroyed, recent, userDisc, authRetry, attempts,
                         job, ui, choice, table>>
         /\ flag' \subseteq flag /\ created' \subseteq created
<1>1. CASE Backfill(s)
  BY <1>1 DEF Backfill, TypeInv, BackendOK, EntriesOK, MarksOK, UiOK, JobsOK, backend, marks, ui, choice
<1>2. CASE SessCreated(s)
  <2>1. EntriesOK' /\ BackendOK' /\ created' \subseteq created
    BY <1>2 DEF SessCreated, TypeInv, BackendOK, EntriesOK, TrayStates
  <2> QED
    BY <1>2, <2>1 DEF SessCreated, TypeInv, MarksOK, UiOK, JobsOK, marks, ui, choice
<1>3. CASE Fade(s)
  <2>1. EntriesOK' /\ MarksOK' /\ flag' \subseteq flag
    BY <1>3 DEF Fade, Remove, TypeInv, EntriesOK, MarksOK, TrayStates
  <2> QED
    BY <1>3, <2>1 DEF Fade, TypeInv, BackendOK, UiOK, JobsOK, backend, ui, choice
<1> QED
  BY <1>1, <1>2, <1>3 DEF EntryStep

\* SessDestroyed spawns at most one future.
LEMMA DestroyedFuture ==
  ASSUME NEW s \in Sessions, SessDestroyed(s)
  PROVE  \/ UNCHANGED job
         \/ /\ s \in userDisc \ authRetry
            /\ Spawn(Future("release", "removing", s, None, None, {}))
         \/ /\ s \in userDisc \ authRetry
            /\ \E t \in Survivors(s) : Spawn(Future("rebind", "query", s, None, t, {}))
         \/ Spawn(Future("auto", "retain", None, ConfigOf[s], None, {}))
  BY DEF SessDestroyed

LEMMA DestroyedTypes ==
  ASSUME TypeInv, NEW s \in Sessions, SessDestroyed(s)
  PROVE  TypeInv' /\ UNCHANGED <<live, inbox, created, entries, attempts, choice, table, asked>>
<1> USE ConfigAssumption
<1>1. UNCHANGED <<live, inbox, created, entries, attempts, choice, table, asked>>
  BY DEF SessDestroyed
<1>2. BackendOK' /\ EntriesOK' /\ MarksOK'
  BY <1>1 DEF SessDestroyed, TypeInv, BackendOK, EntriesOK, MarksOK, entries
<1>3. UiOK'
  BY <1>1 DEF SessDestroyed, TypeInv, UiOK, choice
<1>4. JobsOK'
  <2> DEFINE j1 == Future("release", "removing", s, None, None, {})
             j2(t) == Future("rebind", "query", s, None, t, {})
             j3 == Future("auto", "retain", None, ConfigOf[s], None, {})
  <2>1. Survivors(s) \subseteq Sessions
    BY DEF Survivors, Connected
  <2>2. /\ j1 \in Futures /\ j3 \in Futures /\ \A t \in Survivors(s) : j2(t) \in Futures
        /\ WellFormed(j1) /\ WellFormed(j3) /\ \A t \in Survivors(s) : WellFormed(j2(t))
    BY <2>1 DEF Futures, Future, Kinds, Steps, WellFormed, Applies
  <2>3. UNCHANGED job \/ Spawn(j1) \/ (\E t \in Survivors(s) : Spawn(j2(t))) \/ Spawn(j3)
    BY DestroyedFuture
  <2> HIDE DEF j1, j2, j3
  <2> QED
    BY <2>2, <2>3, SpawnTypes DEF TypeInv, JobsOK
<1> QED
  BY <1>1, <1>2, <1>3, <1>4 DEF TypeInv

LEMMA LostTypes ==
  ASSUME TypeInv, ServiceLost
  PROVE  TypeInv' /\ UNCHANGED <<inbox, created, destroyed, entries, marks, ui, table>>
<1>1. UNCHANGED <<inbox, created, destroyed, entries, marks, ui, table>>
  BY DEF ServiceLost
<1>2. BackendOK'
  BY <1>1 DEF ServiceLost, TypeInv, BackendOK, LiveStates
<1>3. JobsOK'
  <2> DEFINE j == Future("lost", "removing", None, None, None, {})
  <2>1. j \in Futures /\ WellFormed(j)
    BY DEF Futures, Future, Kinds, Steps, WellFormed
  <2>2. Spawn(j)
    BY DEF ServiceLost
  <2> HIDE DEF j
  <2> QED
    BY <2>1, <2>2, SpawnTypes DEF TypeInv
<1> QED
  BY <1>1, <1>2, <1>3 DEF TypeInv, EntriesOK, MarksOK, UiOK, entries, marks, ui, choice

\* A future that goes on stays about what it was spawned for, or ends.
Continues(f, j) ==
  /\ job' = [job EXCEPT ![f] = j]
  /\ j \in Futures /\ WellFormed(j)
  /\ j = NoFuture \/ (j.kind = job[f].kind /\ j.session = job[f].session)

LEMMA GotoContinues ==
  ASSUME JobsOK, NEW f \in Slots, NEW step \in Steps, Goto(f, step),
         WellFormed([job[f] EXCEPT !.step = step])
  PROVE  \E j : Continues(f, j)
<1> DEFINE j == [job[f] EXCEPT !.step = step]
<1>1. job' = [job EXCEPT ![f] = j]
  BY DEF Goto, JobsOK
<1>2. j \in Futures /\ j.kind = job[f].kind /\ j.session = job[f].session
  BY DEF JobsOK, Futures
<1> QED
  BY <1>1, <1>2 DEF Continues

LEMMA EndContinues ==
  ASSUME NEW f \in Slots, End(f)
  PROVE  \E j : Continues(f, j)
  BY NoFutureFits DEF End, Continues

LEMMA RunContinues ==
  ASSUME TypeInv, NEW f \in Slots, Run(f)
  PROVE  \E j : Continues(f, j)
<1> USE DEF TypeInv, At
<1>a. job[f] \in Futures /\ WellFormed(job[f]) /\ JobsOK
  BY DEF JobsOK
<1>1. CASE Query(f)
  <2>1. /\ WellFormed([job[f] EXCEPT !.step = "adding"])
        /\ job[f].kind \notin {"apply", "all"} => WellFormed([job[f] EXCEPT !.step = "removing"])
    BY <1>1, <1>a DEF Query, WellFormed, Futures, Applies, NoFuture, Future
  <2>2. Goto(f, "adding") \/ GiveUp(f)
    BY <1>1 DEF Query
  <2>3. CASE Goto(f, "adding")
    BY <2>1, <2>3, <1>a, GotoContinues DEF Steps
  <2>4. CASE End(f)
    BY <2>4, EndContinues
  <2>5. CASE job[f].kind \notin {"apply", "all"} /\ Goto(f, "removing")
    BY <2>1, <2>5, <1>a, GotoContinues DEF Steps
  <2>6. ASSUME job[f].kind = "all", NEW t \in job[f].rest,
               job' = [job EXCEPT ![f].target = t, ![f].rest = @ \ {t}]
        PROVE  \E j : Continues(f, j)
    <3> DEFINE j == [job[f] EXCEPT !.target = t, !.rest = @ \ {t}]
    <3>1. job' = [job EXCEPT ![f] = j]
      BY <2>6, <1>a DEF JobsOK
    <3>2. j \in Futures /\ WellFormed(j) /\ j.kind = job[f].kind /\ j.session = job[f].session
      BY <1>1, <2>6, <1>a DEF Query, Futures, WellFormed, Applies, NoFuture, Future
    <3> QED
      BY <3>1, <3>2 DEF Continues
  <2> QED
    BY <2>2, <2>3, <2>4, <2>5, <2>6 DEF GiveUp
<1>2. CASE HelperAdds(f)
  <2>1. WellFormed([job[f] EXCEPT !.step = "added"])
    BY <1>2, <1>a DEF HelperAdds, WellFormed, Futures, Applies, NoFuture, Future
  <2> QED
    BY <2>1, <1>2, <1>a, GotoContinues DEF HelperAdds, Steps
<1>3. CASE AddReturned(f)
  <2>1. ASSUME job[f].kind = "all", NEW t \in job[f].rest,
               job' = [job EXCEPT ![f].target = t, ![f].rest = @ \ {t}, ![f].step = "query"]
        PROVE  \E j : Continues(f, j)
    <3> DEFINE j == [job[f] EXCEPT !.target = t, !.rest = @ \ {t}, !.step = "query"]
    <3>1. job' = [job EXCEPT ![f] = j]
      BY <2>1, <1>a DEF JobsOK
    <3>2. j \in Futures /\ WellFormed(j) /\ j.kind = job[f].kind /\ j.session = job[f].session
      BY <1>3, <2>1, <1>a DEF AddReturned, Futures, WellFormed, Applies, NoFuture, Future, Steps
    <3> QED
      BY <3>1, <3>2 DEF Continues
  <2> QED
    BY <1>3, <2>1, EndContinues DEF AddReturned
<1>4. CASE HelperRemoves(f)
  <2>1. WellFormed([job[f] EXCEPT !.step = "removed"])
    BY <1>4, <1>a DEF HelperRemoves, WellFormed, Futures, Applies, NoFuture, Future
  <2> QED
    BY <2>1, <1>4, <1>a, GotoContinues DEF HelperRemoves, Steps
<1>5. CASE RemoveReturned(f)
  BY <1>5, EndContinues DEF RemoveReturned
<1>6. CASE PauseSnapshot(f)
  <2>1. CASE Goto(f, "removing")
    <3>1. WellFormed([job[f] EXCEPT !.step = "removing"])
      BY <1>6, <1>a DEF PauseSnapshot, WellFormed, Futures, Applies, NoFuture, Future
    <3> QED
      BY <2>1, <3>1, <1>a, GotoContinues DEF Steps
  <2>2. ASSUME NEW t \in Survivors(job[f].session),
               job' = [job EXCEPT ![f].target = t, ![f].step = "query"]
        PROVE  \E j : Continues(f, j)
    <3> DEFINE j == [job[f] EXCEPT !.target = t, !.step = "query"]
    <3>1. job' = [job EXCEPT ![f] = j]
      BY <2>2, <1>a DEF JobsOK
    <3>2. t \in Sessions
      BY DEF Survivors, Connected
    <3>3. j \in Futures /\ WellFormed(j) /\ j.kind = job[f].kind /\ j.session = job[f].session
      BY <1>6, <3>2, <1>a DEF PauseSnapshot, Futures, WellFormed, Applies, NoFuture, Future, Steps
    <3> QED
      BY <3>1, <3>3 DEF Continues
  <2> QED
    BY <1>6, <2>1, <2>2 DEF PauseSnapshot
<1>7. CASE MarkDropped(f)
  <2>1. WellFormed([job[f] EXCEPT !.step = "disconnect"])
    BY <1>7, <1>a DEF MarkDropped, WellFormed, Futures, Applies, NoFuture, Future
  <2> QED
    BY <2>1, <1>7, <1>a, GotoContinues DEF MarkDropped, Steps
<1>8. CASE DisconnectCall(f)
  <2>1. job[f].kind = "retry" => WellFormed([job[f] EXCEPT !.step = "retain"])
    BY <1>8, <1>a DEF DisconnectCall, WellFormed, Futures, Applies, NoFuture, Future
  <2> QED
    BY <2>1, <1>8, <1>a, GotoContinues, EndContinues DEF DisconnectCall, Steps
<1>9. CASE Retain(f)
  <2>1. WellFormed([job[f] EXCEPT !.step = "tunnel"])
    BY <1>9, <1>a DEF Retain, WellFormed, Futures, Applies, NoFuture, Future
  <2> QED
    BY <2>1, <1>9, <1>a, GotoContinues DEF Retain, Steps
<1>10. CASE TunnelFailed(f) \/ \E s \in Sessions : TunnelCreated(f, s)
  BY <1>10, EndContinues DEF TunnelFailed, TunnelCreated
<1> QED
  BY <1>1, <1>2, <1>3, <1>4, <1>5, <1>6, <1>7, <1>8, <1>9, <1>10 DEF Run

LEMMA RunTypes ==
  ASSUME TypeInv, NEW f \in Slots, Run(f)
  PROVE  TypeInv'
<1> USE DEF TypeInv, At
<1>a. JobsOK'
  BY RunContinues, JobReplaced DEF Continues
<1>b. job[f] \in Futures /\ WellFormed(job[f])
  BY DEF JobsOK
<1>1. CASE Query(f) \/ PauseSnapshot(f)
  BY <1>a, <1>1 DEF Query, PauseSnapshot, BackendOK, EntriesOK, MarksOK, UiOK,
                    backend, entries, marks, ui, choice
<1>2. CASE HelperAdds(f)
  <2>1. job[f].target \in Sessions
    BY <1>2, <1>b DEF HelperAdds, WellFormed
  <2>2. UiOK'
    BY <1>2, <2>1 DEF HelperAdds, UiOK, Pending, Lately
  <2> QED
    BY <1>a, <1>2, <2>2 DEF HelperAdds, BackendOK, EntriesOK, MarksOK, backend, entries, marks
<1>3. CASE AddReturned(f)
  <2>1. EntriesOK'
    BY <1>3 DEF AddReturned, EntriesOK
  <2>2. UiOK'
    BY <1>3 DEF AddReturned, UiOK, Lately
  <2> QED
    BY <1>a, <1>3, <2>1, <2>2 DEF AddReturned, BackendOK, MarksOK, backend, marks
<1>4. CASE HelperRemoves(f)
  <2>1. UiOK'
    BY <1>4 DEF HelperRemoves, UiOK, ui, choice
  <2> QED
    BY <1>a, <1>4, <2>1 DEF HelperRemoves, BackendOK, EntriesOK, MarksOK, backend, entries, marks
<1>5. CASE RemoveReturned(f)
  <2>1. EntriesOK' /\ MarksOK'
    BY <1>5 DEF RemoveReturned, Remove, EntriesOK, MarksOK, TrayStates
  <2>2. UiOK'
    BY <1>5 DEF RemoveReturned, Settle, UiOK
  <2> QED
    BY <1>a, <1>5, <2>1, <2>2 DEF RemoveReturned, BackendOK, backend
<1>6. CASE MarkDropped(f)
  <2>1. MarksOK'
    BY <1>6, <1>b DEF MarkDropped, MarksOK, WellFormed
  <2> QED
    BY <1>a, <1>6, <2>1 DEF MarkDropped, BackendOK, EntriesOK, UiOK, backend, entries, ui, choice
<1>7. CASE DisconnectCall(f)
  <2>1. job[f].session \in Sessions
    BY <1>7, <1>b DEF DisconnectCall, WellFormed
  <2>2. BackendOK'
    BY <1>7, <2>1, GoneTypes DEF DisconnectCall, BackendOK
  <2> QED
    BY <1>a, <1>7, <2>2 DEF DisconnectCall, EntriesOK, MarksOK, UiOK, entries, marks, ui, choice
<1>8. CASE Retain(f)
  <2>1. EntriesOK'
    BY <1>8 DEF Retain, Remove, EntriesOK, TrayStates
  <2> QED
    BY <1>a, <1>8, <2>1 DEF Retain, BackendOK, MarksOK, UiOK, backend, marks, ui, choice
<1>9. CASE TunnelFailed(f)
  <2>1. UiOK'
    BY <1>9, <1>b DEF TunnelFailed, UiOK, choice, WellFormed
  <2> QED
    BY <1>a, <1>9, <2>1 DEF TunnelFailed, BackendOK, EntriesOK, MarksOK, backend, entries, marks
<1>10. ASSUME NEW s \in Sessions, TunnelCreated(f, s) PROVE TypeInv'
  <2>1. EntriesOK'
    BY <1>10 DEF TunnelCreated, Insert, EntriesOK, TrayStates
  <2>2. BackendOK'
    BY <1>10 DEF TunnelCreated, BackendOK, LiveStates
  <2>3. UiOK'
    BY <1>10, <1>b DEF TunnelCreated, UiOK, choice, WellFormed
  <2> QED
    BY <1>a, <1>10, <2>1, <2>2, <2>3 DEF TunnelCreated, MarksOK, marks
<1> QED
  BY <1>1, <1>2, <1>3, <1>4, <1>5, <1>6, <1>7, <1>8, <1>9, <1>10 DEF Run

\* What the user does spawns at most one future.
LEMMA UserFuture ==
  ASSUME TypeInv, User
  PROVE  \/ UNCHANGED job
         \/ \E c \in Configs : Spawn(Future("connect", "retain", None, c, None, {}))
         \/ \E s \in Sessions :
              s \in userDisc' /\ Spawn(Future("disconnect", "disconnect", s, None, None, {}))
         \/ asked' /\ Spawn(Future("release", "removing", None, None, None, {}))
         \/ ~enabled /\ Toggle /\ \E first \in ApplyAll(Connected) : Spawn(first)
<1> USE ConfigAssumption
<1>1. ASSUME NEW c \in Configs, Connect(c) \/ PromptReconnect(c)
      PROVE  Spawn(Future("connect", "retain", None, c, None, {}))
  BY <1>1 DEF Connect, PromptReconnect
<1>2. ASSUME NEW c \in Configs, PromptDismiss(c)
      PROVE  asked' /\ Spawn(Future("release", "removing", None, None, None, {}))
  BY <1>2 DEF PromptDismiss
<1>3. ASSUME NEW s \in Sessions, Reconnect(s)
      PROVE  Spawn(Future("connect", "retain", None, ConfigOf[s], None, {}))
  BY <1>3 DEF Reconnect
<1>4. ASSUME NEW s \in Sessions, Disconnect(s)
      PROVE  s \in userDisc' /\ Spawn(Future("disconnect", "disconnect", s, None, None, {}))
  BY <1>4 DEF Disconnect
<1>5. ASSUME NEW s \in Sessions, Pause(s) \/ ResumeOrRestart(s)
      PROVE  UNCHANGED job
  BY <1>5 DEF Pause, ResumeOrRestart
<1>6. ASSUME Toggle
      PROVE  \/ asked' /\ Spawn(Future("release", "removing", None, None, None, {}))
             \/ ~enabled /\ \E first \in ApplyAll(Connected) : Spawn(first)
  BY <1>6 DEF Toggle
<1> QED
  BY <1>1, <1>2, <1>3, <1>4, <1>5, <1>6 DEF User

LEMMA ApplyAllTypes ==
  ASSUME NEW set \in SUBSET Sessions, NEW first \in ApplyAll(set)
  PROVE  /\ first \in Futures /\ WellFormed(first)
         /\ first.step \in {"", "query"} /\ first.kind \in {"none", "all"}
<1>1. CASE set = {}
  BY <1>1, NoFutureFits, NoFutureFields DEF ApplyAll
<1>2. ASSUME NEW t \in set, first = Future("all", "query", None, None, t, set \ {t})
      PROVE  /\ first \in Futures /\ WellFormed(first)
             /\ first.step \in {"", "query"} /\ first.kind \in {"none", "all"}
  BY <1>2 DEF Future, Futures, Kinds, Steps, WellFormed, Applies
<1> QED
  BY <1>1, <1>2 DEF ApplyAll

LEMMA UserTypes ==
  ASSUME TypeInv, User
  PROVE  TypeInv' /\ UNCHANGED <<created, entries, fading, recent, authRetry, table>>
<1> USE ConfigAssumption DEF TypeInv
<1>1. UNCHANGED <<created, entries, fading, recent, authRetry, table>>
  BY DEF User, Connect, PromptReconnect, PromptDismiss, Reconnect, Disconnect, Pause,
         ResumeOrRestart, Toggle, backend, entries, marks, ui, choice
<1>2. BackendOK'
  <2>1. ASSUME NEW s \in Sessions, Pause(s) \/ ResumeOrRestart(s) PROVE BackendOK'
    <3>1. <<"paused">> \in Seq(Statuses) /\ <<"connecting">> \in Seq(Statuses)
          /\ {"paused", "connecting"} \subseteq LiveStates
      BY DEF Statuses, LiveStates
    <3> QED
      BY <2>1, <3>1, ReportTypes DEF Pause, ResumeOrRestart, BackendOK
  <2>2. (\A s \in Sessions : ~(Pause(s) \/ ResumeOrRestart(s))) => UNCHANGED backend
    BY DEF User, Connect, PromptReconnect, PromptDismiss, Reconnect, Disconnect, Toggle, backend
  <2> QED
    BY <2>1, <2>2 DEF BackendOK, backend
<1>3. MarksOK' /\ UiOK'
  <2>1. ASSUME NEW c \in Configs, Connect(c) \/ PromptReconnect(c) \/ PromptDismiss(c)
        PROVE  MarksOK' /\ UiOK'
    BY <2>1 DEF Connect, PromptReconnect, PromptDismiss, MarksOK, UiOK, marks, ui, choice
  <2>2. ASSUME NEW s \in Sessions, Reconnect(s) \/ Pause(s) \/ ResumeOrRestart(s)
        PROVE  MarksOK' /\ UiOK'
    BY <2>2 DEF Reconnect, Pause, ResumeOrRestart, MarksOK, UiOK, marks, ui, choice
  <2>3. ASSUME NEW s \in Sessions, Disconnect(s) PROVE MarksOK' /\ UiOK'
    BY <2>3, BoundAssumption DEF Disconnect, MarksOK, UiOK, choice
  <2>4. ASSUME Toggle PROVE MarksOK' /\ UiOK'
    BY <2>4 DEF Toggle, MarksOK, UiOK, marks, choice
  <2> QED
    BY <2>1, <2>2, <2>3, <2>4 DEF User
<1>4. JobsOK'
  <2> DEFINE j1(c) == Future("connect", "retain", None, c, None, {})
             j2(s) == Future("disconnect", "disconnect", s, None, None, {})
             j3 == Future("release", "removing", None, None, None, {})
  <2>1. /\ \A c \in Configs : j1(c) \in Futures /\ WellFormed(j1(c))
        /\ \A s \in Sessions : j2(s) \in Futures /\ WellFormed(j2(s))
        /\ j3 \in Futures /\ WellFormed(j3)
    BY DEF Future, Futures, Kinds, Steps, WellFormed
  <2>2. \/ UNCHANGED job \/ (\E c \in Configs : Spawn(j1(c)))
        \/ (\E s \in Sessions : Spawn(j2(s))) \/ Spawn(j3)
        \/ \E first \in ApplyAll(Connected) : Spawn(first)
    BY UserFuture
  <2>3. Connected \in SUBSET Sessions
    BY DEF Connected
  <2>4. \A first \in ApplyAll(Connected) : first \in Futures /\ WellFormed(first)
    BY <2>3, ApplyAllTypes
  <2> HIDE DEF j1, j2, j3
  <2> QED
    BY <2>1, <2>2, <2>4, SpawnTypes DEF JobsOK
<1> QED
  BY <1>1, <1>2, <1>3, <1>4 DEF EntriesOK, entries

LEMMA InitTypes == Init => TypeInv
<1> SUFFICES ASSUME Init PROVE TypeInv
  OBVIOUS
<1>1. PICK up \in SUBSET Sessions :
        /\ live = [s \in Sessions |-> IF s \in up THEN "connected" ELSE "unborn"]
        /\ inbox = [s \in Sessions |-> <<>>]
        /\ created = {} /\ destroyed = {}
        /\ tray = [s \in Sessions |-> IF s \in up THEN "connected" ELSE "absent"]
        /\ known = up /\ flag = {}
        /\ fading = {} /\ recent = {} /\ userDisc = {} /\ authRetry = {}
        /\ attempts = [c \in Configs |-> 0]
        /\ prompts = {} /\ asked = FALSE /\ table = None
        /\ early = {} /\ late = FALSE /\ refused = FALSE
        /\ enabled \in IF "toggle" \in Events THEN BOOLEAN ELSE {TRUE}
        /\ \E f \in Slots, first \in ApplyAll(IF enabled THEN up ELSE {}) :
             job = [g \in Slots |-> IF g = f THEN first ELSE NoFuture]
  BY DEF Init
<1>2. BackendOK /\ EntriesOK
  BY <1>1 DEF BackendOK, EntriesOK, LiveStates, TrayStates
<1>3. MarksOK /\ UiOK
  <2>1. 0 \in 0..MaxAttempts
    BY BoundAssumption
  <2>2. MarksOK
    BY <1>1, <2>1 DEF MarksOK
  <2>3. enabled \in BOOLEAN
    BY <1>1
  <2> QED
    BY <1>1, <2>2, <2>3 DEF UiOK
<1>4. JobsOK
  <2> DEFINE set == IF enabled THEN up ELSE {}
  <2>1. set \in SUBSET Sessions
    BY <1>1
  <2>2. PICK f \in Slots, first \in ApplyAll(set) :
          job = [g \in Slots |-> IF g = f THEN first ELSE NoFuture]
    BY <1>1
  <2>3. first \in Futures /\ WellFormed(first)
    BY <2>1, ApplyAllTypes
  <2> QED
    BY <2>2, <2>3, NoFutureFits DEF JobsOK
<1> QED
  BY <1>2, <1>3, <1>4 DEF TypeInv

\* The steps of Next in the groups that the lemmas are about.
LEMMA NextCases ==
  ASSUME Next
  PROVE  \/ \E s \in Sessions : Openvpn3(s) \/ Status(s) \/ EntryStep(s) \/ SessDestroyed(s)
         \/ \E f \in Slots : Run(f)
         \/ User \/ ServiceLost
  BY DEF Next, EntryStep

LEMMA TypeInductive == TypeInv /\ [Next]_vars => TypeInv'
<1>1. TypeInv /\ Next => TypeInv'
  BY NextCases, Openvpn3Types, StatusTypes, EntryTypes, DestroyedTypes, RunTypes, UserTypes,
     LostTypes
<1>2. TypeInv /\ UNCHANGED vars => TypeInv'
  BY DEF TypeInv, BackendOK, EntriesOK, MarksOK, UiOK, JobsOK, vars, backend, entries, marks, ui, choice
<1> QED
  BY <1>1, <1>2

LEMMA TypeAlways == Spec => []TypeInv
  BY InitTypes, TypeInductive, PTL DEF Spec

(***************************************************************************)
(* Type correctness of the GUI's kill-switch: whatever interleaving of     *)
(* signals, futures, replies and clicks, an entry that is gone from the    *)
(* tray keeps neither an identity nor a flag.                              *)
(***************************************************************************)
THEOREM TypeCorrect == Spec => []TypeOK
  BY TypeAlways, TypeInvTypes, PTL

---------------------------------------------------------------------------
(* Patient handlers find no future under way but delays of auto-reconnect, *)
(* so that the futures that work on the table come one by one.             *)

LEMMA HandlersWait ==
  ASSUME Patient
  PROVE  /\ \A s \in Sessions : Status(s) \/ SessDestroyed(s) => Free
         /\ User \/ ServiceLost => Free
  BY DEF Patient, Status, StatusConnecting, StatusConnected, StatusPaused, StatusDisconnected,
         StatusAuthFailed, StatusFailed, Receive, SessDestroyed, User, Connect, Reconnect,
         Disconnect, Pause, ResumeOrRestart, PromptReconnect, PromptDismiss, Toggle, ServiceLost

Idle == \A f \in Slots : job[f].kind \in {"none", "auto"} /\ job[f].step \in {"", "retain"}

LEMMA FreeIsIdle == ASSUME Patient, Free PROVE Idle /\ created = {}
<1>1. created = {} /\ \A f \in Slots : job[f] = NoFuture \/ Waiting(f)
  BY DEF Free, Patient
<1> QED
  BY <1>1, NoFutureFields DEF Waiting, At, Idle

LEMMA SpawnOne ==
  ASSUME JobsOK, NEW j \in Futures, Spawn(j)
  PROVE  \E f \in Slots : job'[f] = j /\ \A g \in Slots \ {f} : job'[g] = job[g]
  BY DEF Spawn, JobsOK

LEMMA SpawnKeepsOne ==
  ASSUME JobsOK, NEW j \in Futures, Spawn(j), Idle
  PROVE  OneAtATime'
<1>1. PICK f \in Slots : job'[f] = j /\ \A g \in Slots \ {f} : job'[g] = job[g]
  BY SpawnOne
<1>2. \A g \in Slots : Working(g)' => g = f
  BY <1>1 DEF Working, Idle
<1> QED
  BY <1>2 DEF OneAtATime

\* Where a future starts that a handler spawns.
Starts == {j \in Futures : j.step \notin {"adding", "added", "removed"}}

LEMMA HandlerSpawns ==
  ASSUME TypeInv,
         (\E s \in Sessions : Status(s) \/ SessDestroyed(s)) \/ User \/ ServiceLost
  PROVE  UNCHANGED job \/ \E j \in Starts : Spawn(j)
<1> USE ConfigAssumption DEF Starts, Futures, Future, Kinds, Steps
<1>1. ASSUME NEW s \in Sessions, Status(s)
      PROVE  UNCHANGED job \/ \E j \in Starts : Spawn(j)
  BY <1>1, StatusFuture
<1>2. ASSUME NEW s \in Sessions, SessDestroyed(s)
      PROVE  UNCHANGED job \/ \E j \in Starts : Spawn(j)
  <2>1. Survivors(s) \subseteq Sessions
    BY DEF Survivors, Connected
  <2> QED
    BY <1>2, <2>1, DestroyedFuture
<1>3. ASSUME User PROVE UNCHANGED job \/ \E j \in Starts : Spawn(j)
  <2>1. Connected \in SUBSET Sessions
    BY DEF Connected
  <2>2. \A first \in ApplyAll(Connected) : first \in Starts
    BY <2>1, ApplyAllTypes
  <2> QED
    BY <1>3, <2>2, UserFuture
<1>4. ASSUME ServiceLost PROVE UNCHANGED job \/ \E j \in Starts : Spawn(j)
  BY <1>4 DEF ServiceLost
<1> QED
  BY <1>1, <1>2, <1>3, <1>4

LEMMA InitOne ==
  Init => /\ OneAtATime
          /\ \A f \in Slots : job[f] \in ApplyAll(IF enabled THEN Connected ELSE {}) \cup {NoFuture}
<1> SUFFICES ASSUME Init PROVE OneAtATime /\
      \A f \in Slots : job[f] \in ApplyAll(IF enabled THEN Connected ELSE {}) \cup {NoFuture}
  OBVIOUS
<1>1. PICK up \in SUBSET Sessions :
        /\ tray = [s \in Sessions |-> IF s \in up THEN "connected" ELSE "absent"]
        /\ \E f \in Slots, first \in ApplyAll(IF enabled THEN up ELSE {}) :
             job = [g \in Slots |-> IF g = f THEN first ELSE NoFuture]
  BY DEF Init
<1>2. up = Connected
  BY <1>1 DEF Connected
<1> QED
  BY <1>1, <1>2, NoFutureFields DEF OneAtATime, Working

LEMMA OneInductive == ASSUME Patient, TypeInv, OneAtATime, [Next]_vars PROVE OneAtATime'
<1>1. CASE (\E s \in Sessions : Status(s) \/ SessDestroyed(s)) \/ User \/ ServiceLost
  <2>1. Idle
    BY <1>1, HandlersWait, FreeIsIdle
  <2> QED
    BY <1>1, <2>1, HandlerSpawns, SpawnKeepsOne DEF TypeInv, OneAtATime, Working, Starts
<1>2. ASSUME NEW f \in Slots, Run(f) PROVE OneAtATime'
  <2>1. PICK j : Continues(f, j)
    BY <1>2, RunContinues
  <2>2. \A g \in Slots : Working(g)' => Working(g)
    BY <2>1, NoFutureFields DEF Continues, Working, TypeInv, JobsOK
  <2> QED
    BY <2>2 DEF OneAtATime
<1>3. CASE (\E s \in Sessions : Openvpn3(s) \/ EntryStep(s)) \/ UNCHANGED vars
  BY <1>3, Openvpn3Types, EntryTypes DEF vars, OneAtATime, Working
<1> QED
  BY <1>1, <1>2, <1>3, NextCases

---------------------------------------------------------------------------
(* With the preference off *)

LEMMA OffInductive ==
  ASSUME Patient, "removefail" \notin Events, TypeInv, OneAtATime, Off, [Next]_vars
  PROVE  Off'
<1> SUFFICES ASSUME ~enabled'
             PROVE  /\ \A f \in Slots : job'[f].step \notin {"snapshot", "query", "adding", "added"}
                    /\ table' = None \/ \E f \in Slots : At(f, "removing")'
                    /\ flag' = {} \/ \E f \in Slots : At(f, "removing")' \/ At(f, "removed")'
  BY DEF Off
<1> USE DEF At
<1>1. CASE \E s \in Sessions : Openvpn3(s) \/ EntryStep(s)
  BY <1>1, Openvpn3Types, EntryTypes DEF Off, entries, ui, choice
<1>2. CASE UNCHANGED vars
  BY <1>2 DEF Off, vars, entries, ui, choice
<1>3. ASSUME NEW j \in Futures, Spawn(j), Idle, ~enabled, UNCHANGED <<table, flag>>,
             j.step \notin {"snapshot", "query", "adding", "added"}
      PROVE  Off'
  <2>1. PICK f \in Slots : job'[f] = j /\ \A g \in Slots \ {f} : job'[g] = job[g]
    BY <1>3, SpawnOne DEF TypeInv
  <2>2. \A g \in Slots : job'[g].step \notin {"snapshot", "query", "adding", "added"}
    BY <1>3, <2>1 DEF Idle
  <2>3. table' = None /\ flag' = {}
    BY <1>3 DEF Off, Idle
  <2> QED
    BY <2>2, <2>3 DEF Off
<1>4. ASSUME UNCHANGED job, ~enabled, UNCHANGED <<table, flag>> PROVE Off'
  BY <1>4 DEF Off
<1> HIDE DEF At
<1>5. ASSUME NEW s \in Sessions, Status(s) PROVE Off'
  <2>1. Idle /\ ~enabled /\ UNCHANGED <<table, flag>>
    BY <1>5, HandlersWait, FreeIsIdle, StatusTypes DEF choice
  <2> QED
    BY <1>3, <1>4, <1>5, <2>1, StatusFuture, ConfigAssumption DEF Future, Futures, Kinds, Steps
<1>6. ASSUME NEW s \in Sessions, SessDestroyed(s) PROVE Off'
  <2>1. Idle /\ ~enabled /\ UNCHANGED <<table, flag>>
    BY <1>6, HandlersWait, FreeIsIdle, DestroyedTypes DEF entries, choice
  <2>2. Survivors(s) = {}
    BY <2>1 DEF Off, Idle, At, Survivors
  <2> QED
    BY <1>3, <1>4, <1>6, <2>1, <2>2, DestroyedFuture, ConfigAssumption
    DEF Future, Futures, Kinds, Steps
<1>7. ASSUME ServiceLost PROVE Off'
  <2>1. Idle /\ ~enabled /\ UNCHANGED <<table, flag>>
    BY <1>7, HandlersWait, FreeIsIdle, LostTypes DEF entries, ui, choice
  <2>2. Spawn(Future("lost", "removing", None, None, None, {}))
    BY <1>7 DEF ServiceLost
  <2> QED
    BY <1>3, <2>1, <2>2 DEF Future, Futures, Kinds, Steps
<1>8. ASSUME User PROVE Off'
  <2>1. Idle /\ UNCHANGED <<table, flag>>
    BY <1>8, HandlersWait, FreeIsIdle, UserTypes DEF entries
  <2>2. CASE ~enabled
    <3>1. ~Toggle
      BY <2>2 DEF Toggle, TypeInv, UiOK
    <3> QED
      BY <1>3, <1>4, <1>8, <2>1, <2>2, <3>1, UserFuture DEF Future, Futures, Kinds, Steps
  <2>3. CASE enabled
    <3>1. Toggle
      BY <1>8, <2>3 DEF User, Connect, Reconnect, Disconnect, Pause, ResumeOrRestart,
                        PromptReconnect, PromptDismiss, ui, choice
    <3> DEFINE j == Future("release", "removing", None, None, None, {})
    <3>2. Spawn(j) /\ j \in Futures /\ j.step = "removing"
      BY <2>3, <3>1 DEF Toggle, Future, Futures, Kinds, Steps
    <3> HIDE DEF j
    <3>3. QED
      <4>1. PICK f \in Slots : job'[f] = j /\ \A g \in Slots \ {f} : job'[g] = job[g]
        BY <3>2, SpawnOne DEF TypeInv
      <4>2. At(f, "removing")'
        BY <3>2, <4>1 DEF At
      <4>3. \A g \in Slots : job'[g].step \notin {"snapshot", "query", "adding", "added"}
        BY <2>1, <3>2, <4>1 DEF Idle
      <4> QED
        BY <4>2, <4>3 DEF Off
  <2> QED
    BY <2>2, <2>3
<1>9. ASSUME NEW f \in Slots, Run(f) PROVE Off'
  <2> USE DEF At
  <2>1. ~enabled
    BY <1>9 DEF Run, Query, HelperAdds, AddReturned, HelperRemoves, RemoveReturned, PauseSnapshot,
                MarkDropped, DisconnectCall, Retain, TunnelFailed, TunnelCreated, ui, choice
  <2>2. \A g \in Slots : job[g].step \notin {"snapshot", "query", "adding", "added"}
    BY <2>1 DEF Off
  <2>3. CASE HelperRemoves(f)
    BY <2>1, <2>2, <2>3 DEF HelperRemoves, Goto, Off, TypeInv, JobsOK
  <2>4. CASE RemoveReturned(f)
    <3>1. Working(f) /\ ~At(f, "removing")
      BY <2>4 DEF RemoveReturned, Working, TypeInv, JobsOK, WellFormed
    <3>2. \A g \in Slots : At(g, "removing") => Working(g)
      BY DEF Working, TypeInv, JobsOK, WellFormed
    <3>3. table = None
      BY <2>1, <3>1, <3>2 DEF Off, OneAtATime
    <3>4. flag' = {} /\ UNCHANGED table
      BY <2>4 DEF RemoveReturned, Remove, TypeInv, EntriesOK
    <3> QED
      BY <2>2, <2>4, <3>3, <3>4, NoFutureFields DEF RemoveReturned, End, Off, TypeInv, JobsOK
  <2>5. CASE MarkDropped(f) \/ DisconnectCall(f) \/ Retain(f)
    <3>1. UNCHANGED table /\ flag' \subseteq flag
      BY <2>5 DEF MarkDropped, DisconnectCall, Retain, Remove, entries, ui, choice
    <3>2. \A g \in Slots :
             \/ job'[g] = job[g]
             \/ /\ ~At(g, "removing") /\ ~At(g, "removed")
                /\ job'[g].step \in {"", "disconnect", "retain", "tunnel"}
      <4>1. At(f, "mark") \/ At(f, "disconnect") \/ At(f, "retain")
        BY <2>5 DEF MarkDropped, DisconnectCall, Retain
      <4>2. End(f) \/ Goto(f, "disconnect") \/ Goto(f, "retain") \/ Goto(f, "tunnel")
        BY <2>5 DEF MarkDropped, DisconnectCall, Retain
      <4> QED
        BY <4>1, <4>2, NoFutureFields DEF Goto, End, TypeInv, JobsOK, Futures
    <3> QED
      BY <2>1, <2>2, <3>1, <3>2 DEF Off
  <2>6. CASE TunnelFailed(f) \/ \E s \in Sessions : TunnelCreated(f, s)
    <3>1. UNCHANGED table /\ flag' \subseteq flag
      BY <2>6 DEF TunnelFailed, TunnelCreated, Insert, entries
    <3>2. \A g \in Slots :
             \/ job'[g] = job[g]
             \/ ~At(g, "removing") /\ ~At(g, "removed") /\ job'[g].step = ""
      BY <2>6, NoFutureFields DEF TunnelFailed, TunnelCreated, End, TypeInv, JobsOK
    <3> QED
      BY <2>1, <2>2, <3>1, <3>2 DEF Off
  <2> QED
    BY <1>9, <2>2, <2>3, <2>4, <2>5, <2>6 DEF Run, Query, HelperAdds, AddReturned, PauseSnapshot
<1> QED
  BY <1>1, <1>2, <1>5, <1>6, <1>7, <1>8, <1>9, NextCases DEF Off

LEMMA OffInitially == Init => Off
<1> SUFFICES ASSUME Init, ~enabled PROVE Off
  BY DEF Off
<1>1. \A f \in Slots : job[f] = NoFuture
  BY InitOne DEF ApplyAll
<1>2. table = None /\ flag = {}
  BY DEF Init
<1> QED
  BY <1>1, <1>2, NoFutureFields DEF Off, At

LEMMA SwitchedInductive == ASSUME TypeInv, Switched, [Next]_vars PROVE Switched'
<1> SUFFICES ASSUME ~enabled', ~late'
             PROVE  /\ \A f \in Slots \ early' : job'[f].step \notin Installing
                    /\ table' = None \/ refused' \/ \E f \in Slots : At(f, "removing")'
                    /\ flag' = {} \/ early' = Slots
  BY DEF Switched
<1> USE DEF TypeInv
<1>1. CASE (\E s \in Sessions : Openvpn3(s) \/ EntryStep(s)) \/ UNCHANGED vars
  BY <1>1, Openvpn3Types, EntryTypes DEF Switched, vars, entries, ui, choice, At
<1>2. ASSUME NEW j \in Futures, Spawn(j), j.step \notin Installing \/ early = Slots,
             UNCHANGED <<choice, table, flag>>
      PROVE  Switched'
  <2>1. PICK f \in Slots : job[f] = NoFuture /\ job' = [job EXCEPT ![f] = j]
    BY <1>2 DEF Spawn
  <2>2. job'[f] = j /\ \A g \in Slots \ {f} : job'[g] = job[g]
    BY <2>1 DEF JobsOK
  <2>3. ~At(f, "removing")
    BY <2>1, NoFutureFields DEF At
  <2> QED
    BY <1>2, <2>2, <2>3 DEF Switched, choice, At
<1>3. ASSUME UNCHANGED <<job, choice, table, flag>> PROVE Switched'
  BY <1>3 DEF Switched, choice, At
<1>4. ASSUME NEW s \in Sessions, Status(s) PROVE Switched'
  <2>1. UNCHANGED <<choice, table, flag>> /\ ~enabled
    BY <1>4, StatusTypes DEF choice
  <2> QED
    BY <1>2, <1>3, <2>1, <1>4, StatusFuture, ConfigAssumption
    DEF Future, Futures, Kinds, Steps, Installing
<1>5. ASSUME NEW s \in Sessions, SessDestroyed(s) PROVE Switched'
  <2>1. UNCHANGED <<choice, table, flag>> /\ ~enabled /\ ~late
    BY <1>5, DestroyedTypes DEF choice, entries
  <2>2. Survivors(s) # {} => early = Slots
    BY <2>1 DEF Switched, Survivors
  <2>3. Survivors(s) \subseteq Sessions
    BY DEF Survivors, Connected
  <2> QED
    BY <1>2, <1>3, <1>5, <2>1, <2>2, <2>3, DestroyedFuture, ConfigAssumption
    DEF Future, Futures, Kinds, Steps, Installing
<1>6. ASSUME ServiceLost PROVE Switched'
  <2>1. UNCHANGED <<choice, table, flag>>
    BY <1>6, LostTypes DEF entries, ui
  <2>2. Spawn(Future("lost", "removing", None, None, None, {}))
    BY <1>6 DEF ServiceLost
  <2> QED
    BY <1>2, <2>1, <2>2 DEF Future, Futures, Kinds, Steps, Installing
<1>7. ASSUME User PROVE Switched'
  <2>1. UNCHANGED <<table, flag>>
    BY <1>7, UserTypes DEF entries
  <2>2. CASE ~Toggle
    <3>1. UNCHANGED choice
      BY <1>7, <2>2 DEF User, Connect, Reconnect, Disconnect, Pause, ResumeOrRestart,
                        PromptReconnect, PromptDismiss, ui
    <3> QED
      BY <1>2, <1>3, <1>7, <2>1, <2>2, <3>1, UserFuture
      DEF Future, Futures, Kinds, Steps, Installing
  <2>3. CASE Toggle
    <3>1. enabled /\ early' = Slots
      BY <2>3 DEF Toggle, UiOK
    <3>2. PICK f \in Slots :
            job' = [job EXCEPT ![f] = Future("release", "removing", None, None, None, {})]
      BY <2>3, <3>1 DEF Toggle, Spawn
    <3>3. At(f, "removing")'
      BY <3>2 DEF At, JobsOK, Future
    <3> QED
      BY <3>1, <3>3 DEF Switched
  <2> QED
    BY <2>2, <2>3
<1>8. ASSUME NEW f \in Slots, Run(f) PROVE Switched'
  <2> USE DEF At
  <2>1. ~enabled
    BY <1>8 DEF Run, Query, HelperAdds, AddReturned, HelperRemoves, RemoveReturned, PauseSnapshot,
                MarkDropped, DisconnectCall, Retain, TunnelFailed, TunnelCreated, ui, choice
  <2>2. \A g \in Slots \ {f} : job'[g] = job[g]
    <3>1. PICK j : Continues(f, j)
      BY <1>8, RunContinues
    <3> QED
      BY <3>1 DEF Continues, JobsOK
  <2>3. CASE HelperAdds(f)
    <3>1. job[f].step \in Installing /\ job'[f].step \in Installing /\ ~At(f, "removing")
      BY <2>3 DEF HelperAdds, Goto, Installing, JobsOK, Futures
    <3>2. ~late
      BY <2>3 DEF HelperAdds, Lately, UiOK
    <3>3. f \in early
      BY <2>1, <3>1, <3>2 DEF Switched
    <3>4. UNCHANGED <<table, refused, early>>
      BY <2>1, <2>3, <3>3 DEF HelperAdds, Lately
    <3>5. UNCHANGED flag
      BY <2>3 DEF HelperAdds, entries
    <3> QED
      BY <2>1, <2>2, <3>1, <3>2, <3>3, <3>4, <3>5 DEF Switched
  <2>4. CASE AddReturned(f)
    <3>1. job[f].step \in Installing /\ ~At(f, "removing")
      BY <2>4 DEF AddReturned, Installing
    <3>2. ~late
      BY <2>4 DEF AddReturned, Lately, UiOK
    <3>3. f \in early
      BY <2>1, <3>1, <3>2 DEF Switched
    <3>4. UNCHANGED <<table, refused, early>> /\ flag' \subseteq flag
      BY <2>1, <2>4, <3>3 DEF AddReturned, Lately
    <3> QED
      BY <2>1, <2>2, <3>1, <3>2, <3>3, <3>4 DEF Switched
  <2>5. CASE HelperRemoves(f)
    <3>1. job'[f].step \notin Installing /\ UNCHANGED <<early, late, flag>>
      BY <2>5 DEF HelperRemoves, Goto, Installing, JobsOK, Futures, entries
    <3>2. table' = None \/ refused'
      BY <2>5 DEF HelperRemoves
    <3> QED
      BY <2>1, <2>2, <3>1, <3>2 DEF Switched
  <2>6. CASE RemoveReturned(f)
    <3> DEFINE others == {g \in Slots \ {f} : job[g] # NoFuture}
    <3>1. /\ job'[f] = NoFuture /\ ~At(f, "removing") /\ UNCHANGED <<table, refused>>
          /\ early' = early \cap others /\ late' = (late /\ (table # None \/ others # {}))
      BY <2>6 DEF RemoveReturned, Settle, End, JobsOK
    <3>2. flag' = {}
      BY <2>6 DEF RemoveReturned, Remove, EntriesOK
    <3>3. ASSUME NEW g \in Slots \ early' PROVE job'[g].step \notin Installing
      <4>1. CASE g = f \/ job[g] = NoFuture
        BY <2>2, <3>1, <4>1, NoFutureFields DEF Installing
      <4>2. CASE g # f /\ job[g] # NoFuture
        <5>1. g \notin early /\ others # {}
          BY <3>1, <4>2
        <5>2. ~late
          BY <3>1, <5>1 DEF UiOK
        <5> QED
          BY <2>1, <2>2, <4>2, <5>1, <5>2 DEF Switched
      <4> QED
        BY <4>1, <4>2
    <3>4. table' = None \/ refused' \/ \E g \in Slots : At(g, "removing")'
      <4>1. CASE late
        BY <3>1, <4>1 DEF UiOK
      <4>2. CASE ~late
        BY <2>1, <2>2, <3>1, <4>2 DEF Switched
      <4> QED
        BY <4>1, <4>2
    <3> QED
      BY <3>2, <3>3, <3>4 DEF Switched
  <2>7. CASE Query(f) \/ PauseSnapshot(f)
    <3>1. UNCHANGED <<choice, table, flag>> /\ job[f].step \in Installing
      BY <2>7 DEF Query, PauseSnapshot, entries, ui, Installing
    <3>2. f \in early /\ ~At(f, "removing")
      BY <2>1, <3>1 DEF Switched, Installing, choice
    <3> QED
      BY <2>1, <2>2, <3>1, <3>2 DEF Switched, choice
  <2>8. CASE \/ MarkDropped(f) \/ DisconnectCall(f) \/ Retain(f) \/ TunnelFailed(f)
             \/ \E s \in Sessions : TunnelCreated(f, s)
    <3>1. UNCHANGED <<choice, table>> /\ flag' \subseteq flag
      BY <2>8 DEF MarkDropped, DisconnectCall, Retain, TunnelFailed, TunnelCreated, Insert, Remove,
                  entries, ui, choice
    <3>2. At(f, "mark") \/ At(f, "disconnect") \/ At(f, "retain") \/ At(f, "tunnel")
      BY <2>8 DEF MarkDropped, DisconnectCall, Retain, TunnelFailed, TunnelCreated
    <3>3. End(f) \/ Goto(f, "disconnect") \/ Goto(f, "retain") \/ Goto(f, "tunnel")
      BY <2>8 DEF MarkDropped, DisconnectCall, Retain, TunnelFailed, TunnelCreated
    <3>4. job'[f].step \notin Installing /\ ~At(f, "removing")
      BY <3>2, <3>3, NoFutureFields DEF End, Goto, Installing, JobsOK, Futures
    <3> QED
      BY <2>1, <2>2, <3>1, <3>4 DEF Switched, choice
  <2> QED
    BY <1>8, <2>3, <2>4, <2>5, <2>6, <2>7, <2>8 DEF Run
<1> QED
  BY <1>1, <1>4, <1>5, <1>6, <1>7, <1>8, NextCases DEF Switched

LEMMA SwitchedInitially == Init => Switched
<1> SUFFICES ASSUME Init, ~enabled PROVE Switched
  BY DEF Switched
<1>1. \A f \in Slots : job[f] = NoFuture
  BY InitOne DEF ApplyAll
<1>2. table = None /\ flag = {}
  BY DEF Init
<1> QED
  BY <1>1, <1>2, NoFutureFields DEF Switched, Installing

(***************************************************************************)
(* However handlers and futures interleave, in any number of sessions and  *)
(* with any failures, no table is left once the preference is off and      *)
(* everything is settled, unless RemoveRules failed or a future that was   *)
(* under way when the rules were removed installed or flagged afterwards.  *)
(***************************************************************************)
THEOREM SwitchedOffStaysOff == Spec => []OffMeansOff
<1>1. Init => TypeInv /\ Switched
  BY InitTypes, SwitchedInitially
<1>2. TypeInv /\ Switched /\ [Next]_vars => (TypeInv /\ Switched)'
  BY TypeInductive, SwitchedInductive
<1>3. Switched => OffMeansOff
  BY NoFutureFields DEF Switched, OffMeansOff, Quiet, At
<1> QED
  BY <1>1, <1>2, <1>3, PTL DEF Spec

---------------------------------------------------------------------------
(* The lock in the tray *)

\* A handler leaves table and flags to the future that it spawns.
LEMMA HandlersLeaveTable ==
  ASSUME TypeInv,
         (\E s \in Sessions : Status(s) \/ SessDestroyed(s)) \/ User \/ ServiceLost
  PROVE  UNCHANGED <<table, flag, refused>>
<1>1. UNCHANGED <<table, flag>>
  BY StatusTypes, DestroyedTypes, UserTypes, LostTypes DEF entries
<1>2. ASSUME NEW s \in Sessions, Status(s) PROVE UNCHANGED refused
  BY <1>2 DEF Status, StatusConnecting, StatusConnected, StatusPaused, StatusDisconnected,
              StatusAuthFailed, StatusFailed, Receive, choice
<1>3. ASSUME NEW s \in Sessions, SessDestroyed(s) PROVE UNCHANGED refused
  <2>1. UNCHANGED <<live, inbox, created, entries, attempts, choice, table, asked>>
    BY <1>3, Zenon DEF SessDestroyed
  <2> QED
    BY <2>1 DEF choice
<1>4. CASE ServiceLost
  <2>1. UNCHANGED <<inbox, created, destroyed, entries, marks, ui, table>>
    BY <1>4, Zenon DEF ServiceLost
  <2> QED
    BY <1>1, <2>1 DEF ui, choice
<1>5. ASSUME NEW c \in Configs, Connect(c) \/ PromptReconnect(c) \/ PromptDismiss(c)
      PROVE  UNCHANGED refused
  BY <1>5 DEF Connect, PromptReconnect, PromptDismiss, ui, choice
<1>6. ASSUME NEW s \in Sessions,
             Reconnect(s) \/ Disconnect(s) \/ Pause(s) \/ ResumeOrRestart(s)
      PROVE  UNCHANGED refused
  BY <1>6 DEF Reconnect, Disconnect, Pause, ResumeOrRestart, ui, choice
<1>7. CASE Toggle
  <2>1. UNCHANGED <<backend, entries, marks, prompts, refused, table>>
    BY <1>7, Zenon DEF Toggle
  <2> QED
    BY <1>1, <2>1
<1> QED
  BY <1>1, <1>2, <1>3, <1>4, <1>5, <1>6, <1>7 DEF User

TableStep(f) == HelperAdds(f) \/ AddReturned(f) \/ HelperRemoves(f) \/ RemoveReturned(f)

\* The other steps of a future leave the table alone and set no flag.
LEMMA OtherRun ==
  ASSUME TypeInv, NEW f \in Slots, Run(f), ~TableStep(f)
  PROVE  /\ UNCHANGED <<table, refused>> /\ flag' \subseteq flag
         /\ \A g \in Slots :
              \/ job'[g] = job[g]
              \/ g = f /\ job[g].step # "removed" /\ job'[g].step \notin {"added", "removed"}
<1>1. UNCHANGED <<table, refused>> /\ flag' \subseteq flag
  BY DEF Run, TableStep, Query, PauseSnapshot, MarkDropped, DisconnectCall, Retain, Remove,
         TunnelFailed, TunnelCreated, Insert, entries, ui, choice
<1>2. PICK j : Continues(f, j)
  BY RunContinues
<1>3. job[f].step \in {"query", "snapshot", "mark", "disconnect", "retain", "tunnel"}
  BY DEF Run, TableStep, Query, PauseSnapshot, MarkDropped, DisconnectCall, Retain,
         TunnelFailed, TunnelCreated, At
<1>4. job'[f].step \notin {"added", "removed"}
  <2> USE NoFutureFields DEF TypeInv, JobsOK, Futures, Goto, End
  <2>1. CASE Query(f)
    <3>1. Goto(f, "adding") \/ GiveUp(f)
      BY <2>1 DEF Query
    <3>2. GiveUp(f) => \/ End(f) \/ Goto(f, "removing")
                       \/ \E t \in job[f].rest :
                            job' = [job EXCEPT ![f].target = t, ![f].rest = @ \ {t}]
      BY DEF GiveUp
    <3> QED
      BY <1>3, <3>1, <3>2
  <2>2. CASE PauseSnapshot(f)
    BY <2>2 DEF PauseSnapshot
  <2>3. CASE MarkDropped(f) \/ DisconnectCall(f) \/ Retain(f)
    BY <2>3 DEF MarkDropped, DisconnectCall, Retain
  <2>4. CASE TunnelFailed(f) \/ \E s \in Sessions : TunnelCreated(f, s)
    BY <2>4 DEF TunnelFailed, TunnelCreated
  <2> QED
    BY <2>1, <2>2, <2>3, <2>4 DEF Run, TableStep
<1> QED
  BY <1>1, <1>2, <1>3, <1>4 DEF Continues, TypeInv, JobsOK

LEMMA LockedInductive ==
  ASSUME Patient, "addfail" \notin Events, TypeInv, OneAtATime, Locked, [Next]_vars
  PROVE  Locked'
<1>1. CASE (\E s \in Sessions : Status(s) \/ SessDestroyed(s)) \/ User \/ ServiceLost
  <2>1. Idle /\ UNCHANGED <<table, flag>>
    BY <1>1, HandlersWait, FreeIsIdle, HandlersLeaveTable
  <2>2. flag # {} => table # None
    BY <2>1 DEF Locked, Idle, At
  <2>3. CASE UNCHANGED job
    BY <2>1, <2>3 DEF Locked, At
  <2>4. ASSUME NEW j \in Starts, Spawn(j) PROVE Locked'
    <3>1. PICK f \in Slots : job'[f] = j /\ \A g \in Slots \ {f} : job'[g] = job[g]
      BY <2>4, SpawnOne DEF Starts, TypeInv
    <3>2. \A g \in Slots : ~At(g, "added")'
      BY <2>1, <3>1 DEF Idle, At, Starts
    <3> QED
      BY <2>1, <2>2, <3>2 DEF Locked
  <2> QED
    BY <1>1, <2>3, <2>4, HandlerSpawns
<1>2. ASSUME NEW f \in Slots, Run(f) PROVE Locked'
  <2>a. job[f] \in Futures /\ WellFormed(job[f])
    BY DEF TypeInv, JobsOK
  <2>1. CASE HelperAdds(f)
    <3>1. job[f].target # None
      BY <2>1, <2>a, NoneAssumption DEF HelperAdds, At, WellFormed
    <3> QED
      BY <2>1, <3>1 DEF HelperAdds, Locked
  <2>2. CASE AddReturned(f)
    BY <2>2 DEF AddReturned, Locked
  <2>3. CASE HelperRemoves(f)
    <3>1. Working(f) /\ \A g \in Slots : At(g, "added") => Working(g)
      BY <2>3 DEF HelperRemoves, At, Working, TypeInv, JobsOK, WellFormed, Applies
    <3>2. \A g \in Slots : ~At(g, "added")
      BY <2>3, <3>1 DEF HelperRemoves, At, OneAtATime
    <3>3. At(f, "removed")'
      BY <2>3, <2>a DEF HelperRemoves, Goto, At, TypeInv, JobsOK, Futures
    <3>4. \A g \in Slots : ~At(g, "added")'
      BY <2>3, <3>2, <3>3 DEF HelperRemoves, Goto, At, TypeInv, JobsOK
    <3> QED
      BY <3>3, <3>4 DEF Locked
  <2>4. CASE RemoveReturned(f)
    <3>1. flag' = {} /\ UNCHANGED table
      BY <2>4 DEF RemoveReturned, Remove, TypeInv, EntriesOK
    <3>2. \A g \in Slots : At(g, "added")' => At(g, "added")
      BY <2>4, NoFutureFields DEF RemoveReturned, End, At, TypeInv, JobsOK
    <3> QED
      BY <3>1, <3>2 DEF Locked
  <2>5. CASE ~TableStep(f)
    BY <1>2, <2>5, OtherRun DEF Locked, At
  <2> QED
    BY <2>1, <2>2, <2>3, <2>4, <2>5 DEF TableStep
<1>3. CASE (\E s \in Sessions : Openvpn3(s) \/ EntryStep(s)) \/ UNCHANGED vars
  BY <1>3, Openvpn3Types, EntryTypes DEF vars, Locked, At, entries
<1> QED
  BY <1>1, <1>2, <1>3, NextCases

LEMMA LockedInitially == Init => Locked
<1> SUFFICES ASSUME Init PROVE Locked
  OBVIOUS
<1>1. flag = {}
  BY DEF Init
<1>2. (IF enabled THEN Connected ELSE {}) \in SUBSET Sessions
  BY DEF Connected
<1>3. \A f \in Slots : job[f].step \in {"", "query"}
  BY <1>2, InitOne, ApplyAllTypes, NoFutureFields
<1> QED
  BY <1>1, <1>3 DEF Locked, At

(***************************************************************************)
(* If the handlers wait for the futures of earlier ones and AddRules does  *)
(* not fail unnoticed, a session that the tray shows as protected has a    *)
(* table behind it once everything is settled, for any number of sessions  *)
(* and whatever else happens.                                              *)
(***************************************************************************)
THEOREM LockShownIsLockHeld ==
  ASSUME Patient, "addfail" \notin Events
  PROVE  Spec => []FlaggedMeansTable
<1>1. Init => TypeInv /\ OneAtATime /\ Locked
  BY InitTypes, InitOne, LockedInitially
<1>2. TypeInv /\ OneAtATime /\ Locked /\ [Next]_vars => (TypeInv /\ OneAtATime /\ Locked)'
  BY TypeInductive, OneInductive, LockedInductive
<1>3. Locked => FlaggedMeansTable
  BY NoFutureFields DEF Locked, FlaggedMeansTable, Quiet, At
<1> QED
  BY <1>1, <1>2, <1>3, PTL DEF Spec

---------------------------------------------------------------------------
(* The table goes only when the user let it go *)

LEMMA ReportSays ==
  ASSUME BackendOK, NEW s \in Sessions, NEW state, NEW y \in Statuses,
         NEW statuses \in {<<>>, <<y>>}, Report(s, state, statuses)
  PROVE  \A q \in Sessions :
           /\ \A x : Says(q, x)' => Says(q, x) \/ (q = s /\ x = y /\ statuses = <<y>>)
           /\ Len(inbox[q]) <= MaxQueue => Len(inbox'[q]) <= MaxQueue
<1> SUFFICES ASSUME NEW q \in Sessions
             PROVE  /\ \A x : Says(q, x)' => Says(q, x) \/ (q = s /\ x = y /\ statuses = <<y>>)
                    /\ Len(inbox[q]) <= MaxQueue => Len(inbox'[q]) <= MaxQueue
  OBVIOUS
<1>1. inbox[q] \in Seq(Statuses) /\ inbox[s] \in Seq(Statuses)
  BY DEF BackendOK
<1>2. CASE q # s
  <2>1. inbox'[q] = inbox[q]
    BY <1>2 DEF Report, BackendOK
  <2> QED
    BY <2>1 DEF Says
<1>3. CASE q = s
  <2>1. inbox'[s] = inbox[s] \o statuses /\ Len(inbox[s]) + Len(statuses) <= MaxQueue
    BY DEF Report, BackendOK
  <2>2. CASE statuses = <<>>
    <3>1. inbox'[s] = inbox[s]
      BY <1>1, <2>1, <2>2
    <3> QED
      BY <1>3, <3>1 DEF Says
  <2>3. CASE statuses = <<y>>
    <3>1. /\ Len(inbox'[s]) = Len(inbox[s]) + 1 /\ inbox'[s][Len(inbox[s]) + 1] = y
          /\ \A i \in 1..Len(inbox[s]) : inbox'[s][i] = inbox[s][i]
      BY <1>1, <2>1, <2>3
    <3>2. Len(inbox[s]) \in Nat
      BY <1>1
    <3>3. \A i \in 1..Len(inbox'[s]) : i \in 1..Len(inbox[s]) \/ i = Len(inbox[s]) + 1
      BY <3>1, <3>2
    <3>4. \A x : Says(s, x)' => Says(s, x) \/ x = y
      BY <3>1, <3>3 DEF Says
    <3>5. Len(inbox'[s]) <= MaxQueue
      BY <2>1, <2>3, <3>1, <3>2
    <3> QED
      BY <1>3, <2>3, <3>4, <3>5
  <2> QED
    BY <2>2, <2>3
<1> QED
  BY <1>2, <1>3

LEMMA GoneSays ==
  ASSUME BackendOK, NEW s \in Sessions, Gone(s)
  PROVE  \A q \in Sessions :
           /\ \A x : Says(q, x)' => Says(q, x) \/ x = "disconnected"
           /\ Len(inbox[q]) <= MaxQueue => Len(inbox'[q]) <= MaxQueue
<1>1. PICK last \in {<<>>, <<"disconnected">>} : Report(s, "gone", last)
  BY DEF Gone
<1> QED
  BY <1>1, ReportSays DEF Statuses

LEMMA ReceiveSays ==
  ASSUME BackendOK, NEW s \in Sessions, NEW x, Receive(s, x)
  PROVE  /\ Says(s, x)
         /\ \A q \in Sessions :
              /\ \A y : Says(q, y)' => Says(q, y)
              /\ Len(inbox[q]) <= MaxQueue => Len(inbox'[q]) <= MaxQueue
<1>1. inbox[s] \in Seq(Statuses) /\ inbox[s] # <<>> /\ Head(inbox[s]) = x
  BY DEF Receive, BackendOK
<1>2. inbox' = [inbox EXCEPT ![s] = Tail(inbox[s])]
  BY DEF Receive
<1>3. /\ Len(inbox[s]) \in Nat \ {0} /\ inbox[s][1] = x
      /\ Len(Tail(inbox[s])) = Len(inbox[s]) - 1
      /\ \A i \in 1..Len(inbox[s]) - 1 : Tail(inbox[s])[i] = inbox[s][i + 1]
  BY <1>1
<1>4. Says(s, x)
  BY <1>3 DEF Says
<1>5. ASSUME NEW q \in Sessions
      PROVE  /\ \A y : Says(q, y)' => Says(q, y)
             /\ Len(inbox[q]) <= MaxQueue => Len(inbox'[q]) <= MaxQueue
  <2>1. CASE q # s
    <3>1. inbox'[q] = inbox[q]
      BY <1>2, <2>1 DEF BackendOK
    <3> QED
      BY <3>1 DEF Says
  <2>2. CASE q = s
    <3>1. inbox'[s] = Tail(inbox[s])
      BY <1>2 DEF BackendOK
    <3>2. \A y : Says(s, y)' => Says(s, y)
      <4> SUFFICES ASSUME NEW y, NEW i \in 1..Len(inbox'[s]), inbox'[s][i] = y PROVE Says(s, y)
        BY DEF Says
      <4>1. i \in 1..Len(inbox[s]) - 1 /\ i + 1 \in 1..Len(inbox[s])
        BY <1>3, <3>1
      <4>2. inbox[s][i + 1] = y
        BY <1>3, <3>1, <4>1
      <4> QED
        BY <4>1, <4>2 DEF Says
    <3>3. Len(inbox[s]) <= MaxQueue => Len(inbox'[s]) <= MaxQueue
      BY <1>3, <3>1, BoundAssumption
    <3> QED
      BY <2>2, <3>2, <3>3
  <2> QED
    BY <2>1, <2>2
<1> QED
  BY <1>4, <1>5

\* Nothing in this instance tells the GUI of an error or takes its service away.
NoErrors == Events \cap {"killed", "connfail", "lost"} = {}

\* What openvpn3 then says, and that the user alone announces a pause.
LEMMA Openvpn3Says ==
  ASSUME NoErrors, TypeInv, NEW s \in Sessions, Openvpn3(s)
  PROVE  \A q \in Sessions :
           /\ \A x \in {"paused", "failed"} : Says(q, x)' => Says(q, x)
           /\ Len(inbox[q]) <= MaxQueue => Len(inbox'[q]) <= MaxQueue
<1> USE DEF TypeInv
<1>1. \/ Gone(s) \/ Report(s, "connected", <<"connected">>)
      \/ Report(s, "connecting", <<"connecting">>) \/ Report(s, "failed", <<"authfail">>)
  BY DEF NoErrors, Openvpn3, Connects, Reconnecting, AuthFails, ConnFails, Killed, Drops, Outside
<1>2. ASSUME NEW state, NEW y \in {"connected", "connecting", "authfail"}, Report(s, state, <<y>>)
      PROVE  \A q \in Sessions :
               /\ \A x \in {"paused", "failed"} : Says(q, x)' => Says(q, x)
               /\ Len(inbox[q]) <= MaxQueue => Len(inbox'[q]) <= MaxQueue
  BY <1>2, ReportSays DEF Statuses
<1> QED
  BY <1>1, <1>2, GoneSays

LEMMA AskedInductive ==
  ASSUME NoErrors, TypeInv, Asked, [Next]_vars
  PROVE  Asked'
<1>1. CASE (\E s \in Sessions : Openvpn3(s))
  <2>1. PICK s \in Sessions : Openvpn3(s)
    BY <1>1
  <2>2. UNCHANGED <<userDisc, asked, job>>
    BY <2>1, Openvpn3Types DEF marks, ui, choice
  <2> QED
    BY <2>1, <2>2, Openvpn3Says DEF Asked
<1>2. ASSUME NEW s \in Sessions, Status(s) PROVE Asked'
  <2>1. PICK x : Receive(s, x) /\ (StatusPaused(s) => x = "paused")
    BY <1>2 DEF Status, StatusConnecting, StatusConnected, StatusPaused, StatusDisconnected,
                StatusAuthFailed, StatusFailed
  <2>2. /\ Says(s, x) /\ Head(inbox[s]) = x
        /\ \A q \in Sessions :
             /\ \A y : Says(q, y)' => Says(q, y)
             /\ Len(inbox[q]) <= MaxQueue => Len(inbox'[q]) <= MaxQueue
    BY <2>1, ReceiveSays DEF TypeInv, Receive
  <2>3. UNCHANGED userDisc /\ (asked => asked')
    BY <1>2 DEF Status, StatusConnecting, StatusConnected, StatusPaused, StatusDisconnected,
                StatusAuthFailed, StatusFailed, MarkSwap, marks
  <2>4. \A f \in Slots :
          /\ job'[f].kind \in {"pause", "release", "drop"} => asked'
          /\ job'[f].kind # "lost"
    <3>1. CASE UNCHANGED job
      BY <2>3, <3>1 DEF Asked
    <3>2. ASSUME NEW j \in Futures, Spawn(j), j.kind \notin {"release", "lost"},
                 j.kind \in {"pause", "drop"} => asked'
          PROVE  \A f \in Slots :
                   /\ job'[f].kind \in {"pause", "release", "drop"} => asked'
                   /\ job'[f].kind # "lost"
      BY <2>3, <3>2, SpawnOne DEF Asked, TypeInv
    <3>3. /\ StatusPaused(s) => asked'
          /\ Head(inbox[s]) # "failed"
      BY <2>1, <2>2, <2>3 DEF Asked
    <3> QED
      BY <1>2, <3>1, <3>2, <3>3, StatusFuture, ConfigAssumption DEF Future, Futures, Kinds, Steps
  <2> QED
    BY <2>2, <2>3, <2>4 DEF Asked
<1>3. CASE (\E s \in Sessions : EntryStep(s)) \/ UNCHANGED vars
  <2>1. UNCHANGED <<userDisc, asked, job, inbox>>
    BY <1>3, EntryTypes DEF vars, backend, marks, ui, choice
  <2> QED
    BY <2>1 DEF Asked, Says
<1>4. ASSUME NEW s \in Sessions, SessDestroyed(s) PROVE Asked'
  <2>1. UNCHANGED <<asked, inbox>> /\ userDisc' \subseteq userDisc
    BY <1>4 DEF SessDestroyed
  <2>2. \A f \in Slots :
          /\ job'[f].kind \in {"pause", "release", "drop"} => asked'
          /\ job'[f].kind # "lost"
    <3>1. CASE UNCHANGED job
      BY <2>1, <3>1 DEF Asked
    <3>2. ASSUME NEW j \in Futures, Spawn(j), j.kind \in {"release", "rebind", "auto"},
                 j.kind = "release" => asked
          PROVE  \A f \in Slots :
                   /\ job'[f].kind \in {"pause", "release", "drop"} => asked'
                   /\ job'[f].kind # "lost"
      BY <2>1, <3>2, SpawnOne DEF Asked, TypeInv
    <3>3. s \in userDisc => asked
      BY DEF Asked
    <3>4. Survivors(s) \subseteq Sessions
      BY DEF Survivors, Connected
    <3> QED
      BY <1>4, <3>1, <3>2, <3>3, <3>4, DestroyedFuture, ConfigAssumption
      DEF Future, Futures, Kinds, Steps
  <2> QED
    BY <2>1, <2>2 DEF Asked, Says
<1>5. ASSUME User PROVE Asked'
  <2>1. (asked => asked') /\ (userDisc' \subseteq userDisc \/ asked')
    BY <1>5 DEF User, Connect, Reconnect, Disconnect, Pause, ResumeOrRestart, PromptReconnect,
                PromptDismiss, Toggle, marks, ui, choice
  <2>2. \A q \in Sessions :
          /\ Says(q, "paused")' => Says(q, "paused") \/ asked'
          /\ Says(q, "failed")' => Says(q, "failed")
          /\ Len(inbox[q]) <= MaxQueue => Len(inbox'[q]) <= MaxQueue
    <3>1. CASE UNCHANGED inbox
      BY <3>1 DEF Says
    <3>2. ASSUME NEW s \in Sessions, Pause(s) \/ ResumeOrRestart(s)
          PROVE  \A q \in Sessions :
                   /\ Says(q, "paused")' => Says(q, "paused") \/ asked'
                   /\ Says(q, "failed")' => Says(q, "failed")
                   /\ Len(inbox[q]) <= MaxQueue => Len(inbox'[q]) <= MaxQueue
      <4>1. PICK state \in {"paused", "connecting"}, y \in {"paused", "connecting"} :
              Report(s, state, <<y>>) /\ (y = "paused" => asked')
        BY <3>2 DEF Pause, ResumeOrRestart
      <4> QED
        BY <4>1, ReportSays DEF TypeInv, Statuses
    <3>3. UNCHANGED inbox \/ \E s \in Sessions : Pause(s) \/ ResumeOrRestart(s)
      BY <1>5 DEF User, Connect, Reconnect, Disconnect, PromptReconnect, PromptDismiss, Toggle,
                  backend
    <3> QED
      BY <3>1, <3>2, <3>3
  <2>3. \A f \in Slots :
          /\ job'[f].kind \in {"pause", "release", "drop"} => asked'
          /\ job'[f].kind # "lost"
    <3>1. CASE UNCHANGED job
      BY <2>1, <3>1 DEF Asked
    <3>2. ASSUME NEW j \in Futures, Spawn(j), j.kind \notin {"pause", "drop", "lost"},
                 j.kind = "release" => asked'
          PROVE  \A f \in Slots :
                   /\ job'[f].kind \in {"pause", "release", "drop"} => asked'
                   /\ job'[f].kind # "lost"
      BY <2>1, <3>2, SpawnOne DEF Asked, TypeInv
    <3>3. \A first \in ApplyAll(Connected) : first \in Futures /\ first.kind \in {"none", "all"}
      <4>1. Connected \in SUBSET Sessions
        BY DEF Connected
      <4> QED
        BY <4>1, ApplyAllTypes
    <3> QED
      BY <1>5, <3>1, <3>2, <3>3, UserFuture DEF Future, Futures, Kinds, Steps
  <2> QED
    BY <2>1, <2>2, <2>3 DEF Asked
<1>6. ~ServiceLost
  BY DEF ServiceLost, NoErrors
<1>7. ASSUME NEW f \in Slots, Run(f) PROVE Asked'
  <2>1. \A g \in Slots : job'[g].kind = job[g].kind \/ job'[g].kind = "none"
    BY <1>7, RunContinues, NoFutureFields DEF Continues, TypeInv, JobsOK
  <2>2. CASE HelperAdds(f)
    <3>1. UNCHANGED <<userDisc, inbox>> /\ (asked' = asked \/ asked' = (asked /\ Pending))
      BY <2>2 DEF HelperAdds, marks, backend
    <3>2. \/ userDisc # {}
          \/ \E s \in Sessions : Says(s, "paused")
          \/ \E g \in Slots : job[g].kind \in {"pause", "release", "drop"}
          => Pending
      <4>1. ASSUME NEW s \in Sessions, Says(s, "paused") PROVE Pending
        <5>1. PICK i \in 1..Len(inbox[s]) : inbox[s][i] = "paused"
          BY <4>1 DEF Says
        <5>2. Len(inbox[s]) \in Nat /\ Len(inbox[s]) <= MaxQueue
          BY DEF Asked, TypeInv, BackendOK
        <5>3. i \in 1..MaxQueue /\ i <= Len(inbox[s])
          BY <5>1, <5>2, BoundAssumption
        <5> QED
          BY <5>1, <5>3 DEF Pending
      <4> QED
        BY <4>1 DEF Pending
    <3> QED
      BY <2>1, <3>1, <3>2 DEF Asked, Says
  <2>3. CASE MarkDropped(f)
    <3>1. job[f].kind = "drop"
      BY <2>3 DEF MarkDropped, At, TypeInv, JobsOK, WellFormed
    <3>2. asked /\ UNCHANGED <<asked, inbox>>
      BY <2>3, <3>1 DEF MarkDropped, Asked, ui, choice, backend
    <3> QED
      BY <2>1, <3>2 DEF Asked, Says
  <2>4. CASE DisconnectCall(f)
    <3>1. UNCHANGED <<userDisc, asked>>
      BY <2>4 DEF DisconnectCall, marks, ui, choice
    <3>2. job[f].session \in Sessions
      BY <2>4 DEF DisconnectCall, At, TypeInv, JobsOK, WellFormed
    <3>3. UNCHANGED inbox \/ Gone(job[f].session)
      BY <2>4 DEF DisconnectCall
    <3>4. \A q \in Sessions :
            /\ \A x \in {"paused", "failed"} : Says(q, x)' => Says(q, x)
            /\ Len(inbox[q]) <= MaxQueue => Len(inbox'[q]) <= MaxQueue
      BY <3>2, <3>3, GoneSays DEF TypeInv, Says
    <3> QED
      BY <2>1, <3>1, <3>4 DEF Asked
  <2>5. CASE ~(HelperAdds(f) \/ MarkDropped(f) \/ DisconnectCall(f))
    <3>1. UNCHANGED <<userDisc, asked, inbox>>
      BY <1>7, <2>5 DEF Run, Query, AddReturned, HelperRemoves, RemoveReturned, PauseSnapshot,
                        Retain, TunnelFailed, TunnelCreated, marks, ui, choice, backend
    <3> QED
      BY <2>1, <3>1 DEF Asked, Says
  <2> QED
    BY <2>2, <2>3, <2>4, <2>5
<1> QED
  BY <1>1, <1>2, <1>3, <1>4, <1>5, <1>6, <1>7, NextCases

LEMMA AskedInitially == Init => Asked
<1> SUFFICES ASSUME Init PROVE Asked
  OBVIOUS
<1>1. userDisc = {} /\ inbox = [s \in Sessions |-> <<>>]
  BY DEF Init
<1>2. \A s \in Sessions : Len(inbox[s]) = 0
  BY <1>1
<1>3. \A f \in Slots : job[f].kind \in {"none", "all"}
  <2>1. (IF enabled THEN Connected ELSE {}) \in SUBSET Sessions
    BY DEF Connected
  <2> QED
    BY <2>1, InitOne, ApplyAllTypes, NoFutureFields
<1> QED
  BY <1>1, <1>2, <1>3, BoundAssumption DEF Asked, Says

(***************************************************************************)
(* Where no tunnel dies of an error and the session manager stays, the     *)
(* firewall goes only after the user did something that lets it go, or     *)
(* when a rebind had nothing to bind to: drops, refused passwords and      *)
(* auto-reconnects do not open it, with any number of sessions and futures *)
(* in any order.                                                           *)
(***************************************************************************)
THEOREM OnlyTheUserLetsGo ==
  ASSUME NoErrors
  PROVE  Spec => NeverReleasedUnasked
<1>1. Init => TypeInv /\ Asked
  BY InitTypes, AskedInitially
<1>2. TypeInv /\ Asked /\ [Next]_vars => (TypeInv /\ Asked)'
  BY TypeInductive, AskedInductive
<1>3. TypeInv /\ Asked /\ [Next]_vars => [table # None /\ table' = None => asked \/ FellBack]_vars
  <2> SUFFICES ASSUME TypeInv, Asked, [Next]_vars, table # None, table' = None
               PROVE  asked \/ FellBack
    OBVIOUS
  <2>1. PICK f \in Slots : Run(f)
    BY NextCases, Openvpn3Types, StatusTypes, EntryTypes, DestroyedTypes, UserTypes, LostTypes
    DEF vars
  <2>2. WellFormed(job[f])
    BY DEF TypeInv, JobsOK
  <2>3. CASE HelperRemoves(f)
    <3>1. At(f, "removing") /\ job[f].kind \in {"release", "pause", "rebind"}
      BY <2>2, <2>3 DEF HelperRemoves, At, WellFormed, Asked
    <3>2. job[f].kind = "rebind" => job[f].target # None
      BY <2>2, NoneAssumption DEF WellFormed
    <3> QED
      BY <3>1, <3>2 DEF Asked, FellBack
  <2>4. CASE HelperAdds(f)
    BY <2>2, <2>4, NoneAssumption DEF HelperAdds, At, WellFormed
  <2>5. CASE AddReturned(f) \/ RemoveReturned(f)
    BY <2>5 DEF AddReturned, RemoveReturned
  <2>6. CASE ~TableStep(f)
    BY <2>1, <2>6, OtherRun
  <2> QED
    BY <2>3, <2>4, <2>5, <2>6 DEF TableStep
<1> QED
  BY <1>1, <1>2, <1>3, PTL DEF Spec, NeverReleasedUnasked

---------------------------------------------------------------------------
(* The table is not left bound to a session that is gone or paused *)

\* All sessions end by the user's Disconnect, or the GUI's, and AddRules works.
Orderly == Events \cap {"drop", "killed", "lost", "authfail", "addfail", "removefail"} = {}

LEMMA ReportAnnounces ==
  ASSUME BackendOK, NEW s \in Sessions, NEW state, NEW statuses, Report(s, state, statuses),
         state = "paused" => statuses = <<"paused">>
  PROVE  \A q \in Sessions :
           /\ Announced(q) => Announced(q)'
           /\ inbox'[q] # <<>> /\ live'[q] = "paused" =>
                Last(q)' = "paused" \/ (inbox[q] # <<>> /\ live[q] = "paused" /\ Last(q)' = Last(q))
           /\ live'[q] = "gone" => live[q] = "gone" \/ (q = s /\ state = "gone")
<1> SUFFICES ASSUME NEW q \in Sessions
             PROVE  /\ Announced(q) => Announced(q)'
                    /\ inbox'[q] # <<>> /\ live'[q] = "paused" =>
                         \/ Last(q)' = "paused"
                         \/ inbox[q] # <<>> /\ live[q] = "paused" /\ Last(q)' = Last(q)
                    /\ live'[q] = "gone" => live[q] = "gone" \/ (q = s /\ state = "gone")
  OBVIOUS
<1>1. CASE q # s
  <2>1. inbox'[q] = inbox[q] /\ live'[q] = live[q]
    BY <1>1 DEF Report, BackendOK
  <2> QED
    BY <1>1, <2>1 DEF Announced, Last
<1>2. CASE q = s
  <2>1. live'[s] = state /\ inbox'[s] = inbox[s] \o statuses
    BY DEF Report, BackendOK
  <2>2. CASE state # "paused"
    BY <1>2, <2>1, <2>2 DEF Announced
  <2>3. CASE state = "paused"
    <3>1. inbox[s] \in Seq(Statuses) /\ inbox'[s] = inbox[s] \o <<"paused">>
      BY <2>1, <2>3 DEF BackendOK
    <3>2. "paused" \in Statuses
      BY DEF Statuses
    <3>3. inbox'[s] # <<>> /\ inbox'[s][Len(inbox'[s])] = "paused"
      BY <3>1, <3>2
    <3> QED
      BY <1>2, <2>1, <2>3, <3>3 DEF Announced, Last
  <2> QED
    BY <2>2, <2>3
<1> QED
  BY <1>1, <1>2

LEMMA ReceiveAnnounces ==
  ASSUME BackendOK, Signalled, NEW s \in Sessions, NEW x, Receive(s, x)
  PROVE  /\ x # "paused" => Announced(s)'
         /\ \A q \in Sessions \ {s} : Announced(q)' <=> Announced(q)
         /\ Signalled'
<1>1. inbox[s] \in Seq(Statuses) /\ inbox[s] # <<>> /\ Head(inbox[s]) = x
  BY DEF Receive, BackendOK
<1>2. inbox'[s] = Tail(inbox[s]) /\ live' = live
  BY DEF Receive, BackendOK
<1>3. \A q \in Sessions \ {s} : inbox'[q] = inbox[q]
  BY DEF Receive, BackendOK
<1>4. Tail(inbox[s]) # <<>> => Tail(inbox[s])[Len(Tail(inbox[s]))] = inbox[s][Len(inbox[s])]
  BY <1>1
<1>5. Tail(inbox[s]) = <<>> => inbox[s][Len(inbox[s])] = x
  <2>1. Len(Tail(inbox[s])) = Len(inbox[s]) - 1 /\ Len(inbox[s]) \in Nat /\ inbox[s][1] = x
    BY <1>1
  <2>2. ASSUME Tail(inbox[s]) = <<>> PROVE Len(inbox[s]) = 1
    <3>1. Len(<<>>) = 0
      OBVIOUS
    <3>2. Len(Tail(inbox[s])) = 0
      BY <2>2, <3>1, Zenon
    <3> QED
      BY <2>1, <3>2
  <2> QED
    BY <2>1, <2>2
<1>6. x # "paused" => Announced(s)'
  BY <1>1, <1>2, <1>5 DEF Announced, Signalled, Last
<1>7. \A q \in Sessions \ {s} : Announced(q)' <=> Announced(q)
  BY <1>2, <1>3 DEF Announced
<1>8. Signalled'
  BY <1>1, <1>2, <1>3, <1>4, ReceiveSays DEF Signalled, Last
<1> QED
  BY <1>6, <1>7, <1>8

\* A step that handles no status silences no session.
Unheard ==
  \/ \E s \in Sessions : Openvpn3(s) \/ EntryStep(s) \/ SessDestroyed(s)
  \/ \E f \in Slots : Run(f)
  \/ User \/ UNCHANGED vars

\* What such a step does to live and inbox, if anything.
LEMMA UnheardReports ==
  ASSUME Orderly, TypeInv, Unheard
  PROVE  \/ UNCHANGED <<live, inbox>>
         \/ \E s \in Sessions : live[s] = "unborn" /\ UNCHANGED inbox
                               /\ live' = [live EXCEPT ![s] = "connecting"]
         \/ \E s \in Sessions : Pause(s) /\ Report(s, "paused", <<"paused">>)
         \/ \E s \in Sessions, y \in {"connected", "connecting", "failed"} :
              Report(s, y, <<y>>)
         \/ \E f \in Slots : At(f, "disconnect") /\ Run(f) /\ Gone(job[f].session)
<1>1. ASSUME NEW s \in Sessions, Openvpn3(s)
      PROVE  \E y \in {"connected", "connecting", "failed"} : Report(s, y, <<y>>)
  BY <1>1 DEF Openvpn3, Orderly, Connects, Reconnecting, AuthFails, ConnFails, Killed, Drops, Outside
<1>2. ASSUME NEW s \in Sessions, EntryStep(s) \/ SessDestroyed(s) PROVE UNCHANGED <<live, inbox>>
  BY <1>2, EntryTypes, DestroyedTypes
<1>3. ASSUME User
      PROVE  \/ UNCHANGED <<live, inbox>>
             \/ \E s \in Sessions : Pause(s) /\ Report(s, "paused", <<"paused">>)
             \/ \E s \in Sessions : Report(s, "connecting", <<"connecting">>)
  BY <1>3 DEF User, Connect, Reconnect, Disconnect, Pause, ResumeOrRestart, PromptReconnect,
              PromptDismiss, Toggle, backend
<1>4. ASSUME NEW f \in Slots, Run(f)
      PROVE  \/ UNCHANGED <<live, inbox>>
             \/ \E s \in Sessions : live[s] = "unborn" /\ UNCHANGED inbox
                                   /\ live' = [live EXCEPT ![s] = "connecting"]
             \/ At(f, "disconnect") /\ Gone(job[f].session)
  BY <1>4 DEF Run, Query, HelperAdds, AddReturned, HelperRemoves, RemoveReturned, PauseSnapshot,
              MarkDropped, DisconnectCall, Retain, TunnelFailed, TunnelCreated, backend
<1> QED
  BY <1>1, <1>2, <1>3, <1>4 DEF Unheard, vars, backend

LEMMA UnheardAnnounces ==
  ASSUME Orderly, TypeInv, Unheard
  PROVE  /\ \A q \in Sessions :
              /\ Announced(q) => Announced(q)'
              /\ live'[q] = "gone" => live[q] = "gone" \/ q \in destroyed'
         /\ Signalled => Signalled'
<1> USE DEF TypeInv
<1>1. CASE UNCHANGED <<live, inbox>>
  BY <1>1 DEF Announced, Signalled, Last, Says
<1>2. ASSUME NEW s \in Sessions, live[s] = "unborn", UNCHANGED inbox,
             live' = [live EXCEPT ![s] = "connecting"]
      PROVE  /\ \A q \in Sessions :
                  /\ Announced(q) => Announced(q)'
                  /\ live'[q] = "gone" => live[q] = "gone" \/ q \in destroyed'
             /\ Signalled => Signalled'
  BY <1>2 DEF Announced, Signalled, Last, Says, BackendOK
<1>3. ASSUME NEW s \in Sessions, NEW y \in {"connected", "connecting", "failed", "paused"},
             Report(s, y, <<y>>)
      PROVE  /\ \A q \in Sessions :
                  /\ Announced(q) => Announced(q)'
                  /\ live'[q] = "gone" => live[q] = "gone" \/ q \in destroyed'
             /\ Signalled => Signalled'
  <2>1. y \in Statuses /\ y # "authfail" /\ y # "gone"
    BY DEF Statuses
  <2> QED
    BY <1>3, <2>1, ReportAnnounces, ReportSays DEF Signalled
<1>4. ASSUME NEW f \in Slots, At(f, "disconnect"), Gone(job[f].session)
      PROVE  /\ \A q \in Sessions :
                  /\ Announced(q) => Announced(q)'
                  /\ live'[q] = "gone" => live[q] = "gone" \/ q \in destroyed'
             /\ Signalled => Signalled'
  <2>1. job[f].session \in Sessions
    BY <1>4 DEF At, JobsOK, WellFormed
  <2>2. PICK last \in {<<>>, <<"disconnected">>} : Report(job[f].session, "gone", last)
    BY <1>4 DEF Gone
  <2>3. "disconnected" \in Statuses
    BY DEF Statuses
  <2>4. job[f].session \in destroyed'
    BY <1>4 DEF Gone
  <2>5. \A q \in Sessions :
          /\ Announced(q) => Announced(q)'
          /\ inbox'[q] # <<>> /\ live'[q] = "paused" =>
               Last(q)' = "paused" \/ (inbox[q] # <<>> /\ live[q] = "paused" /\ Last(q)' = Last(q))
          /\ live'[q] = "gone" => live[q] = "gone" \/ q = job[f].session
    BY <2>1, <2>2, ReportAnnounces
  <2>6. \A q \in Sessions : Says(q, "authfail")' => Says(q, "authfail")
    BY <2>1, <1>4, GoneSays
  <2> QED
    BY <2>4, <2>5, <2>6 DEF Signalled
<1> QED
  BY <1>1, <1>2, <1>3, <1>4, UnheardReports

\* No other step than its status shows a session as connected that is not.
LEMMA UnheardShows ==
  ASSUME TypeInv, ~ServiceLost, Unheard, NEW q \in Sessions, tray'[q] = "connected"
  PROVE  tray[q] = "connected" \/ (live[q] = "connected" /\ UNCHANGED live)
<1> USE DEF TypeInv, EntriesOK
<1>1. ASSUME NEW s \in Sessions, EntryStep(s)
      PROVE  tray[q] = "connected" \/ (live[q] = "connected" /\ UNCHANGED live)
  BY <1>1 DEF EntryStep, Backfill, SessCreated, Fade, Remove
<1>2. ASSUME NEW f \in Slots, Run(f) PROVE tray[q] = "connected"
  <2>1. \/ UNCHANGED tray \/ (\E gone : Remove(gone))
        \/ \E s \in Sessions : Insert(s, "connecting")
    BY <1>2 DEF Run, Query, HelperAdds, AddReturned, HelperRemoves, RemoveReturned, PauseSnapshot,
                MarkDropped, DisconnectCall, Retain, TunnelFailed, TunnelCreated, entries
  <2> QED
    BY <2>1 DEF Remove, Insert
<1>3. (\E s \in Sessions : Openvpn3(s) \/ SessDestroyed(s)) \/ User \/ UNCHANGED vars
      => UNCHANGED tray
  BY Openvpn3Types, DestroyedTypes, UserTypes DEF vars, entries
<1> QED
  BY <1>1, <1>2, <1>3 DEF Unheard

LEMMA StepIsHeardOrNot ==
  ASSUME Orderly, [Next]_vars
  PROVE  ~ServiceLost /\ (Unheard \/ \E s \in Sessions : Status(s))
  BY NextCases DEF Unheard, Orderly, ServiceLost

\* The status that a handler is about, and what it shows.
LEMMA StatusHeard ==
  ASSUME TypeInv, Signalled, NEW s \in Sessions, Status(s)
  PROVE  \E x \in Statuses \ {"authfail"} :
           /\ Receive(s, x) /\ Says(s, x)
           /\ StatusPaused(s) <=> x = "paused"
           /\ StatusConnected(s) <=> x = "connected"
           /\ ~StatusAuthFailed(s)
           /\ \A q \in Sessions :
                tray'[q] = "connected" => x = "connected" \/ (q # s /\ tray[q] = "connected")
<1>1. ASSUME NEW x \in Statuses, Receive(s, x)
      PROVE  Head(inbox[s]) = x /\ Says(s, x) /\ x # "authfail"
  BY <1>1, ReceiveSays DEF TypeInv, Receive, Signalled
<1>2. \A y, z : Receive(s, y) /\ Receive(s, z) => y = z
  BY DEF Receive
<1> USE <1>1, <1>2 DEF Statuses, TypeInv, EntriesOK, Upsert, UpdateIfPresent
<1>3. CASE StatusConnecting(s)
  BY <1>3 DEF StatusConnecting, StatusPaused, StatusConnected, StatusAuthFailed
<1>4. CASE StatusConnected(s)
  BY <1>4 DEF StatusPaused, StatusConnected, StatusAuthFailed
<1>5. CASE StatusPaused(s)
  BY <1>5 DEF StatusPaused, StatusConnected, StatusAuthFailed
<1>6. CASE StatusDisconnected(s)
  BY <1>6 DEF StatusDisconnected, StatusPaused, StatusConnected, StatusAuthFailed
<1>7. CASE StatusFailed(s)
  BY <1>7 DEF StatusFailed, StatusPaused, StatusConnected, StatusAuthFailed
<1>8. CASE StatusAuthFailed(s)
  BY <1>8 DEF StatusAuthFailed
<1> QED
  BY <1>3, <1>4, <1>5, <1>6, <1>7, <1>8 DEF Status

LEMMA ShownInductive ==
  ASSUME Orderly, TypeInv, Signalled, Shown, [Next]_vars
  PROVE  Shown' /\ Signalled'
<1>1. CASE Unheard
  BY <1>1, UnheardShows, UnheardAnnounces, StepIsHeardOrNot DEF Shown, Announced
<1>2. ASSUME NEW s \in Sessions, Status(s) PROVE Shown' /\ Signalled'
  <2>1. PICK x \in Statuses \ {"authfail"} :
          /\ Receive(s, x)
          /\ \A q \in Sessions :
               tray'[q] = "connected" => x = "connected" \/ (q # s /\ tray[q] = "connected")
    BY <1>2, StatusHeard
  <2>2. /\ x # "paused" => Announced(s)'
        /\ \A q \in Sessions \ {s} : Announced(q)' <=> Announced(q)
        /\ Signalled'
    BY <2>1, ReceiveAnnounces DEF TypeInv
  <2>3. \A q \in Sessions \ {s} : tray'[q] = tray[q]
    BY <1>2 DEF Status, StatusConnecting, StatusConnected, StatusPaused, StatusDisconnected,
                StatusAuthFailed, StatusFailed, Upsert, UpdateIfPresent, TypeInv, EntriesOK
  <2> QED
    BY <2>1, <2>2, <2>3 DEF Shown
<1> QED
  BY <1>1, <1>2, StepIsHeardOrNot

\* Where a future goes from where it is.
Moves ==
  {<<"query", "adding">>, <<"query", "query">>, <<"query", "removing">>, <<"adding", "added">>,
   <<"added", "query">>, <<"removing", "removed">>, <<"snapshot", "removing">>,
   <<"snapshot", "query">>, <<"mark", "disconnect">>, <<"disconnect", "retain">>,
   <<"retain", "tunnel">>}

LEMMA RunMoves ==
  ASSUME TypeInv, NEW f \in Slots, Run(f)
  PROVE  /\ \A g \in Slots \ {f} : job'[g] = job[g]
         /\ \/ /\ job'[f] = NoFuture
               /\ job[f].kind \in {"pause", "rebind"} => job[f].step \notin {"snapshot", "query", "adding"}
            \/ /\ job'[f].kind = job[f].kind /\ job'[f].session = job[f].session
               /\ <<job[f].step, job'[f].step>> \in Moves
               /\ job'[f].step = "adding" => live[job[f].target] # "gone" /\ UNCHANGED live
               /\ \/ /\ job'[f].target = job[f].target /\ job'[f].rest = job[f].rest
                     /\ job[f].step = "snapshot" => job'[f].step = "removing"
                  \/ /\ job'[f].rest \subseteq job[f].rest /\ job'[f].target \in job[f].rest
                     /\ job[f].kind = "all" /\ job[f].step \in {"query", "added"}
                     /\ job'[f].step = "query"
                  \/ /\ At(f, "snapshot") /\ job'[f].step = "query"
                     /\ job'[f].rest = job[f].rest
                     /\ job'[f].target \in Survivors(job[f].session)
<1> USE DEF TypeInv, JobsOK, Futures, At, Goto, End
<1>1. PICK j : Continues(f, j)
  BY RunContinues
<1>2. \A g \in Slots \ {f} : job'[g] = job[g]
  BY <1>1 DEF Continues
<1>3. CASE Query(f)
  <2>1. (live[job[f].target] # "gone" /\ Goto(f, "adding")) \/ GiveUp(f)
    BY <1>3 DEF Query
  <2>2. CASE live[job[f].target] # "gone" /\ Goto(f, "adding")
    BY <1>2, <1>3, <2>2 DEF Query, Moves, backend
  <2>3. CASE GiveUp(f)
    <3>1. CASE job[f].kind = "apply" \/ (job[f].kind = "all" /\ job[f].rest = {})
      <4>1. job' = [job EXCEPT ![f] = NoFuture]
        BY <2>3, <3>1 DEF GiveUp
      <4> QED
        BY <1>2, <3>1, <4>1
    <3>2. CASE job[f].kind = "all" /\ job[f].rest # {}
      <4>1. PICK t \in job[f].rest : job' = [job EXCEPT ![f].target = t, ![f].rest = @ \ {t}]
        BY <2>3, <3>2 DEF GiveUp
      <4> QED
        BY <1>2, <1>3, <3>2, <4>1 DEF Moves, Query
    <3>3. CASE job[f].kind \notin {"apply", "all"}
      <4>1. Goto(f, "removing")
        BY <2>3, <3>3 DEF GiveUp
      <4> QED
        BY <1>2, <1>3, <4>1 DEF Moves, Query
    <3> QED
      BY <3>1, <3>2, <3>3
  <2> QED
    BY <2>1, <2>2, <2>3
<1>4. CASE HelperAdds(f) \/ HelperRemoves(f)
  BY <1>2, <1>4 DEF HelperAdds, HelperRemoves, Moves
<1>5. CASE AddReturned(f)
  <2>1. CASE job[f].kind = "all" /\ job[f].rest # {}
    <3>1. PICK t \in job[f].rest :
            job' = [job EXCEPT ![f].target = t, ![f].rest = @ \ {t}, ![f].step = "query"]
      BY <1>5, <2>1 DEF AddReturned
    <3>2. /\ job'[f].kind = job[f].kind /\ job'[f].session = job[f].session
          /\ job'[f].target = t /\ job'[f].rest = job[f].rest \ {t} /\ job'[f].step = "query"
      BY <3>1
    <3>3. job[f].step = "added" /\ <<"added", "query">> \in Moves
      BY <1>5 DEF AddReturned, Moves
    <3> QED
      BY <1>2, <2>1, <3>2, <3>3
  <2>2. CASE ~(job[f].kind = "all" /\ job[f].rest # {})
    BY <1>2, <1>5, <2>2 DEF AddReturned
  <2> QED
    BY <2>1, <2>2
<1>6. CASE PauseSnapshot(f)
  <2>a. /\ job[f].step = "snapshot" /\ <<"snapshot", "query">> \in Moves
        /\ <<"snapshot", "removing">> \in Moves
    BY <1>6 DEF PauseSnapshot, Moves
  <2>1. CASE Goto(f, "removing")
    BY <1>2, <2>a, <2>1
  <2>2. ASSUME NEW t \in Survivors(job[f].session),
               job' = [job EXCEPT ![f].target = t, ![f].step = "query"]
        PROVE  /\ job'[f].kind = job[f].kind /\ job'[f].session = job[f].session
               /\ <<job[f].step, job'[f].step>> \in Moves
               /\ At(f, "snapshot") /\ job'[f].step = "query"
               /\ job'[f].rest = job[f].rest
               /\ job'[f].target \in Survivors(job[f].session)
    BY <2>a, <2>2
  <2> QED
    BY <1>2, <1>6, <2>1, <2>2 DEF PauseSnapshot
<1>7. CASE MarkDropped(f) \/ DisconnectCall(f) \/ Retain(f)
  BY <1>2, <1>7 DEF MarkDropped, DisconnectCall, Retain, Moves
<1>8. CASE RemoveReturned(f) \/ TunnelFailed(f) \/ \E s \in Sessions : TunnelCreated(f, s)
  BY <1>2, <1>8 DEF RemoveReturned, TunnelFailed, TunnelCreated
<1> QED
  BY <1>3, <1>4, <1>5, <1>6, <1>7, <1>8 DEF Run

\* Only SessDestroyed takes a session out of destroyed, and only a future that
\* disconnects one puts it there.
LEMMA DestroyedGrows ==
  ASSUME Orderly, TypeInv, [Next]_vars, \A s \in Sessions : ~SessDestroyed(s)
  PROVE  /\ destroyed \subseteq destroyed'
         /\ \/ UNCHANGED destroyed
            \/ \E f \in Slots : /\ At(f, "disconnect") /\ Run(f)
                                /\ destroyed' = destroyed \cup {job[f].session}
<1>1. ASSUME NEW s \in Sessions, Openvpn3(s) \/ Status(s) \/ EntryStep(s)
      PROVE  UNCHANGED destroyed
  BY <1>1, StatusTypes, EntryTypes
  DEF Orderly, Openvpn3, Connects, Reconnecting, AuthFails, ConnFails, Killed, Drops, Outside
<1>2. CASE User
  BY <1>2 DEF User, Connect, PromptReconnect, PromptDismiss, Reconnect, Disconnect, Pause,
              ResumeOrRestart, Toggle, backend
<1>3. ASSUME NEW f \in Slots, Run(f)
      PROVE  \/ UNCHANGED destroyed
             \/ At(f, "disconnect") /\ destroyed' = destroyed \cup {job[f].session}
  BY <1>3 DEF Run, Query, HelperAdds, AddReturned, HelperRemoves, RemoveReturned, PauseSnapshot,
              MarkDropped, DisconnectCall, Retain, TunnelFailed, TunnelCreated, Gone, backend
<1>4. CASE UNCHANGED vars
  BY <1>4 DEF vars, backend
<1> QED
  BY <1>1, <1>2, <1>3, <1>4, NextCases, StepIsHeardOrNot

LEMMA MarkedInductive ==
  ASSUME Patient, Orderly, TypeInv, Signalled, Marked, [Next]_vars
  PROVE  Marked'
<1> USE DEF At
<1>1. ASSUME NEW s \in Sessions, Status(s) PROVE Marked'
  <2>1. ~StatusAuthFailed(s)
    BY <1>1, StatusHeard
  <2>2. UNCHANGED <<userDisc, authRetry, destroyed>>
    BY <1>1, <2>1, StatusTypes DEF Status, StatusConnecting, StatusConnected, StatusPaused,
                                   StatusDisconnected, StatusFailed, marks
  <2>3. ASSUME NEW j \in Futures, Spawn(j), j.kind # "retry", j.step # "disconnect"
        PROVE  Marked'
    BY <2>2, <2>3, SpawnOne DEF Marked, TypeInv
  <2>4. CASE UNCHANGED job
    BY <2>2, <2>4 DEF Marked
  <2> QED
    BY <1>1, <2>1, <2>3, <2>4, StatusFuture DEF Future, Futures, Kinds, Steps
<1>2. ASSUME NEW s \in Sessions, SessDestroyed(s) PROVE Marked'
  <2>1. Idle
    BY <1>2, HandlersWait, FreeIsIdle
  <2>2. authRetry' = {} /\ destroyed' \subseteq userDisc'
    BY <1>2 DEF SessDestroyed, Marked
  <2>3. ASSUME NEW j \in Futures, Spawn(j), j.kind # "retry", j.step # "disconnect"
        PROVE  Marked'
    BY <2>1, <2>2, <2>3, SpawnOne DEF Marked, TypeInv, Idle
  <2>4. Survivors(s) \subseteq Sessions
    BY DEF Survivors, Connected
  <2>5. CASE UNCHANGED job
    BY <2>1, <2>2, <2>5 DEF Marked, Idle
  <2> QED
    BY <1>2, <2>3, <2>4, <2>5, DestroyedFuture, ConfigAssumption DEF Future, Futures, Kinds, Steps
<1>3. CASE (\E s \in Sessions : Openvpn3(s) \/ EntryStep(s)) \/ UNCHANGED vars
  <2>1. UNCHANGED <<job, userDisc, authRetry>>
    BY <1>3, Openvpn3Types, EntryTypes DEF marks, vars
  <2>2. UNCHANGED destroyed
    BY <1>3, EntryTypes DEF vars, backend, Orderly, Openvpn3, Connects, Reconnecting, AuthFails,
                            ConnFails, Killed, Drops, Outside
  <2> QED
    BY <2>1, <2>2 DEF Marked
<1>4. CASE User
  <2>1. UNCHANGED <<authRetry, destroyed>> /\ userDisc \subseteq userDisc'
    BY <1>4 DEF User, Connect, PromptReconnect, PromptDismiss, Reconnect, Disconnect, Pause,
                ResumeOrRestart, Toggle, backend, marks
  <2>2. ASSUME NEW j \in Futures, Spawn(j), j.kind # "retry",
               j.step = "disconnect" => j.session \in userDisc'
        PROVE  Marked'
    BY <2>1, <2>2, SpawnOne DEF Marked, TypeInv
  <2>3. CASE UNCHANGED job
    BY <2>1, <2>3 DEF Marked
  <2>4. Connected \in SUBSET Sessions
    BY DEF Connected
  <2>5. \A first \in ApplyAll(Connected) :
          first \in Futures /\ first.kind # "retry" /\ first.step # "disconnect"
    BY <2>4, ApplyAllTypes
  <2> QED
    BY <1>4, <2>2, <2>3, <2>5, UserFuture DEF Future, Futures, Kinds, Steps
<1>5. ASSUME NEW f \in Slots, Run(f) PROVE Marked'
  <2>a. WellFormed(job[f]) /\ job[f].kind # "retry"
    BY DEF TypeInv, JobsOK, Marked
  <2>1. UNCHANGED authRetry /\ (userDisc \subseteq userDisc')
    BY <1>5 DEF Run, Query, HelperAdds, AddReturned, HelperRemoves, RemoveReturned, PauseSnapshot,
                MarkDropped, DisconnectCall, Retain, TunnelFailed, TunnelCreated, marks
  <2>2. At(f, "mark") => job[f].session \in userDisc'
    BY <1>5 DEF Run, Query, HelperAdds, AddReturned, HelperRemoves, RemoveReturned, PauseSnapshot,
                MarkDropped, DisconnectCall, Retain, TunnelFailed, TunnelCreated
  <2>3. \A g \in Slots :
          job'[g].kind # "retry" /\ (job'[g].step = "disconnect" => job'[g].session \in userDisc')
    <3>1. \A g \in Slots \ {f} : job'[g] = job[g]
      BY <1>5, RunMoves
    <3>2. \/ job'[f] = NoFuture
          \/ /\ job'[f].kind = job[f].kind /\ job'[f].session = job[f].session
             /\ <<job[f].step, job'[f].step>> \in Moves
      BY <1>5, RunMoves
    <3>3. job'[f].step = "disconnect" => job[f].step = "mark" /\ job'[f].session = job[f].session
      BY <3>2, NoFutureFields DEF Moves
    <3> QED
      BY <2>a, <2>1, <2>2, <3>1, <3>2, <3>3, NoFutureFields DEF Marked
  <2>4. destroyed' \subseteq userDisc'
    <3>1. \A s \in Sessions : SessDestroyed(s) => destroyed' \subseteq destroyed
      BY DEF SessDestroyed
    <3>2. \A g \in Slots : At(g, "disconnect") => job[g].session \in userDisc
      BY DEF Marked
    <3> QED
      BY <2>1, <3>1, <3>2, DestroyedGrows DEF Marked
  <2> QED
    BY <2>1, <2>3, <2>4 DEF Marked
<1> QED
  BY <1>1, <1>2, <1>3, <1>4, <1>5, NextCases, StepIsHeardOrNot

\* What Targeted asks of one future.
Counts(j) ==
  /\ j.kind \in {"pause", "rebind"} => j.target # j.session
  /\ j.kind # "all" => j.rest = {}
  /\ j.step \in {"query", "adding", "added"} =>
       \A t \in {j.target} \cup j.rest : Announced(t)
  /\ j.step = "adding" /\ live[j.target] = "gone" => j.target \in destroyed

\* A future that a handler spawns joins futures that need nothing.
LEMMA SpawnCounts ==
  ASSUME TypeInv, Idle, Targeted, NEW j \in Futures, Spawn(j), Counts(j)'
  PROVE  Targeted'
<1>1. PICK f \in Slots : job'[f] = j /\ \A g \in Slots \ {f} : job'[g] = job[g]
  BY SpawnOne DEF TypeInv
<1>2. \A g \in Slots : Counts(job[g])'
  <2> SUFFICES ASSUME NEW g \in Slots PROVE Counts(job[g])'
    OBVIOUS
  <2>1. CASE g = f
    BY <1>1, <2>1 DEF Counts, Announced
  <2>2. CASE g # f
    <3>1. job'[g] = job[g]
      BY <1>1, <2>2
    <3> QED
      BY <3>1 DEF Counts, Targeted, Idle
  <2> QED
    BY <2>1, <2>2
<1> QED
  BY <1>2 DEF Targeted, Counts, At

LEMMA IdleCounts ==
  ASSUME Idle, Targeted, UNCHANGED job
  PROVE  Targeted'
  BY DEF Idle, Targeted, At

LEMMA TargetedInductive ==
  ASSUME Patient, Orderly, TypeInv, Signalled, Shown, Targeted, [Next]_vars
  PROVE  Targeted'
<1>1. ASSUME NEW s \in Sessions, Status(s) PROVE Targeted'
  <2>1. Idle
    BY <1>1, HandlersWait, FreeIsIdle
  <2>2. StatusConnected(s) => Announced(s)'
    <3>1. StatusConnected(s) => Receive(s, "connected")
      BY DEF StatusConnected
    <3> QED
      BY <3>1, ReceiveAnnounces DEF TypeInv
  <2>3. ASSUME NEW j \in Futures, Spawn(j), Counts(j)' PROVE Targeted'
    BY <2>1, <2>3, SpawnCounts
  <2> DEFINE j1 == Future("apply", "query", s, None, s, {})
             j2 == Future("pause", "snapshot", s, None, None, {})
             j3 == Future("retry", "disconnect", s, ConfigOf[s], None, {})
             j4 == Future("drop", "mark", s, None, None, {})
  <2>4. j1 \in Futures /\ j2 \in Futures /\ j3 \in Futures /\ j4 \in Futures
    BY ConfigAssumption DEF Futures, Future, Kinds, Steps
  <2>5. /\ Announced(s)' => Counts(j1)'
        /\ Counts(j2)' /\ Counts(j3)' /\ Counts(j4)'
    BY NoneAssumption DEF Counts, Future
  <2>6. UNCHANGED job \/ (StatusConnected(s) /\ Spawn(j1)) \/ Spawn(j2) \/ Spawn(j3) \/ Spawn(j4)
    BY <1>1, StatusFuture
  <2> HIDE DEF j1, j2, j3, j4
  <2> QED
    BY <2>1, <2>2, <2>3, <2>4, <2>5, <2>6, IdleCounts
<1>2. ASSUME NEW s \in Sessions, SessDestroyed(s) PROVE Targeted'
  <2>1. Idle
    BY <1>2, HandlersWait, FreeIsIdle
  <2>2. ASSUME NEW j \in Futures, Spawn(j), Counts(j)' PROVE Targeted'
    BY <2>1, <2>2, SpawnCounts
  <2>3. Survivors(s) \subseteq Sessions \ {s} /\ \A t \in Survivors(s) : Announced(t)'
    BY <1>2, DestroyedTypes DEF Survivors, Connected, Shown, Announced
  <2> DEFINE j1 == Future("release", "removing", s, None, None, {})
             j2(t) == Future("rebind", "query", s, None, t, {})
             j3 == Future("auto", "retain", None, ConfigOf[s], None, {})
  <2>4. j1 \in Futures /\ j3 \in Futures /\ \A t \in Survivors(s) : j2(t) \in Futures
    BY <2>3, ConfigAssumption DEF Futures, Future, Kinds, Steps
  <2>5. Counts(j1)' /\ Counts(j3)' /\ \A t \in Survivors(s) : Counts(j2(t))'
    BY <2>3 DEF Counts, Future
  <2>6. UNCHANGED job \/ Spawn(j1) \/ (\E t \in Survivors(s) : Spawn(j2(t))) \/ Spawn(j3)
    BY <1>2, DestroyedFuture
  <2> HIDE DEF j1, j2, j3
  <2> QED
    BY <2>1, <2>2, <2>4, <2>5, <2>6, IdleCounts
<1>3. CASE User
  <2>1. Idle
    BY <1>3, HandlersWait, FreeIsIdle
  <2>2. ASSUME NEW j \in Futures, Spawn(j), Counts(j)' PROVE Targeted'
    BY <2>1, <2>2, SpawnCounts
  <2>3. Toggle => \A t \in Connected : Announced(t)'
    BY DEF Toggle, backend, Connected, Shown, Announced
  <2> DEFINE j1(c) == Future("connect", "retain", None, c, None, {})
             j2(s) == Future("disconnect", "disconnect", s, None, None, {})
             j3 == Future("release", "removing", None, None, None, {})
  <2>4. /\ \A c \in Configs : j1(c) \in Futures /\ Counts(j1(c))'
        /\ \A s \in Sessions : j2(s) \in Futures /\ Counts(j2(s))'
        /\ j3 \in Futures /\ Counts(j3)'
    BY DEF Futures, Future, Kinds, Steps, Counts
  <2>5. ASSUME Toggle, NEW first \in ApplyAll(Connected)
        PROVE  first \in Futures /\ Counts(first)'
    <3>1. Connected \in SUBSET Sessions
      BY DEF Connected
    <3>2. first = NoFuture \/ \E t \in Connected :
            first = Future("all", "query", None, None, t, Connected \ {t})
      BY DEF ApplyAll
    <3>3. ASSUME NEW t \in Connected,
                 first = Future("all", "query", None, None, t, Connected \ {t})
          PROVE  Counts(first)'
      BY <2>3, <2>5, <3>3 DEF Future, Counts
    <3>4. Counts(NoFuture)'
      BY NoFutureFields DEF Counts
    <3> QED
      BY <3>1, <3>2, <3>3, <3>4, ApplyAllTypes
  <2>6. \/ UNCHANGED job \/ (\E c \in Configs : Spawn(j1(c)))
        \/ (\E s \in Sessions : Spawn(j2(s))) \/ Spawn(j3)
        \/ Toggle /\ \E first \in ApplyAll(Connected) : Spawn(first)
    BY <1>3, UserFuture
  <2> HIDE DEF j1, j2, j3
  <2> QED
    BY <2>1, <2>2, <2>4, <2>5, <2>6, IdleCounts
<1>4. ASSUME \A q \in Sessions : Announced(q) => Announced(q)',
             \A q \in Sessions : live'[q] = "gone" => live[q] = "gone" \/ q \in destroyed',
             destroyed \subseteq destroyed',
             NEW g \in Slots, job'[g] = job[g]
      PROVE  Counts(job[g])'
  <2>1. job[g] \in Futures /\ WellFormed(job[g]) /\ Counts(job[g])
    BY DEF TypeInv, JobsOK, Targeted, Counts, At
  <2>2. job[g].step \in {"query", "adding", "added"} =>
          job[g].target \in Sessions /\ job[g].rest \subseteq Sessions
    BY <2>1 DEF Futures, WellFormed
  <2> QED
    BY <1>4, <2>1, <2>2 DEF Counts
<1>5. CASE (\E s \in Sessions : Openvpn3(s) \/ EntryStep(s)) \/ UNCHANGED vars
  <2>1. Unheard /\ UNCHANGED job
    BY <1>5, Openvpn3Types, EntryTypes DEF Unheard, vars
  <2>2. destroyed \subseteq destroyed'
    BY <1>5, EntryTypes DEF vars, backend, Orderly, Openvpn3, Connects, Reconnecting, AuthFails,
                            ConnFails, Killed, Drops, Outside
  <2>3. \A g \in Slots : Counts(job[g])'
    BY <1>4, <2>1, <2>2, UnheardAnnounces
  <2> QED
    BY <2>3 DEF Targeted, Counts, At
<1>6. ASSUME NEW f \in Slots, Run(f) PROVE Targeted'
  <2>1. /\ \A q \in Sessions : /\ Announced(q) => Announced(q)'
                               /\ live'[q] = "gone" => live[q] = "gone" \/ q \in destroyed'
        /\ destroyed \subseteq destroyed'
    <3>1. destroyed \subseteq destroyed'
      BY <1>6 DEF Run, Query, HelperAdds, AddReturned, HelperRemoves, RemoveReturned,
                  PauseSnapshot, MarkDropped, DisconnectCall, Retain, TunnelFailed, TunnelCreated,
                  Gone, backend
    <3> QED
      BY <1>6, <3>1, UnheardAnnounces DEF Unheard
  <2>2. \A g \in Slots \ {f} : Counts(job[g])'
    BY <1>4, <1>6, <2>1, RunMoves
  <2>3. Counts(job[f])'
    <3>a. job[f] \in Futures /\ WellFormed(job[f]) /\ Counts(job[f])
      BY DEF TypeInv, JobsOK, Targeted, Counts, At
    <3>1. CASE job'[f] = NoFuture
      BY <3>1, NoFutureFields DEF Counts
    <3>2. CASE /\ job'[f].kind = job[f].kind /\ job'[f].session = job[f].session
               /\ <<job[f].step, job'[f].step>> \in Moves
               /\ job'[f].target = job[f].target /\ job'[f].rest = job[f].rest
               /\ job[f].step = "snapshot" => job'[f].step = "removing"
      <4>1. job[f].step \in {"query", "adding", "added"} =>
              job[f].target \in Sessions /\ job[f].rest \subseteq Sessions
        BY <3>a DEF Futures, WellFormed
      <4>2. job'[f].step = "adding" => live'[job[f].target] # "gone"
        BY <1>6, NoFutureFields, RunMoves
      <4>3. job'[f].step \in {"query", "adding", "added"} =>
              job[f].step \in {"query", "adding", "added"}
        BY <3>2 DEF Moves
      <4> QED
        BY <2>1, <3>a, <3>2, <4>1, <4>2, <4>3 DEF Counts
    <3>3. CASE /\ job'[f].kind = "all" /\ job[f].step \in {"query", "added"}
               /\ job'[f].step = "query"
               /\ job'[f].rest \subseteq job[f].rest /\ job'[f].target \in job[f].rest
      BY <2>1, <3>a, <3>3 DEF Counts, Futures
    <3>4. CASE /\ At(f, "snapshot") /\ job'[f].step = "query" /\ job'[f].rest = job[f].rest
               /\ job'[f].kind = job[f].kind /\ job'[f].session = job[f].session
               /\ job'[f].target \in Survivors(job[f].session)
      <4>1. job'[f].target \in Sessions /\ job'[f].target # job[f].session
            /\ Announced(job'[f].target)
        BY <3>4 DEF Survivors, Connected, Shown
      <4>2. job[f].kind = "pause" /\ job[f].rest = {}
        BY <3>a, <3>4 DEF WellFormed, Counts, At
      <4> QED
        BY <2>1, <3>4, <4>1, <4>2 DEF Counts
    <3> QED
      BY <1>6, <3>1, <3>2, <3>3, <3>4, RunMoves
  <2> QED
    BY <2>2, <2>3 DEF Targeted, Counts, At
<1> QED
  BY <1>1, <1>2, <1>3, <1>5, <1>6, NextCases, StepIsHeardOrNot

\* A future that takes the table from a session goes on until it has done so.
LEMMA LeavingGoesOn ==
  ASSUME TypeInv, NEW f \in Slots, NEW g \in Slots, NEW t \in Sessions, Run(f),
         ~HelperAdds(f), ~HelperRemoves(f), Leaving(g, t)
  PROVE  Leaving(g, t)'
<1> USE DEF Leaving, At
<1>1. CASE g # f
  <2>1. job'[g] = job[g]
    BY <1>1, RunMoves
  <2> QED
    BY <2>1
<1>2. CASE g = f
  <2>1. job[f].step \notin {"removing", "adding"}
    BY DEF Run, Query, AddReturned, RemoveReturned, PauseSnapshot, MarkDropped, DisconnectCall,
           Retain, TunnelFailed, TunnelCreated
  <2>2. /\ job[f].kind \in {"pause", "rebind"} /\ job[f].session = t
        /\ job[f].step \in {"snapshot", "query"}
    BY <1>2, <2>1
  <2>3. /\ job'[f].kind = job[f].kind /\ job'[f].session = job[f].session
        /\ <<job[f].step, job'[f].step>> \in Moves
    BY <2>2, RunMoves
  <2>4. job'[f].step \in {"adding", "query", "removing"}
    BY <2>2, <2>3 DEF Moves
  <2> QED
    BY <1>2, <2>2, <2>3, <2>4
<1> QED
  BY <1>1, <1>2

LEMMA AnchoredInductive ==
  ASSUME Patient, Orderly, ~BlockDuringPause, TypeInv, Off, Bound, [Next]_vars
  PROVE  Anchored'
<1> SUFFICES ASSUME NEW t \in Sessions, table' = t
             PROVE  \/ \E f \in Slots : Leaving(f, t)'
                    \/ Announced(t)' /\ (live'[t] = "gone" => t \in destroyed')
  BY DEF Anchored
<1> DEFINE Anchor == Announced(t) /\ (live[t] = "gone" => t \in destroyed)
<1>a. table = t => Anchor \/ \E f \in Slots : Leaving(f, t)
  BY DEF Bound, Anchored
<1>b. Idle => \A f \in Slots : ~Leaving(f, t)
  BY DEF Idle, Leaving, At
<1> HIDE DEF Anchor
<1>1. ASSUME NEW s \in Sessions, Status(s)
      PROVE  Anchor' \/ \E f \in Slots : Leaving(f, t)'
  <2>1. Idle /\ UNCHANGED <<table, live, destroyed>>
    BY <1>1, HandlersWait, FreeIsIdle, StatusTypes
  <2>2. Anchor
    BY <1>a, <1>b, <2>1
  <2>3. PICK x \in Statuses : Receive(s, x) /\ (StatusPaused(s) <=> x = "paused")
    BY <1>1, StatusHeard DEF Bound
  <2>4. CASE t # s \/ x # "paused"
    <3>1. Announced(t)'
      BY <2>2, <2>3, <2>4, ReceiveAnnounces DEF Bound, TypeInv, Anchor
    <3> QED
      BY <2>1, <2>2, <3>1 DEF Anchor
  <2>5. CASE t = s /\ x = "paused"
    <3>1. enabled
      BY <2>1, NoneAssumption DEF Off, Idle, At
    <3> DEFINE j == Future("pause", "snapshot", s, None, None, {})
    <3>2. Spawn(j)
      BY <2>3, <2>5, <3>1 DEF StatusPaused
    <3>3. j \in Futures /\ j.kind = "pause" /\ j.session = s /\ j.step = "snapshot"
      BY DEF Future, Futures, Kinds, Steps
    <3> HIDE DEF j
    <3>4. PICK f \in Slots : job'[f] = j
      BY <3>2, <3>3, SpawnOne DEF TypeInv
    <3> QED
      BY <2>5, <3>3, <3>4 DEF Leaving
  <2> QED
    BY <2>4, <2>5
<1>2. ASSUME NEW s \in Sessions, SessDestroyed(s)
      PROVE  Anchor' \/ \E f \in Slots : Leaving(f, t)'
  <2>1. Idle /\ UNCHANGED <<table, live, inbox>>
    BY <1>2, HandlersWait, FreeIsIdle, DestroyedTypes
  <2>2. Anchor
    BY <1>a, <1>b, <2>1
  <2>3. CASE t # s
    BY <1>2, <2>1, <2>2, <2>3 DEF SessDestroyed, Anchor, Announced
  <2>4. CASE t = s
    <3>1. s \in userDisc \ authRetry
      BY <1>2 DEF SessDestroyed, Bound, Marked
    <3> DEFINE j1 == Future("release", "removing", s, None, None, {})
               j2(q) == Future("rebind", "query", s, None, q, {})
    <3>2. Spawn(j1) \/ \E q \in Survivors(s) : Spawn(j2(q))
      BY <1>2, <3>1 DEF SessDestroyed
    <3>3. j1 \in Futures /\ j1.step = "removing"
      BY DEF Future, Futures, Kinds, Steps
    <3>4. \A q \in Survivors(s) : /\ j2(q) \in Futures /\ j2(q).kind = "rebind"
                                  /\ j2(q).session = s /\ j2(q).step = "query"
      BY DEF Future, Futures, Kinds, Steps, Survivors, Connected
    <3> HIDE DEF j1, j2
    <3>5. PICK f \in Slots : job'[f] = j1 \/ \E q \in Survivors(s) : job'[f] = j2(q)
      BY <3>2, <3>3, <3>4, SpawnOne DEF TypeInv
    <3>6. Leaving(f, t)'
      BY <2>4, <3>3, <3>4, <3>5 DEF Leaving, At
    <3> QED
      BY <3>6
  <2> QED
    BY <2>3, <2>4
<1>3. CASE (\E s \in Sessions : Openvpn3(s) \/ EntryStep(s)) \/ UNCHANGED vars
  <2>1. UNCHANGED <<job, table>> /\ Unheard
    BY <1>3, Openvpn3Types, EntryTypes DEF vars, Unheard
  <2>2. CASE \E f \in Slots : Leaving(f, t)
    BY <2>1, <2>2 DEF Leaving, At
  <2>3. CASE Anchor
    <3>1. destroyed \subseteq destroyed'
      BY <1>3, EntryTypes DEF vars, backend, Orderly, Openvpn3, Connects, Reconnecting, AuthFails,
                              ConnFails, Killed, Drops, Outside
    <3> QED
      BY <2>1, <2>3, <3>1, UnheardAnnounces DEF Anchor
  <2> QED
    BY <1>a, <2>1, <2>2, <2>3 DEF Anchor
<1>4. CASE User
  <2>1. Idle /\ UNCHANGED table
    BY <1>4, HandlersWait, FreeIsIdle, UserTypes
  <2>2. destroyed \subseteq destroyed'
    BY <1>4 DEF User, Connect, PromptReconnect, PromptDismiss, Reconnect, Disconnect, Pause,
                ResumeOrRestart, Toggle, backend
  <2> QED
    BY <1>a, <1>b, <1>4, <2>1, <2>2, UnheardAnnounces DEF Unheard, Anchor
<1>5. ASSUME NEW f \in Slots, Run(f)
      PROVE  Anchor' \/ \E g \in Slots : Leaving(g, t)'
  <2>1. /\ \A q \in Sessions : /\ Announced(q) => Announced(q)'
                               /\ live'[q] = "gone" => live[q] = "gone" \/ q \in destroyed'
        /\ destroyed \subseteq destroyed'
    <3>1. destroyed \subseteq destroyed'
      BY <1>5 DEF Run, Query, HelperAdds, AddReturned, HelperRemoves, RemoveReturned,
                  PauseSnapshot, MarkDropped, DisconnectCall, Retain, TunnelFailed, TunnelCreated,
                  Gone, backend
    <3> QED
      BY <1>5, <3>1, UnheardAnnounces DEF Unheard
  <2>2. Anchor => Anchor'
    BY <2>1 DEF Anchor
  <2>3. CASE HelperAdds(f)
    <3>1. t = job[f].target /\ At(f, "adding")
      BY <2>3 DEF HelperAdds, Orderly
    <3>2. Anchor
      BY <3>1 DEF Anchor, Bound, Targeted, At
    <3> QED
      BY <2>2, <3>2
  <2>4. CASE HelperRemoves(f)
    BY <2>4, NoneAssumption DEF HelperRemoves, Orderly
  <2>5. CASE ~HelperAdds(f) /\ ~HelperRemoves(f)
    <3>1. UNCHANGED table
      BY <1>5, <2>5, OtherRun DEF TableStep, AddReturned, RemoveReturned
    <3> QED
      BY <1>a, <1>5, <2>2, <2>5, <3>1, LeavingGoesOn
  <2> QED
    BY <2>3, <2>4, <2>5
<1> QED
  BY <1>1, <1>2, <1>3, <1>4, <1>5, NextCases, StepIsHeardOrNot DEF Anchor

LEMMA BoundInitially == Init => Bound
<1> SUFFICES ASSUME Init PROVE Bound
  OBVIOUS
<1>1. PICK up \in SUBSET Sessions :
        /\ live = [s \in Sessions |-> IF s \in up THEN "connected" ELSE "unborn"]
        /\ inbox = [s \in Sessions |-> <<>>]
        /\ destroyed = {} /\ authRetry = {} /\ table = None
  BY DEF Init
<1>2. \A s \in Sessions : Announced(s) /\ inbox[s] = <<>> /\ live[s] # "paused"
  BY <1>1 DEF Announced
<1>3. \A s \in Sessions : Len(inbox[s]) = 0
  BY <1>1
<1>4. Signalled /\ Shown
  BY <1>2, <1>3 DEF Signalled, Shown, Says
<1>5. Connected \in SUBSET Sessions
  BY DEF Connected
<1>6. ASSUME NEW f \in Slots
      PROVE  /\ job[f].kind \in {"none", "all"} /\ job[f].step \in {"", "query"}
             /\ job[f].kind = "none" => job[f] = NoFuture
             /\ job[f] \in Futures /\ WellFormed(job[f])
  <2>1. job[f] \in Futures /\ WellFormed(job[f])
    BY InitTypes DEF TypeInv, JobsOK
  <2>2. job[f].kind \in {"none", "all"} /\ job[f].step \in {"", "query"}
    BY <1>5, InitOne, ApplyAllTypes, NoFutureFields
  <2> QED
    BY <2>1, <2>2 DEF WellFormed
<1>7. Marked
  BY <1>1, <1>6 DEF Marked, At
<1>8. Targeted
  BY <1>2, <1>6, NoFutureFields DEF Targeted, At, Futures, WellFormed
<1>9. Anchored
  BY <1>1, NoneAssumption DEF Anchored
<1> QED
  BY <1>4, <1>7, <1>8, <1>9 DEF Bound

(***************************************************************************)
(* With block-during-pause off, if the handlers wait for the futures of    *)
(* earlier ones, AddRules and RemoveRules work and every tunnel ends by a  *)
(* Disconnect (or its own failure, which the GUI turns into one), the      *)
(* table is not left bound to a session that is gone or paused once        *)
(* everything is settled, for any number of sessions and wherever a rebind *)
(* falls back.                                                             *)
(***************************************************************************)
THEOREM NeverBoundToTheGone ==
  ASSUME Patient, ~BlockDuringPause, Orderly
  PROVE  Spec => []BoundToTheLiving
<1> DEFINE Inv == TypeInv /\ OneAtATime /\ Off /\ Bound
<1>1. Init => Inv
  BY InitTypes, InitOne, OffInitially, BoundInitially
<1>a. "removefail" \notin Events
  BY DEF Orderly
<1>2. Inv /\ [Next]_vars => Inv'
  BY <1>a, TypeInductive, OneInductive, OffInductive, ShownInductive, MarkedInductive,
     TargetedInductive, AnchoredInductive DEF Bound
<1>3. Inv => BoundToTheLiving
  <2> SUFFICES ASSUME TypeInv, Bound, Quiet, table # None
               PROVE  live[table] \notin {"paused", "gone"}
    BY DEF BoundToTheLiving
  <2>1. table \in Sessions
    BY DEF TypeInv, UiOK
  <2>2. \A f \in Slots : ~Leaving(f, table)
    BY NoFutureFields DEF Quiet, Leaving, At
  <2> QED
    BY <2>1, <2>2 DEF Quiet, Bound, Anchored, Announced
<1> QED
  BY <1>1, <1>2, <1>3, PTL DEF Spec
=============================================================================
