---------------------------- MODULE TimersProofs ----------------------------
(***************************************************************************)
(* What holds of the GUI's time-out watchers for any sessions, time-outs   *)
(* and number of watchers asleep, of the retry budget of a config for any  *)
(* limits and window, and of the statistics poller for any sessions,       *)
(* configs, intervals and thresholds.                                      *)
(***************************************************************************)
EXTENDS TimeoutWatcher, AuthBudget, StatsPoller, FiniteSetTheorems, TLAPS

---------------------------------------------------------------------------
(* Sequences from which an element is taken, or to which one is added      *)

LEMMA RemoveAtIs ==
  ASSUME NEW S, NEW s \in Seq(S), NEW i \in 1..Len(s)
  PROVE  /\ RemoveAt(s, i) \in Seq(S) /\ Len(RemoveAt(s, i)) = Len(s) - 1
         /\ \A j \in 1..Len(s) - 1 :
              RemoveAt(s, i)[j] = IF j < i THEN s[j] ELSE s[j + 1]
<1> DEFINE front == SubSeq(s, 1, i - 1)
           back == SubSeq(s, i + 1, Len(s))
<1>1. front \in Seq(S) /\ Len(front) = i - 1 /\ \A j \in 1..i - 1 : front[j] = s[j]
  OBVIOUS
<1>2. /\ back \in Seq(S) /\ Len(back) = Len(s) - i
      /\ \A j \in 1..Len(s) - i : back[j] = s[i + j]
  OBVIOUS
<1>3. RemoveAt(s, i) = front \o back
  BY DEF RemoveAt
<1> HIDE DEF front, back
<1>4. front \o back \in Seq(S) /\ Len(front \o back) = Len(s) - 1
  BY <1>1, <1>2
<1>5. ASSUME NEW j \in 1..Len(s) - 1
      PROVE  (front \o back)[j] = IF j < i THEN s[j] ELSE s[j + 1]
  <2>1. (front \o back)[j] = IF j <= Len(front) THEN front[j] ELSE back[j - Len(front)]
    BY <1>1, <1>2
  <2>2. CASE j < i
    BY <1>1, <2>1, <2>2
  <2>3. CASE ~(j < i)
    <3>1. j - (i - 1) \in 1..Len(s) - i /\ i + (j - (i - 1)) = j + 1
      BY <2>3
    <3> QED BY <1>1, <1>2, <2>1, <2>3, <3>1
  <2> QED BY <2>2, <2>3
<1> QED BY <1>3, <1>4, <1>5

\* Nothing else is lost.
LEMMA RemoveAtKeeps ==
  ASSUME NEW S, NEW s \in Seq(S), NEW i \in 1..Len(s), NEW k \in 1..Len(s), k # i
  PROVE  \E j \in 1..Len(s) - 1 : RemoveAt(s, i)[j] = s[k]
<1>1. CASE k < i
  <2>1. k \in 1..Len(s) - 1
    BY <1>1
  <2> QED BY <1>1, <2>1, RemoveAtIs
<1>2. CASE k > i
  <2>1. k - 1 \in 1..Len(s) - 1 /\ ~(k - 1 < i) /\ (k - 1) + 1 = k
    BY <1>2
  <2> QED BY <2>1, RemoveAtIs
<1> QED BY <1>1, <1>2

LEMMA AppendIs ==
  ASSUME NEW S, NEW s \in Seq(S), NEW e \in S
  PROVE  /\ Append(s, e) \in Seq(S) /\ Len(Append(s, e)) = Len(s) + 1
         /\ \A j \in 1..Len(s) : Append(s, e)[j] = s[j]
         /\ Append(s, e)[Len(s) + 1] = e
OBVIOUS

---------------------------------------------------------------------------
(* The watchers                                                            *)

\* What a watcher that wakes leaves behind.
LEMMA WakesIs ==
  ASSUME WatchTypeOK, NEW i \in DOMAIN watchers, Wakes(i)
  PROVE  /\ i \in 1..Len(watchers) /\ watchers[i] \in Watchers
         /\ watchers' \in Seq(Watchers) /\ Len(watchers') = Len(watchers) - 1
         /\ \A j \in 1..Len(watchers') :
              watchers'[j] = IF j < i THEN watchers[j] ELSE watchers[j + 1]
         /\ \A k \in 1..Len(watchers) :
              k # i => \E j \in 1..Len(watchers') : watchers'[j] = watchers[k]
<1>1. i \in 1..Len(watchers) /\ watchers \in Seq(Watchers) /\ watchers' = RemoveAt(watchers, i)
  BY DEF WatchTypeOK, Wakes
<1>2. /\ watchers' \in Seq(Watchers) /\ Len(watchers') = Len(watchers) - 1
      /\ \A j \in 1..Len(watchers) - 1 :
           watchers'[j] = IF j < i THEN watchers[j] ELSE watchers[j + 1]
  BY <1>1, RemoveAtIs
<1>3. ASSUME NEW k \in 1..Len(watchers), k # i
      PROVE  \E j \in 1..Len(watchers) - 1 : watchers'[j] = watchers[k]
  BY <1>1, <1>3, RemoveAtKeeps
<1> QED BY <1>1, <1>2, <1>3

LEMMA WatcherFields ==
  ASSUME WatchTypeOK
  PROVE  /\ DOMAIN watchers = 1..Len(watchers) /\ Len(watchers) \in Nat
         /\ \A i \in DOMAIN watchers :
              watchers[i].due \in Nat /\ watchers[i].gen \in Nat /\ watchers[i].session \in Tunnels
<1>1. watchers \in Seq(Watchers)
  BY DEF WatchTypeOK
<1>2. DOMAIN watchers = 1..Len(watchers) /\ Len(watchers) \in Nat
      /\ \A i \in 1..Len(watchers) : watchers[i] \in Watchers
  BY <1>1
<1> QED BY <1>2 DEF Watchers

\* A watcher that is spawned.
LEMMA SpawnWatcherIs ==
  ASSUME WatchTypeOK, NEW p \in Tunnels, NEW t \in Timeouts, SpawnWatcher(p, t)
  PROVE  /\ generation' = [generation EXCEPT ![p] = generation[p] + 1]
         /\ generation' \in [Tunnels -> Nat]
         /\ watchers' \in Seq(Watchers) /\ Len(watchers') = Len(watchers) + 1
         /\ \A j \in 1..Len(watchers) : watchers'[j] = watchers[j]
         /\ watchers'[Len(watchers) + 1].session = p
         /\ watchers'[Len(watchers) + 1].gen = generation[p] + 1
         /\ watchers'[Len(watchers) + 1].due = moment + t
<1> DEFINE w == [session |-> p, gen |-> generation[p] + 1, due |-> moment + t]
<1>1. generation[p] \in Nat /\ moment \in Nat /\ t \in Nat /\ watchers \in Seq(Watchers)
  BY TimeoutAssumption DEF WatchTypeOK
<1>2. w \in Watchers
  BY <1>1 DEF Watchers
<1>3. watchers' = Append(watchers, w) /\ generation' = [generation EXCEPT ![p] = generation[p] + 1]
  BY DEF SpawnWatcher
<1>4. /\ watchers' \in Seq(Watchers) /\ Len(watchers') = Len(watchers) + 1
      /\ \A j \in 1..Len(watchers) : watchers'[j] = watchers[j]
      /\ watchers'[Len(watchers) + 1] = w
  BY <1>1, <1>2, <1>3, AppendIs
<1>5. generation' \in [Tunnels -> Nat]
  BY <1>1, <1>3 DEF WatchTypeOK
<1>6. w.session = p /\ w.gen = generation[p] + 1 /\ w.due = moment + t
  OBVIOUS
<1> HIDE DEF w
<1> QED BY <1>3, <1>4, <1>5, <1>6

LEMMA WatchTypesInductive ==
  (WatchInit => WatchTypeOK) /\ (WatchTypeOK /\ [WatchNext]_watchVars => WatchTypeOK')
<1> USE DEF WatchTypeOK
<1>1. WatchInit => WatchTypeOK
  BY DEF WatchInit
<1>2. ASSUME WatchTypeOK, [WatchNext]_watchVars PROVE WatchTypeOK'
  <2> USE <1>2
  <2>1. CASE Elapse
    BY <2>1 DEF Elapse
  <2>2. ASSUME NEW p \in Tunnels, NEW s \in Reported, StatusChange(p, s) PROVE WatchTypeOK'
    <3>0. s # "unborn" /\ s # "gone"
      BY DEF Reported, Connecting
    <3>1. CASE s \in Connecting
      <4>1. PICK t \in Timeouts :
              SpawnWatcher(p, t) /\ deadline' = [deadline EXCEPT ![p] = moment + t]
        BY <2>2, <3>1 DEF StatusChange
      <4>2. watchers' \in Seq(Watchers) /\ generation' \in [Tunnels -> Nat]
        BY <4>1, SpawnWatcherIs
      <4>3. \A q \in Tunnels \ {p} : generation'[q] = generation[q]
        BY <4>1, SpawnWatcherIs
      <4>4. deadline' \in [Tunnels -> Nat]
        BY <4>1, TimeoutAssumption
      <4> QED BY <2>2, <3>0, <3>1, <4>2, <4>3, <4>4 DEF StatusChange
    <3>2. CASE s \notin Connecting
      BY <2>2, <3>0, <3>2 DEF StatusChange
    <3> QED BY <3>1, <3>2
  <2>3. ASSUME NEW p \in Tunnels, EntryRemoved(p) PROVE WatchTypeOK'
    BY <2>3 DEF EntryRemoved
  <2>4. ASSUME NEW p \in Tunnels, SessDestroyed(p) PROVE WatchTypeOK'
    BY <2>4 DEF SessDestroyed
  <2>5. ASSUME NEW i \in DOMAIN watchers, Fire(i) PROVE WatchTypeOK'
    <3>1. watchers[i] \in Watchers /\ watchers' \in Seq(Watchers)
      BY <2>5, WakesIs DEF Fire
    <3>2. watchers[i].session \in Tunnels
      BY <3>1 DEF Watchers
    <3>3. generation' \in [Tunnels -> Nat] /\ warned' \subseteq Tunnels
          /\ \A p \in Tunnels : generation[p] = 0 => generation'[p] = 0
      BY <2>5, <3>2 DEF Fire, Warn
    <3> QED BY <2>5, <3>1, <3>3 DEF Fire, Wakes
  <2>6. CASE UNCHANGED watchVars
    BY <2>6 DEF watchVars
  <2> QED BY <2>1, <2>2, <2>3, <2>4, <2>5, <2>6 DEF WatchNext
<1> QED BY <1>1, <1>2

(***************************************************************************)
(* The watchers' state keeps its types; no session that is not born yet or *)
(* is gone has a generation.                                               *)
(***************************************************************************)
THEOREM WatchersTypeCorrect == WatchSpec => []WatchTypeOK
BY WatchTypesInductive, PTL DEF WatchSpec

(***************************************************************************)
(* An entry of TIMEOUT_GEN has its watcher.                                *)
(***************************************************************************)
LEMMA DrainedInductive ==
  /\ WatchInit => GenerationsDrained
  /\ WatchTypeOK /\ GenerationsDrained /\ [WatchNext]_watchVars => GenerationsDrained'
<1>1. WatchInit => GenerationsDrained
  BY DEF WatchInit, GenerationsDrained
<1>2. ASSUME WatchTypeOK, GenerationsDrained, [WatchNext]_watchVars
      PROVE  GenerationsDrained'
  <2> USE <1>2 DEF GenerationsDrained
  <2>0. DOMAIN watchers = 1..Len(watchers)
    BY DEF WatchTypeOK
  <2>1. ASSUME UNCHANGED <<generation, watchers>> PROVE GenerationsDrained'
    BY <2>1
  <2>2. ASSUME NEW p \in Tunnels, NEW t \in Timeouts, SpawnWatcher(p, t)
        PROVE  GenerationsDrained'
    <3>1. /\ generation' = [generation EXCEPT ![p] = generation[p] + 1]
          /\ watchers' \in Seq(Watchers) /\ Len(watchers') = Len(watchers) + 1
          /\ \A j \in 1..Len(watchers) : watchers'[j] = watchers[j]
          /\ watchers'[Len(watchers) + 1].session = p
          /\ watchers'[Len(watchers) + 1].gen = generation[p] + 1
      BY <2>2, SpawnWatcherIs
    <3>2. DOMAIN watchers' = 1..Len(watchers) + 1 /\ Len(watchers) \in Nat
      BY <3>1 DEF WatchTypeOK
    <3>3. ASSUME NEW q \in Tunnels, generation'[q] # 0
          PROVE  \E j \in DOMAIN watchers' : watchers'[j].session = q /\ watchers'[j].gen = generation'[q]
      <4>1. CASE q = p
        BY <3>1, <3>2, <4>1 DEF WatchTypeOK
      <4>2. CASE q # p
        <5>1. generation'[q] = generation[q]
          BY <3>1, <4>2 DEF WatchTypeOK
        <5>2. PICK k \in 1..Len(watchers) :
                watchers[k].session = q /\ watchers[k].gen = generation[q]
          BY <2>0, <3>3, <5>1
        <5> QED BY <3>1, <3>2, <5>1, <5>2
      <4> QED BY <4>1, <4>2
    <3> QED BY <3>3
  <2>3. ASSUME NEW i \in DOMAIN watchers, Fire(i) PROVE GenerationsDrained'
    <3>1. /\ watchers' \in Seq(Watchers)
          /\ watchers[i].session \in Tunnels /\ Len(watchers) \in Nat
          /\ \A k \in 1..Len(watchers) :
               k # i => \E j \in 1..Len(watchers') : watchers'[j] = watchers[k]
      BY <2>3, WakesIs, WatcherFields DEF Fire
    <3>2. DOMAIN watchers' = 1..Len(watchers') /\ Len(watchers') \in Nat
      BY <3>1
    <3>3. ASSUME NEW q \in Tunnels, generation'[q] # 0
          PROVE  \E j \in DOMAIN watchers' : watchers'[j].session = q /\ watchers'[j].gen = generation'[q]
      <4>1. /\ generation'[q] = generation[q]
            /\ Superseded(watchers[i]) \/ q # watchers[i].session
        BY <2>3, <3>1, <3>3 DEF Fire, WatchTypeOK
      <4>2. PICK k \in 1..Len(watchers) :
              watchers[k].session = q /\ watchers[k].gen = generation[q]
        BY <2>0, <3>3, <4>1
      <4>3. k # i
        BY <4>1, <4>2 DEF Superseded
      <4> QED BY <3>1, <3>2, <4>1, <4>2, <4>3
    <3> QED BY <3>3
  <2>4. ASSUME NEW p \in Tunnels, NEW s \in Reported, StatusChange(p, s)
        PROVE  GenerationsDrained'
    BY <2>1, <2>2, <2>4 DEF StatusChange
  <2>5. ASSUME NEW p \in Tunnels, EntryRemoved(p) \/ SessDestroyed(p)
        PROVE  GenerationsDrained'
    <3>1. /\ UNCHANGED watchers
          /\ \A q \in Tunnels : generation'[q] # 0 => generation'[q] = generation[q]
      BY <2>5 DEF EntryRemoved, SessDestroyed, WatchTypeOK
    <3> QED BY <3>1
  <2> QED BY <2>1, <2>2, <2>3, <2>4, <2>5 DEF WatchNext, Elapse, watchVars
<1> QED BY <1>1, <1>2

(***************************************************************************)
(* TIMEOUT_GEN holds generations of watchers still asleep only, whatever   *)
(* the preference is changed to.                                           *)
(***************************************************************************)
THEOREM GenerationsAreDrained == WatchSpec => []GenerationsDrained
BY DrainedInductive, WatchersTypeCorrect, PTL DEF WatchSpec

(***************************************************************************)
(* Why a late session has been warned about: no watcher oversleeps, and    *)
(* until the warning the watcher of the attempt under way is asleep, with  *)
(* the generation that lets it warn.                                       *)
(***************************************************************************)
Punctual == \A i \in DOMAIN watchers : watchers[i].due >= moment

Awaits(p, i) ==
  /\ watchers[i].session = p /\ watchers[i].gen = generation[p]
  /\ watchers[i].due = deadline[p]

WatchedOver ==
  \A p \in listed :
    status[p] \in Connecting /\ p \notin warned => \E i \in DOMAIN watchers : Awaits(p, i)

LEMMA WatchedOverInductive ==
  /\ WatchInit => Punctual /\ WatchedOver
  /\ WatchTypeOK /\ Punctual /\ WatchedOver /\ [WatchNext]_watchVars
       => Punctual' /\ WatchedOver'
<1>1. WatchInit => Punctual /\ WatchedOver
  BY DEF WatchInit, Punctual, WatchedOver
<1>2. ASSUME WatchTypeOK, Punctual, WatchedOver, [WatchNext]_watchVars
      PROVE  Punctual' /\ WatchedOver'
  <2> USE <1>2
  <2>0. /\ DOMAIN watchers = 1..Len(watchers) /\ Len(watchers) \in Nat
        /\ \A i \in DOMAIN watchers :
             watchers[i].due \in Nat /\ watchers[i].gen \in Nat /\ watchers[i].session \in Tunnels
    BY WatcherFields
  <2>1. CASE Elapse
    <3>1. Punctual'
      BY <2>0, <2>1 DEF Elapse, Punctual, WatchTypeOK
    <3>2. WatchedOver'
      BY <2>1 DEF Elapse, WatchedOver, Awaits
    <3> QED BY <3>1, <3>2
  <2>2. ASSUME NEW p \in Tunnels, NEW s \in Reported, StatusChange(p, s)
        PROVE  Punctual' /\ WatchedOver'
    <3>1. CASE s \in Connecting
      <4>1. PICK t \in Timeouts :
              SpawnWatcher(p, t) /\ deadline' = [deadline EXCEPT ![p] = moment + t]
        BY <2>2, <3>1 DEF StatusChange
      <4>2. /\ generation' = [generation EXCEPT ![p] = generation[p] + 1]
            /\ watchers' \in Seq(Watchers) /\ Len(watchers') = Len(watchers) + 1
            /\ \A j \in 1..Len(watchers) : watchers'[j] = watchers[j]
            /\ watchers'[Len(watchers) + 1].session = p
            /\ watchers'[Len(watchers) + 1].gen = generation[p] + 1
            /\ watchers'[Len(watchers) + 1].due = moment + t
        BY <4>1, SpawnWatcherIs
      <4>3. DOMAIN watchers' = 1..Len(watchers) + 1 /\ moment' = moment
        BY <2>0, <2>2, <4>2 DEF StatusChange
      <4>4. Punctual'
        <5>1. moment + t >= moment
          BY TimeoutAssumption DEF WatchTypeOK
        <5>2. ASSUME NEW j \in 1..Len(watchers) + 1 PROVE watchers'[j].due >= moment
          BY <2>0, <4>2, <5>1 DEF Punctual
        <5> QED BY <4>3, <5>2 DEF Punctual
      <4>5. ASSUME NEW q \in listed', status'[q] \in Connecting, q \notin warned'
            PROVE  \E j \in DOMAIN watchers' : Awaits(q, j)'
        <5>1. q \in Tunnels
          BY <2>2, <4>5 DEF StatusChange, WatchTypeOK
        <5>2. CASE q = p
          <6>1. PICK n : n = Len(watchers) + 1
            OBVIOUS
          <6>2. Awaits(p, n)'
            BY <4>1, <4>2, <5>1, <5>2, <6>1 DEF Awaits, WatchTypeOK
          <6> QED BY <2>0, <4>3, <5>2, <6>1, <6>2
        <5>3. CASE q # p
          <6>1. /\ q \in listed /\ status[q] \in Connecting /\ q \notin warned
                /\ generation'[q] = generation[q] /\ deadline'[q] = deadline[q]
            BY <2>2, <4>1, <4>2, <4>5, <5>1, <5>3 DEF StatusChange, WatchTypeOK
          <6>2. PICK i \in 1..Len(watchers) : Awaits(q, i)
            BY <2>0, <6>1 DEF WatchedOver
          <6>3. Awaits(q, i)'
            BY <4>2, <6>1, <6>2 DEF Awaits
          <6> QED BY <2>0, <4>3, <6>3
        <5> QED BY <5>2, <5>3
      <4> QED BY <4>4, <4>5 DEF WatchedOver
    <3>2. CASE s \notin Connecting
      <4>1. UNCHANGED <<moment, generation, watchers, deadline>>
        BY <2>2, <3>2 DEF StatusChange
      <4>2. \A q \in listed' : status'[q] \in Connecting =>
              q # p /\ q \in listed /\ status[q] \in Connecting /\ (q \in warned' <=> q \in warned)
        BY <2>2, <3>2 DEF StatusChange, WatchTypeOK
      <4> QED BY <4>1, <4>2 DEF Punctual, WatchedOver, Awaits
    <3> QED BY <3>1, <3>2
  <2>3. ASSUME NEW p \in Tunnels, EntryRemoved(p) PROVE Punctual' /\ WatchedOver'
    BY <2>3 DEF EntryRemoved, Punctual, WatchedOver, Awaits
  <2>4. ASSUME NEW p \in Tunnels, SessDestroyed(p) PROVE Punctual' /\ WatchedOver'
    <3>1. UNCHANGED <<moment, listed, watchers, deadline, warned>>
      BY <2>4 DEF SessDestroyed
    <3>2. \A q \in listed : status'[q] \in Connecting =>
            status[q] \in Connecting /\ generation'[q] = generation[q]
      BY <2>4 DEF SessDestroyed, Connecting, WatchTypeOK
    <3> QED BY <3>1, <3>2 DEF Punctual, WatchedOver, Awaits
  <2>5. ASSUME NEW i \in DOMAIN watchers, Fire(i) PROVE Punctual' /\ WatchedOver'
    <3>1. /\ Len(watchers') = Len(watchers) - 1 /\ watchers' \in Seq(Watchers)
          /\ \A j \in 1..Len(watchers') :
               watchers'[j] = IF j < i THEN watchers[j] ELSE watchers[j + 1]
          /\ \A k \in 1..Len(watchers) :
               k # i => \E j \in 1..Len(watchers') : watchers'[j] = watchers[k]
      BY <2>5, WakesIs DEF Fire
    <3>2. DOMAIN watchers' = 1..Len(watchers') /\ UNCHANGED <<moment, status, listed, deadline>>
      BY <2>5, <3>1 DEF Fire, Wakes
    <3>3. Punctual'
      <4>1. ASSUME NEW j \in 1..Len(watchers')
            PROVE  \E k \in 1..Len(watchers) : watchers'[j] = watchers[k]
        <5>1. j \in 1..Len(watchers) /\ j + 1 \in 1..Len(watchers)
          BY <2>0, <3>1
        <5> QED BY <3>1, <5>1
      <4> QED BY <2>0, <3>2, <4>1 DEF Punctual
    <3>4. ASSUME NEW q \in listed, status[q] \in Connecting, q \notin warned'
          PROVE  \E j \in DOMAIN watchers' : Awaits(q, j)'
      <4>0. q \in Tunnels /\ q \notin warned
        BY <2>5, <3>4 DEF Fire, Warn, WatchTypeOK
      <4>1. PICK k \in 1..Len(watchers) : Awaits(q, k)
        BY <2>0, <3>4, <4>0 DEF WatchedOver
      <4>2. Superseded(watchers[i]) \/ watchers[i].session # q
        BY <2>5, <3>4 DEF Fire, Warn
      <4>3. k # i /\ generation'[q] = generation[q]
        BY <2>0, <2>5, <4>0, <4>1, <4>2 DEF Awaits, Superseded, Fire, WatchTypeOK
      <4>4. PICK j \in 1..Len(watchers') : watchers'[j] = watchers[k]
        BY <3>1, <4>3
      <4>5. Awaits(q, j)'
        BY <3>2, <4>1, <4>3, <4>4 DEF Awaits
      <4> QED BY <3>2, <4>5
    <3> QED BY <3>2, <3>3, <3>4 DEF WatchedOver
  <2>6. CASE UNCHANGED watchVars
    BY <2>6 DEF watchVars, Punctual, WatchedOver, Awaits
  <2> QED BY <2>1, <2>2, <2>3, <2>4, <2>5, <2>6 DEF WatchNext
<1> QED BY <1>1, <1>2

(***************************************************************************)
(* A session that is still connecting past its time-out has been warned    *)
(* about, also when the preference changes under way.                      *)
(***************************************************************************)
THEOREM LateIsWarned == WatchSpec => []WarnedWhenLate
<1>1. WatchTypeOK /\ Punctual /\ WatchedOver => WarnedWhenLate
  <2> SUFFICES ASSUME WatchTypeOK, Punctual, WatchedOver,
                      NEW p \in listed, status[p] \in Connecting, moment > deadline[p]
               PROVE  p \in warned
    BY DEF WarnedWhenLate
  <2>1. ASSUME NEW i \in DOMAIN watchers, Awaits(p, i) PROVE FALSE
    BY <2>1 DEF Awaits, Punctual, WatchTypeOK
  <2> QED BY <2>1 DEF WatchedOver
<1> QED BY <1>1, WatchedOverInductive, WatchersTypeCorrect, PTL DEF WatchSpec

(***************************************************************************)
(* With one time-out the watchers sleep in the order in which they will    *)
(* wake, and the one with the generation of its session is its last.       *)
(***************************************************************************)
OneTimeout == \A s, t \in Timeouts : s = t

InOrder ==
  /\ \A i, j \in DOMAIN watchers : i < j => watchers[i].due <= watchers[j].due
  /\ \A i, j \in DOMAIN watchers :
       i < j /\ watchers[i].session = watchers[j].session => watchers[i].gen < watchers[j].gen
  /\ \A i \in DOMAIN watchers :
       LET w == watchers[i] IN
       /\ w.gen >= 1
       /\ \A t \in Timeouts : w.due <= moment + t
       /\ status[w.session] # "gone" => w.gen <= generation[w.session]
       /\ w.gen = generation[w.session] => w.due = deadline[w.session]

\* A watcher that may warn is the last of its session.
LEMMA CurrentIsLast ==
  ASSUME WatchTypeOK, InOrder, NEW i \in DOMAIN watchers, ~Superseded(watchers[i]),
         NEW j \in DOMAIN watchers, i < j
  PROVE  watchers[j].session # watchers[i].session
<1>1. status[watchers[i].session] # "gone"
  BY WatcherFields DEF InOrder, Superseded, WatchTypeOK
<1> SUFFICES ASSUME watchers[j].session = watchers[i].session PROVE FALSE
  OBVIOUS
<1>2. watchers[i].gen < watchers[j].gen /\ watchers[j].gen <= watchers[i].gen
  BY <1>1 DEF InOrder, Superseded
<1> QED BY <1>2, WatcherFields

LEMMA InOrderInductive ==
  ASSUME OneTimeout
  PROVE  /\ WatchInit => InOrder
         /\ WatchTypeOK /\ InOrder /\ [WatchNext]_watchVars => InOrder'
<1>1. WatchInit => InOrder
  BY DEF WatchInit, InOrder
<1>2. ASSUME WatchTypeOK, InOrder, [WatchNext]_watchVars PROVE InOrder'
  <2> USE <1>2
  <2>0. /\ DOMAIN watchers = 1..Len(watchers) /\ Len(watchers) \in Nat /\ moment \in Nat
        /\ \A i \in DOMAIN watchers :
             watchers[i].due \in Nat /\ watchers[i].gen \in Nat /\ watchers[i].session \in Tunnels
    BY WatcherFields DEF WatchTypeOK
  <2>1. CASE Elapse
    <3>1. moment' = moment + 1 /\ UNCHANGED <<status, generation, watchers, deadline>>
      BY <2>1 DEF Elapse
    <3>2. ASSUME NEW i \in DOMAIN watchers, NEW t \in Timeouts
          PROVE  watchers[i].due <= moment' + t
      <4>1. watchers[i].due <= moment + t /\ t \in Nat
        BY TimeoutAssumption DEF InOrder
      <4> QED BY <2>0, <3>1, <4>1
    <3> QED BY <3>1, <3>2 DEF InOrder
  <2>2. ASSUME NEW p \in Tunnels, NEW s \in Reported, StatusChange(p, s) PROVE InOrder'
    <3>1. CASE s \in Connecting
      <4>1. PICK t \in Timeouts :
              SpawnWatcher(p, t) /\ deadline' = [deadline EXCEPT ![p] = moment + t]
        BY <2>2, <3>1 DEF StatusChange
      <4>2. PICK n : n = Len(watchers) + 1
        OBVIOUS
      <4>3. /\ generation' = [generation EXCEPT ![p] = generation[p] + 1]
            /\ watchers' \in Seq(Watchers) /\ DOMAIN watchers' = 1..n
            /\ \A j \in 1..n - 1 : watchers'[j] = watchers[j]
            /\ watchers'[n].session = p /\ watchers'[n].gen = generation[p] + 1
            /\ watchers'[n].due = moment + t
        BY <2>0, <4>1, <4>2, SpawnWatcherIs
      <4>4. /\ moment' = moment /\ status[p] # "gone" /\ generation[p] \in Nat /\ t \in Nat
            /\ n \in Nat /\ DOMAIN watchers = 1..n - 1
            /\ \A q \in Tunnels \ {p} : /\ status'[q] = status[q] /\ generation'[q] = generation[q]
                                        /\ deadline'[q] = deadline[q]
            /\ generation'[p] = generation[p] + 1 /\ deadline'[p] = moment + t
        BY <2>0, <2>2, <4>1, <4>2, <4>3, TimeoutAssumption DEF StatusChange, WatchTypeOK
      <4>5. \A i \in 1..n - 1 : watchers[i].due <= moment + t
        BY <4>1, <4>4 DEF InOrder
      <4>6. \A i \in 1..n - 1 : watchers[i].session = p => watchers[i].gen < generation[p] + 1
        BY <2>0, <4>4 DEF InOrder
      <4>7. ASSUME NEW i \in 1..n, NEW j \in 1..n, i < j
            PROVE  /\ watchers'[i].due <= watchers'[j].due
                   /\ watchers'[i].session = watchers'[j].session
                        => watchers'[i].gen < watchers'[j].gen
        <5>1. i \in 1..n - 1 /\ (j = n \/ j \in 1..n - 1)
          BY <4>4, <4>7
        <5>2. CASE j = n
          BY <4>3, <4>5, <4>6, <5>1, <5>2
        <5>3. CASE j \in 1..n - 1
          BY <4>3, <4>4, <4>7, <5>1, <5>3 DEF InOrder
        <5> QED BY <5>1, <5>2, <5>3
      <4>8. ASSUME NEW i \in 1..n
            PROVE  LET w == watchers'[i] IN
                   /\ w.gen >= 1
                   /\ \A u \in Timeouts : w.due <= moment' + u
                   /\ status'[w.session] # "gone" => w.gen <= generation'[w.session]
                   /\ w.gen = generation'[w.session] => w.due = deadline'[w.session]
        <5>1. CASE i = n
          <6>1. \A u \in Timeouts : u = t
            BY DEF OneTimeout
          <6>2. moment + t <= moment + t /\ generation[p] + 1 <= generation[p] + 1
                /\ generation[p] + 1 >= 1
            BY <2>0, <4>4
          <6> QED BY <4>3, <4>4, <5>1, <6>1, <6>2
        <5>2. CASE i \in 1..n - 1 /\ watchers[i].session = p
          <6>1. /\ watchers'[i] = watchers[i] /\ i \in DOMAIN watchers
                /\ watchers[i].gen < generation'[p] /\ watchers[i].gen \in Nat
            BY <2>0, <4>3, <4>4, <4>6, <5>2
          <6>2. watchers[i].gen >= 1 /\ \A u \in Timeouts : watchers[i].due <= moment' + u
            BY <4>4, <6>1 DEF InOrder
          <6>3. watchers[i].gen <= generation'[p] /\ watchers[i].gen # generation'[p]
            BY <4>4, <6>1
          <6> QED BY <5>2, <6>1, <6>2, <6>3
        <5>3. CASE i \in 1..n - 1 /\ watchers[i].session # p
          <6>1. PICK q \in Tunnels \ {p} : q = watchers[i].session
            BY <2>0, <4>4, <5>3
          <6>2. /\ watchers'[i] = watchers[i] /\ i \in DOMAIN watchers
                /\ status'[q] = status[q] /\ generation'[q] = generation[q]
                /\ deadline'[q] = deadline[q]
            BY <4>3, <4>4, <5>3
          <6>3. /\ watchers[i].gen >= 1
                /\ \A u \in Timeouts : watchers[i].due <= moment + u
                /\ status[q] # "gone" => watchers[i].gen <= generation[q]
                /\ watchers[i].gen = generation[q] => watchers[i].due = deadline[q]
            BY <6>1, <6>2 DEF InOrder
          <6> QED BY <4>4, <6>1, <6>2, <6>3
        <5> QED BY <4>4, <5>1, <5>2, <5>3
      <4> QED BY <4>3, <4>7, <4>8 DEF InOrder
    <3>2. CASE s \notin Connecting
      <4>1. UNCHANGED <<moment, generation, watchers, deadline>>
        BY <2>2, <3>2 DEF StatusChange
      <4>2. \A q \in Tunnels : status'[q] # "gone" => status[q] # "gone"
        BY <2>2 DEF StatusChange, WatchTypeOK
      <4> QED BY <2>0, <4>1, <4>2 DEF InOrder
    <3> QED BY <3>1, <3>2
  <2>3. ASSUME NEW p \in Tunnels, EntryRemoved(p) PROVE InOrder'
    BY <2>3 DEF EntryRemoved, InOrder
  <2>4. ASSUME NEW p \in Tunnels, SessDestroyed(p) PROVE InOrder'
    <3>1. UNCHANGED <<moment, watchers, deadline>>
      BY <2>4 DEF SessDestroyed
    <3>2. /\ status'[p] = "gone" /\ generation'[p] = 0
          /\ \A q \in Tunnels \ {p} : status'[q] = status[q] /\ generation'[q] = generation[q]
      BY <2>4 DEF SessDestroyed, WatchTypeOK
    <3>3. ASSUME NEW i \in DOMAIN watchers
          PROVE  LET w == watchers[i] IN
                 /\ status'[w.session] # "gone" => w.gen <= generation'[w.session]
                 /\ w.gen = generation'[w.session] => w.due = deadline[w.session]
      <4>1. CASE watchers[i].session = p
        BY <2>0, <3>2, <4>1 DEF InOrder
      <4>2. CASE watchers[i].session # p
        BY <2>0, <3>2, <4>2 DEF InOrder
      <4> QED BY <4>1, <4>2
    <3> QED BY <3>1, <3>3 DEF InOrder
  <2>5. ASSUME NEW i \in DOMAIN watchers, Fire(i) PROVE InOrder'
    <3>0. UNCHANGED <<moment, status, deadline>>
      BY <2>5 DEF Fire, Wakes
    <3> DEFINE from(j) == IF j < i THEN j ELSE j + 1
    <3>1. /\ watchers' \in Seq(Watchers) /\ Len(watchers') = Len(watchers) - 1
          /\ \A j \in 1..Len(watchers') : watchers'[j] = watchers[from(j)]
      BY <2>5, WakesIs DEF Fire
    <3>2. DOMAIN watchers' = 1..Len(watchers) - 1
      BY <3>1
    <3>3. /\ \A j \in 1..Len(watchers) - 1 : from(j) \in 1..Len(watchers) /\ from(j) # i
          /\ \A j, k \in 1..Len(watchers) - 1 : j < k => from(j) < from(k)
      BY <2>0
    <3> HIDE DEF from
    <3>4. ASSUME ~Superseded(watchers[i])
          PROVE  \A k \in DOMAIN watchers \ {i} : watchers[k].session # watchers[i].session
      <4>1. ASSUME NEW k \in DOMAIN watchers, k < i PROVE FALSE
        <5>1. watchers[k].due <= watchers[i].due /\ watchers[i].due <= moment
          BY <2>5, <4>1 DEF InOrder, Fire, Wakes
        <5>2. watchers[k].due > moment
          BY <2>0, <2>5, <4>1 DEF Fire, Wakes
        <5> QED BY <2>0, <5>1, <5>2
      <4>2. ASSUME NEW k \in DOMAIN watchers, k > i
            PROVE  watchers[k].session # watchers[i].session
        BY <2>0, <3>4, <4>2, CurrentIsLast
      <4> QED BY <2>0, <4>1, <4>2
    <3>5. ASSUME NEW k \in DOMAIN watchers \ {i}
          PROVE  generation'[watchers[k].session] = generation[watchers[k].session]
      <4>1. CASE Superseded(watchers[i])
        BY <2>5, <4>1 DEF Fire
      <4>2. CASE ~Superseded(watchers[i])
        <5>1. watchers[k].session # watchers[i].session
          BY <3>4, <4>2
        <5> QED BY <2>0, <2>5, <4>2, <5>1 DEF Fire, WatchTypeOK
      <4> QED BY <4>1, <4>2
    <3>6. ASSUME NEW j \in 1..Len(watchers) - 1, NEW k \in 1..Len(watchers) - 1, j < k
          PROVE  /\ watchers'[j].due <= watchers'[k].due
                 /\ watchers'[j].session = watchers'[k].session
                      => watchers'[j].gen < watchers'[k].gen
      <4>1. PICK l, m \in DOMAIN watchers :
              watchers'[j] = watchers[l] /\ watchers'[k] = watchers[m] /\ l < m
        BY <2>0, <3>1, <3>3, <3>6
      <4> QED BY <4>1 DEF InOrder
    <3>7. ASSUME NEW j \in 1..Len(watchers) - 1
          PROVE  LET w == watchers'[j] IN
                 /\ w.gen >= 1
                 /\ \A u \in Timeouts : w.due <= moment' + u
                 /\ status'[w.session] # "gone" => w.gen <= generation'[w.session]
                 /\ w.gen = generation'[w.session] => w.due = deadline'[w.session]
      <4>1. PICK k \in DOMAIN watchers \ {i} : watchers'[j] = watchers[k]
        BY <2>0, <3>1, <3>3
      <4> QED BY <3>0, <3>5, <4>1 DEF InOrder
    <3> QED BY <3>2, <3>6, <3>7 DEF InOrder
  <2>6. CASE UNCHANGED watchVars
    BY <2>6 DEF watchVars, InOrder
  <2> QED BY <2>1, <2>2, <2>3, <2>4, <2>5, <2>6 DEF WatchNext
<1> QED BY <1>1, <1>2

(***************************************************************************)
(* As long as the preference is not changed, nobody is warned about an     *)
(* attempt before it is late, whatever watchers of earlier attempts are    *)
(* still asleep.  (Run timeout_changed shows that a change can do it.)     *)
(***************************************************************************)
THEOREM WarnedInTime ==
  ASSUME OneTimeout
  PROVE  WatchSpec => NeverWarnedEarly
<1>1. ASSUME WatchTypeOK, InOrder, [WatchNext]_watchVars, NEW p \in warned' \ warned
      PROVE  moment >= deadline[p]
  <2>1. PICK i \in DOMAIN watchers : Fire(i) /\ ~Superseded(watchers[i])
    BY <1>1 DEF WatchNext, Elapse, StatusChange, EntryRemoved, SessDestroyed, Fire, watchVars
  <2>2. p = watchers[i].session
    BY <1>1, <2>1 DEF Fire, Warn
  <2>3. watchers[i].due = deadline[p] /\ watchers[i].due <= moment
    BY <1>1, <2>1, <2>2 DEF Fire, Wakes, InOrder, Superseded
  <2> QED BY <1>1, <2>3, WatcherFields DEF WatchTypeOK
<1>2. WatchTypeOK /\ InOrder /\ [WatchNext]_watchVars
        => [\A p \in warned' \ warned : moment >= deadline[p]]_watchVars
  BY <1>1
<1>3. (WatchInit => InOrder) /\ (WatchTypeOK /\ InOrder /\ [WatchNext]_watchVars => InOrder')
  BY InOrderInductive
<1> QED BY <1>2, <1>3, WatchersTypeCorrect, PTL DEF WatchSpec, NeverWarnedEarly

---------------------------------------------------------------------------
(* The retry budget                                                        *)

(***************************************************************************)
(* The retries that its count no longer covers are out of the window.      *)
(***************************************************************************)
Covered(c) ==
  LET g == granted[c] IN
  /\ budget[c].last <= clock /\ budget[c].count <= Len(g)
  /\ \A i \in 1..Len(g) : g[i] <= budget[c].last
  /\ \A i \in 1..Len(g) - budget[c].count : clock - g[i] > AuthWindow

BudgetInv == BudgetTypeOK /\ \A c \in Profiles : Covered(c)

LEMMA BudgetFields ==
  ASSUME BudgetTypeOK, NEW c \in Profiles
  PROVE  /\ clock \in Nat /\ clock <= LastTick
         /\ budget[c].count \in Nat /\ budget[c].count <= MaxPerConfig - 1
         /\ budget[c].last \in Nat /\ budget[c].last <= LastTick
         /\ granted[c] \in Seq(0..LastTick) /\ Len(granted[c]) \in Nat
         /\ \A i \in 1..Len(granted[c]) : granted[c][i] \in 0..LastTick
BY BudgetAssumption DEF BudgetTypeOK

\* No retry is open: after a connection, and after giving up.
LEMMA FreshCovered ==
  ASSUME BudgetInv, NEW c \in Profiles, UNCHANGED clock,
         budget' = [budget EXCEPT ![c] = Fresh], granted' = [granted EXCEPT ![c] = <<>>]
  PROVE  BudgetInv'
<1> USE BudgetAssumption DEF BudgetInv, BudgetTypeOK
<1>1. Fresh \in [count : 0..MaxPerConfig - 1, last : 0..LastTick] /\ <<>> \in Seq(0..LastTick)
  BY DEF Fresh
<1>2. BudgetTypeOK'
  BY <1>1
<1>3. ASSUME NEW d \in Profiles PROVE Covered(d)'
  <2>1. CASE d = c
    <3>1. budget'[d] = Fresh /\ granted'[d] = <<>> /\ Len(<<>>) = 0 /\ clock \in Nat
      BY <2>1
    <3> QED BY <3>1 DEF Covered, Fresh
  <2>2. CASE d # c
    <3>1. budget'[d] = budget[d] /\ granted'[d] = granted[d]
      BY <2>2
    <3> QED BY <3>1 DEF Covered
  <2> QED BY <2>1, <2>2
<1> QED BY <1>2, <1>3

\* A retry is granted.
LEMMA GrantCovered ==
  ASSUME BudgetInv, NEW c \in Profiles, UNCHANGED clock,
         budget' = [budget EXCEPT ![c] = NextAttempt(c)], NextAttempt(c).count < MaxPerConfig,
         granted' = [granted EXCEPT ![c] = Append(granted[c], clock)]
  PROVE  BudgetInv'
<1> USE BudgetAssumption DEF BudgetInv
<1> DEFINE n == NextAttempt(c)
           g == granted[c]
<1>0. /\ clock \in Nat /\ clock <= LastTick
      /\ budget[c].count \in Nat /\ budget[c].last \in Nat
      /\ g \in Seq(0..LastTick) /\ Len(g) \in Nat
      /\ \A i \in 1..Len(g) : g[i] \in 0..LastTick
  BY BudgetFields
<1>1. n.last = clock /\ n.count = (IF Stale(c) THEN 0 ELSE budget[c].count) + 1
  BY DEF NextAttempt
<1>2. n \in [count : 0..MaxPerConfig - 1, last : 0..LastTick]
  <2>1. n.count \in 0..MaxPerConfig - 1 /\ n.last \in 0..LastTick
    BY <1>0, <1>1
  <2> QED BY <2>1 DEF NextAttempt
<1>3. /\ Append(g, clock) \in Seq(0..LastTick) /\ Len(Append(g, clock)) = Len(g) + 1
      /\ \A i \in 1..Len(g) : Append(g, clock)[i] = g[i]
      /\ Append(g, clock)[Len(g) + 1] = clock
  BY <1>0, AppendIs, clock \in 0..LastTick
<1>4. /\ budget'[c] = n /\ granted'[c] = Append(g, clock)
      /\ \A d \in Profiles \ {c} : budget'[d] = budget[d] /\ granted'[d] = granted[d]
  BY DEF BudgetTypeOK
<1>5. BudgetTypeOK'
  BY <1>2, <1>3 DEF BudgetTypeOK
<1> HIDE DEF n
<1>6. Covered(c)'
  <2>1. budget'[c].last <= clock' /\ budget'[c].count <= Len(granted'[c])
    BY <1>0, <1>1, <1>3, <1>4 DEF Covered
  <2>2. ASSUME NEW i \in 1..Len(g) + 1 PROVE Append(g, clock)[i] <= clock
    <3>1. CASE i \in 1..Len(g)
      BY <1>0, <1>3, <3>1 DEF Covered
    <3>2. CASE i = Len(g) + 1
      BY <1>0, <1>3, <3>2
    <3> QED BY <1>0, <3>1, <3>2
  <2>3. ASSUME NEW i \in 1..(Len(g) + 1) - n.count PROVE clock - Append(g, clock)[i] > AuthWindow
    <3>1. i \in 1..Len(g) /\ Append(g, clock)[i] = g[i]
      BY <1>0, <1>1, <1>3
    <3>2. g[i] \in Nat /\ g[i] <= budget[c].last
      BY <1>0, <3>1 DEF Covered
    <3>3. CASE Stale(c)
      <4>1. clock - budget[c].last > AuthWindow
        BY <3>3 DEF Stale
      <4> QED BY <1>0, <3>1, <3>2, <4>1
    <3>4. CASE ~Stale(c)
      <4>1. i \in 1..Len(g) - budget[c].count
        BY <1>0, <1>1, <3>4
      <4> QED BY <3>1, <4>1 DEF Covered
    <3> QED BY <3>3, <3>4
  <2> QED BY <1>1, <1>3, <1>4, <2>1, <2>2, <2>3 DEF Covered
<1>7. \A d \in Profiles \ {c} : Covered(d)'
  BY <1>4 DEF Covered
<1> QED BY <1>5, <1>6, <1>7

LEMMA BudgetInductive ==
  (BudgetInit => BudgetInv) /\ (BudgetInv /\ [BudgetNext]_budgetVars => BudgetInv')
<1> USE BudgetAssumption
<1>1. ASSUME BudgetInit PROVE BudgetInv
  <2>1. Fresh \in [count : 0..MaxPerConfig - 1, last : 0..LastTick] /\ <<>> \in Seq(0..LastTick)
    BY DEF Fresh
  <2>2. BudgetTypeOK
    BY <1>1, <2>1 DEF BudgetInit, BudgetTypeOK
  <2>3. \A c \in Profiles : Covered(c)
    BY <1>1 DEF BudgetInit, Covered, Fresh
  <2> QED BY <2>2, <2>3 DEF BudgetInv
<1>2. ASSUME BudgetInv, [BudgetNext]_budgetVars PROVE BudgetInv'
  <2>1. CASE BudgetTick
    <3>1. clock' = clock + 1 /\ UNCHANGED <<budget, granted>> /\ BudgetTypeOK'
      BY <1>2, <2>1 DEF BudgetTick, BudgetInv, BudgetTypeOK
    <3>2. ASSUME NEW c \in Profiles PROVE Covered(c)'
      <4>1. /\ clock \in Nat /\ budget[c].last \in Nat /\ budget[c].count \in Nat
            /\ Len(granted[c]) \in Nat
            /\ \A i \in 1..Len(granted[c]) : granted[c][i] \in Nat
        BY <1>2, BudgetFields DEF BudgetInv
      <4>2. Covered(c)
        BY <1>2 DEF BudgetInv
      <4>3. ASSUME NEW i \in 1..Len(granted[c]) - budget[c].count
            PROVE  clock' - granted[c][i] > AuthWindow
        <5>1. i \in 1..Len(granted[c]) /\ clock - granted[c][i] > AuthWindow
          BY <4>1, <4>2 DEF Covered
        <5> QED BY <3>1, <4>1, <5>1
      <4> QED BY <3>1, <4>1, <4>2, <4>3 DEF Covered
    <3> QED BY <3>1, <3>2 DEF BudgetInv
  <2>2. ASSUME NEW c \in Profiles, BudgetFailure(c) PROVE BudgetInv'
    <3> DEFINE b == [budget EXCEPT ![c] = NextAttempt(c)]
    <3>1. b[c] = NextAttempt(c)
      BY <1>2 DEF BudgetInv, BudgetTypeOK
    <3>2. CASE b[c].count < MaxPerConfig /\ ActiveTotal(b) < MaxGlobal
      <4>1. /\ UNCHANGED clock /\ budget' = b
            /\ granted' = [granted EXCEPT ![c] = Append(granted[c], clock)]
        BY <2>2, <3>2 DEF BudgetFailure
      <4> QED BY <1>2, <3>1, <3>2, <4>1, GrantCovered
    <3>3. CASE ~(b[c].count < MaxPerConfig /\ ActiveTotal(b) < MaxGlobal)
      <4>1. /\ UNCHANGED clock /\ budget' = [budget EXCEPT ![c] = Fresh]
            /\ granted' = [granted EXCEPT ![c] = <<>>]
        BY <2>2, <3>3 DEF BudgetFailure
      <4> QED BY <1>2, <4>1, FreshCovered
    <3> QED BY <3>2, <3>3
  <2>3. ASSUME NEW c \in Profiles, BudgetConnected(c) PROVE BudgetInv'
    BY <1>2, <2>3, FreshCovered DEF BudgetConnected
  <2>4. CASE UNCHANGED budgetVars
    BY <1>2, <2>4 DEF budgetVars, BudgetInv, BudgetTypeOK, Covered
  <2> QED BY <1>2, <2>1, <2>2, <2>3, <2>4 DEF BudgetNext
<1> QED BY <1>1, <1>2

\* Those within the window are the last ones, as many as are counted.
LEMMA RecentIsCounted ==
  ASSUME BudgetInv, NEW c \in Profiles
  PROVE  Recent(c) \subseteq Len(granted[c]) - budget[c].count + 1..Len(granted[c])
<1> DEFINE n == Len(granted[c])
           k == budget[c].count
<1>1. /\ n \in Nat /\ k \in Nat /\ k <= n /\ clock \in Nat
      /\ DOMAIN granted[c] = 1..n /\ \A i \in 1..n : granted[c][i] \in Nat
  BY BudgetFields DEF BudgetInv, Covered
<1>2. ASSUME NEW i \in Recent(c) PROVE i \in n - k + 1..n
  <2>1. i \in 1..n /\ ~(clock - granted[c][i] > AuthWindow)
    BY <1>1, BudgetAssumption DEF Recent
  <2>2. i \notin 1..n - k
    BY <2>1 DEF BudgetInv, Covered
  <2> QED BY <1>1, <2>1, <2>2
<1> QED BY <1>2

(***************************************************************************)
(* A config gets fewer than MAX_CREDENTIAL_ATTEMPTS retries within any     *)
(* window, whenever its failures fall and whatever the global budget does. *)
(***************************************************************************)
THEOREM BudgetBoundsConfig == BudgetSpec => []ConfigBounded
<1>1. ASSUME BudgetInv, NEW c \in Profiles PROVE Cardinality(Recent(c)) < MaxPerConfig
  <2> DEFINE n == Len(granted[c])
             k == budget[c].count
  <2>1. n \in Nat /\ k \in Nat /\ k <= MaxPerConfig - 1 /\ Recent(c) \subseteq n - k + 1..n
    BY <1>1, BudgetFields, RecentIsCounted DEF BudgetInv
  <2>2. IsFiniteSet(n - k + 1..n) /\ Cardinality(n - k + 1..n) = k
    <3>1. n - k + 1 \in Int /\ n \in Int /\ (n - k + 1 > n => k = 0) /\ n - (n - k + 1) + 1 = k
      BY <2>1
    <3> QED BY <3>1, FS_Interval
  <2>3. Cardinality(Recent(c)) <= k /\ Cardinality(Recent(c)) \in Nat
    BY <2>1, <2>2, FS_Subset, FS_CardinalityType
  <2> QED BY <2>1, <2>3, BudgetAssumption
<1>2. BudgetInv => ConfigBounded
  BY <1>1 DEF ConfigBounded
<1> QED BY <1>2, BudgetInductive, PTL DEF BudgetSpec

\* The retries within the window, and the attempts that active_attempt_total counts.
RecentRetries == UNION {{c} \X Recent(c) : c \in Profiles}
Active == {c \in Profiles : clock - budget[c].last <= AuthWindow}
Counted == UNION {{c} \X (1..budget[c].count) : c \in Active}

\* They are counted, each for itself.
LEMMA RetriesAreCounted ==
  BudgetInv => /\ IsFiniteSet(RecentRetries) /\ Cardinality(RecentRetries) \in Nat
               /\ ActiveTotal(budget) \in Nat
               /\ Cardinality(RecentRetries) <= ActiveTotal(budget)
<1> SUFFICES ASSUME BudgetInv
             PROVE  /\ IsFiniteSet(RecentRetries) /\ Cardinality(RecentRetries) \in Nat
                    /\ ActiveTotal(budget) \in Nat
                    /\ Cardinality(RecentRetries) <= ActiveTotal(budget)
  OBVIOUS
<1> USE BudgetAssumption
<1>1. ASSUME NEW c \in Profiles, NEW i \in Recent(c)
      PROVE  /\ c \in Active
             /\ i - (Len(granted[c]) - budget[c].count) \in 1..budget[c].count
             /\ i \in Nat /\ Len(granted[c]) \in Nat /\ budget[c].count \in Nat
  <2>1. /\ Len(granted[c]) \in Nat /\ budget[c].count \in Nat /\ budget[c].last \in Nat
        /\ i \in Len(granted[c]) - budget[c].count + 1..Len(granted[c])
        /\ budget[c].count <= Len(granted[c]) /\ clock \in Nat
    BY <1>1, BudgetFields, RecentIsCounted DEF BudgetInv, Covered
  <2>2. granted[c][i] \in Nat /\ granted[c][i] <= budget[c].last /\ clock - granted[c][i] <= AuthWindow
    BY <1>1, <2>1, BudgetFields DEF BudgetInv, Covered, Recent
  <2>3. clock - budget[c].last <= AuthWindow
    BY <2>1, <2>2
  <2>4. i \in Nat /\ i - (Len(granted[c]) - budget[c].count) \in 1..budget[c].count
    BY <2>1
  <2> QED BY <2>1, <2>3, <2>4 DEF Active
<1> DEFINE place(p) == p[2] - (Len(granted[p[1]]) - budget[p[1]].count)
           f == [p \in RecentRetries |-> <<p[1], place(p)>>]
<1>2. ASSUME NEW p \in RecentRetries
      PROVE  p[1] \in Profiles /\ p[2] \in Recent(p[1]) /\ p = <<p[1], p[2]>>
  BY DEF RecentRetries
<1>3. f \in [RecentRetries -> Counted]
  <2> SUFFICES ASSUME NEW p \in RecentRetries PROVE <<p[1], place(p)>> \in Counted
    OBVIOUS
  <2>1. p[1] \in Active /\ place(p) \in 1..budget[p[1]].count
    BY <1>1, <1>2
  <2> QED BY <2>1 DEF Counted
<1>4. ASSUME NEW p \in RecentRetries, NEW q \in RecentRetries, f[p] = f[q] PROVE p = q
  <2>1. p[1] = q[1] /\ place(p) = place(q)
    BY <1>4
  <2>2. p[2] = q[2]
    BY <1>1, <1>2, <2>1
  <2> QED BY <1>2, <2>1, <2>2
<1>5. f \in Injection(RecentRetries, Counted)
  BY <1>3, <1>4, Zenon DEF Injection, IsInjective
<1>6. IsFiniteSet(Counted)
  <2>1. Counted \subseteq Profiles \X (1..MaxPerConfig)
    BY BudgetFields DEF Counted, Active, BudgetInv
  <2>2. IsFiniteSet(Profiles \X (1..MaxPerConfig))
    <3>1. IsFiniteSet(Profiles) /\ IsFiniteSet(1..MaxPerConfig)
      BY FS_Interval
    <3> QED BY <3>1, FS_Product
  <2> QED BY <2>1, <2>2, FS_Subset
<1>7. IsFiniteSet(RecentRetries) /\ Cardinality(RecentRetries) <= Cardinality(Counted)
  BY <1>5, <1>6, FS_Injection
<1>8. Cardinality(RecentRetries) \in Nat /\ Cardinality(Counted) \in Nat
  BY <1>6, <1>7, FS_CardinalityType
<1> QED BY <1>7, <1>8 DEF ActiveTotal, Attempts, Together, Counted, Active

\* Time, a connection and a surrender only take retries out of the window.
LEMMA FewerRetries ==
  ASSUME BudgetInv, RecentRetries' \subseteq RecentRetries, AllBounded
  PROVE  AllBounded'
<1>1. IsFiniteSet(RecentRetries)
  BY RetriesAreCounted
<1>2. /\ Cardinality(RecentRetries') <= Cardinality(RecentRetries)
      /\ Cardinality(RecentRetries') \in Nat /\ Cardinality(RecentRetries) \in Nat
  BY <1>1, FS_Subset, FS_CardinalityType
<1>3. AllBounded <=> (Cardinality(RecentRetries) < MaxGlobal)
  BY DEF AllBounded, Together, RecentRetries
<1>4. AllBounded' <=> (Cardinality(RecentRetries') < MaxGlobal)
  BY DEF AllBounded, Together, RecentRetries
<1> QED BY <1>2, <1>3, <1>4, BudgetAssumption

(***************************************************************************)
(* All configs together get fewer than MAX_GLOBAL_AUTH_ATTEMPTS retries    *)
(* within any window, however many configs the daemon names.               *)
(***************************************************************************)
THEOREM BudgetBoundsAll == BudgetSpec => []AllBounded
<1> USE BudgetAssumption
<1>1. ASSUME BudgetInit PROVE AllBounded
  <2>1. RecentRetries = {}
    BY <1>1 DEF BudgetInit, RecentRetries, Recent
  <2> QED BY <2>1, FS_EmptySet DEF AllBounded, Together, RecentRetries
<1>2. ASSUME BudgetInv, BudgetInv', AllBounded, [BudgetNext]_budgetVars PROVE AllBounded'
  <2>1. CASE BudgetTick
    <3>1. ASSUME NEW c \in Profiles PROVE Recent(c)' \subseteq Recent(c)
      <4>1. clock' = clock + 1 /\ granted' = granted
        BY <2>1 DEF BudgetTick
      <4>2. clock \in Nat /\ \A i \in DOMAIN granted[c] : granted[c][i] \in Nat
        BY <1>2, BudgetFields DEF BudgetInv
      <4> QED BY <4>1, <4>2 DEF Recent
    <3>2. RecentRetries' \subseteq RecentRetries
      BY <3>1 DEF RecentRetries
    <3> QED BY <1>2, <3>2, FewerRetries
  <2>2. ASSUME NEW c \in Profiles, granted' = [granted EXCEPT ![c] = <<>>], clock' = clock
        PROVE  AllBounded'
    <3>1. granted'[c] = <<>> /\ \A d \in Profiles \ {c} : granted'[d] = granted[d]
      BY <1>2, <2>2 DEF BudgetInv, BudgetTypeOK
    <3>2. \A d \in Profiles : Recent(d)' \subseteq Recent(d)
      BY <2>2, <3>1 DEF Recent
    <3>3. RecentRetries' \subseteq RecentRetries
      BY <3>2 DEF RecentRetries
    <3> QED BY <1>2, <3>3, FewerRetries
  <2>3. ASSUME NEW c \in Profiles, BudgetFailure(c) PROVE AllBounded'
    <3> DEFINE b == [budget EXCEPT ![c] = NextAttempt(c)]
    <3>1. CASE b[c].count < MaxPerConfig /\ ActiveTotal(b) < MaxGlobal
      <4>1. budget' = b /\ clock' = clock
        BY <2>3, <3>1 DEF BudgetFailure
      <4>2. ActiveTotal(budget)' = ActiveTotal(b)
        BY <4>1 DEF ActiveTotal, Attempts, Together
      <4>3. (/\ Cardinality(RecentRetries) \in Nat /\ ActiveTotal(budget) \in Nat
             /\ Cardinality(RecentRetries) <= ActiveTotal(budget))'
        BY <1>2, RetriesAreCounted, PTL
      <4>4. Cardinality(RecentRetries)' < MaxGlobal
        BY <3>1, <4>2, <4>3
      <4> QED BY <4>4 DEF AllBounded, Together, RecentRetries
    <3>2. CASE ~(b[c].count < MaxPerConfig /\ ActiveTotal(b) < MaxGlobal)
      <4>1. granted' = [granted EXCEPT ![c] = <<>>] /\ clock' = clock
        BY <2>3, <3>2 DEF BudgetFailure
      <4> QED BY <2>2, <4>1
    <3> QED BY <3>1, <3>2
  <2>4. ASSUME NEW c \in Profiles, BudgetConnected(c) PROVE AllBounded'
    BY <2>2, <2>4 DEF BudgetConnected
  <2>5. CASE UNCHANGED budgetVars
    BY <1>2, <2>5 DEF budgetVars, AllBounded, Together, Recent
  <2> QED BY <1>2, <2>1, <2>3, <2>4, <2>5 DEF BudgetNext
<1> QED BY <1>1, <1>2, BudgetInductive, PTL DEF BudgetSpec

---------------------------------------------------------------------------
(* The statistics poller: idle clocks belong to connected sessions, the    *)
(* cooldown of a config is kept, and only what has stalled is stopped.     *)

USE ConfigAssumption, TimeAssumption, NoneAssumption DEF tray, clocks

LEMMA TypesInductive == (Init => TypeOK) /\ (TypeOK /\ [Next]_vars => TypeOK')
<1> USE DEF TypeOK, Sleeping, Asking, Polling
<1>1. Init => TypeOK
  BY DEF Init
<1>2. ASSUME TypeOK, [Next]_vars PROVE TypeOK'
  <2> USE <1>2
  <2>1. CASE Tick
    BY <2>1 DEF Tick
  <2>2. ASSUME NEW p \in Paths, Connect(p) PROVE TypeOK'
    BY <2>2 DEF Connect, Forget
  <2>3. ASSUME NEW p \in Paths, Backfill(p) PROVE TypeOK'
    BY <2>3 DEF Backfill
  <2>4. ASSUME NEW p \in Paths, Connects(p) PROVE TypeOK'
    BY <2>4 DEF Connects, Transition
  <2>5. ASSUME NEW p \in Paths, Leaves(p) PROVE TypeOK'
    BY <2>5 DEF Leaves, Transition
  <2>6. ASSUME NEW p \in Paths, Traffic(p) PROVE TypeOK'
    BY <2>6 DEF Traffic
  <2>7. ASSUME NEW p \in Paths, Destroyed(p) PROVE TypeOK'
    BY <2>7 DEF Destroyed, Forget
  <2>8. ASSUME NEW p \in Paths, PollReply(p) PROVE TypeOK'
    <3>1. poll' \in [step : {"sleep", "ask", "apply"}, due : Nat, todo : SUBSET Paths,
                     at : Paths \cup {None}, read : Nat]
      <4>1. CASE poll' = Asking(poll.todo \ {p})
        BY <4>1
      <4>2. CASE poll' = [poll EXCEPT !.step = "apply", !.todo = @ \ {p}, !.at = p,
                                      !.read = bytes[p]]
        BY <4>2
      <4>3. QED BY <2>8, <4>1, <4>2 DEF PollReply
    <3>2. silent' \in Nat
      BY <2>8 DEF PollReply
    <3>3. QED BY <2>8, <3>1, <3>2 DEF PollReply
  <2>9. CASE PollStarts
    BY <2>9 DEF PollStarts
  <2>10. CASE PollApply
    <3>1. CASE poll.at \notin rows
      BY <2>10, <3>1 DEF PollApply
    <3>2. CASE poll.at \in rows
      <4>1. IdleFrom(poll.at) \in Nat \cup {None}
        BY <3>2 DEF IdleFrom, Silent
      <4>2. Stalled(poll.at) => IdleFrom(poll.at) # None
        BY <3>2 DEF IdleFrom, Stalled, Silent
      <4>3. attempted' \in [Configs -> Nat \cup {None}] /\ stopped' \in [Configs -> Nat \cup {None}]
        BY <2>10, <3>2 DEF PollApply
      <4>4. /\ lastBytes' \in [Paths -> Nat]
            /\ idleStarted' \in [Paths -> Nat \cup {None}]
            /\ idleSince' \subseteq {p \in rows' : idleStarted'[p] # None}
        BY <2>10, <3>2, <4>1, <4>2 DEF PollApply
      <4>5. poll' \in [step : {"sleep", "ask", "apply"}, due : Nat, todo : SUBSET Paths,
                       at : Paths \cup {None}, read : Nat] /\ silent' \in Nat
        BY <2>10 DEF PollApply
      <4>6. QED BY <2>10, <4>3, <4>4, <4>5 DEF PollApply
    <3>3. QED BY <3>1, <3>2
  <2>11. CASE PollEnds
    BY <2>11 DEF PollEnds
  <2>12. CASE UNCHANGED vars
    BY <2>12 DEF vars
  <2>13. QED
    BY <2>1, <2>2, <2>3, <2>4, <2>5, <2>6, <2>7, <2>8, <2>9, <2>10, <2>11, <2>12 DEF Next
<1>3. QED BY <1>1, <1>2

\* Type correctness of the poller and of the tray fields it keeps.
THEOREM PollerTypeCorrect == Spec => []TypeOK
BY TypesInductive, PTL DEF Spec

(***************************************************************************)
(* A status that changes while a reply is on its way must not leave an     *)
(* idle clock behind (stall.rs, lines 42 to 53): the apply reads the       *)
(* status of that moment, and both ends of Connected reset the clocks.     *)
(***************************************************************************)
THEOREM IdleClocksOfTheConnected == Spec => []IdleOnlyConnected
<1> USE DEF TypeOK, IdleOnlyConnected, Polling
<1>1. Init => IdleOnlyConnected
  BY DEF Init
<1>2. TypeOK /\ IdleOnlyConnected /\ [Next]_vars => IdleOnlyConnected'
  <2> SUFFICES ASSUME TypeOK, IdleOnlyConnected, [Next]_vars PROVE IdleOnlyConnected'
    OBVIOUS
  <2>1. ASSUME NEW p \in Paths, Connect(p) \/ Destroyed(p) PROVE IdleOnlyConnected'
    BY <2>1 DEF Connect, Destroyed, Forget
  <2>2. ASSUME NEW p \in Paths, Connects(p) \/ Leaves(p) PROVE IdleOnlyConnected'
    BY <2>2 DEF Connects, Leaves, Transition
  <2>3. CASE PollApply
    <3>1. IdleFrom(poll.at) # None \/ Stalled(poll.at) => live[poll.at] = "up"
      BY DEF IdleFrom, Stalled, Silent
    <3>2. QED BY <2>3, <3>1 DEF PollApply
  <2>4. ASSUME NEW p \in Paths, Backfill(p) \/ Traffic(p) \/ PollReply(p)
        PROVE IdleOnlyConnected'
    BY <2>4 DEF Backfill, Traffic, PollReply
  <2>5. CASE Tick \/ PollStarts \/ PollEnds \/ UNCHANGED vars
    BY <2>5 DEF Tick, PollStarts, PollEnds, vars
  <2>6. QED BY <2>1, <2>2, <2>3, <2>4, <2>5 DEF Next
<1>3. QED BY <1>1, <1>2, PollerTypeCorrect, PTL DEF Spec

(***************************************************************************)
(* The stamp of a config is the time of its last stop, whatever happened   *)
(* to the sessions since.                                                  *)
(***************************************************************************)
Stamped == stopped = attempted

(***************************************************************************)
(* session_ops.rs, lines 20 to 26: two stops of one config are at least a  *)
(* cooldown apart, however many sessions came and went in between.         *)
(***************************************************************************)
THEOREM CooldownSurvivesSessions == Spec => CooldownKept
<1>1. Init => Stamped
  BY DEF Init, Stamped
<1>2. Stamped /\ [Next]_vars => Stamped'
  <2> SUFFICES ASSUME Stamped, [Next]_vars PROVE Stamped'
    OBVIOUS
  <2> USE DEF Stamped
  <2>1. CASE PollApply
    BY <2>1 DEF PollApply
  <2>2. ASSUME NEW p \in Paths,
               Connect(p) \/ Backfill(p) \/ Connects(p) \/ Leaves(p) \/ Traffic(p)
                 \/ Destroyed(p) \/ PollReply(p)
        PROVE Stamped'
    BY <2>2 DEF Connect, Backfill, Connects, Leaves, Traffic, Destroyed, PollReply
  <2>3. CASE Tick \/ PollStarts \/ PollEnds \/ UNCHANGED vars
    BY <2>3 DEF Tick, PollStarts, PollEnds, vars
  <2>4. QED BY <2>1, <2>2, <2>3 DEF Next
<1>3. TypeOK /\ Stamped /\ [Next]_vars =>
        [\A c \in Configs : stopped'[c] # stopped[c] /\ stopped[c] # None =>
           stopped'[c] - stopped[c] >= 2 * Delay]_vars
  <2> SUFFICES ASSUME TypeOK, Stamped, Next,
                      NEW c \in Configs, stopped'[c] # stopped[c], stopped[c] # None
               PROVE stopped'[c] - stopped[c] >= 2 * Delay
    OBVIOUS
  <2>1. CASE PollApply
    BY <2>1 DEF PollApply, CooledDown, Stamped, TypeOK
  <2>2. ASSUME stopped' = stopped PROVE FALSE
    BY <2>2
  <2>3. PollApply \/ stopped' = stopped
    BY DEF Next, Tick, Connect, Backfill, Connects, Leaves, Traffic, Destroyed, PollReply,
           PollStarts, PollEnds
  <2>4. QED BY <2>1, <2>2, <2>3
<1>4. QED BY <1>1, <1>2, <1>3, PollerTypeCorrect, PTL DEF Spec, CooldownKept

(***************************************************************************)
(* Why silence is real: counters only grow, so a counter that still has    *)
(* the value of the poll before has had no traffic since then, and the     *)
(* idle clock does not start before that.                                  *)
(***************************************************************************)
Silence(counter, since, p) ==
  /\ lastBytes[p] <= counter
  /\ idleStarted[p] # None /\ counter = lastBytes[p] => since <= idleStarted[p]

SilenceIsReal ==
  /\ silent <= now
  /\ \A p \in Paths : quiet[p] <= now /\ Silence(bytes[p], quiet[p], p)
  /\ poll.step = "apply" =>
       poll.at \in Paths /\ poll.read <= bytes[poll.at] /\ Silence(poll.read, silent, poll.at)

LEMMA SilenceInductive == (Init => SilenceIsReal) /\ (TypeOK /\ SilenceIsReal /\ [Next]_vars => SilenceIsReal')
<1> USE DEF TypeOK, SilenceIsReal, Silence, Sleeping, Asking, Polling
<1>1. Init => SilenceIsReal
  BY DEF Init
<1>2. ASSUME TypeOK, SilenceIsReal, [Next]_vars PROVE SilenceIsReal'
  <2> USE <1>2
  <2>1. CASE Tick
    BY <2>1 DEF Tick
  <2>2. ASSUME NEW p \in Paths, Connect(p) \/ Destroyed(p) PROVE SilenceIsReal'
    BY <2>2 DEF Connect, Destroyed, Forget
  <2>3. ASSUME NEW p \in Paths, Connects(p) PROVE SilenceIsReal'
    BY <2>3 DEF Connects, Transition
  <2>4. ASSUME NEW p \in Paths, Leaves(p) PROVE SilenceIsReal'
    BY <2>4 DEF Leaves, Transition
  <2>5. ASSUME NEW p \in Paths, Traffic(p) PROVE SilenceIsReal'
    BY <2>5 DEF Traffic
  <2>6. ASSUME NEW p \in Paths, PollReply(p) PROVE SilenceIsReal'
    <3>1. CASE poll' = Asking(poll.todo \ {p}) /\ silent' = silent
      BY <2>6, <3>1 DEF PollReply
    <3>2. CASE /\ poll' = [poll EXCEPT !.step = "apply", !.todo = @ \ {p}, !.at = p,
                                       !.read = bytes[p]]
               /\ silent' = quiet[p]
      <4>1. poll'.at = p /\ poll'.read = bytes[p]
        BY <3>2
      <4>2. QED BY <2>6, <3>2, <4>1 DEF PollReply
    <3>3. QED BY <2>6, <3>1, <3>2 DEF PollReply
  <2>7. CASE PollApply
    <3>1. poll'.step = "ask" /\ silent' = 0
      BY <2>7 DEF PollApply
    <3>2. CASE poll.at \notin rows
      BY <2>7, <3>1, <3>2 DEF PollApply
    <3>3. CASE poll.at \in rows
      <4>0. PICK q \in Paths : q = poll.at
        BY <3>3
      <4>1. /\ lastBytes'[q] = poll.read /\ idleStarted'[q] = IdleFrom(q)
            /\ bytes' = bytes /\ quiet' = quiet /\ now' = now
        BY <2>7, <3>3, <4>0 DEF PollApply
      <4>2. lastBytes[q] <= poll.read /\ poll.read <= bytes[q]
        BY <2>7, <4>0 DEF PollApply
      <4>3. ASSUME idleStarted'[q] # None, bytes[q] = poll.read
            PROVE quiet[q] <= idleStarted'[q]
        BY <4>1, <4>2, <4>3 DEF IdleFrom, Silent
      <4>4. Silence(bytes[q], quiet[q], q)'
        BY <4>1, <4>2, <4>3
      <4>5. ASSUME NEW p \in Paths \ {q} PROVE Silence(bytes[p], quiet[p], p)'
        <5>1. lastBytes'[p] = lastBytes[p] /\ idleStarted'[p] = idleStarted[p]
          BY <2>7, <3>3, <4>0, <4>5 DEF PollApply
        <5>2. QED BY <4>1, <5>1
      <4>6. QED BY <3>1, <4>1, <4>4, <4>5
    <3>4. QED BY <3>2, <3>3
  <2>8. ASSUME NEW p \in Paths, Backfill(p) PROVE SilenceIsReal'
    BY <2>8 DEF Backfill
  <2>9. CASE PollStarts
    BY <2>9 DEF PollStarts
  <2>10. CASE PollEnds
    BY <2>10 DEF PollEnds
  <2>11. CASE UNCHANGED vars
    BY <2>11 DEF vars
  <2>12. QED BY <2>1, <2>2, <2>3, <2>4, <2>5, <2>6, <2>7, <2>8, <2>9, <2>10, <2>11 DEF Next
<1>3. QED BY <1>1, <1>2

(***************************************************************************)
(* Whatever comes between a request, its reply and the apply, a session is *)
(* stopped only after the threshold has passed without a byte.             *)
(***************************************************************************)
THEOREM OnlySilenceStops == Spec => OnlyStalledStopped
<1>1. TypeOK /\ SilenceIsReal /\ [Next]_vars =>
        [stopped' # stopped => now - silent >= Threshold]_vars
  <2> SUFFICES ASSUME TypeOK, SilenceIsReal, Next, stopped' # stopped
               PROVE now - silent >= Threshold
    OBVIOUS
  <2>1. PollApply
    BY DEF Next, Tick, Connect, Backfill, Connects, Leaves, Traffic, Destroyed, PollReply,
           PollStarts, PollEnds
  <2>2. poll.at \in rows /\ Stalled(poll.at)
    BY <2>1 DEF PollApply
  <2>3. idleStarted[poll.at] # None /\ now - idleStarted[poll.at] >= Threshold
    BY <2>2 DEF Stalled, Silent, IdleFrom, TypeOK
  <2>4. poll.read = lastBytes[poll.at]
    BY <2>1, <2>2 DEF PollApply, Stalled, Silent, SilenceIsReal, Silence, TypeOK
  <2>5. silent <= idleStarted[poll.at]
    BY <2>1, <2>3, <2>4 DEF PollApply, SilenceIsReal, Silence
  <2>6. QED BY <2>2, <2>3, <2>5 DEF TypeOK
<1>2. QED BY <1>1, SilenceInductive, PollerTypeCorrect, PTL DEF Spec, OnlyStalledStopped
=============================================================================
