-------------------------- MODULE BypassSyncProofs --------------------------
(***************************************************************************)
(* For any networks, sessions and number of overlapping futures: split     *)
(* tunnelling as the GUI drives it implements what BypassReport promises,  *)
(* and the counts shown are those of the last apply.                       *)
(***************************************************************************)
EXTENDS BypassSync, FiniteSetTheorems, TLAPS

USE PushAssumption DEF settings, sessions, helper, report

\* The size of a set of networks.
LEMMA CountBounded ==
  ASSUME NEW S \in SUBSET Cidrs
  PROVE  /\ IsFiniteSet(S) /\ Cardinality(S) \in 0..Most
         /\ Cardinality(S) = 0 <=> S = {}
<1>1. IsFiniteSet(S) /\ Cardinality(S) <= Most
  BY FS_Subset DEF Most
<1>2. Cardinality(S) \in Nat /\ Most \in Nat
  BY <1>1, FS_CardinalityType DEF Most
<1> QED BY <1>1, <1>2, FS_EmptySet

\* Every state the tray is given is one of its states.
BypassState ==
  [kind : {"Off", "Active", "Failed", "Drifted"}, applied : 0..Most, failed : 0..Most,
   missing : 0..Most, extra : 0..Most]

LEMMA StatesAreStates ==
  /\ Most \in Nat
  /\ Off \in BypassState /\ Failed \in BypassState
  /\ \A a, f \in 0..Most : Active(a, f) \in BypassState
  /\ \A a, f, m, e \in 0..Most : Drifted(a, f, m, e) \in BypassState
<1>1. Most \in Nat
  BY FS_CardinalityType DEF Most
<1> QED BY <1>1 DEF BypassState, Off, Failed, Active, Drifted, State

FutureType ==
  [op : Ops, step : Steps, cidrs : SUBSET Cidrs,
   path : Links \cup {Nobody}, from : Links \cup {Nobody}]

\* What the places for futures hold.
PushesOK ==
  /\ push \in [Pushes -> FutureType]
  /\ \A p \in Pushes : push[p].step \in {"decide", "rules", "rebind"} => push[p].path \in Links

\* A future that is well-formed.
WellFormed(f) ==
  f \in FutureType /\ (f.step \in {"decide", "rules", "rebind"} => f.path \in Links)

LEMMA BecomesOK ==
  ASSUME PushesOK, NEW p \in Pushes, NEW f, WellFormed(f), Becomes(p, f)
  PROVE  PushesOK'
BY DEF PushesOK, WellFormed, Becomes

LEMMA NoPushWellFormed == WellFormed(NoPush)
BY DEF WellFormed, NoPush, Future, FutureType, Ops, Steps

LEMMA EndsOK ==
  ASSUME PushesOK, NEW p \in Pushes, Ends(p)
  PROVE  PushesOK'
<1>1. Becomes(p, NoPush)
  BY DEF Ends, Becomes
<1> QED BY <1>1, BecomesOK, NoPushWellFormed

LEMMA PushAtOK ==
  ASSUME PushesOK, NEW p \in Pushes, NEW step \in {"routes", "list"}, PushAt(p, step)
  PROVE  PushesOK'
<1>1. Becomes(p, [push[p] EXCEPT !.step = step])
  BY DEF PushAt, Becomes
<1>2. WellFormed([push[p] EXCEPT !.step = step])
  <2>1. push[p] \in FutureType /\ step \in Steps
    BY DEF PushesOK, Steps
  <2>2. [push[p] EXCEPT !.step = step] \in FutureType /\ [push[p] EXCEPT !.step = step].step = step
    BY <2>1 DEF FutureType
  <2> QED BY <2>2 DEF WellFormed
<1> QED BY <1>1, <1>2, BecomesOK

LEMMA StartOK ==
  ASSUME PushesOK, NEW f, WellFormed(f), Start(f)
  PROVE  PushesOK' /\ spoiled' \in BOOLEAN
<1>1. PushesOK'
  <2>1. PICK p \in Pushes : Becomes(p, f)
    BY DEF Start, Becomes
  <2> QED BY <2>1, BecomesOK
<1>2. spoiled' \in BOOLEAN
  BY DEF Start
<1> QED BY <1>1, <1>2

LEMMA FuturesWellFormed ==
  /\ \A op \in Ops : WellFormed(GiveUp(op))
  /\ \A op \in Ops, l, s \in Links : WellFormed(Rebind(op, l, s))
  /\ \A op \in Ops, step \in {"set", "routes"}, c \in SUBSET Cidrs, l \in Links \cup {Nobody} :
       WellFormed(Future(op, step, c, l))
  /\ \A op \in Ops, step \in {"rules", "decide"}, l \in Links : WellFormed(Future(op, step, {}, l))
BY DEF WellFormed, GiveUp, Rebind, Future, FutureType, Ops, Steps

LEMMA ThenRulesOK ==
  ASSUME PushesOK, NEW p \in Pushes, ThenRules(p)
  PROVE  PushesOK'
<1>1. CASE killSwitch /\ push[p].path # Nobody
  <2>1. push[p].path \in Links
    BY <1>1 DEF PushesOK, FutureType
  <2>2. WellFormed(Future("apply", "rules", {}, push[p].path))
    BY <2>1, FuturesWellFormed DEF Ops
  <2> QED BY <1>1, <2>2, BecomesOK DEF ThenRules
<1>2. CASE ~(killSwitch /\ push[p].path # Nobody)
  BY <1>2, EndsOK DEF ThenRules
<1> QED BY <1>1, <1>2

---------------------------------------------------------------------------
(* Types *)

\* The type invariant without the futures.
RestOK ==
  /\ enabled \subseteq Cidrs /\ killSwitch \in BOOLEAN
  /\ link \in [Links -> {"up", "down", "paused", "dropped"}]
  /\ protected \subseteq Links /\ spoiled \in BOOLEAN
  /\ list \subseteq Cidrs /\ routes \subseteq Cidrs
  /\ sets = NoTable \/ sets \subseteq Cidrs
  /\ bypass \in BypassState
  /\ poll \in [busy : BOOLEAN, want : SUBSET Cidrs]
  /\ edits \in 0..MaxEdits /\ tampers \in 0..MaxTampers

LEMMA TypeParts ==
  /\ BypassTypeOK <=> RestOK /\ PushesOK
  /\ BypassTypeOK' <=> RestOK' /\ PushesOK'
BY DEF BypassTypeOK, RestOK, PushesOK, BypassState, FutureType

\* What an apply reports of the list.
LEMMA ReportFits ==
  ASSUME NEW L \in SUBSET Cidrs, NEW R \in SUBSET L
  PROVE  Cardinality(R) \in 0..Most /\ Cardinality(L \ R) \in 0..Most
BY CountBounded

LEMMA DiffFits ==
  ASSUME NEW want \in SUBSET Cidrs, NEW live \in SUBSET Cidrs
  PROVE  /\ Missing(want, live) \in 0..Most /\ Extra(want, live) \in 0..Most
         /\ want # live => Missing(want, live) + Extra(want, live) > 0
<1>1. /\ Missing(want, live) \in 0..Most /\ (Missing(want, live) = 0 <=> want \ live = {})
      /\ Extra(want, live) \in 0..Most /\ (Extra(want, live) = 0 <=> live \ want = {})
  BY CountBounded, want \ live \in SUBSET Cidrs, live \ want \in SUBSET Cidrs DEF Missing, Extra
<1>2. want # live => want \ live # {} \/ live \ want # {}
  OBVIOUS
<1> QED BY <1>1, <1>2, StatesAreStates

LEMMA SessionStepTypes ==
  ASSUME RestOK, PushesOK, NEW l \in Links,
         Connects(l) \/ Disconnected(l) \/ Dropped(l) \/ Paused(l) \/ Dismissed(l)
  PROVE  RestOK' /\ PushesOK'
<1> USE DEF RestOK
<1>1. CASE Connects(l)
  <2>1. PushesOK' /\ spoiled' \in BOOLEAN
    <3>1. WellFormed(Future("apply", "set", enabled, l)) /\ WellFormed(Future("apply", "rules", {}, l))
      BY FuturesWellFormed DEF Ops
    <3>2. CASE enabled # {}
      BY <1>1, <3>1, <3>2, StartOK DEF Connects
    <3>3. CASE enabled = {} /\ killSwitch
      BY <1>1, <3>1, <3>3, StartOK DEF Connects
    <3>4. CASE enabled = {} /\ ~killSwitch
      BY <1>1, <3>4 DEF Connects, PushesOK
    <3> QED BY <3>2, <3>3, <3>4
  <2> QED BY <1>1, <2>1 DEF Connects
<1>2. CASE Disconnected(l)
  <2>1. PushesOK' /\ spoiled' \in BOOLEAN
    <3>1. CASE Survivors(l) = {}
      BY <1>2, <3>1, StartOK, FuturesWellFormed DEF Disconnected, Ops
    <3>2. CASE Survivors(l) # {}
      <4>1. PICK s \in Links : Start(Rebind("teardown", l, s))
        BY <1>2, <3>2 DEF Disconnected, Survivors
      <4> QED BY <4>1, StartOK, FuturesWellFormed DEF Ops
    <3> QED BY <3>1, <3>2
  <2> QED BY <1>2, <2>1 DEF Disconnected
<1>3. CASE Dropped(l)
  BY <1>3 DEF Dropped, PushesOK
<1>4. CASE Paused(l)
  <2>1. PushesOK' /\ spoiled' \in BOOLEAN
    <3>1. CASE Start(Future("pause", "decide", {}, l))
      BY <3>1, StartOK, FuturesWellFormed DEF Ops
    <3>2. CASE UNCHANGED <<push, spoiled>>
      BY <3>2 DEF PushesOK
    <3> QED BY <1>4, <3>1, <3>2 DEF Paused
  <2> QED BY <1>4, <2>1 DEF Paused
<1>5. CASE Dismissed(l)
  <2>1. PushesOK' /\ spoiled' \in BOOLEAN
    BY <1>5, StartOK, FuturesWellFormed DEF Dismissed, Ops
  <2> QED BY <1>5, <2>1 DEF Dismissed
<1> QED BY <1>1, <1>2, <1>3, <1>4, <1>5

LEMMA CallStepTypes ==
  ASSUME RestOK, PushesOK, NEW p \in Pushes,
         \/ PauseDecides(p) \/ CallSet(p) \/ CallApply(p) \/ CallAddRules(p) \/ CallRebind(p)
         \/ CallRemoveRules(p) \/ CallRemoveRoutes(p) \/ CallClearRoutes(p) \/ CallClearList(p)
  PROVE  RestOK' /\ PushesOK'
<1> USE DEF RestOK
<1>0. /\ push[p].op \in Ops /\ push[p].cidrs \subseteq Cidrs
      /\ push[p].path \in Links \cup {Nobody} /\ push[p].from \in Links \cup {Nobody}
      /\ push[p].step \in {"decide", "rules", "rebind"} => push[p].path \in Links
  BY DEF PushesOK, FutureType
<1>1. CASE PauseDecides(p)
  <2>1. push[p].path \in Links
    BY <1>0, <1>1 DEF PauseDecides, Doing
  <2>2. PushesOK'
    <3>1. CASE Becomes(p, GiveUp("pause"))
      BY <3>1, BecomesOK, FuturesWellFormed DEF Ops
    <3>2. ASSUME NEW s \in Survivors(push[p].path), Becomes(p, Rebind("pause", push[p].path, s))
          PROVE  PushesOK'
      <4>1. s \in Links
        BY DEF Survivors
      <4> QED BY <2>1, <3>2, <4>1, BecomesOK, FuturesWellFormed DEF Ops
    <3> QED BY <1>1, <3>1, <3>2 DEF PauseDecides
  <2> QED BY <1>1, <2>2 DEF PauseDecides
<1>2. CASE CallSet(p)
  <2>1. PushesOK'
    <3>1. WellFormed(Future("apply", "routes", {}, push[p].path))
      BY <1>0, FuturesWellFormed DEF Ops
    <3> QED BY <1>2, <3>1, BecomesOK, ThenRulesOK DEF CallSet
  <2>2. bypass' \in BypassState /\ list' \subseteq Cidrs /\ spoiled' \in BOOLEAN
    BY <1>0, <1>2, StatesAreStates DEF CallSet, TellFailed, Tell
  <2> QED BY <1>2, <2>1, <2>2 DEF CallSet
<1>3. CASE CallApply(p)
  <2>1. PushesOK'
    BY <1>3, ThenRulesOK DEF CallApply
  <2>2. bypass' \in BypassState /\ routes' \subseteq Cidrs /\ spoiled' \in BOOLEAN
    <3>1. CASE /\ list # {} /\ routes' \in SUBSET list /\ UNCHANGED spoiled
               /\ TellApplied(Cardinality(routes'), Cardinality(list \ routes'))
      <4>1. Cardinality(routes') \in 0..Most /\ Cardinality(list \ routes') \in 0..Most
        BY <3>1, ReportFits
      <4> QED BY <3>1, <4>1, StatesAreStates DEF TellApplied, Tell
    <3>2. CASE list = {} /\ TellApplied(0, 0) /\ UNCHANGED <<routes, spoiled>>
      BY <3>2, StatesAreStates DEF TellApplied, Tell
    <3>3. CASE routes' \in {{}, routes} /\ TellFailed /\ spoiled' = TRUE
      BY <3>3, StatesAreStates DEF TellFailed, Tell
    <3> QED BY <1>3, <3>1, <3>2, <3>3 DEF CallApply
  <2> QED BY <1>3, <2>1, <2>2 DEF CallApply
<1>4. CASE CallAddRules(p)
  <2>1. PushesOK'
    BY <1>4, EndsOK DEF CallAddRules
  <2>2. push[p].path \in Links
    BY <1>0, <1>4 DEF CallAddRules, Doing
  <2> QED BY <1>4, <2>1, <2>2 DEF CallAddRules, AddsRules, AddsNone
<1>5. CASE CallRebind(p)
  <2>1. PushesOK'
    BY <1>0, <1>5, EndsOK, BecomesOK, FuturesWellFormed DEF CallRebind
  <2> QED BY <1>5, <2>1 DEF CallRebind, AddsRules, AddsNone
<1>6. CASE CallRemoveRules(p)
  <2>1. PushesOK'
    BY <1>6, EndsOK, PushAtOK DEF CallRemoveRules
  <2> QED BY <1>6, <2>1 DEF CallRemoveRules
<1>7. CASE CallRemoveRoutes(p)
  <2>1. PushesOK'
    BY <1>7, EndsOK DEF CallRemoveRoutes, Released
  <2>2. bypass' \in BypassState
    BY <1>7, StatesAreStates DEF CallRemoveRoutes, Released, Tell
  <2>3. link' \in [Links -> {"up", "down", "paused", "dropped"}] /\ protected' = {}
    BY <1>7 DEF CallRemoveRoutes, Released
  <2>4. spoiled' \in BOOLEAN
    BY <1>7 DEF CallRemoveRoutes
  <2> QED BY <1>7, <2>1, <2>2, <2>3, <2>4 DEF CallRemoveRoutes
<1>8. CASE CallClearRoutes(p)
  <2>1. PushesOK'
    BY <1>8, PushAtOK DEF CallClearRoutes
  <2> QED BY <1>8, <2>1 DEF CallClearRoutes
<1>9. CASE CallClearList(p)
  <2>1. PushesOK'
    BY <1>9, EndsOK DEF CallClearList
  <2>2. bypass' \in BypassState
    BY <1>9, StatesAreStates DEF CallClearList, Tell
  <2> QED BY <1>9, <2>1, <2>2 DEF CallClearList
<1> QED BY <1>1, <1>2, <1>3, <1>4, <1>5, <1>6, <1>7, <1>8, <1>9

LEMMA PollEndTypes ==
  ASSUME RestOK, PushesOK, PollEnds
  PROVE  RestOK' /\ PushesOK'
<1> USE DEF RestOK
<1> DEFINE drifted == Drifted(bypass.applied, bypass.failed,
                              Missing(poll.want, sets), Extra(poll.want, sets))
<1>1. bypass.applied \in 0..Most /\ bypass.failed \in 0..Most /\ poll.want \in SUBSET Cidrs
  BY DEF BypassState
<1>2. Recovered(bypass) \in BypassState
  BY <1>1, StatesAreStates DEF Recovered
<1>3. ASSUME sets # NoTable PROVE drifted \in BypassState
  BY <1>1, <1>3, DiffFits, StatesAreStates
<1>4. bypass' \in BypassState
  BY <1>2, <1>3 DEF PollEnds
<1>5. poll' \in [busy : BOOLEAN, want : SUBSET Cidrs]
  BY DEF PollEnds, NoPoll
<1> QED BY <1>4, <1>5 DEF PollEnds, PushesOK

LEMMA TypesInductive ==
  /\ BypassInit => BypassTypeOK
  /\ BypassTypeOK /\ [BypassNext]_bypassVars => BypassTypeOK'
<1>1. ASSUME BypassInit PROVE BypassTypeOK
  <2>1. PushesOK
    BY <1>1, NoPushWellFormed DEF BypassInit, PushesOK, WellFormed
  <2>2. RestOK
    <3>1. bypass \in BypassState /\ poll \in [busy : BOOLEAN, want : SUBSET Cidrs]
      BY <1>1, StatesAreStates DEF BypassInit, NoPoll
    <3>2. edits \in 0..MaxEdits /\ tampers \in 0..MaxTampers
      BY <1>1 DEF BypassInit
    <3>3. link \in [Links -> {"up", "down", "paused", "dropped"}]
      BY <1>1 DEF BypassInit
    <3> QED BY <1>1, <3>1, <3>2, <3>3 DEF BypassInit, RestOK
  <2> QED BY <2>1, <2>2, TypeParts
<1>2. ASSUME BypassTypeOK, [BypassNext]_bypassVars PROVE BypassTypeOK'
  <2>1. RestOK /\ PushesOK
    BY <1>2, TypeParts
  <2>2. RestOK' /\ PushesOK'
    <3> USE DEF RestOK
    <3>1. ASSUME NEW l \in Links,
                 Connects(l) \/ Disconnected(l) \/ Dropped(l) \/ Paused(l) \/ Dismissed(l)
          PROVE  RestOK' /\ PushesOK'
      BY <2>1, <3>1, SessionStepTypes
    <3>2. CASE ServiceLost
      <4>1. PushesOK' /\ spoiled' \in BOOLEAN
        BY <2>1, <3>2, StartOK, FuturesWellFormed DEF ServiceLost, Ops
      <4> QED BY <2>1, <3>2, <4>1 DEF ServiceLost
    <3>3. ASSUME NEW new \in Lists, Saved(new) PROVE RestOK' /\ PushesOK'
      <4>1. PushesOK' /\ spoiled' \in BOOLEAN
        <5>1. /\ WellFormed(Future("clear", "routes", {}, Nobody))
              /\ WellFormed(Future("apply", "set", new, Nobody))
          BY FuturesWellFormed DEF Ops
        <5> QED BY <2>1, <3>3, <5>1, StartOK DEF Saved, PushesOK
      <4> QED BY <2>1, <3>3, <4>1 DEF Saved
    <3>4. ASSUME NEW p \in Pushes,
                 \/ PauseDecides(p) \/ CallSet(p) \/ CallApply(p) \/ CallAddRules(p)
                 \/ CallRebind(p) \/ CallRemoveRules(p) \/ CallRemoveRoutes(p)
                 \/ CallClearRoutes(p) \/ CallClearList(p)
          PROVE  RestOK' /\ PushesOK'
      BY <2>1, <3>4, CallStepTypes
    <3>5. CASE PollStarts
      BY <2>1, <3>5 DEF PollStarts, PushesOK
    <3>6. CASE PollEnds
      BY <2>1, <3>6, PollEndTypes
    <3>7. CASE Tamper
      BY <2>1, <3>7 DEF Tamper, PushesOK
    <3>8. CASE UNCHANGED bypassVars
      BY <2>1, <3>8 DEF bypassVars, PushesOK
    <3> QED BY <1>2, <3>1, <3>2, <3>3, <3>4, <3>5, <3>6, <3>7, <3>8 DEF BypassNext
  <2> QED BY <2>2, TypeParts
<1> QED BY <1>1, <1>2

(***************************************************************************)
(* Type correctness of the GUI's split tunnelling.                         *)
(***************************************************************************)
THEOREM TypeCorrect == BypassSpec => []BypassTypeOK
BY TypesInductive, PTL DEF BypassSpec

---------------------------------------------------------------------------
(* The refinement *)

\* The two modules speak of the same states.
LEMMA SameStates ==
  /\ Reporting!Off = Off /\ Reporting!Failed = Failed
  /\ \A a, f : Reporting!Active(a, f) = Active(a, f)
  /\ \A a, f, m, e : Reporting!Drifted(a, f, m, e) = Drifted(a, f, m, e)
  /\ \A s : Reporting!Live(s) <=> Live(s)
BY DEF Reporting!Off, Off, Reporting!Failed, Failed, Reporting!Active, Active,
       Reporting!Drifted, Drifted, Reporting!State, State, Reporting!Live, Live

\* What the tray shows agrees with the last notification and the last apply:
\* the invariant of the abstract specification, which every one of its steps
\* keeps.
LEMMA HonestKept ==
  ASSUME Reporting!Honest, Reporting!ReportNext \/ UNCHANGED Reporting!reportVars
  PROVE  Reporting!Honest'
<1> USE DEF Reporting!Honest, Reporting!Shows, Reporting!Live, Reporting!State
<1>1. ASSUME NEW a \in 0..Most, NEW f \in 0..Most, Reporting!Applies(a, f)
      PROVE  Reporting!Honest'
  BY <1>1 DEF Reporting!Applies, Reporting!Active
<1>2. CASE Reporting!ApplyFails
  BY <1>2 DEF Reporting!ApplyFails, Reporting!Failed
<1>3. CASE Reporting!Releases
  BY <1>3 DEF Reporting!Releases, Reporting!Off
<1>4. ASSUME NEW m \in 0..Most, NEW e \in 0..Most, Reporting!Drifts(m, e)
      PROVE  Reporting!Honest'
  BY <1>4 DEF Reporting!Drifts, Reporting!Drifted
<1>5. CASE Reporting!Recovers
  BY <1>5 DEF Reporting!Recovers, Reporting!Active
<1>6. CASE UNCHANGED Reporting!reportVars
  BY <1>6 DEF Reporting!reportVars
<1> QED BY <1>1, <1>2, <1>3, <1>4, <1>5, <1>6 DEF Reporting!ReportNext

LEMMA PollEndReports ==
  ASSUME BypassTypeOK, Reporting!Honest, PollEnds
  PROVE  Reporting!ReportNext \/ UNCHANGED Reporting!reportVars
<1> DEFINE missing == Missing(poll.want, sets)
           extra == Extra(poll.want, sets)
           drifted == Drifted(bypass.applied, bypass.failed, missing, extra)
<1>1. /\ toast = bypass /\ UNCHANGED outcome
      /\ Live(bypass) => outcome[1] = bypass.applied /\ outcome[2] = bypass.failed
  BY SameStates DEF Reporting!Honest, PollEnds
<1>2. CASE UNCHANGED <<bypass, toast>>
  BY <1>1, <1>2 DEF Reporting!reportVars
<1>3. CASE /\ bypass.kind = "Drifted"
           /\ bypass' = Recovered(bypass) /\ toast' = Recovered(bypass)
  <2>1. Recovered(bypass) = Reporting!Active(outcome[1], outcome[2])
    BY <1>1, <1>3, SameStates DEF Recovered, Live
  <2>2. Reporting!Recovers
    BY <1>1, <1>3, <2>1 DEF Reporting!Recovers, Reporting!Shows
  <2> QED BY <2>2 DEF Reporting!ReportNext
<1>4. CASE /\ sets # NoTable /\ sets # poll.want /\ StillLive
           /\ bypass' = drifted
           /\ toast' = IF NewDrift(drifted) THEN drifted ELSE toast
  <2>1. missing \in 0..Most /\ extra \in 0..Most /\ missing + extra > 0
    BY <1>4, DiffFits DEF BypassTypeOK
  <2>2. CASE NewDrift(drifted)
    <3>1. drifted = Reporting!Drifted(outcome[1], outcome[2], missing, extra)
      BY <1>1, <1>4, SameStates DEF StillLive
    <3>2. Reporting!Drifts(missing, extra)
      BY <1>1, <1>4, <2>1, <2>2, <3>1, SameStates DEF Reporting!Drifts, Reporting!Shows, StillLive
    <3> QED BY <2>1, <3>2 DEF Reporting!ReportNext
  <2>3. CASE ~NewDrift(drifted)
    BY <1>1, <1>4, <2>3 DEF NewDrift, Reporting!reportVars
  <2> QED BY <2>2, <2>3
<1> QED BY <1>2, <1>3, <1>4 DEF PollEnds

LEMMA ApplyReports ==
  ASSUME BypassTypeOK, NEW p \in Pushes, CallApply(p)
  PROVE  Reporting!ReportNext
<1>1. CASE list # {} /\ routes' \in SUBSET list
           /\ TellApplied(Cardinality(routes'), Cardinality(list \ routes'))
  <2>1. Cardinality(routes') \in 0..Most /\ Cardinality(list \ routes') \in 0..Most
    BY <1>1, ReportFits DEF BypassTypeOK
  <2>2. Reporting!Applies(Cardinality(routes'), Cardinality(list \ routes'))
    BY <1>1, SameStates DEF Reporting!Applies, Reporting!Shows, TellApplied, Tell
  <2> QED BY <2>1, <2>2 DEF Reporting!ReportNext
<1>2. CASE TellApplied(0, 0)
  <2>1. Reporting!Applies(0, 0)
    BY <1>2, SameStates DEF Reporting!Applies, Reporting!Shows, TellApplied, Tell
  <2> QED BY <2>1, StatesAreStates DEF Reporting!ReportNext
<1>3. CASE TellFailed
  BY <1>3, SameStates DEF Reporting!ReportNext, Reporting!ApplyFails, Reporting!Shows, TellFailed, Tell
<1> QED BY <1>1, <1>2, <1>3 DEF CallApply

LEMMA StepsReport ==
  ASSUME BypassTypeOK, Reporting!Honest, [BypassNext]_bypassVars
  PROVE  Reporting!ReportNext \/ UNCHANGED Reporting!reportVars
<1> USE DEF Reporting!reportVars
<1>1. ASSUME NEW l \in Links,
             Connects(l) \/ Disconnected(l) \/ Dropped(l) \/ Paused(l) \/ Dismissed(l)
      PROVE  UNCHANGED Reporting!reportVars
  BY <1>1 DEF Connects, Disconnected, Dropped, Paused, Dismissed
<1>2. ASSUME NEW p \in Pushes,
             \/ PauseDecides(p) \/ CallAddRules(p) \/ CallRebind(p)
             \/ CallRemoveRules(p) \/ CallClearRoutes(p)
      PROVE  UNCHANGED Reporting!reportVars
  BY <1>2 DEF PauseDecides, CallAddRules, CallRebind, CallRemoveRules, CallClearRoutes
<1>3. ASSUME NEW p \in Pushes, CallSet(p)
      PROVE  Reporting!ReportNext \/ UNCHANGED Reporting!reportVars
  BY <1>3, SameStates DEF CallSet, TellFailed, Tell,
     Reporting!ReportNext, Reporting!ApplyFails, Reporting!Shows
<1>4. ASSUME NEW p \in Pushes, CallApply(p) PROVE Reporting!ReportNext
  BY <1>4, ApplyReports
<1>5. ASSUME NEW p \in Pushes, CallRemoveRoutes(p) \/ CallClearList(p)
      PROVE  Reporting!ReportNext
  BY <1>5, SameStates DEF CallRemoveRoutes, Released, CallClearList, Tell,
     Reporting!ReportNext, Reporting!Releases, Reporting!Shows
<1>6. CASE PollEnds
  BY <1>6, PollEndReports
<1>7. CASE ServiceLost \/ (\E new \in Lists : Saved(new)) \/ PollStarts \/ Tamper
  BY <1>7 DEF ServiceLost, Saved, PollStarts, Tamper
<1>8. CASE UNCHANGED bypassVars
  BY <1>8 DEF bypassVars
<1> QED BY <1>1, <1>2, <1>3, <1>4, <1>5, <1>6, <1>7, <1>8 DEF BypassNext

LEMMA BeginsOff == BypassInit => Reporting!ReportInit /\ Reporting!Honest
BY SameStates DEF BypassInit, Reporting!ReportInit, Reporting!Honest, Live, Off, State

\* The strengthening that the refinement needs: Honest of what is shown.
LEMMA HonestAlways == BypassSpec => []Reporting!Honest
<1>1. BypassTypeOK /\ Reporting!Honest /\ [BypassNext]_bypassVars => Reporting!Honest'
  BY StepsReport, HonestKept
<1> QED BY <1>1, BeginsOff, TypeCorrect, PTL DEF BypassSpec

(***************************************************************************)
(* However many pushes, releases and checks overlap and fail, the counts   *)
(* the tray shows are those of the last apply.                             *)
(***************************************************************************)
THEOREM CountsAreOfLastApply == BypassSpec => []CountsOfLastApply
<1>1. Reporting!Honest => CountsOfLastApply
  BY SameStates DEF Reporting!Honest, CountsOfLastApply
<1> QED BY <1>1, HonestAlways, PTL

(***************************************************************************)
(* The GUI's split tunnelling implements BypassReport.                     *)
(***************************************************************************)
THEOREM Implements == BypassSpec => ReportsHonestly
<1>1. BypassTypeOK /\ Reporting!Honest /\ [BypassNext]_bypassVars
        => [Reporting!ReportNext]_(Reporting!reportVars)
  BY StepsReport
<1> QED BY <1>1, BeginsOff, TypeCorrect, HonestAlways, PTL
        DEF BypassSpec, ReportsHonestly, Reporting!ReportSpec


---------------------------------------------------------------------------
(* What the settings, the helper and the tray agree on                     *)

\* What a future does next.
Legal(f) ==
  \/ f = NoPush
  \/ f.op = "apply" /\ f.step \in {"set", "routes", "rules"}
  \/ f.op = "clear" /\ f.step \in {"routes", "list"}
  \/ f.op = "pause" /\ f.step \in {"decide", "rebind", "unrule"}
  \/ f.op = "teardown" /\ f.step \in {"rebind", "unrule", "routes"}
  \/ f.op = "lost" /\ f.step \in {"unrule", "routes"}

\* As long as no pushes overlapped there is one future at most.
Alone == ~spoiled => \A p, q \in Pushes : push[p] # NoPush /\ push[q] # NoPush => p = q

\* A future that will settle the matter, and has not yet.
Unsettled(f) == f.step = "list" \/ Settles(f)

\* What it has settled so far.
Promise(f) ==
  /\ f.op = "apply" /\ f.step = "set" /\ SomeUp => f.cidrs = enabled
  /\ f.op = "apply" /\ f.step = "routes" /\ SomeUp => list = enabled
  /\ f.op = "clear" /\ SomeUp => enabled = {}
  /\ f.op = "clear" /\ f.step = "list" => routes = {}

Settled ==
  /\ bypass = Off => routes = {}
  /\ SomeUp /\ enabled # {} => InForce

Agreed ==
  ~spoiled =>
    /\ \A p \in Pushes : Promise(push[p])
    /\ (\A p \in Pushes : ~Unsettled(push[p])) => Settled

Agreement == (\A p \in Pushes : Legal(push[p])) /\ Alone /\ Agreed

LEMMA NoPushIs == NoPush.op = "none" /\ NoPush.step = "" /\ ~Unsettled(NoPush)
BY DEF NoPush, Future, Unsettled, Settles

\* With no more sessions up than before, what was settled stays settled.
LEMMA StillAgreed ==
  ASSUME UNCHANGED <<list, routes, bypass>>, SomeUp' => SomeUp /\ enabled' = enabled
  PROVE  (Settled => Settled') /\ \A f : Promise(f) => Promise(f)'
BY DEF Settled, InForce, Promise

\* The one future of a time when nothing is spoiled.
LEMMA OthersRest ==
  ASSUME Agreement, ~spoiled, NEW p \in Pushes, push[p] # NoPush
  PROVE  /\ \A q \in Pushes \ {p} : push[q] = NoPush
         /\ Promise(push[p])
         /\ ~Unsettled(push[p]) => Settled
<1>1. \A q \in Pushes \ {p} : push[q] = NoPush
  BY DEF Agreement, Alone
<1>2. ~Unsettled(push[p]) => \A q \in Pushes : ~Unsettled(push[q])
  BY <1>1, NoPushIs
<1> QED BY <1>1, <1>2 DEF Agreement, Agreed

LEMMA OneFutureAgrees ==
  ASSUME PushesOK, NEW p \in Pushes, NEW f, push' = [push EXCEPT ![p] = f],
         ~spoiled' => \A q \in Pushes \ {p} : push[q] = NoPush,
         ~spoiled' => Promise(f)' /\ (~Unsettled(f) => Settled')
  PROVE  Alone' /\ Agreed'
<1>1. push'[p] = f /\ \A q \in Pushes \ {p} : push'[q] = push[q]
  BY DEF PushesOK
<1> SUFFICES ASSUME ~spoiled' PROVE Alone' /\ Agreed'
  BY DEF Alone, Agreed
<1>2. \A q \in Pushes \ {p} : push'[q] = NoPush
  BY <1>1
<1>3. Alone'
  BY <1>2 DEF Alone
<1>4. \A q \in Pushes : Promise(push[q])'
  <2>1. ASSUME NEW q \in Pushes \ {p} PROVE Promise(push[q])'
    BY <1>2, NoPushIs DEF Promise
  <2> QED BY <1>1, <2>1 DEF Promise
<1>5. (\A q \in Pushes : ~Unsettled(push'[q])) => Settled'
  BY <1>1
<1>6. QED BY <1>3, <1>4, <1>5 DEF Agreed

LEMMA LegalKept ==
  ASSUME PushesOK, \A p \in Pushes : Legal(push[p]),
         NEW p \in Pushes, NEW f, push' = [push EXCEPT ![p] = f], Legal(f)
  PROVE  (\A q \in Pushes : Legal(push[q]))'
BY DEF PushesOK, Legal

\* A new future.
LEMMA StartAgrees ==
  ASSUME PushesOK, Agreement, NEW f, Start(f), Legal(f), Promise(f)',
         ~Settles(f) /\ Settled => Settled'
  PROVE  Agreement'
<1>1. PICK p \in Pushes : push[p] = NoPush /\ push' = [push EXCEPT ![p] = f]
  BY DEF Start
<1>2. (\A q \in Pushes : Legal(push[q]))'
  BY <1>1, LegalKept DEF Agreement
<1>3. ~spoiled' => \A q \in Pushes : push[q] = NoPush
  BY DEF Start, Quiet
<1>4. ASSUME ~spoiled', ~Unsettled(f) PROVE Settled'
  <2>1. ~spoiled /\ ~Settles(f)
    BY <1>4 DEF Start, Unsettled
  <2>2. \A q \in Pushes : ~Unsettled(push[q])
    BY <1>3, <1>4, NoPushIs
  <2>3. Settled
    BY <2>1, <2>2 DEF Agreement, Agreed
  <2> QED BY <2>1, <2>3
<1>5. Alone' /\ Agreed'
  BY <1>1, <1>3, <1>4, OneFutureAgrees
<1> QED BY <1>2, <1>5 DEF Agreement

\* A future that goes on, or ends.
LEMMA StepAgrees ==
  ASSUME PushesOK, Agreement, NEW p \in Pushes, push[p] # NoPush,
         NEW f, push' = [push EXCEPT ![p] = f], Legal(f),
         ~spoiled' => ~spoiled /\ Promise(f)' /\ (~Unsettled(f) => Settled')
  PROVE  Agreement'
<1>1. (\A q \in Pushes : Legal(push[q]))'
  BY LegalKept DEF Agreement
<1>2. ~spoiled' => \A q \in Pushes \ {p} : push[q] = NoPush
  BY OthersRest
<1>3. Alone' /\ Agreed'
  BY <1>2, OneFutureAgrees
<1> QED BY <1>1, <1>3 DEF Agreement

\* Nothing is sent.
LEMMA IdleAgrees ==
  ASSUME Agreement, UNCHANGED push, ~spoiled' => ~spoiled,
         ~spoiled' => \A p \in Pushes : Promise(push[p]) => Promise(push[p])',
         ~spoiled' => (Settled => Settled')
  PROVE  Agreement'
<1>1. (\A p \in Pushes : Legal(push[p]))' /\ Alone'
  BY DEF Agreement, Legal, Alone
<1>2. Agreed'
  BY DEF Agreement, Agreed
<1> QED BY <1>1, <1>2 DEF Agreement

\* The futures that are started.
LEMMA StartsLegal ==
  /\ \A op \in {"pause", "teardown", "lost"} : /\ Legal(GiveUp(op)) /\ GiveUp(op) # NoPush
                                              /\ GiveUp(op).op = op /\ GiveUp(op).step = "unrule"
  /\ \A op \in {"pause", "teardown"}, l, s \in Links :
       /\ Legal(Rebind(op, l, s)) /\ Rebind(op, l, s).op = op
       /\ Rebind(op, l, s).step = "rebind"
  /\ \A op, step, c, l : LET f == Future(op, step, c, l) IN
       f.op = op /\ f.step = step /\ f.cidrs = c
<1>1. \A op, step, c, l : LET f == Future(op, step, c, l) IN
        f.op = op /\ f.step = step /\ f.cidrs = c
  BY DEF Future
<1>2. \A op : GiveUp(op).op = op /\ GiveUp(op).step = "unrule"
  BY <1>1 DEF GiveUp
<1>3. \A op, l, s : Rebind(op, l, s).op = op /\ Rebind(op, l, s).step = "rebind"
  BY DEF Rebind, Future
<1>4. ASSUME NEW op \in {"pause", "teardown", "lost"}
      PROVE  Legal(GiveUp(op)) /\ GiveUp(op) # NoPush
  BY <1>2, NoPushIs DEF Legal
<1>5. ASSUME NEW op \in {"pause", "teardown"}, NEW l, NEW s PROVE Legal(Rebind(op, l, s))
  BY <1>3 DEF Legal
<1>6. QED BY <1>1, <1>2, <1>3, <1>4, <1>5

LEMMA SessionStepAgrees ==
  ASSUME PushesOK, RestOK, Agreement, NEW l \in Links,
         Connects(l) \/ Disconnected(l) \/ Dropped(l) \/ Paused(l) \/ Dismissed(l)
  PROVE  Agreement'
<1> USE DEF RestOK
<1>0. UNCHANGED <<enabled, list, routes, bypass>>
  BY DEF Connects, Disconnected, Dropped, Paused, Dismissed
<1>a. ~Connects(l) => (SomeUp' => SomeUp)
  BY DEF Disconnected, Dropped, Paused, Dismissed, SomeUp, Up
<1>b. ASSUME NEW f, Start(f), Legal(f), f.op \notin {"apply", "clear"}, ~Connects(l)
      PROVE  Agreement'
  BY <1>0, <1>a, <1>b, StartAgrees, StillAgreed DEF Promise
<1>c. ASSUME UNCHANGED <<push, spoiled>>, ~Connects(l) PROVE Agreement'
  BY <1>0, <1>a, <1>c, IdleAgrees, StillAgreed
<1>1. CASE Connects(l)
  <2>1. CASE enabled # {}
    <3>1. PICK f : f = Future("apply", "set", enabled, l)
      OBVIOUS
    <3>2. Start(f)
      BY <1>1, <2>1, <3>1 DEF Connects
    <3>3. f.op = "apply" /\ f.step = "set" /\ f.cidrs = enabled
      BY <3>1, StartsLegal
    <3>4. Legal(f) /\ Promise(f)' /\ Settles(f)
      BY <1>0, <3>3 DEF Legal, Promise, Settles
    <3> QED BY <3>2, <3>4, StartAgrees
  <2>2. CASE enabled = {} /\ killSwitch
    <3>1. PICK f : f = Future("apply", "rules", {}, l)
      OBVIOUS
    <3>2. Start(f)
      BY <1>1, <2>2, <3>1 DEF Connects
    <3>3. f.op = "apply" /\ f.step = "rules"
      BY <3>1, StartsLegal
    <3>4. Legal(f) /\ Promise(f)' /\ (Settled => Settled')
      BY <1>0, <2>2, <3>3 DEF Legal, Promise, Settled
    <3> QED BY <3>2, <3>4, StartAgrees
  <2>3. CASE enabled = {} /\ ~killSwitch
    <3>1. UNCHANGED push /\ (~spoiled' => ~spoiled /\ Quiet)
      BY <1>1, <2>3 DEF Connects
    <3>2. ~spoiled' => \A p \in Pushes : Promise(push[p])'
      BY <3>1, NoPushIs DEF Quiet, Promise
    <3>3. Settled => Settled'
      BY <1>0, <2>3 DEF Settled
    <3> QED BY <3>1, <3>2, <3>3, IdleAgrees
  <2> QED BY <2>1, <2>2, <2>3
<1>2. CASE Disconnected(l) /\ ~Connects(l)
  <2>1. CASE Survivors(l) = {}
    <3>1. Start(GiveUp("teardown"))
      BY <1>2, <2>1 DEF Disconnected
    <3> QED BY <1>2, <3>1, <1>b, StartsLegal
  <2>2. CASE Survivors(l) # {}
    <3>1. PICK s \in Links : Start(Rebind("teardown", l, s))
      BY <1>2, <2>2 DEF Disconnected, Survivors
    <3>2. Rebind("teardown", l, s).op = "teardown" /\ Legal(Rebind("teardown", l, s))
      BY StartsLegal
    <3> QED BY <1>2, <3>1, <3>2, <1>b
  <2> QED BY <2>1, <2>2
<1>3. CASE Dropped(l) /\ ~Connects(l)
  BY <1>3, <1>c DEF Dropped
<1>4. CASE Paused(l) /\ ~Connects(l)
  <2>1. CASE Start(Future("pause", "decide", {}, l))
    <3>1. PICK f : f = Future("pause", "decide", {}, l)
      OBVIOUS
    <3>2. f.op = "pause" /\ f.step = "decide"
      BY <3>1, StartsLegal
    <3>3. Start(f) /\ Legal(f)
      BY <2>1, <3>1, <3>2 DEF Legal
    <3> QED BY <1>4, <3>2, <3>3, <1>b
  <2>2. CASE UNCHANGED <<push, spoiled>>
    BY <1>4, <2>2, <1>c
  <2> QED BY <1>4, <2>1, <2>2 DEF Paused
<1>5. CASE Dismissed(l) /\ ~Connects(l)
  <2>1. Start(GiveUp("teardown"))
    BY <1>5 DEF Dismissed
  <2> QED BY <1>5, <2>1, <1>b, StartsLegal
<1> QED BY <1>1, <1>2, <1>3, <1>4, <1>5

LEMMA SaveAgrees ==
  ASSUME PushesOK, RestOK, Agreement, NEW new \in Lists, Saved(new)
  PROVE  Agreement'
<1>0. UNCHANGED <<link, list, routes, bypass>> /\ enabled' = new
  BY DEF Saved
<1>1. CASE ~SomeUp
  <2>1. ~SomeUp' /\ UNCHANGED <<push, spoiled>>
    BY <1>0, <1>1 DEF Saved, SomeUp, Up
  <2> QED BY <1>0, <2>1, IdleAgrees, StillAgreed
<1>2. CASE SomeUp /\ new = {}
  <2>1. PICK f : f = Future("clear", "routes", {}, Nobody)
    OBVIOUS
  <2>2. f.op = "clear" /\ f.step = "routes"
    BY <2>1, StartsLegal
  <2>3. Start(f)
    BY <1>2, <2>1 DEF Saved
  <2>4. Legal(f) /\ Promise(f)' /\ Settles(f)
    BY <1>0, <1>2, <2>2 DEF Legal, Promise, Settles
  <2> QED BY <2>3, <2>4, StartAgrees
<1>3. CASE SomeUp /\ new # {}
  <2>1. PICK f : f = Future("apply", "set", new, Nobody)
    OBVIOUS
  <2>2. f.op = "apply" /\ f.step = "set" /\ f.cidrs = new
    BY <2>1, StartsLegal
  <2>3. Start(f)
    BY <1>3, <2>1 DEF Saved
  <2>4. Legal(f) /\ Promise(f)' /\ Settles(f)
    BY <1>0, <2>2 DEF Legal, Promise, Settles
  <2> QED BY <2>3, <2>4, StartAgrees
<1> QED BY <1>1, <1>2, <1>3

LEMMA PollAgrees ==
  ASSUME Agreement, PollStarts \/ PollEnds \/ Tamper
  PROVE  Agreement'
<1>1. UNCHANGED <<enabled, link, list, routes, push, spoiled>>
  BY DEF PollStarts, PollEnds, Tamper
<1>2. bypass' = Off <=> bypass = Off
  BY DEF PollStarts, PollEnds, Tamper, Recovered, Active, Drifted, Off, State, StillLive, Live
<1>3. (SomeUp' <=> SomeUp) /\ (Settled' <=> Settled) /\ \A f : Promise(f)' <=> Promise(f)
  BY <1>1, <1>2 DEF SomeUp, Up, Settled, InForce, Promise
<1> QED BY <1>1, <1>3, IdleAgrees

\* When a future goes on or ends, no session comes up.
LEMMA ThenRulesIs ==
  ASSUME NEW p \in Pushes, ThenRules(p)
  PROVE  \E f : /\ push' = [push EXCEPT ![p] = f] /\ Legal(f)
                /\ f.op \in {"apply", "none"} /\ f.step \in {"rules", ""} /\ ~Unsettled(f)
<1>1. CASE killSwitch /\ push[p].path # Nobody
  <2>1. PICK f : f = Future("apply", "rules", {}, push[p].path)
    OBVIOUS
  <2>2. f.op = "apply" /\ f.step = "rules"
    BY <2>1, StartsLegal
  <2>3. Legal(f) /\ ~Unsettled(f)
    BY <2>2 DEF Legal, Unsettled, Settles
  <2>4. push' = [push EXCEPT ![p] = f]
    BY <1>1, <2>1 DEF ThenRules, Becomes
  <2> QED BY <2>2, <2>3, <2>4
<1>2. CASE ~(killSwitch /\ push[p].path # Nobody)
  <2>1. Ends(p)
    BY <1>2 DEF ThenRules
  <2> QED BY <2>1, NoPushIs DEF Ends, Legal
<1> QED BY <1>1, <1>2

LEMMA CallStepAgrees ==
  ASSUME RestOK, PushesOK, Agreement, NEW p \in Pushes,
         \/ PauseDecides(p) \/ CallSet(p) \/ CallApply(p) \/ CallAddRules(p) \/ CallRebind(p)
         \/ CallRemoveRules(p) \/ CallRemoveRoutes(p) \/ CallClearRoutes(p) \/ CallClearList(p)
  PROVE  Agreement'
<1>0. Legal(push[p]) /\ Legal(NoPush)
  BY DEF Agreement, Legal
<1>a. ~spoiled /\ push[p] # NoPush => Promise(push[p]) /\ (~Unsettled(push[p]) => Settled)
  BY OthersRest
\* A step that touches neither routes nor list nor tray, of a future that settles nothing.
<1>b. ASSUME push[p] # NoPush, UNCHANGED <<enabled, link, list, routes, bypass>>,
             ~Unsettled(push[p]), ~spoiled' => ~spoiled,
             NEW f, push' = [push EXCEPT ![p] = f], Legal(f), f.op # "clear", f.step = "" \/ f.op # "apply"
      PROVE  Agreement'
  <2>1. SomeUp' <=> SomeUp
    BY <1>b DEF SomeUp, Up
  <2>2. ~spoiled' => Promise(f)' /\ Settled'
    BY <1>a, <1>b, <2>1, StillAgreed DEF Promise
  <2> QED BY <1>b, <2>2, StepAgrees
<1>1. CASE PauseDecides(p)
  <2>1. push[p].op = "pause" /\ push[p].step = "decide" /\ UNCHANGED spoiled
    BY <1>1 DEF PauseDecides, Doing
  <2>2. push[p] # NoPush /\ ~Unsettled(push[p])
    BY <2>1, NoPushIs DEF Unsettled, Settles
  <2>3. UNCHANGED <<enabled, link, list, routes, bypass>>
    BY <1>1 DEF PauseDecides
  <2>4. CASE Becomes(p, GiveUp("pause"))
    <3>1. GiveUp("pause").op = "pause" /\ Legal(GiveUp("pause"))
      BY StartsLegal
    <3> QED BY <1>b, <2>1, <2>2, <2>3, <2>4, <3>1 DEF Becomes
  <2>5. ASSUME NEW s \in Survivors(push[p].path), Becomes(p, Rebind("pause", push[p].path, s))
        PROVE  Agreement'
    <3>1. s \in Links /\ push[p].path \in Links
      BY <2>1 DEF Survivors, PushesOK
    <3>2. PICK f : f = Rebind("pause", push[p].path, s)
      OBVIOUS
    <3>3. f.op = "pause" /\ Legal(f)
      BY <3>1, <3>2, StartsLegal
    <3>4. push' = [push EXCEPT ![p] = f]
      BY <2>5, <3>2 DEF Becomes
    <3> QED BY <1>b, <2>1, <2>2, <2>3, <3>3, <3>4
  <2> QED BY <1>1, <2>4, <2>5 DEF PauseDecides
<1>2. CASE CallSet(p)
  <2>1. push[p].op = "apply" /\ push[p].step = "set" /\ UNCHANGED <<enabled, link>>
    BY <1>2 DEF CallSet, Doing
  <2>2. push[p] # NoPush /\ (SomeUp' <=> SomeUp)
    BY <2>1, NoPushIs DEF SomeUp, Up
  <2>3. CASE /\ list' = push[p].cidrs /\ Becomes(p, Future("apply", "routes", {}, push[p].path))
             /\ UNCHANGED <<report, spoiled>>
    <3>1. PICK f : f = Future("apply", "routes", {}, push[p].path)
      OBVIOUS
    <3>2. f.op = "apply" /\ f.step = "routes" /\ push' = [push EXCEPT ![p] = f]
      BY <2>3, <3>1, StartsLegal DEF Becomes
    <3>3. Legal(f) /\ Unsettled(f)
      BY <3>2 DEF Legal, Unsettled, Settles
    <3>4. ~spoiled' => ~spoiled /\ Promise(f)'
      BY <1>a, <2>1, <2>2, <2>3, <3>2 DEF Promise
    <3> QED BY <2>2, <3>2, <3>3, <3>4, StepAgrees
  <2>4. CASE ThenRules(p) /\ spoiled' = TRUE
    <3>1. PICK f : push' = [push EXCEPT ![p] = f] /\ Legal(f)
      BY <2>4, ThenRulesIs
    <3> QED BY <2>2, <2>4, <3>1, StepAgrees
  <2> QED BY <1>2, <2>3, <2>4 DEF CallSet
<1>3. CASE CallApply(p)
  <2>1. push[p].op = "apply" /\ push[p].step = "routes" /\ UNCHANGED <<enabled, link, list>>
    BY <1>3 DEF CallApply, Doing
  <2>2. push[p] # NoPush /\ (SomeUp' <=> SomeUp)
    BY <2>1, NoPushIs DEF SomeUp, Up
  <2>3. PICK f : /\ push' = [push EXCEPT ![p] = f] /\ Legal(f)
                 /\ f.op \in {"apply", "none"} /\ f.step \in {"rules", ""}
    BY <1>3, ThenRulesIs DEF CallApply
  <2>4. ASSUME ~spoiled' PROVE ~spoiled /\ Promise(f)' /\ Settled'
    <3>1. ~spoiled /\ bypass' # Off /\ (list # {} => routes' \subseteq list)
      BY <1>3, <2>4 DEF CallApply, TellApplied, Tell, Active, Off, State
    <3>2. SomeUp' => list' = enabled'
      BY <1>a, <2>1, <2>2, <3>1 DEF Promise
    <3>3. Settled'
      BY <2>1, <3>1, <3>2 DEF Settled, InForce
    <3>4. Promise(f)'
      BY <2>3 DEF Promise
    <3> QED BY <3>1, <3>3, <3>4
  <2> QED BY <2>2, <2>3, <2>4, StepAgrees
<1>4. CASE CallAddRules(p)
  <2>1. push[p].op = "apply" /\ push[p].step = "rules" /\ Ends(p)
    BY <1>4 DEF CallAddRules, Doing
  <2>2. push[p] # NoPush /\ ~Unsettled(push[p])
    BY <2>1, NoPushIs DEF Unsettled, Settles
  <2>3. UNCHANGED <<enabled, link, list, routes, bypass>> /\ (~spoiled' => ~spoiled)
    BY <1>4 DEF CallAddRules, AddsRules, AddsNone
  <2> QED BY <1>0, <1>b, <2>1, <2>2, <2>3, NoPushIs DEF Ends
<1>5. CASE CallRebind(p)
  <2>1. push[p].step = "rebind" /\ push[p].op \in {"pause", "teardown"}
    BY <1>0, <1>5, NoPushIs DEF CallRebind, Legal
  <2>2. push[p] # NoPush /\ ~Unsettled(push[p])
    BY <2>1, NoPushIs DEF Unsettled, Settles
  <2>3. UNCHANGED <<enabled, link, list, routes, bypass>>
    BY <1>5 DEF CallRebind
  <2>4. CASE AddsRules(p) /\ Ends(p)
    <3>1. ~spoiled' => ~spoiled
      BY <2>4 DEF AddsRules
    <3> QED BY <1>0, <1>b, <2>2, <2>3, <2>4, <3>1, NoPushIs DEF Ends
  <2>5. CASE AddsNone /\ Becomes(p, GiveUp(push[p].op))
    <3>1. Legal(GiveUp(push[p].op)) /\ spoiled' = TRUE
      BY <2>1, <2>5, StartsLegal DEF AddsNone
    <3> QED BY <2>2, <2>5, <3>1, StepAgrees DEF Becomes
  <2> QED BY <1>5, <2>4, <2>5 DEF CallRebind
<1>6. CASE CallRemoveRules(p)
  <2>1. push[p].step = "unrule" /\ push[p] # NoPush /\ UNCHANGED spoiled
    BY <1>6, NoPushIs DEF CallRemoveRules
  <2>2. CASE push[p].op = "pause"
    <3>1. ~Unsettled(push[p]) /\ Ends(p) /\ UNCHANGED <<enabled, link, list, routes, bypass>>
      BY <1>6, <2>1, <2>2 DEF CallRemoveRules, Unsettled, Settles
    <3> QED BY <1>0, <1>b, <2>1, <3>1, NoPushIs DEF Ends
  <2>3. CASE push[p].op # "pause"
    <3>1. push[p].op \in {"teardown", "lost"}
      BY <1>0, <2>1, <2>3 DEF Legal
    <3>2. PICK f : f = [push[p] EXCEPT !.step = "routes"]
      OBVIOUS
    <3>3. f.op = push[p].op /\ f.step = "routes"
      BY <3>2 DEF PushesOK, FutureType
    <3>4. push' = [push EXCEPT ![p] = f]
      BY <1>6, <2>3, <3>2 DEF CallRemoveRules, PushAt
    <3>5. Legal(f) /\ Unsettled(f) /\ Promise(f)'
      BY <3>1, <3>3 DEF Legal, Unsettled, Settles, Promise
    <3> QED BY <2>1, <3>4, <3>5, StepAgrees
  <2> QED BY <2>2, <2>3
<1>7. CASE CallRemoveRoutes(p)
  <2>1. push[p] # NoPush /\ Ends(p)
    BY <1>7, NoPushIs DEF CallRemoveRoutes, Released
  <2>2. ASSUME ~spoiled' PROVE ~spoiled /\ Settled'
    <3>1. ~spoiled /\ routes' = {} /\ ~SomeUp'
      BY <1>7, <2>2 DEF CallRemoveRoutes, SomeUp, Up
    <3> QED BY <3>1 DEF Settled
  <2>3. Promise(NoPush)'
    BY NoPushIs DEF Promise
  <2> QED BY <1>0, <2>1, <2>2, <2>3, StepAgrees DEF Ends
<1>8. CASE CallClearRoutes(p)
  <2>1. push[p].op = "clear" /\ push[p].step = "routes" /\ UNCHANGED <<enabled, link>>
    BY <1>8 DEF CallClearRoutes, Doing
  <2>2. push[p] # NoPush /\ (SomeUp' <=> SomeUp)
    BY <2>1, NoPushIs DEF SomeUp, Up
  <2>3. PICK f : f = [push[p] EXCEPT !.step = "list"]
    OBVIOUS
  <2>4. f.op = "clear" /\ f.step = "list" /\ push' = [push EXCEPT ![p] = f]
    BY <1>8, <2>1, <2>3 DEF CallClearRoutes, PushAt, PushesOK, FutureType
  <2>5. Legal(f) /\ Unsettled(f)
    BY <2>4 DEF Legal, Unsettled
  <2>6. ASSUME ~spoiled' PROVE ~spoiled /\ Promise(f)'
    <3>1. ~spoiled /\ routes' = {}
      BY <1>8, <2>6 DEF CallClearRoutes
    <3> QED BY <1>a, <2>1, <2>2, <2>4, <3>1 DEF Promise
  <2> QED BY <2>2, <2>4, <2>5, <2>6, StepAgrees
<1>9. CASE CallClearList(p)
  <2>1. push[p].op = "clear" /\ push[p].step = "list" /\ UNCHANGED <<enabled, link, routes>>
    BY <1>9 DEF CallClearList, Doing
  <2>2. push[p] # NoPush /\ (SomeUp' <=> SomeUp) /\ Ends(p)
    BY <1>9, <2>1, NoPushIs DEF SomeUp, Up, CallClearList
  <2>3. ASSUME ~spoiled' PROVE ~spoiled /\ Settled'
    <3>1. ~spoiled
      BY <1>9, <2>3 DEF CallClearList
    <3>2. routes' = {} /\ (SomeUp' => enabled' = {})
      BY <1>a, <2>1, <2>2, <3>1 DEF Promise
    <3> QED BY <3>1, <3>2 DEF Settled
  <2>4. Promise(NoPush)'
    BY NoPushIs DEF Promise
  <2> QED BY <1>0, <2>2, <2>3, <2>4, StepAgrees DEF Ends
<1> QED BY <1>1, <1>2, <1>3, <1>4, <1>5, <1>6, <1>7, <1>8, <1>9

LEMMA AgreementInductive ==
  /\ BypassInit => Agreement
  /\ BypassTypeOK /\ Agreement /\ [BypassNext]_bypassVars => Agreement'
<1>1. ASSUME BypassInit PROVE Agreement
  <2>1. \A p \in Pushes : push[p] = NoPush
    BY <1>1 DEF BypassInit
  <2>2. Settled
    BY <1>1 DEF BypassInit, Settled, SomeUp, Up
  <2> QED BY <2>1, <2>2, NoPushIs DEF Agreement, Legal, Alone, Agreed, Promise
<1>2. ASSUME BypassTypeOK, Agreement, [BypassNext]_bypassVars PROVE Agreement'
  <2>1. RestOK /\ PushesOK
    BY <1>2, TypeParts
  <2>2. ASSUME NEW l \in Links,
               Connects(l) \/ Disconnected(l) \/ Dropped(l) \/ Paused(l) \/ Dismissed(l)
        PROVE  Agreement'
    BY <1>2, <2>1, <2>2, SessionStepAgrees
  <2>3. CASE ServiceLost
    <3>1. UNCHANGED <<enabled, link, list, routes, bypass>> /\ Start(GiveUp("lost"))
      BY <2>3 DEF ServiceLost
    <3>2. SomeUp' <=> SomeUp
      BY <3>1 DEF SomeUp, Up
    <3>3. GiveUp("lost").op = "lost" /\ Legal(GiveUp("lost"))
      BY StartsLegal
    <3>4. PICK f : f = GiveUp("lost")
      OBVIOUS
    <3>5. Promise(f)' /\ (Settled => Settled')
      BY <3>1, <3>2, <3>3, <3>4, StillAgreed DEF Promise
    <3> QED BY <1>2, <2>1, <3>1, <3>3, <3>4, <3>5, StartAgrees
  <2>4. ASSUME NEW new \in Lists, Saved(new) PROVE Agreement'
    BY <1>2, <2>1, <2>4, SaveAgrees
  <2>5. ASSUME NEW p \in Pushes,
               \/ PauseDecides(p) \/ CallSet(p) \/ CallApply(p) \/ CallAddRules(p)
               \/ CallRebind(p) \/ CallRemoveRules(p) \/ CallRemoveRoutes(p)
               \/ CallClearRoutes(p) \/ CallClearList(p)
        PROVE  Agreement'
    BY <1>2, <2>1, <2>5, CallStepAgrees
  <2>6. CASE PollStarts \/ PollEnds \/ Tamper
    BY <1>2, <2>6, PollAgrees
  <2>7. CASE UNCHANGED bypassVars
    <3>1. UNCHANGED <<enabled, link, list, routes, bypass, push, spoiled>>
      BY <2>7 DEF bypassVars
    <3>2. SomeUp' <=> SomeUp
      BY <3>1 DEF SomeUp, Up
    <3> QED BY <1>2, <3>1, <3>2, IdleAgrees, StillAgreed
  <2> QED BY <1>2, <2>2, <2>3, <2>4, <2>5, <2>6, <2>7 DEF BypassNext
<1> QED BY <1>1, <1>2

LEMMA AgreementAlways == BypassSpec => []Agreement
BY AgreementInductive, TypeCorrect, PTL DEF BypassSpec

\* With nothing under way and nothing spoiled everything is settled.
LEMMA QuietIsSettled ==
  ASSUME Agreement, Quiet, ~spoiled
  PROVE  Settled
<1>1. \A p \in Pushes : ~Unsettled(push[p])
  BY NoPushIs DEF Quiet
<1> QED BY <1>1 DEF Agreement, Agreed

(***************************************************************************)
(* When nothing is under way, nothing failed and no pushes overlapped, a   *)
(* tray that says Off is right: no network is routed around the tunnel.    *)
(***************************************************************************)
THEOREM OffIsUnrouted == BypassSpec => []OffMeansUnrouted
<1>1. Agreement => OffMeansUnrouted
  BY QuietIsSettled DEF OffMeansUnrouted, Settled
<1> QED BY <1>1, AgreementAlways, PTL

(***************************************************************************)
(* ... and a connected session has the networks that were saved last, and  *)
(* no others, when the settings name any.                                  *)
(***************************************************************************)
THEOREM SavedIsInForce == BypassSpec => []SavedListInForce
<1>1. Agreement => SavedListInForce
  BY QuietIsSettled DEF SavedListInForce, Settled
<1> QED BY <1>1, AgreementAlways, PTL
=============================================================================
