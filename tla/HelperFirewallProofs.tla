------------------------ MODULE HelperFirewallProofs ------------------------
(***************************************************************************)
(* What holds of the helper's firewall half for any clients, calls and     *)
(* faults: its types, the trust boundary of the bypass list, the agent of  *)
(* every table, and the single watcher of serial callers.                  *)
(***************************************************************************)
EXTENDS HelperFirewall, FiniteSetTheorems, TLAPS

USE NoneAssumption DEF Steps, WatchSteps, InFlight, AddSteps, Orphaned

(***************************************************************************)
(* Aborting a task leaves every watcher in one of its steps.               *)
(***************************************************************************)
LEMMA AbortedType ==
  ASSUME NEW w \in [Calls -> WatchSteps], NEW h
  PROVE  Aborted(w, h) \in [Calls -> WatchSteps]
BY DEF Aborted

(***************************************************************************)
(* Every variable keeps its type, whichever calls, tasks and faults        *)
(* interleave (all of helper/src/service.rs that the module models).       *)
(***************************************************************************)
THEOREM TypeCorrect == Spec => []TypeOK
<1>1. Init => TypeOK
  BY DEF Init, TypeOK
<1>2. TypeOK /\ [Next]_vars => TypeOK'
  <2> SUFFICES ASSUME TypeOK, [Next]_vars PROVE TypeOK'
    OBVIOUS
  <2> USE DEF TypeOK, state
  <2>1. ASSUME NEW c \in Calls, CallStep(c) PROVE TypeOK'
    <3>1. CASE AddCommit(c)
      BY <3>1 DEF AddCommit
    <3>2. CASE AddFailed(c)
      BY <3>2 DEF AddFailed
    <3>3. CASE AddLock(c)
      BY <3>3, AbortedType DEF AddLock
    <3>4. CASE AddStore(c)
      BY <3>4 DEF AddStore
    <3>5. CASE RemoveCommit(c)
      BY <3>5 DEF RemoveCommit
    <3>6. CASE RemoveFailed(c)
      BY <3>6 DEF RemoveFailed
    <3>7. QED BY <2>1, <3>1, <3>2, <3>3, <3>4, <3>5, <3>6 DEF CallStep
  <2>2. ASSUME NEW c \in Calls, WatchStep(c) \/ WatcherErrored(c) PROVE TypeOK'
    <3>1. CASE Subscribe(c)
      BY <3>1 DEF Subscribe
    <3>2. CASE ClientVanished(c) \/ WatcherErrored(c)
      BY <3>2 DEF ClientVanished, WatcherErrored
    <3>3. CASE CleanupCommit(c) \/ CleanupFailed(c)
      BY <3>3 DEF CleanupCommit, CleanupFailed
    <3>4. CASE Resume(c) \/ Unwind(c) \/ DetachedCommit(c)
      BY <3>4 DEF Resume, Unwind, DetachedCommit
    <3>5. QED BY <2>2, <3>1, <3>2, <3>3, <3>4 DEF WatchStep
  <2>3. ASSUME NEW c \in Calls, NEW cl \in Clients, Request(c, cl) PROVE TypeOK'
    <3>1. CASE AddRulesRejected(c, cl) \/ AddRules(c, cl)
      BY <3>1 DEF AddRulesRejected, AddRules, Send
    <3>2. CASE RemoveRules(c, cl)
      BY <3>2, AbortedType DEF RemoveRules, Send
    <3>3. CASE ClearBypassCidrs(c, cl)
      BY <3>3 DEF ClearBypassCidrs, Send
    <3>4. CASE \E list \in SUBSET Cidrs : SetBypassCidrs(c, cl, list)
      BY <3>4 DEF SetBypassCidrs, Send
    <3>5. QED BY <2>3, <3>1, <3>2, <3>3, <3>4 DEF Request
  <2>4. ASSUME NEW cl \in Clients, Appear(cl) \/ Vanish(cl) PROVE TypeOK'
    BY <2>4 DEF Appear, Vanish
  <2>5. CASE Sigterm \/ ShutdownSweep
    BY <2>5 DEF Sigterm, ShutdownSweep
  <2>6. CASE Exit \/ Crash
    BY <2>6 DEF Exit, Crash, LoseTasks
  <2>7. CASE UNCHANGED vars
    BY <2>7 DEF vars
  <2>8. QED BY <2>1, <2>2, <2>3, <2>4, <2>5, <2>6, <2>7 DEF Next
<1>3. QED BY <1>1, <1>2, PTL DEF Spec

---------------------------------------------------------------------------
(***************************************************************************)
(* The list that root's nft run is given was validated, for any network a  *)
(* caller can name: set_bypass_cidrs is the only door, and a list that was *)
(* accepted once is copied whole (service.rs, lines 109 to 112).           *)
(***************************************************************************)
THEOREM OnlyValidListsReachNft == Spec => []TrustBoundary
<1>1. Init => TrustBoundary
  <2>1. Cardinality({}) = 0
    BY FS_EmptySet
  <2>2. ValidList({})
    BY <2>1, BoundAssumption DEF ValidList
  <2>3. QED BY <2>2 DEF Init, TrustBoundary
<1>2. TypeOK /\ TrustBoundary /\ [Next]_vars => TrustBoundary'
  <2> SUFFICES ASSUME TypeOK, TrustBoundary, [Next]_vars PROVE TrustBoundary'
    OBVIOUS
  <2> USE DEF TypeOK, state, TrustBoundary
  <2>0. ValidList({})
    BY FS_EmptySet, BoundAssumption DEF ValidList
  <2>1. ASSUME NEW c \in Calls, CallStep(c) PROVE UNCHANGED <<bypassCidrs, snapshot>>
    BY <2>1 DEF CallStep, AddCommit, AddFailed, AddLock, AddStore, RemoveCommit, RemoveFailed
  <2>2. ASSUME NEW c \in Calls, WatchStep(c) \/ WatcherErrored(c)
        PROVE  UNCHANGED <<bypassCidrs, snapshot>>
    BY <2>2 DEF WatchStep, WatcherErrored, Subscribe, ClientVanished, CleanupCommit,
                CleanupFailed, Resume, Unwind, DetachedCommit
  <2>3. ASSUME NEW c \in Calls, NEW cl \in Clients, Request(c, cl) PROVE TrustBoundary'
    <3>1. CASE AddRulesRejected(c, cl) \/ RemoveRules(c, cl)
      BY <3>1 DEF AddRulesRejected, RemoveRules
    <3>2. CASE AddRules(c, cl)
      BY <3>2 DEF AddRules
    <3>3. CASE ClearBypassCidrs(c, cl)
      BY <3>3, <2>0 DEF ClearBypassCidrs
    <3>4. CASE \E list \in SUBSET Cidrs : SetBypassCidrs(c, cl, list)
      BY <3>4 DEF SetBypassCidrs
    <3>5. QED BY <2>3, <3>1, <3>2, <3>3, <3>4 DEF Request
  <2>4. ASSUME NEW cl \in Clients, Appear(cl) \/ Vanish(cl)
        PROVE  UNCHANGED <<bypassCidrs, snapshot>>
    BY <2>4 DEF Appear, Vanish
  <2>5. CASE Sigterm \/ ShutdownSweep
    BY <2>5 DEF Sigterm, ShutdownSweep
  <2>6. CASE Exit \/ Crash
    BY <2>6, <2>0 DEF Exit, Crash, LoseTasks
  <2>7. CASE UNCHANGED vars
    BY <2>7 DEF vars
  <2>8. QED BY <2>1, <2>2, <2>3, <2>4, <2>5, <2>6, <2>7 DEF Next
<1>3. QED BY <1>1, <1>2, TypeCorrect, PTL DEF Spec

---------------------------------------------------------------------------
(***************************************************************************)
(* Aborting h changes h alone, and never into a live step; it leaves no    *)
(* task running under that handle.                                         *)
(***************************************************************************)
LEMMA AbortedStops ==
  ASSUME NEW w \in [Calls -> WatchSteps], NEW h
  PROVE  /\ \A t \in Calls : t # h => Aborted(w, h)[t] = w[t]
         /\ \A t \in Calls : Aborted(w, h)[t] \in LiveWatch => t # h /\ w[t] \in LiveWatch
         /\ \A t \in Calls : Aborted(w, h)[t] = "locking" => w[t] = "locking"
BY DEF Aborted, LiveWatch

(***************************************************************************)
(* No order of calls, deaths and shutdown leaves a table without an agent: *)
(* every path that stops a watcher has started something that replaces the *)
(* table or deletes it (add_rules runs nft before it aborts, remove_rules  *)
(* after).  Faults are excused by "abandoned", and only until the next     *)
(* table is built.                                                         *)
(***************************************************************************)
THEOREM TablesHaveAgents == Spec => []NoOrphanTable
<1>1. Init => NoOrphanTable
  BY DEF Init, NoOrphanTable
<1>2. TypeOK /\ NoOrphanTable /\ [Next]_vars => NoOrphanTable'
  <2> SUFFICES ASSUME TypeOK, NoOrphanTable, [Next]_vars,
                      table' # None, ~abandoned'
               PROVE  HasAgent'
    BY DEF NoOrphanTable
  <2> USE DEF TypeOK, state, NoOrphanTable, HasAgent
  <2>1. ASSUME NEW c \in Calls, CallStep(c) PROVE HasAgent'
    <3>1. CASE AddCommit(c)
      BY <3>1 DEF AddCommit
    <3>2. CASE AddFailed(c)
      BY <3>2 DEF AddFailed
    <3>3. CASE AddLock(c)
      <4>1. watch'[c] = "spawned"
        BY <3>3, AbortedType DEF AddLock
      <4>2. QED BY <4>1
    <3>4. CASE AddStore(c)
      BY <3>4 DEF AddStore
    <3>5. CASE RemoveCommit(c)
      BY <3>5 DEF RemoveCommit
    <3>6. CASE RemoveFailed(c)
      BY <3>6 DEF RemoveFailed
    <3>7. QED BY <2>1, <3>1, <3>2, <3>3, <3>4, <3>5, <3>6 DEF CallStep
  <2>2. ASSUME NEW c \in Calls, WatchStep(c) \/ WatcherErrored(c) PROVE HasAgent'
    <3>1. CASE Subscribe(c)
      BY <3>1 DEF Subscribe
    <3>2. CASE ClientVanished(c)
      BY <3>2 DEF ClientVanished
    <3>3. CASE CleanupCommit(c) \/ CleanupFailed(c) \/ WatcherErrored(c)
      BY <3>3 DEF CleanupCommit, CleanupFailed, WatcherErrored
    <3>4. CASE Resume(c) \/ Unwind(c) \/ DetachedCommit(c)
      BY <3>4 DEF Resume, Unwind, DetachedCommit
    <3>5. QED BY <2>2, <3>1, <3>2, <3>3, <3>4 DEF WatchStep
  <2>3. ASSUME NEW c \in Calls, NEW cl \in Clients, Request(c, cl) PROVE HasAgent'
    <3>1. CASE AddRulesRejected(c, cl) \/ AddRules(c, cl)
      BY <3>1 DEF AddRulesRejected, AddRules, Send
    <3>2. CASE RemoveRules(c, cl)
      BY <3>2 DEF RemoveRules
    <3>3. CASE ClearBypassCidrs(c, cl)
      BY <3>3 DEF ClearBypassCidrs, Send
    <3>4. CASE \E list \in SUBSET Cidrs : SetBypassCidrs(c, cl, list)
      BY <3>4 DEF SetBypassCidrs, Send
    <3>5. QED BY <2>3, <3>1, <3>2, <3>3, <3>4 DEF Request
  <2>4. ASSUME NEW cl \in Clients, Appear(cl) \/ Vanish(cl) PROVE HasAgent'
    BY <2>4 DEF Appear, Vanish
  <2>5. CASE Sigterm \/ ShutdownSweep
    BY <2>5 DEF Sigterm, ShutdownSweep
  <2>6. CASE Exit \/ Crash
    BY <2>6 DEF Exit, Crash, LoseTasks
  <2>7. CASE UNCHANGED vars
    BY <2>7 DEF vars
  <2>8. QED BY <2>1, <2>2, <2>3, <2>4, <2>5, <2>6, <2>7 DEF Next
<1>3. QED BY <1>1, <1>2, TypeCorrect, PTL DEF Spec

---------------------------------------------------------------------------
(***************************************************************************)
(* Serial callers.  The single watcher needs three more facts to be        *)
(* inductive: at most one call is in flight, between the two locks of      *)
(* AddRules the state holds no handle, and no abort is too late.           *)
(***************************************************************************)
OneInFlight == \A c, d \in Calls : pc[c] \in InFlight /\ pc[d] \in InFlight => c = d
NoHandleBetweenLocks == \A c \in Calls : pc[c] = "add_store" => watcher = None
NoneLocking == \A c \in Calls : watch[c] # "locking"
SerialInv == OneInFlight /\ NoHandleBetweenLocks /\ NoneLocking /\ NoStrayWatcher

(***************************************************************************)
(* A new call starts only when no other is in flight.                      *)
(***************************************************************************)
LEMMA SendAlone ==
  ASSUME Serial, NEW c \in Calls, NEW cl \in Clients, Send(c, cl)
  PROVE  pc[c] = "unsent" /\ \A d \in Calls : pc[d] \notin InFlight
BY DEF Send

(***************************************************************************)
(* For callers that wait for each reply, however many clients come and go  *)
(* and whenever they crash, and unless an abort comes too late: a running  *)
(* watcher is the one the state can abort.                                 *)
(***************************************************************************)
THEOREM SerialCallersHaveOneWatcher ==
  Serial /\ "late" \notin Events => (Spec => []NoStrayWatcher)
<1> SUFFICES ASSUME Serial, "late" \notin Events PROVE Spec => []NoStrayWatcher
  OBVIOUS
<1>1. Init => SerialInv
  BY DEF Init, SerialInv, OneInFlight, NoHandleBetweenLocks, NoneLocking, NoStrayWatcher, LiveWatch
<1>2. TypeOK /\ SerialInv /\ [Next]_vars => SerialInv'
  <2> SUFFICES ASSUME TypeOK, SerialInv, [Next]_vars PROVE SerialInv'
    OBVIOUS
  <2> USE DEF TypeOK, state, SerialInv, OneInFlight, NoHandleBetweenLocks, NoneLocking, NoStrayWatcher
  <2>1. ASSUME NEW c \in Calls, CallStep(c) PROVE SerialInv'
    <3>1. CASE AddCommit(c)
      BY <3>1 DEF AddCommit
    <3>2. CASE AddFailed(c)
      BY <3>2 DEF AddFailed
    <3>3. CASE AddLock(c)
      <4>1. \A t \in Calls : t # c => pc[t] \notin InFlight /\ pc'[t] \notin InFlight
        BY <3>3 DEF AddLock
      <4>2. \A t \in Calls : t # c /\ watch'[t] \in LiveWatch => t # watcher /\ watch[t] \in LiveWatch
        BY <3>3, AbortedStops DEF AddLock
      <4>3. \A t \in Calls : t # c => watch'[t] \notin LiveWatch
        BY <4>1, <4>2
      <4>4. pc'[c] = "add_store" /\ watcher' = None
        BY <3>3 DEF AddLock
      <4>5. \A t \in Calls : watch'[t] # "locking"
        <5>1. \A t \in Calls : Aborted(watch, watcher)[t] # "locking"
          BY AbortedStops
        <5>2. watch' = [Aborted(watch, watcher) EXCEPT ![c] = "spawned"]
          BY <3>3 DEF AddLock
        <5>3. Aborted(watch, watcher) \in [Calls -> WatchSteps]
          BY AbortedType
        <5>4. QED BY <5>1, <5>2, <5>3
      <4>6. QED BY <4>1, <4>3, <4>4, <4>5
    <3>4. CASE AddStore(c)
      <4>1. \A t \in Calls : t # c => pc[t] \notin InFlight /\ pc'[t] \notin InFlight
        BY <3>4 DEF AddStore
      <4>2. watcher = None /\ watcher' = c /\ watch' = watch /\ pc'[c] = "added"
        BY <3>4 DEF AddStore
      <4>3. QED BY <4>1, <4>2
    <3>5. CASE RemoveCommit(c)
      BY <3>5 DEF RemoveCommit
    <3>6. CASE RemoveFailed(c)
      BY <3>6 DEF RemoveFailed
    <3>7. QED BY <2>1, <3>1, <3>2, <3>3, <3>4, <3>5, <3>6 DEF CallStep
  <2>2. ASSUME NEW c \in Calls, WatchStep(c) \/ WatcherErrored(c) PROVE SerialInv'
    <3> USE DEF LiveWatch
    <3>1. CASE Subscribe(c)
      BY <3>1 DEF Subscribe
    <3>2. CASE ClientVanished(c) \/ WatcherErrored(c)
      BY <3>2 DEF ClientVanished, WatcherErrored
    <3>3. CASE CleanupCommit(c) \/ CleanupFailed(c)
      BY <3>3 DEF CleanupCommit, CleanupFailed
    <3>4. CASE Resume(c) \/ Unwind(c)
      BY <3>4 DEF Resume, Unwind
    <3>5. CASE DetachedCommit(c)
      BY <3>5 DEF DetachedCommit
    <3>6. QED BY <2>2, <3>1, <3>2, <3>3, <3>4, <3>5 DEF WatchStep
  <2>3. ASSUME NEW c \in Calls, NEW cl \in Clients, Request(c, cl) PROVE SerialInv'
    <3>1. CASE AddRulesRejected(c, cl) \/ AddRules(c, cl)
      BY <3>1, SendAlone DEF AddRulesRejected, AddRules
    <3>2. CASE RemoveRules(c, cl)
      <4>1. \A t \in Calls : watch'[t] \in LiveWatch => t # watcher /\ watch[t] \in LiveWatch
        BY <3>2, AbortedStops DEF RemoveRules
      <4>2. \A t \in Calls : pc[t] \notin InFlight
        BY <3>2, SendAlone DEF RemoveRules
      <4>3. \A t \in Calls : watch'[t] \notin LiveWatch
        BY <4>1, <4>2
      <4>4. watcher' = None /\ pc' = [pc EXCEPT ![c] = "remove_nft"]
        BY <3>2 DEF RemoveRules
      <4>5. \A t \in Calls : watch'[t] # "locking"
        BY <3>2, AbortedStops DEF RemoveRules
      <4>6. QED BY <4>2, <4>3, <4>4, <4>5
    <3>3. CASE ClearBypassCidrs(c, cl)
      BY <3>3, SendAlone DEF ClearBypassCidrs
    <3>4. CASE \E list \in SUBSET Cidrs : SetBypassCidrs(c, cl, list)
      BY <3>4, SendAlone DEF SetBypassCidrs
    <3>5. QED BY <2>3, <3>1, <3>2, <3>3, <3>4 DEF Request
  <2>4. ASSUME NEW cl \in Clients, Appear(cl) \/ Vanish(cl) PROVE SerialInv'
    BY <2>4 DEF Appear, Vanish
  <2>5. CASE Sigterm \/ ShutdownSweep
    BY <2>5 DEF Sigterm, ShutdownSweep
  <2>6. CASE Exit \/ Crash
    <3>1. \A c \in Calls :
            watch'[c] \notin LiveWatch /\ watch'[c] # "locking" /\ pc'[c] \notin InFlight
      BY <2>6 DEF Exit, Crash, LoseTasks, LiveWatch
    <3>2. QED BY <3>1
  <2>7. CASE UNCHANGED vars
    BY <2>7 DEF vars
  <2>8. QED BY <2>1, <2>2, <2>3, <2>4, <2>5, <2>6, <2>7 DEF Next
<1>3. SerialInv => NoStrayWatcher
  BY DEF SerialInv
<1>4. QED BY <1>1, <1>2, <1>3, TypeCorrect, PTL DEF Spec
=============================================================================
