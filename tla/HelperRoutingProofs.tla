------------------------ MODULE HelperRoutingProofs ------------------------
(***************************************************************************)
(* What holds of the helper's routing half for any interfaces, networks    *)
(* and tasks: its types, the two values an interface can have, and, for    *)
(* tasks that do not overlap, the safe-keeping of every original value.    *)
(***************************************************************************)
EXTENDS HelperRouting, FiniteSetTheorems, TLAPS

USE BootAssumption, NoneAssumption
    DEF kernel, helper, env, locals, Goto, TearDown

LEMMA Ranges ==
  /\ Loose \in RpFilter /\ 0 \in DelRuns
  /\ \A d \in DelRuns : d < 2 * MaxBypass => d + 1 \in DelRuns
BY BoundAssumption DEF RpFilter, Loose, DelRuns

LEMMA Names == Returns \cup Finished \cup
  {"unsent", "delete", "flush", "capture", "read", "loosen", "install",
   "record", "undo", "restore", "exit"} \subseteq Places
BY DEF Places, Returns, Finished

(***************************************************************************)
(* Past Capture a task knows its interface, and past ReadRpFilter what it  *)
(* read there; a clean-up has neither and is not an apply's.               *)
(***************************************************************************)
Located ==
  \A t \in Tasks :
    /\ pc[t] \in {"read", "loosen"} \/ MayUndo(t) => net[t] \in Ifaces
    /\ pc[t] = "loosen" \/ MayUndo(t) => seen[t] \in RpFilter
    /\ pc[t] = "restore" => after[t] # "undo"

Typed == TypeOK /\ Located

LEMMA TypedInductive == (Init => Typed) /\ (Typed /\ [Next]_vars => Typed')
<1> USE Ranges, Names DEF Typed, TypeOK, Located, MayUndo, Value, Returns, Finished, Blank
<1>0. Blank \in [Ifaces -> Value]
  OBVIOUS
<1>1. Init => Typed
  <2>1. Init => TypeOK
    BY <1>0 DEF Init
  <2>2. Init => Located
    BY DEF Init
  <2>3. QED BY <2>1, <2>2
<1>2. ASSUME Typed, [Next]_vars PROVE Typed'
  <2>1. ASSUME NEW t \in Tasks, Begin(t) PROVE Typed'
    <3> USE <1>2, <1>0
    <3>1. CASE ApplyBypassRoutes(t)
      <4>1. TypeOK'
        <5>1. CASE bypassCidrs = {}
          BY <3>1, <5>1 DEF ApplyBypassRoutes
        <5>2. CASE bypassCidrs # {}
          <6>1. pc' \in [Tasks -> Places] /\ after' \in [Tasks -> Returns]
            BY <3>1, <5>2 DEF ApplyBypassRoutes
          <6>2. dels' \in [Tasks -> DelRuns]
            BY <3>1, <5>2 DEF ApplyBypassRoutes
          <6>3. todo' \in [Tasks -> SUBSET Cidrs]
            BY <3>1, <5>2 DEF ApplyBypassRoutes
          <6>4. QED BY <3>1, <5>2, <6>1, <6>2, <6>3 DEF ApplyBypassRoutes
        <5>3. QED BY <5>1, <5>2
      <4>2. Located'
        BY <3>1 DEF ApplyBypassRoutes
      <4>3. QED BY <4>1, <4>2
    <3>2. CASE RemoveBypassRoutes(t)
      BY <3>2 DEF RemoveBypassRoutes
    <3>3. CASE VanishTeardown(t)
      BY <3>3 DEF VanishTeardown
    <3>4. CASE ShutdownCleanup(t)
      BY <3>4 DEF ShutdownCleanup
    <3>5. QED BY <2>1, <3>1, <3>2, <3>3, <3>4 DEF Begin
  <2>2. ASSUME NEW t \in Tasks, Step(t) PROVE Typed'
    <3> USE <1>2
    <3>1. CASE DeleteRule(t)
      BY <3>1 DEF DeleteRule
    <3>2. CASE DeleteEnds(t)
      BY <3>2 DEF DeleteEnds
    <3>3. CASE DeleteFails(t)
      BY <3>3 DEF DeleteFails
    <3>4. CASE Flush(t)
      BY <3>4 DEF Flush
    <3>5. CASE Capture(t)
      BY <3>5 DEF Capture
    <3>6. CASE ReadRpFilter(t)
      <4>1. net[t] \in Ifaces
        BY <3>6 DEF ReadRpFilter
      <4>2. TypeOK'
        <5>1. pc' \in [Tasks -> Places]
          <6>1. PICK p \in Places : pc' = [pc EXCEPT ![t] = p]
            BY <3>6 DEF ReadRpFilter
          <6>2. QED BY <6>1
        <5>2. seen' \in [Tasks -> Value]
          <6>1. PICK v \in Value : seen' = [seen EXCEPT ![t] = v]
            <7>1. rpf[net[t]] \in Value /\ seen = [seen EXCEPT ![t] = seen[t]]
              BY <4>1
            <7>2. QED BY <3>6, <7>1 DEF ReadRpFilter
          <6>2. QED BY <6>1
        <5>3. QED BY <3>6, <4>1, <5>1, <5>2 DEF ReadRpFilter
      <4>3. Located'
        BY <3>6, <4>1 DEF ReadRpFilter
      <4>4. QED BY <4>2, <4>3
    <3>7. CASE LoosenRpFilter(t)
      <4>1. net[t] \in Ifaces /\ seen[t] \in RpFilter
        BY <3>7 DEF LoosenRpFilter
      <4>2. TypeOK'
        <5>1. pc' \in [Tasks -> Places]
          BY <3>7, <4>1 DEF LoosenRpFilter
        <5>2. rpf' \in [Ifaces -> RpFilter]
          BY <3>7, <4>1 DEF LoosenRpFilter
        <5>3. QED BY <3>7, <4>1, <5>1, <5>2 DEF LoosenRpFilter
      <4>3. Located'
        BY <3>7, <4>1 DEF LoosenRpFilter
      <4>4. QED BY <4>2, <4>3
    <3>8. CASE InstallRule(t)
      BY <3>8 DEF InstallRule
    <3>9. CASE PopulateTable(t)
      <4>1. net[t] \in Ifaces /\ seen[t] \in RpFilter
        BY <3>9 DEF PopulateTable
      <4>2. TypeOK'
        <5>1. pc' \in [Tasks -> Places] /\ after' \in [Tasks -> Returns]
          BY <3>9, <4>1 DEF PopulateTable
        <5>2. dels' \in [Tasks -> DelRuns]
          BY <3>9, <4>1 DEF PopulateTable
        <5>3. route' \in Ifaces \cup {None}
          BY <3>9, <4>1 DEF PopulateTable
        <5>4. QED BY <3>9, <4>1, <5>1, <5>2, <5>3 DEF PopulateTable
      <4>3. Located'
        BY <3>9, <4>1 DEF PopulateTable
      <4>4. QED BY <4>2, <4>3
    <3>10. CASE UndoRpFilter(t)
      BY <3>10 DEF UndoRpFilter
    <3>11. CASE RecordApplied(t)
      BY <3>11 DEF RecordApplied
    <3>12. CASE RestoreRpFilter(t)
      <4>1. PICK i \in Ifaces :
              /\ saved[t][i] # None
              /\ \/ i \in present /\ rpf' = [rpf EXCEPT ![i] = saved[t][i]]
                 \/ UNCHANGED rpf
              /\ saved' = [saved EXCEPT ![t][i] = None]
        BY <3>12 DEF RestoreRpFilter
      <4>2. saved[t][i] \in RpFilter /\ [saved[t] EXCEPT ![i] = None] \in [Ifaces -> Value]
        BY <4>1
      <4>3. TypeOK'
        BY <3>12, <4>1, <4>2 DEF RestoreRpFilter
      <4>4. Located'
        BY <3>12 DEF RestoreRpFilter
      <4>5. QED BY <4>3, <4>4
    <3>13. CASE RestoreEnds(t)
      BY <3>13 DEF RestoreEnds
    <3>14. CASE Exit(t)
      BY <3>14 DEF Exit, Busy
    <3>15. QED BY <2>2, <3>1, <3>2, <3>3, <3>4, <3>5, <3>6, <3>7, <3>8, <3>9, <3>10,
                  <3>11, <3>12, <3>13, <3>14 DEF Step
  <2>3. CASE Environment
    BY <1>2, <2>3 DEF Environment, SetBypassCidrs, Unplug, Plug, Watch, GuiVanishes, UplinkMoves
  <2>4. CASE UNCHANGED vars
    BY <1>2, <2>4 DEF vars
  <2>5. QED BY <1>2, <2>1, <2>2, <2>3, <2>4 DEF Next
<1>3. QED BY <1>1, <1>2

(***************************************************************************)
(* Every variable keeps its type, whatever overlaps and fails.             *)
(***************************************************************************)
THEOREM TypeCorrect == Spec => []TypeOK
<1>1. Typed => TypeOK
  BY DEF Typed
<1>2. QED BY <1>1, TypedInductive, PTL DEF Spec

(***************************************************************************)
(* Every rp_filter value the helper holds is Loose or the boot value of    *)
(* the interface it is held for.                                           *)
(***************************************************************************)
MayWrite(t) == pc[t] = "loosen" \/ MayUndo(t)

Genuine ==
  /\ OnlyBootOrLoose
  /\ \A i \in Ifaces : original[i] \in {None, Boot[i], Loose}
  /\ \A t \in Tasks, i \in Ifaces : saved[t][i] \in {None, Boot[i], Loose}
  /\ \A t \in Tasks : MayWrite(t) => seen[t] \in {Boot[net[t]], Loose}

LEMMA GenuineInductive ==
  (Init => Genuine) /\ (Typed /\ Genuine /\ [Next]_vars => Genuine')
<1> USE DEF Typed, Genuine, OnlyBootOrLoose, MayWrite, MayUndo, Located, Blank
<1>1. Init => Genuine
  BY DEF Init
<1>2. ASSUME Typed, Genuine, [Next]_vars PROVE Genuine'
  <2> USE <1>2 DEF TypeOK
  <2>1. ASSUME NEW t \in Tasks, Begin(t) PROVE Genuine'
    <3>1. CASE ApplyBypassRoutes(t)
      BY <3>1 DEF ApplyBypassRoutes
    <3>2. CASE RemoveBypassRoutes(t)
      BY <3>2 DEF RemoveBypassRoutes
    <3>3. CASE VanishTeardown(t)
      BY <3>3 DEF VanishTeardown
    <3>4. CASE ShutdownCleanup(t)
      BY <3>4 DEF ShutdownCleanup
    <3>5. QED BY <2>1, <3>1, <3>2, <3>3, <3>4 DEF Begin
  <2>2. ASSUME NEW t \in Tasks, Step(t) PROVE Genuine'
    <3>1. CASE DeleteRule(t)
      BY <3>1 DEF DeleteRule
    <3>2. CASE DeleteEnds(t)
      BY <3>2 DEF DeleteEnds
    <3>3. CASE DeleteFails(t)
      BY <3>3 DEF DeleteFails
    <3>4. CASE Flush(t)
      BY <3>4 DEF Flush, Returns
    <3>5. CASE Capture(t)
      BY <3>5 DEF Capture
    <3>6. CASE ReadRpFilter(t)
      BY <3>6 DEF ReadRpFilter
    <3>7. CASE LoosenRpFilter(t)
      BY <3>7 DEF LoosenRpFilter
    <3>8. CASE InstallRule(t)
      BY <3>8 DEF InstallRule
    <3>9. CASE PopulateTable(t)
      BY <3>9 DEF PopulateTable
    <3>10. CASE UndoRpFilter(t)
      BY <3>10 DEF UndoRpFilter
    <3>11. CASE RecordApplied(t)
      BY <3>11 DEF RecordApplied
    <3>12. CASE RestoreRpFilter(t)
      BY <3>12 DEF RestoreRpFilter
    <3>13. CASE RestoreEnds(t)
      BY <3>13 DEF RestoreEnds
    <3>14. CASE Exit(t)
      BY <3>14 DEF Exit, Busy, Finished
    <3>15. QED BY <2>2, <3>1, <3>2, <3>3, <3>4, <3>5, <3>6, <3>7, <3>8, <3>9, <3>10,
                  <3>11, <3>12, <3>13, <3>14 DEF Step
  <2>3. CASE Environment
    BY <2>3 DEF Environment, SetBypassCidrs, Unplug, Plug, Watch, GuiVanishes, UplinkMoves
  <2>4. CASE UNCHANGED vars
    BY <2>4 DEF vars
  <2>5. QED BY <2>1, <2>2, <2>3, <2>4 DEF Next
<1>3. QED BY <1>1, <1>2

(***************************************************************************)
(* Overlapping or not, no interface ever gets another's rp_filter.         *)
(***************************************************************************)
THEOREM NoForeignValue == Spec => []OnlyBootOrLoose
<1>1. Genuine => OnlyBootOrLoose
  BY DEF Genuine
<1>2. QED BY <1>1, TypedInductive, GenuineInductive, PTL DEF Spec

(***************************************************************************)
(* Tasks that do not overlap.  What an apply has read is the boot value,   *)
(* unless it found 2 and the boot value is recorded already.               *)
(***************************************************************************)
OneBusy == \A t, u \in Tasks : Busy(t) /\ Busy(u) => t = u

SeenOrRecorded ==
  \A t \in Tasks :
    /\ pc[t] = "loosen" => seen[t] = Boot[net[t]] /\ seen[t] # Loose
    /\ MayUndo(t) => \/ seen[t] = Boot[net[t]]
                     \/ seen[t] = Loose /\ original[net[t]] = Boot[net[t]]

Custody ==
  /\ OneBusy
  /\ RecordedIsOriginal
  /\ \A t \in Tasks, i \in Ifaces : saved[t][i] \in {None, Boot[i]}
  /\ ~applied => original = Blank
  /\ SeenOrRecorded
  /\ OriginalsHeld

Known == Typed /\ OnlyBootOrLoose

(***************************************************************************)
(* The same, seen from the one task t that runs or is about to start.      *)
(***************************************************************************)
Quiet(t) == \A u \in Tasks \ {t} : pc[u] \in Finished \cup {"unsent"}

SoloSeen(t) ==
  /\ pc[t] = "loosen" => seen[t] = Boot[net[t]] /\ seen[t] # Loose
  /\ MayUndo(t) => \/ seen[t] = Boot[net[t]]
                   \/ seen[t] = Loose /\ original[net[t]] = Boot[net[t]]

SoloHeld(t) ==
  \A i \in present :
    rpf[i] # Boot[i] =>
      \/ original[i] = Boot[i]
      \/ MayUndo(t) /\ net[t] = i /\ seen[t] = Boot[i]
      \/ pc[t] = "restore" /\ saved[t][i] = Boot[i]

Kept ==
  /\ RecordedIsOriginal
  /\ \A t \in Tasks, i \in Ifaces : saved[t][i] \in {None, Boot[i]}
  /\ ~applied => original = Blank

Solo(t) == Quiet(t) /\ Kept /\ SoloSeen(t) /\ SoloHeld(t)

LEMMA SoloIsCustody ==
  ASSUME NEW t \in Tasks
  PROVE  Quiet(t) => (Custody <=> Solo(t))
<1> USE DEF Custody, Solo, Quiet, Kept, MayUndo, Finished
<1>1. Quiet(t) => OneBusy
  BY DEF OneBusy, Busy
<1>2. Quiet(t) => (SeenOrRecorded <=> SoloSeen(t))
  BY DEF SeenOrRecorded, SoloSeen
<1>3. Quiet(t) => (OriginalsHeld <=> SoloHeld(t))
  BY DEF OriginalsHeld, Held, SoloHeld
<1>4. QED BY <1>1, <1>2, <1>3

LEMMA SoloStep ==
  ASSUME Serial, "restore" \notin Events, Known, NEW t \in Tasks, Solo(t)
  PROVE  Begin(t) \/ Step(t) => Solo(t)'
<1> USE DEF Known, Typed, TypeOK, Located, OnlyBootOrLoose, Solo, Kept, SoloSeen, SoloHeld,
            MayUndo, RecordedIsOriginal, Blank
<1>1. CASE ApplyBypassRoutes(t)
  <2>1. Quiet(t)'
    BY <1>1 DEF ApplyBypassRoutes, Quiet
  <2>2. Kept'
    BY <1>1 DEF ApplyBypassRoutes
  <2>3. SoloSeen(t)'
    BY <1>1 DEF ApplyBypassRoutes
  <2>4. SoloHeld(t)'
    BY <1>1 DEF ApplyBypassRoutes, Start
  <2>5. QED BY <2>1, <2>2, <2>3, <2>4
<1>2. CASE RemoveBypassRoutes(t)
  <2>1. Quiet(t)'
    BY <1>2 DEF RemoveBypassRoutes, Quiet
  <2>2. Kept'
    BY <1>2 DEF RemoveBypassRoutes
  <2>3. SoloSeen(t)'
    BY <1>2 DEF RemoveBypassRoutes
  <2>4. SoloHeld(t)'
    BY <1>2 DEF RemoveBypassRoutes, Start
  <2>5. QED BY <2>1, <2>2, <2>3, <2>4
<1>3. CASE VanishTeardown(t)
  <2>1. Quiet(t)'
    BY <1>3 DEF VanishTeardown, Quiet
  <2>2. Kept'
    BY <1>3 DEF VanishTeardown
  <2>3. SoloSeen(t)'
    BY <1>3 DEF VanishTeardown
  <2>4. SoloHeld(t)'
    BY <1>3 DEF VanishTeardown, Start
  <2>5. QED BY <2>1, <2>2, <2>3, <2>4
<1>4. CASE ShutdownCleanup(t)
  <2>1. Quiet(t)'
    BY <1>4 DEF ShutdownCleanup, Quiet
  <2>2. Kept'
    BY <1>4 DEF ShutdownCleanup
  <2>3. SoloSeen(t)'
    BY <1>4 DEF ShutdownCleanup
  <2>4. SoloHeld(t)'
    BY <1>4 DEF ShutdownCleanup, Start
  <2>5. QED BY <2>1, <2>2, <2>3, <2>4
<1>5. CASE DeleteRule(t)
  <2>1. Quiet(t)'
    BY <1>5 DEF DeleteRule, Quiet
  <2>2. Kept'
    BY <1>5 DEF DeleteRule
  <2>3. SoloSeen(t)'
    BY <1>5 DEF DeleteRule
  <2>4. SoloHeld(t)'
    BY <1>5 DEF DeleteRule
  <2>5. QED BY <2>1, <2>2, <2>3, <2>4
<1>6. CASE DeleteEnds(t)
  <2>1. Quiet(t)'
    BY <1>6 DEF DeleteEnds, Quiet
  <2>2. Kept'
    BY <1>6 DEF DeleteEnds
  <2>3. SoloSeen(t)'
    BY <1>6 DEF DeleteEnds
  <2>4. SoloHeld(t)'
    BY <1>6 DEF DeleteEnds
  <2>5. QED BY <2>1, <2>2, <2>3, <2>4
<1>7. CASE DeleteFails(t)
  <2>1. Quiet(t)'
    BY <1>7 DEF DeleteFails, Returns, Quiet
  <2>2. Kept'
    BY <1>7 DEF DeleteFails, Returns
  <2>3. SoloSeen(t)'
    BY <1>7 DEF DeleteFails, Returns
  <2>4. SoloHeld(t)'
    BY <1>7 DEF DeleteFails, Returns
  <2>5. QED BY <2>1, <2>2, <2>3, <2>4
<1>8. CASE Flush(t)
  <2>1. Quiet(t)'
    BY <1>8 DEF Flush, Returns, Quiet
  <2>2. Kept'
    BY <1>8 DEF Flush, Returns
  <2>3. SoloSeen(t)'
    BY <1>8 DEF Flush, Returns
  <2>4. SoloHeld(t)'
    BY <1>8 DEF Flush, Returns
  <2>5. QED BY <2>1, <2>2, <2>3, <2>4
<1>9. CASE Capture(t)
  <2>1. Quiet(t)'
    BY <1>9 DEF Capture, Quiet
  <2>2. Kept'
    BY <1>9 DEF Capture
  <2>3. SoloSeen(t)'
    BY <1>9 DEF Capture
  <2>4. SoloHeld(t)'
    BY <1>9 DEF Capture
  <2>5. QED BY <2>1, <2>2, <2>3, <2>4
<1>10. CASE ReadRpFilter(t)
  <2>1. Quiet(t)'
    BY <1>10 DEF ReadRpFilter, Quiet
  <2>2. Kept'
    BY <1>10 DEF ReadRpFilter
  <2>3. SoloSeen(t)'
    BY <1>10 DEF ReadRpFilter
  <2>4. SoloHeld(t)'
    BY <1>10 DEF ReadRpFilter
  <2>5. QED BY <2>1, <2>2, <2>3, <2>4
<1>11. CASE LoosenRpFilter(t)
  <2>1. Quiet(t)'
    BY <1>11 DEF LoosenRpFilter, Quiet
  <2>2. Kept'
    BY <1>11 DEF LoosenRpFilter
  <2>3. SoloSeen(t)'
    BY <1>11 DEF LoosenRpFilter
  <2>4. SoloHeld(t)'
    BY <1>11 DEF LoosenRpFilter
  <2>5. QED BY <2>1, <2>2, <2>3, <2>4
<1>12. CASE InstallRule(t)
  <2>1. Quiet(t)'
    BY <1>12 DEF InstallRule, Quiet
  <2>2. Kept'
    BY <1>12 DEF InstallRule
  <2>3. SoloSeen(t)'
    BY <1>12 DEF InstallRule
  <2>4. SoloHeld(t)'
    BY <1>12 DEF InstallRule
  <2>5. QED BY <2>1, <2>2, <2>3, <2>4
<1>13. CASE PopulateTable(t)
  <2>1. Quiet(t)'
    BY <1>13 DEF PopulateTable, Quiet
  <2>2. Kept'
    BY <1>13 DEF PopulateTable
  <2>3. SoloSeen(t)'
    BY <1>13 DEF PopulateTable
  <2>4. SoloHeld(t)'
    BY <1>13 DEF PopulateTable
  <2>5. QED BY <2>1, <2>2, <2>3, <2>4
<1>14. CASE UndoRpFilter(t)
  <2>1. Quiet(t)'
    BY <1>14 DEF UndoRpFilter, Quiet
  <2>2. Kept'
    BY <1>14 DEF UndoRpFilter
  <2>3. SoloSeen(t)'
    BY <1>14 DEF UndoRpFilter
  <2>4. SoloHeld(t)'
    BY <1>14 DEF UndoRpFilter
  <2>5. QED BY <2>1, <2>2, <2>3, <2>4
<1>15. CASE RecordApplied(t)
  <2>1. Quiet(t)'
    BY <1>15 DEF RecordApplied, Quiet
  <2>2. Kept'
    BY <1>15 DEF RecordApplied
  <2>3. SoloSeen(t)'
    BY <1>15 DEF RecordApplied
  <2>4. SoloHeld(t)'
    BY <1>15 DEF RecordApplied
  <2>5. QED BY <2>1, <2>2, <2>3, <2>4
<1>16. CASE RestoreRpFilter(t)
  <2>1. Quiet(t)'
    BY <1>16 DEF RestoreRpFilter, Quiet
  <2>2. Kept'
    BY <1>16 DEF RestoreRpFilter
  <2>3. SoloSeen(t)'
    BY <1>16 DEF RestoreRpFilter
  <2>4. SoloHeld(t)'
    BY <1>16 DEF RestoreRpFilter
  <2>5. QED BY <2>1, <2>2, <2>3, <2>4
<1>17. CASE RestoreEnds(t)
  <2>1. Quiet(t)'
    BY <1>17 DEF RestoreEnds, Quiet
  <2>2. Kept'
    BY <1>17 DEF RestoreEnds
  <2>3. SoloSeen(t)'
    BY <1>17 DEF RestoreEnds
  <2>4. SoloHeld(t)'
    BY <1>17 DEF RestoreEnds
  <2>5. QED BY <2>1, <2>2, <2>3, <2>4
<1>18. CASE Exit(t)
  <2>1. Quiet(t)'
    BY <1>18 DEF Exit, Busy, Quiet, Finished
  <2>2. Kept'
    BY <1>18 DEF Exit, Busy
  <2>3. SoloSeen(t)'
    BY <1>18 DEF Exit, Busy
  <2>4. SoloHeld(t)'
    BY <1>18 DEF Exit, Busy
  <2>5. QED BY <2>1, <2>2, <2>3, <2>4
<1>19. QED BY <1>1, <1>2, <1>3, <1>4, <1>5, <1>6, <1>7, <1>8, <1>9, <1>10, <1>11, <1>12,
              <1>13, <1>14, <1>15, <1>16, <1>17, <1>18 DEF Begin, Step

LEMMA CustodyInductive ==
  ASSUME Serial, "restore" \notin Events
  PROVE  (Init => Custody) /\ (Known /\ Custody /\ [Next]_vars => Custody')
<1>1. Init => Custody
  BY DEF Init, Custody, OneBusy, Busy, Finished, RecordedIsOriginal, SeenOrRecorded,
         OriginalsHeld, MayUndo, Blank
<1>2. ASSUME Known, Custody, [Next]_vars PROVE Custody'
  <2>1. ASSUME NEW t \in Tasks, Begin(t) \/ Step(t) PROVE Custody'
    <3>1. Quiet(t)
      <4>1. CASE Begin(t)
        BY <1>2, <4>1 DEF Begin, ApplyBypassRoutes, RemoveBypassRoutes, VanishTeardown,
           ShutdownCleanup, Start, Idle, Busy, Quiet
      <4>2. CASE Step(t)
        <5>1. Busy(t)
          BY <4>2 DEF Step, DeleteRule, DeleteEnds, DeleteFails, Flush, Capture, ReadRpFilter,
             LoosenRpFilter, InstallRule, PopulateTable, UndoRpFilter, RecordApplied,
             RestoreRpFilter, RestoreEnds, Exit, Busy, Finished
        <5>2. QED BY <1>2, <5>1 DEF Custody, OneBusy, Busy, Quiet
      <4>3. QED BY <2>1, <4>1, <4>2
    <3>2. Solo(t)
      BY <1>2, <3>1, SoloIsCustody
    <3>3. Solo(t)'
      BY <1>2, <2>1, <3>2, SoloStep
    <3>4. Quiet(t)' => (Custody' <=> Solo(t)')
      BY SoloIsCustody, PTL
    <3>5. QED BY <3>3, <3>4 DEF Solo
  <2>2. CASE Environment
    <3> USE <1>2, <2>2 DEF Custody, Environment, SetBypassCidrs, Unplug, Plug, Watch, GuiVanishes,
           UplinkMoves, MayUndo
    <3>1. OneBusy'
      BY DEF OneBusy, Busy
    <3>2. RecordedIsOriginal' /\ (~applied => original = Blank)'
      BY DEF RecordedIsOriginal, Blank
    <3>3. (\A t \in Tasks, i \in Ifaces : saved[t][i] \in {None, Boot[i]})'
      OBVIOUS
    <3>4. SeenOrRecorded'
      BY DEF SeenOrRecorded
    <3>5. OriginalsHeld'
      BY DEF OriginalsHeld, Held, Known, Typed, TypeOK
    <3>6. QED BY <3>1, <3>2, <3>3, <3>4, <3>5
  <2>3. CASE UNCHANGED vars
    BY <1>2, <2>3 DEF vars, Custody, OneBusy, Busy, RecordedIsOriginal, SeenOrRecorded, MayUndo,
       OriginalsHeld, Held, Blank
  <2>4. QED BY <1>2, <2>1, <2>2, <2>3 DEF Next
<1>3. QED BY <1>1, <1>2

(***************************************************************************)
(* When tasks do not overlap and no restore fails, rp_filter_original      *)
(* holds only the values from before the first apply, and no loosened      *)
(* interface is ever without something that will put its value back.       *)
(***************************************************************************)
THEOREM OriginalsInCustody ==
  ASSUME Serial, "restore" \notin Events
  PROVE  Spec => [](RecordedIsOriginal /\ OriginalsHeld)
<1>1. Typed /\ Genuine => Known
  BY DEF Known, Genuine
<1>2. Custody => RecordedIsOriginal /\ OriginalsHeld
  BY DEF Custody
<1>3. (Init => Custody) /\ (Known /\ Custody /\ [Next]_vars => Custody')
  BY CustodyInductive
<1>4. QED BY <1>1, <1>2, <1>3, TypedInductive, GenuineInductive, PTL DEF Spec

(***************************************************************************)
(* The original values and the record of them, by themselves.              *)
(***************************************************************************)
THEOREM RecordsAreOriginals ==
  ASSUME Serial, "restore" \notin Events
  PROVE  Spec => []RecordedIsOriginal
<1>1. Spec => [](RecordedIsOriginal /\ OriginalsHeld)
  BY OriginalsInCustody
<1>2. QED BY <1>1, PTL

(***************************************************************************)
(* What the tear-downs have got to.  The loop of teardown_routing runs ip  *)
(* rule del at most 2 * MaxBypass times: enough, because no more than      *)
(* MaxBypass rules are ever installed.                                     *)
(***************************************************************************)
Short(list) == Cardinality(list) <= MaxBypass

Bounded(t) ==
  /\ Short(todo[t])
  /\ pc[t] = "install" => Short(rules \cup todo[t])
  /\ pc[t] = "delete" => Cardinality(rules) + dels[t] <= 2 * MaxBypass

Emptied(t) ==
  /\ pc[t] \in {"flush", "capture", "read", "loosen", "undo", "exit"} => rules = {}
  /\ pc[t] \in {"capture", "read", "loosen", "install", "undo", "exit"} => route = None

\* SIGTERM has drained the map, and its clean-up is the task that runs.
Leaving(t) ==
  \/ pc[t] = "exit"
  \/ pc[t] \in {"restore", "delete", "flush"} /\ after[t] = "exit"

Off == ~applied \/ phase = "down"

Tidy ==
  /\ Short(rules) /\ Short(bypassCidrs)
  /\ \A t \in Tasks : Bounded(t) /\ Emptied(t)
  /\ Idle /\ Off => rules = {} /\ route = None
  /\ phase # "up" => original = Blank
  /\ phase = "stopping" => \E t \in Tasks : Leaving(t)
  /\ phase = "down" => Idle
  /\ \A t \in Tasks : Leaving(t) => phase # "up"

(***************************************************************************)
(* The same, seen from the one task t that runs or is about to start.      *)
(***************************************************************************)
Limits == Short(rules) /\ Short(bypassCidrs) /\ \A u \in Tasks : Short(todo[u])

SoloOff(t) == ~Busy(t) /\ Off => rules = {} /\ route = None

SoloPhase(t) ==
  /\ phase # "up" => original = Blank
  /\ phase = "stopping" => Leaving(t)
  /\ phase = "down" => ~Busy(t)
  /\ Leaving(t) => phase # "up"

SoloTidy(t) == Limits /\ Bounded(t) /\ Emptied(t) /\ SoloOff(t) /\ SoloPhase(t)

LEMMA SoloIsTidy ==
  ASSUME NEW t \in Tasks
  PROVE  Quiet(t) => (Tidy <=> SoloTidy(t))
<1> SUFFICES ASSUME Quiet(t) PROVE Tidy <=> SoloTidy(t)
  OBVIOUS
<1> USE DEF Quiet, Finished
<1>1. \A u \in Tasks \ {t} : ~Busy(u) /\ ~Leaving(u) /\ Emptied(u)
  BY DEF Busy, Leaving, Emptied
<1>2. \A u \in Tasks \ {t} : Bounded(u) <=> Short(todo[u])
  BY DEF Bounded
<1>3. Idle <=> ~Busy(t)
  BY <1>1 DEF Idle
<1>4. Bounded(t) => Short(todo[t])
  BY DEF Bounded
<1>5. (\E u \in Tasks : Leaving(u)) <=> Leaving(t)
  BY <1>1
<1>6. (\A u \in Tasks : Bounded(u) /\ Emptied(u)) <=>
        Bounded(t) /\ Emptied(t) /\ \A u \in Tasks : Short(todo[u])
  BY <1>1, <1>2, <1>4
<1>7. (\A u \in Tasks : Leaving(u) => phase # "up") <=> (Leaving(t) => phase # "up")
  BY <1>1
<1>8. QED BY <1>3, <1>5, <1>6, <1>7 DEF Tidy, SoloTidy, Limits, SoloOff, SoloPhase

(***************************************************************************)
(* A set of networks has a size, which grows and shrinks with the set.     *)
(***************************************************************************)
LEMMA Sizes ==
  ASSUME IsFiniteSet(Cidrs)
  PROVE  /\ \A S \in SUBSET Cidrs : /\ Cardinality(S) \in Nat
                                    /\ Cardinality(S) = 0 <=> S = {}
         /\ \A S, T \in SUBSET Cidrs : S \subseteq T => Cardinality(S) <= Cardinality(T)
         /\ \A S \in SUBSET Cidrs : \A r \in S : Cardinality(S \ {r}) = Cardinality(S) - 1
<1>1. \A S \in SUBSET Cidrs : IsFiniteSet(S)
  BY FS_Subset
<1>2. QED BY <1>1, FS_Subset, FS_EmptySet, FS_CardinalityType, FS_RemoveElement

LEMMA SoloTidyStep ==
  ASSUME "spawn" \notin Events, IsFiniteSet(Cidrs), Typed, NEW t \in Tasks, SoloTidy(t)
  PROVE  Begin(t) \/ Step(t) => SoloTidy(t)'
<1> USE DEF SoloTidy, Typed, TypeOK, Blank
<1>0. 0 \in Nat /\ MaxBypass \in Nat /\ Short({})
  BY BoundAssumption, FS_EmptySet DEF Short
<1>a. Cardinality(rules) \in Nat /\ Cardinality(rules) + 0 <= 2 * MaxBypass
  BY <1>0, Sizes DEF Limits, Short
<1>1. CASE ApplyBypassRoutes(t)
  <2>1. Limits'
    BY <1>0, <1>1 DEF ApplyBypassRoutes, Limits
  <2>2. Bounded(t)'
    BY <1>0, <1>a, <1>1 DEF ApplyBypassRoutes, Bounded, Limits
  <2>3. Emptied(t)'
    BY <1>0, <1>1 DEF ApplyBypassRoutes, Start, Emptied, Returns
  <2>4. SoloOff(t)'
    BY <1>1 DEF ApplyBypassRoutes, Start, SoloOff, Off, Emptied, Busy, Finished, SoloPhase, Leaving
  <2>5. SoloPhase(t)'
    BY <1>1 DEF ApplyBypassRoutes, Start, SoloPhase, Leaving, Busy, Finished, Returns
  <2>6. QED BY <2>1, <2>2, <2>3, <2>4, <2>5
<1>2. CASE RemoveBypassRoutes(t)
  <2>1. Limits'
    BY <1>0, <1>2 DEF RemoveBypassRoutes, Limits
  <2>2. Bounded(t)'
    BY <1>0, <1>2 DEF RemoveBypassRoutes, Bounded, Limits, Short
  <2>3. Emptied(t)'
    BY <1>0, <1>2 DEF RemoveBypassRoutes, Start, Emptied, Returns
  <2>4. SoloOff(t)'
    BY <1>2 DEF RemoveBypassRoutes, Start, SoloOff, Off, Emptied, Busy, Finished, SoloPhase, Leaving
  <2>5. SoloPhase(t)'
    BY <1>2 DEF RemoveBypassRoutes, Start, SoloPhase, Leaving, Busy, Finished, Returns
  <2>6. QED BY <2>1, <2>2, <2>3, <2>4, <2>5
<1>3. CASE VanishTeardown(t)
  <2>1. Limits'
    BY <1>0, <1>3 DEF VanishTeardown, Limits
  <2>2. Bounded(t)'
    BY <1>0, <1>3 DEF VanishTeardown, Bounded, Limits, Short
  <2>3. Emptied(t)'
    BY <1>0, <1>3 DEF VanishTeardown, Start, Emptied, Returns
  <2>4. SoloOff(t)'
    BY <1>3 DEF VanishTeardown, Start, SoloOff, Off, Emptied, Busy, Finished, SoloPhase, Leaving
  <2>5. SoloPhase(t)'
    BY <1>3 DEF VanishTeardown, Start, SoloPhase, Leaving, Busy, Finished, Returns
  <2>6. QED BY <2>1, <2>2, <2>3, <2>4, <2>5
<1>4. CASE ShutdownCleanup(t)
  <2>1. Limits'
    BY <1>0, <1>4 DEF ShutdownCleanup, Limits
  <2>2. Bounded(t)'
    BY <1>0, <1>4 DEF ShutdownCleanup, Bounded, Limits, Short
  <2>3. Emptied(t)'
    BY <1>0, <1>4 DEF ShutdownCleanup, Start, Emptied, Returns
  <2>4. SoloOff(t)'
    BY <1>4 DEF ShutdownCleanup, Start, SoloOff, Off, Emptied, Busy, Finished, SoloPhase, Leaving
  <2>5. SoloPhase(t)'
    BY <1>4 DEF ShutdownCleanup, Start, SoloPhase, Leaving, Busy, Finished, Returns
  <2>6. QED BY <2>1, <2>2, <2>3, <2>4, <2>5
<1>5. CASE DeleteRule(t)
  <2>0. rules' \in SUBSET Cidrs /\ Cardinality(rules') = Cardinality(rules) - 1
    BY <1>5, Sizes DEF DeleteRule
  <2>1. Limits'
    BY <1>0, <1>a, <1>5, <2>0 DEF DeleteRule, Limits, Short
  <2>2. Bounded(t)'
    <3>1. dels[t] \in Int /\ dels'[t] = dels[t] + 1 /\ pc'[t] = "delete" /\ todo' = todo
      BY <1>5 DEF DeleteRule, DelRuns
    <3>2. Cardinality(rules) + dels[t] <= 2 * MaxBypass
      BY <1>5 DEF DeleteRule, Bounded
    <3>3. Cardinality(rules') + dels'[t] <= 2 * MaxBypass
      BY <1>0, <1>a, <2>0, <3>1, <3>2
    <3>4. QED BY <3>1, <3>3 DEF Bounded, Short
  <2>3. Emptied(t)'
    BY <1>0, <1>5 DEF DeleteRule, Emptied, Returns
  <2>4. SoloOff(t)'
    BY <1>5 DEF DeleteRule, SoloOff, Off, Emptied, Busy, Finished, SoloPhase, Leaving
  <2>5. SoloPhase(t)'
    BY <1>5 DEF DeleteRule, SoloPhase, Leaving, Busy, Finished, Returns
  <2>6. QED BY <2>1, <2>2, <2>3, <2>4, <2>5
<1>6. CASE DeleteEnds(t)
  <2>1. Limits'
    BY <1>0, <1>6 DEF DeleteEnds, Limits
  <2>2. Bounded(t)'
    BY <1>0, <1>6 DEF DeleteEnds, Bounded, Limits, Short
  <2>3. Emptied(t)'
    <3>1. CASE rules = {}
      BY <1>6, <3>1 DEF DeleteEnds, Emptied
    <3>2. CASE dels[t] = 2 * MaxBypass
      <4>1. Cardinality(rules) = 0
        BY <1>0, <1>a, <1>6, <3>2 DEF DeleteEnds, Bounded
      <4>2. rules = {}
        BY <4>1, Sizes
      <4>3. QED BY <3>1, <4>2
    <3>3. QED BY <1>6, <3>1, <3>2 DEF DeleteEnds
  <2>4. SoloOff(t)'
    BY <1>6 DEF DeleteEnds, SoloOff, Off, Emptied, Busy, Finished, SoloPhase, Leaving
  <2>5. SoloPhase(t)'
    BY <1>6 DEF DeleteEnds, SoloPhase, Leaving, Busy, Finished, Returns
  <2>6. QED BY <2>1, <2>2, <2>3, <2>4, <2>5
<1>7. CASE DeleteFails(t)
  BY <1>7 DEF DeleteFails
<1>8. CASE Flush(t)
  <2>1. Limits'
    BY <1>0, <1>8 DEF Flush, Limits
  <2>2. Bounded(t)'
    BY <1>8 DEF Flush, Bounded, Limits, Returns
  <2>3. Emptied(t)'
    BY <1>0, <1>8 DEF Flush, Emptied, Returns
  <2>4. SoloOff(t)'
    BY <1>8 DEF Flush, SoloOff, Off, Emptied, Busy, Finished, SoloPhase, Leaving
  <2>5. SoloPhase(t)'
    BY <1>8 DEF Flush, SoloPhase, Leaving, Busy, Finished, Returns
  <2>6. QED BY <2>1, <2>2, <2>3, <2>4, <2>5
<1>9. CASE Capture(t)
  <2>1. Limits'
    BY <1>0, <1>9 DEF Capture, Limits
  <2>2. Bounded(t)'
    BY <1>0, <1>9 DEF Capture, Bounded, Limits, Short
  <2>3. Emptied(t)'
    BY <1>0, <1>9 DEF Capture, Emptied, Returns
  <2>4. SoloOff(t)'
    BY <1>9 DEF Capture, SoloOff, Off, Emptied, Busy, Finished, SoloPhase, Leaving
  <2>5. SoloPhase(t)'
    BY <1>9 DEF Capture, SoloPhase, Leaving, Busy, Finished, Returns
  <2>6. QED BY <2>1, <2>2, <2>3, <2>4, <2>5
<1>10. CASE ReadRpFilter(t)
  <2>1. Limits'
    BY <1>0, <1>10 DEF ReadRpFilter, Limits
  <2>2. Bounded(t)'
    <3>1. rules = {} /\ rules \cup todo[t] = todo[t]
      BY <1>10 DEF ReadRpFilter, Emptied
    <3>2. QED BY <1>10, <3>1 DEF ReadRpFilter, Bounded, Limits
  <2>3. Emptied(t)'
    BY <1>0, <1>10 DEF ReadRpFilter, Emptied, Returns
  <2>4. SoloOff(t)'
    BY <1>10 DEF ReadRpFilter, SoloOff, Off, Emptied, Busy, Finished, SoloPhase, Leaving
  <2>5. SoloPhase(t)'
    BY <1>10 DEF ReadRpFilter, SoloPhase, Leaving, Busy, Finished, Returns
  <2>6. QED BY <2>1, <2>2, <2>3, <2>4, <2>5
<1>11. CASE LoosenRpFilter(t)
  <2>1. Limits'
    BY <1>0, <1>11 DEF LoosenRpFilter, Limits
  <2>2. Bounded(t)'
    <3>1. rules = {} /\ rules \cup todo[t] = todo[t]
      BY <1>11 DEF LoosenRpFilter, Emptied
    <3>2. QED BY <1>11, <3>1 DEF LoosenRpFilter, Bounded, Limits
  <2>3. Emptied(t)'
    BY <1>0, <1>11 DEF LoosenRpFilter, Emptied, Returns
  <2>4. SoloOff(t)'
    BY <1>11 DEF LoosenRpFilter, SoloOff, Off, Emptied, Busy, Finished, SoloPhase, Leaving
  <2>5. SoloPhase(t)'
    BY <1>11 DEF LoosenRpFilter, SoloPhase, Leaving, Busy, Finished, Returns
  <2>6. QED BY <2>1, <2>2, <2>3, <2>4, <2>5
<1>12. CASE InstallRule(t)
  <2>0. /\ rules' \in SUBSET Cidrs /\ rules' \subseteq rules \cup todo[t]
        /\ todo'[t] \in SUBSET Cidrs /\ todo'[t] \subseteq todo[t]
        /\ rules' \cup todo'[t] \subseteq rules \cup todo[t]
        /\ pc' = pc /\ pc[t] = "install"
        /\ \A u \in Tasks \ {t} : todo'[u] = todo[u]
    BY <1>12 DEF InstallRule
  <2>a. rules \cup todo[t] \in SUBSET Cidrs /\ Cardinality(rules \cup todo[t]) <= MaxBypass
    BY <2>0 DEF Bounded, Short
  <2>b. \A S \in SUBSET (rules \cup todo[t]) : Short(S)
    <3> SUFFICES ASSUME NEW S \in SUBSET (rules \cup todo[t]) PROVE Short(S)
      OBVIOUS
    <3>1. S \in SUBSET Cidrs /\ S \subseteq rules \cup todo[t]
      BY <2>a
    <3>2. /\ Cardinality(S) <= Cardinality(rules \cup todo[t])
          /\ Cardinality(S) \in Nat /\ Cardinality(rules \cup todo[t]) \in Nat
      BY <2>a, <3>1, Sizes
    <3>3. QED BY <1>0, <2>a, <3>2 DEF Short
  <2>1. Limits'
    <3>1. Short(rules') /\ Short(todo'[t])
      BY <2>0, <2>b
    <3>2. bypassCidrs' = bypassCidrs
      BY <1>12 DEF InstallRule
    <3>3. QED BY <2>0, <3>1, <3>2 DEF Limits, Short
  <2>2. Bounded(t)'
    <3>1. Short(todo'[t]) /\ Short(rules' \cup todo'[t])
      BY <2>0, <2>b
    <3>2. QED BY <2>0, <3>1 DEF Bounded, Short
  <2>3. Emptied(t)'
    BY <1>0, <1>12 DEF InstallRule, Emptied, Returns
  <2>4. SoloOff(t)'
    BY <1>12 DEF InstallRule, SoloOff, Off, Emptied, Busy, Finished, SoloPhase, Leaving
  <2>5. SoloPhase(t)'
    BY <1>12 DEF InstallRule, SoloPhase, Leaving, Busy, Finished, Returns
  <2>6. QED BY <2>1, <2>2, <2>3, <2>4, <2>5
<1>13. CASE PopulateTable(t)
  <2>1. Limits'
    BY <1>0, <1>13 DEF PopulateTable, Limits
  <2>2. Bounded(t)'
    BY <1>0, <1>a, <1>13 DEF PopulateTable, Bounded, Limits
  <2>3. Emptied(t)'
    BY <1>0, <1>13 DEF PopulateTable, Emptied, Returns
  <2>4. SoloOff(t)'
    BY <1>13 DEF PopulateTable, SoloOff, Off, Emptied, Busy, Finished, SoloPhase, Leaving
  <2>5. SoloPhase(t)'
    BY <1>13 DEF PopulateTable, SoloPhase, Leaving, Busy, Finished, Returns
  <2>6. QED BY <2>1, <2>2, <2>3, <2>4, <2>5
<1>14. CASE UndoRpFilter(t)
  <2>1. Limits'
    BY <1>0, <1>14 DEF UndoRpFilter, Limits
  <2>2. Bounded(t)'
    BY <1>0, <1>14 DEF UndoRpFilter, Bounded, Limits, Short
  <2>3. Emptied(t)'
    BY <1>0, <1>14 DEF UndoRpFilter, Emptied, Returns
  <2>4. SoloOff(t)'
    BY <1>14 DEF UndoRpFilter, SoloOff, Off, Emptied, Busy, Finished, SoloPhase, Leaving
  <2>5. SoloPhase(t)'
    BY <1>14 DEF UndoRpFilter, SoloPhase, Leaving, Busy, Finished, Returns
  <2>6. QED BY <2>1, <2>2, <2>3, <2>4, <2>5
<1>15. CASE RecordApplied(t)
  <2>1. Limits'
    BY <1>0, <1>15 DEF RecordApplied, Limits
  <2>2. Bounded(t)'
    BY <1>0, <1>15 DEF RecordApplied, Bounded, Limits, Short
  <2>3. Emptied(t)'
    BY <1>0, <1>15 DEF RecordApplied, Emptied, Returns
  <2>4. SoloOff(t)'
    BY <1>15 DEF RecordApplied, SoloOff, Off, Emptied, Busy, Finished, SoloPhase, Leaving
  <2>5. SoloPhase(t)'
    BY <1>15 DEF RecordApplied, SoloPhase, Leaving, Busy, Finished, Returns
  <2>6. QED BY <2>1, <2>2, <2>3, <2>4, <2>5
<1>16. CASE RestoreRpFilter(t)
  <2>1. Limits'
    BY <1>0, <1>16 DEF RestoreRpFilter, Limits
  <2>2. Bounded(t)'
    BY <1>0, <1>16 DEF RestoreRpFilter, Bounded, Limits, Short
  <2>3. Emptied(t)'
    BY <1>0, <1>16 DEF RestoreRpFilter, Emptied, Returns
  <2>4. SoloOff(t)'
    BY <1>16 DEF RestoreRpFilter, SoloOff, Off, Emptied, Busy, Finished, SoloPhase, Leaving
  <2>5. SoloPhase(t)'
    BY <1>16 DEF RestoreRpFilter, SoloPhase, Leaving, Busy, Finished, Returns
  <2>6. QED BY <2>1, <2>2, <2>3, <2>4, <2>5
<1>17. CASE RestoreEnds(t)
  <2>1. Limits'
    BY <1>0, <1>17 DEF RestoreEnds, Limits
  <2>2. Bounded(t)'
    BY <1>0, <1>a, <1>17 DEF RestoreEnds, Bounded, Limits
  <2>3. Emptied(t)'
    BY <1>0, <1>17 DEF RestoreEnds, Emptied, Returns
  <2>4. SoloOff(t)'
    BY <1>17 DEF RestoreEnds, SoloOff, Off, Emptied, Busy, Finished, SoloPhase, Leaving
  <2>5. SoloPhase(t)'
    BY <1>17 DEF RestoreEnds, SoloPhase, Leaving, Busy, Finished, Returns
  <2>6. QED BY <2>1, <2>2, <2>3, <2>4, <2>5
<1>18. CASE Exit(t)
  <2>1. Limits'
    BY <1>0, <1>18 DEF Exit, Limits
  <2>2. Bounded(t)'
    BY <1>0, <1>18 DEF Exit, Bounded, Limits, Short
  <2>3. Emptied(t)'
    BY <1>0, <1>18 DEF Exit, Emptied, Returns
  <2>4. SoloOff(t)'
    BY <1>18 DEF Exit, SoloOff, Off, Emptied, Busy, Finished, SoloPhase, Leaving
  <2>5. SoloPhase(t)'
    BY <1>18 DEF Exit, SoloPhase, Leaving, Busy, Finished, Returns
  <2>6. QED BY <2>1, <2>2, <2>3, <2>4, <2>5
<1>19. QED BY <1>1, <1>2, <1>3, <1>4, <1>5, <1>6, <1>7, <1>8, <1>9, <1>10, <1>11, <1>12, <1>13, <1>14, <1>15, <1>16, <1>17, <1>18 DEF Begin, Step

LEMMA TidyInductive ==
  ASSUME Serial, "spawn" \notin Events, IsFiniteSet(Cidrs)
  PROVE  (Init => Tidy) /\ (Typed /\ OneBusy /\ Tidy /\ [Next]_vars => Tidy')
<1>1. Init => Tidy
  <2>1. Short({}) /\ Cardinality({}) + 0 <= 2 * MaxBypass
    BY BoundAssumption, FS_EmptySet DEF Short
  <2>2. QED BY <2>1 DEF Init, Tidy, Bounded, Emptied, Leaving
<1>2. ASSUME Typed, OneBusy, Tidy, [Next]_vars PROVE Tidy'
  <2>1. ASSUME NEW t \in Tasks, Begin(t) \/ Step(t) PROVE Tidy'
    <3>1. Quiet(t) /\ Quiet(t)'
      <4>1. CASE Begin(t)
        <5>1. Quiet(t)
          BY <4>1 DEF Begin, ApplyBypassRoutes, RemoveBypassRoutes, VanishTeardown,
             ShutdownCleanup, Start, Idle, Busy, Quiet
        <5>2. \A u \in Tasks \ {t} : pc'[u] = pc[u]
          BY <1>2, <4>1 DEF Begin, ApplyBypassRoutes, RemoveBypassRoutes, VanishTeardown,
             ShutdownCleanup, Typed, TypeOK
        <5>3. QED BY <5>1, <5>2 DEF Quiet
      <4>2. CASE Step(t)
        <5>1. Busy(t)
          BY <4>2 DEF Step, DeleteRule, DeleteEnds, DeleteFails, Flush, Capture, ReadRpFilter,
             LoosenRpFilter, InstallRule, PopulateTable, UndoRpFilter, RecordApplied,
             RestoreRpFilter, RestoreEnds, Exit, Busy, Finished
        <5>2. Quiet(t)
          BY <1>2, <5>1 DEF OneBusy, Busy, Quiet
        <5>3. \A u \in Tasks \ {t} : pc'[u] = pc[u]
          BY <1>2, <4>2, <5>2 DEF Step, DeleteRule, DeleteEnds, DeleteFails, Flush, Capture,
             ReadRpFilter, LoosenRpFilter, InstallRule, PopulateTable, UndoRpFilter,
             RecordApplied, RestoreRpFilter, RestoreEnds, Exit, Busy, Quiet, Typed, TypeOK
        <5>4. QED BY <5>2, <5>3 DEF Quiet
      <4>3. QED BY <2>1, <4>1, <4>2
    <3>2. SoloTidy(t)
      BY <1>2, <3>1, SoloIsTidy
    <3>3. SoloTidy(t)'
      BY <1>2, <2>1, <3>2, SoloTidyStep
    <3>4. Quiet(t)' => (Tidy' <=> SoloTidy(t)')
      BY SoloIsTidy, PTL
    <3>5. QED BY <3>1, <3>3, <3>4
  <2>2. CASE Environment
    <3> USE <1>2, <2>2 DEF Environment, SetBypassCidrs, Unplug, Plug, Watch, GuiVanishes,
           UplinkMoves, Tidy
    <3>1. Short(rules)' /\ Short(bypassCidrs)'
      BY DEF Short
    <3>2. (\A t \in Tasks : Bounded(t) /\ Emptied(t))'
      BY DEF Bounded, Emptied, Short
    <3>3. (Idle /\ Off => rules = {} /\ route = None)'
      BY DEF Idle, Busy, Off
    <3>4. (phase # "up" => original = Blank)' /\ (phase = "down" => Idle)'
      BY DEF Idle, Busy, Blank
    <3>5. /\ (phase = "stopping" => \E t \in Tasks : Leaving(t))'
          /\ (\A t \in Tasks : Leaving(t) => phase # "up")'
      BY DEF Leaving
    <3>6. QED BY <3>1, <3>2, <3>3, <3>4, <3>5
  <2>3. CASE UNCHANGED vars
    BY <1>2, <2>3 DEF vars, Tidy, Short, Bounded, Emptied, Idle, Busy, Off, Leaving, Blank
  <2>4. QED BY <1>2, <2>1, <2>2, <2>3 DEF Next
<1>3. QED BY <1>1, <1>2

(***************************************************************************)
(* When tasks do not overlap, ip can be started and no restore fails,      *)
(* split tunnelling that is off leaves no rule, no route and no loosened   *)
(* interface, whatever of the applies before it failed half-way.  (The     *)
(* networks are IP networks, of which there are finitely many.)            *)
(***************************************************************************)
THEOREM OffLeavesNoTrace ==
  ASSUME Serial, "restore" \notin Events, "spawn" \notin Events, IsFiniteSet(Cidrs)
  PROVE  Spec => []CleanWhenOff
<1>1. Typed /\ Genuine => Known
  BY DEF Known, Genuine
<1>2. (Init => Custody) /\ (Known /\ Custody /\ [Next]_vars => Custody')
  BY CustodyInductive
<1>3. (Init => Tidy) /\ (Typed /\ Custody /\ Tidy /\ [Next]_vars => Tidy')
  BY TidyInductive DEF Custody
<1>4. Typed /\ Custody /\ Tidy => CleanWhenOff
  <2> SUFFICES ASSUME Typed, Custody, Tidy, Idle, Off
               PROVE  rules = {} /\ route = None /\ \A i \in present : rpf[i] = Boot[i]
    BY DEF CleanWhenOff, Off
  <2>1. rules = {} /\ route = None
    BY DEF Tidy
  <2>2. original = Blank
    BY DEF Custody, Tidy, Off
  <2>3. ASSUME NEW i \in present PROVE rpf[i] = Boot[i]
    <3>1. i \in Ifaces
      BY DEF Typed, TypeOK
    <3>2. original[i] # Boot[i]
      BY <2>2, <3>1 DEF Blank
    <3>3. ~Held(i)
      BY <3>2 DEF Held, Idle, Busy, Finished, MayUndo
    <3>4. QED BY <3>3 DEF Custody, OriginalsHeld
  <2>4. QED BY <2>1, <2>2, <2>3
<1>5. QED BY <1>1, <1>2, <1>3, <1>4, TypedInductive, GenuineInductive, PTL DEF Spec
=============================================================================
