--------------------------- MODULE HelperRouting ---------------------------
(***************************************************************************)
(* The routing half of the privileged helper (helper/src/bypass.rs and the *)
(* routing calls of helper/src/service.rs): the ip rules and the table of  *)
(* the split tunnel, the rp_filter of each network interface, and the      *)
(* State fields that remember how to put them back.                        *)
(*                                                                         *)
(* A task is one ApplyBypassRoutes or RemoveBypassRoutes call, one tear-   *)
(* down by the watcher of a client that left, or the SIGTERM clean-up; it  *)
(* is used once.  Each step is the code between two awaits, so a step runs *)
(* at most one command or writes one file of /proc.  The IPv4 and the IPv6 *)
(* loops of teardown_routing are one loop here, and so are the two default *)
(* routes of populate_table.                                               *)
(***************************************************************************)
EXTENDS Integers, FiniteSets

CONSTANTS
  Tasks,      \* calls and clean-ups, each run once (bounds the model)
  Cidrs,      \* networks that pass validation
  MaxBypass,  \* MAX_BYPASS_CIDRS
  Ifaces,     \* physical network interfaces
  Boot,       \* rp_filter of each interface before the helper touches it
  Events,     \* failures and changes this instance may meet: "spawn",
              \* "write", "rule", "populate", "restore", "unplug", "vanish",
              \* "sigterm"
  Serial,     \* TRUE: a task starts only when no other runs
  None        \* no route, no uplink, nothing recorded

Strict == 1
Loose  == 2
RpFilter == 0..2

ASSUME BootAssumption == Boot \in [Ifaces -> RpFilter]
ASSUME NoneAssumption == None \notin RpFilter /\ None \notin Ifaces
ASSUME BoundAssumption == MaxBypass \in Nat
ASSUME SerialAssumption == Serial \in BOOLEAN

VARIABLES
  rules,        \* networks with an ip rule at RULE_PRIORITY
  route,        \* interface of the default route of table TABLE_ID, or None
  rpf,          \* rp_filter of each interface
  uplink,       \* interface of the system's default route, or None
  present,      \* interfaces that exist now
  gui,          \* the client: "on" or "gone"
  watched,      \* a watcher spawned by AddRules waits for the client to go
  phase,        \* "up", "stopping" after SIGTERM, "down"
  bypassCidrs,  \* State.bypass_cidrs
  applied,      \* State.bypass_routes_applied
  original,     \* State.rp_filter_original, None where there is no entry
  pc,           \* where each task is
  after,        \* where its teardown_routing returns to
  todo,         \* networks its install_rules has still to add
  dels,         \* ip rule del runs of its teardown so far
  net,          \* the interface it captured
  seen,         \* the rp_filter it read there
  saved         \* the entries it took out of rp_filter_original

kernel == <<rules, route, rpf>>
helper == <<bypassCidrs, applied, original>>
env    == <<uplink, present, gui, watched>>
locals == <<after, todo, dels, net, seen, saved>>
vars   == <<kernel, helper, env, phase, pc, locals>>

Blank    == [i \in Ifaces |-> None]
Finished == {"applied", "noop", "removed", "err"}
Busy(t)  == pc[t] \notin Finished \cup {"unsent"}
Idle     == \A t \in Tasks : ~Busy(t)

Init ==
  /\ rules = {} /\ route = None /\ rpf = Boot
  /\ uplink \in Ifaces /\ present = Ifaces
  /\ gui = "on" /\ watched = FALSE /\ phase = "up"
  /\ bypassCidrs = {} /\ applied = FALSE /\ original = Blank
  /\ pc = [t \in Tasks |-> "unsent"]
  /\ after = [t \in Tasks |-> "removed"]
  /\ todo = [t \in Tasks |-> {}]
  /\ dels = [t \in Tasks |-> 0]
  /\ net = [t \in Tasks |-> None]
  /\ seen = [t \in Tasks |-> None]
  /\ saved = [t \in Tasks |-> Blank]

Start(t) ==
  /\ phase # "down"
  /\ pc[t] = "unsent"
  /\ Serial => Idle

Goto(t, step) == pc' = [pc EXCEPT ![t] = step]

---------------------------------------------------------------------------
(* teardown_routing: delete rules one by one, at most 2 * MaxBypass, then  *)
(* flush the table.                                                        *)

TearDown(t, return) ==
  /\ Goto(t, "delete")
  /\ after' = [after EXCEPT ![t] = return]
  /\ dels' = [dels EXCEPT ![t] = 0]

DeleteRule(t) ==
  /\ pc[t] = "delete"
  /\ dels[t] < 2 * MaxBypass
  /\ \E r \in rules : rules' = rules \ {r}
  /\ dels' = [dels EXCEPT ![t] = @ + 1]
  /\ UNCHANGED <<route, rpf, helper, env, phase, pc, after, todo, net, seen, saved>>

\* No rule is left, or the cap is reached.
DeleteEnds(t) ==
  /\ pc[t] = "delete"
  /\ rules = {} \/ dels[t] = 2 * MaxBypass
  /\ dels' = [dels EXCEPT ![t] = 0]
  /\ Goto(t, "flush")
  /\ UNCHANGED <<kernel, helper, env, phase, after, todo, net, seen, saved>>

\* ip cannot be started: teardown_routing returns Err.  A failed apply and
\* the clean-ups log it and go on, the calls answer Err.
DeleteFails(t) ==
  /\ "spawn" \in Events
  /\ pc[t] = "delete"
  /\ Goto(t, IF after[t] \in {"undo", "exit"} THEN after[t] ELSE "err")
  /\ UNCHANGED <<kernel, helper, env, phase, locals>>

\* The result of the flush is ignored.
Flush(t) ==
  /\ pc[t] = "flush"
  /\ route' = None \/ ("spawn" \in Events /\ route' = route)
  /\ Goto(t, after[t])
  /\ UNCHANGED <<rules, rpf, helper, env, phase, locals>>

---------------------------------------------------------------------------
(* ApplyBypassRoutes *)

\* Copy the list under the lock; an empty list is a no-op.
ApplyBypassRoutes(t) ==
  /\ Start(t)
  /\ gui = "on"
  /\ IF bypassCidrs = {}
       THEN Goto(t, "noop") /\ UNCHANGED <<after, dels, todo>>
       ELSE TearDown(t, "capture") /\ todo' = [todo EXCEPT ![t] = bypassCidrs]
  /\ UNCHANGED <<kernel, helper, env, phase, net, seen, saved>>

\* capture_default_gateway: an IPv4 default route is required.  (Registering
\* the table's name comes first and may fail, with no other effect.)
Capture(t) ==
  /\ pc[t] = "capture"
  /\ net' = [net EXCEPT ![t] = uplink]
  /\ \/ uplink # None /\ Goto(t, "read")
     \/ (uplink = None \/ "spawn" \in Events) /\ Goto(t, "err")
  /\ UNCHANGED <<kernel, helper, env, phase, after, todo, dels, seen, saved>>

\* set_rp_filter_loose reads the file ...
ReadRpFilter(t) ==
  /\ pc[t] = "read"
  /\ IF net[t] \in present
       THEN /\ seen' = [seen EXCEPT ![t] = rpf[net[t]]]
            /\ Goto(t, IF rpf[net[t]] = Loose THEN "install" ELSE "loosen")
       ELSE Goto(t, "err") /\ UNCHANGED seen
  /\ UNCHANGED <<kernel, helper, env, phase, after, todo, dels, net, saved>>

\* ... and, when it did not say 2, writes it.
LoosenRpFilter(t) ==
  /\ pc[t] = "loosen"
  /\ \/ /\ net[t] \in present
        /\ rpf' = [rpf EXCEPT ![net[t]] = Loose]
        /\ Goto(t, "install")
     \/ /\ net[t] \notin present \/ "write" \in Events
        /\ Goto(t, "err") /\ UNCHANGED rpf
  /\ UNCHANGED <<rules, route, helper, env, phase, locals>>

\* install_rules: one ip rule add per network; one that fails is reported
\* and skipped (the kernel refuses a rule it already has).
InstallRule(t) ==
  /\ pc[t] = "install"
  /\ \E r \in todo[t] :
       /\ todo' = [todo EXCEPT ![t] = @ \ {r}]
       /\ rules' = rules \cup {r} \/ ("rule" \in Events /\ rules' = rules)
  /\ UNCHANGED <<route, rpf, helper, env, phase, pc, after, dels, net, seen, saved>>

\* A mutant: the rules stay when the table cannot be filled.
PopulateTableLeavesRules(t) ==
  /\ pc[t] = "install" /\ todo[t] = {}
  /\ \/ /\ route = None /\ net[t] \in present
        /\ route' = net[t]
        /\ Goto(t, "record")
     \/ /\ route # None \/ net[t] \notin present \/ "populate" \in Events
        /\ UNCHANGED route
        /\ Goto(t, "undo")
  /\ UNCHANGED <<rules, rpf, helper, env, phase, after, todo, dels, net, seen, saved>>

\* A mutant: rp_filter stays loose when the table cannot be filled.
PopulateTableStaysLoose(t) ==
  /\ pc[t] = "install" /\ todo[t] = {}
  /\ \/ /\ route = None /\ net[t] \in present
        /\ route' = net[t]
        /\ Goto(t, "record") /\ UNCHANGED <<after, dels>>
     \/ /\ route # None \/ net[t] \notin present \/ "populate" \in Events
        /\ UNCHANGED route
        /\ TearDown(t, "err")
  /\ UNCHANGED <<rules, rpf, helper, env, phase, todo, net, seen, saved>>

\* populate_table: the kernel refuses a second default route, or one through
\* an interface that is gone.  When the IPv6 route is refused the IPv4 one
\* stays.  On failure the rules are torn down before the call answers Err.
PopulateTable(t) ==
  /\ pc[t] = "install" /\ todo[t] = {}
  /\ \/ /\ route = None /\ net[t] \in present
        /\ route' = net[t]
        /\ Goto(t, "record") /\ UNCHANGED <<after, dels>>
     \/ /\ \/ route' = route /\ (route # None \/ net[t] \notin present)
           \/ /\ "populate" \in Events
              /\ route' \in IF net[t] \in present THEN {route, net[t]} ELSE {route}
        /\ TearDown(t, "undo")
  /\ UNCHANGED <<rules, rpf, helper, env, phase, todo, net, seen, saved>>

\* A mutant: put back what the map has for the interface.
UndoRpFilterFromMap(t) ==
  /\ pc[t] = "undo"
  /\ \/ net[t] \in present /\ rpf' = [rpf EXCEPT ![net[t]] = original[net[t]]]
     \/ (net[t] \notin present \/ "restore" \in Events) /\ UNCHANGED rpf
  /\ Goto(t, "err")
  /\ UNCHANGED <<rules, route, helper, env, phase, locals>>

\* Put back what this call read, and answer Err.
UndoRpFilter(t) ==
  /\ pc[t] = "undo"
  /\ \/ net[t] \in present /\ rpf' = [rpf EXCEPT ![net[t]] = seen[t]]
     \/ (net[t] \notin present \/ "restore" \in Events) /\ UNCHANGED rpf
  /\ Goto(t, "err")
  /\ UNCHANGED <<rules, route, helper, env, phase, locals>>

\* A mutant: insert, so that a re-apply overwrites.
RecordAppliedOverwrites(t) ==
  /\ pc[t] = "record"
  /\ applied' = TRUE
  /\ original' = [original EXCEPT ![net[t]] = seen[t]]
  /\ Goto(t, "applied")
  /\ UNCHANGED <<kernel, bypassCidrs, env, phase, locals>>

\* entry(iface).or_insert: the first value recorded for an interface stays.
RecordApplied(t) ==
  /\ pc[t] = "record"
  /\ applied' = TRUE
  /\ original' = [original EXCEPT ![net[t]] = IF @ = None THEN seen[t] ELSE @]
  /\ Goto(t, "applied")
  /\ UNCHANGED <<kernel, bypassCidrs, env, phase, locals>>

---------------------------------------------------------------------------
(* RemoveBypassRoutes, teardown_bypass_on_vanish, cleanup_rules *)

\* Take the recorded values out of the state and restore them one by one.
RemoveBypassRoutes(t) ==
  /\ Start(t)
  /\ gui = "on"
  /\ applied' = FALSE
  /\ saved' = [saved EXCEPT ![t] = original]
  /\ original' = Blank
  /\ after' = [after EXCEPT ![t] = "removed"]
  /\ Goto(t, "restore")
  /\ UNCHANGED <<kernel, bypassCidrs, env, phase, todo, dels, net, seen>>

\* originals_to_restore: nothing is restored unless an apply succeeded.
VanishTeardown(t) ==
  /\ Start(t)
  /\ gui = "gone" /\ watched
  /\ watched' = FALSE
  /\ saved' = [saved EXCEPT ![t] = IF applied THEN original ELSE Blank]
  /\ applied' = FALSE
  /\ original' = Blank
  /\ after' = [after EXCEPT ![t] = "removed"]
  /\ Goto(t, "restore")
  /\ UNCHANGED <<kernel, bypassCidrs, uplink, present, gui, phase, todo, dels, net, seen>>

\* SIGTERM: cleanup_rules drains the map and leaves the flag.
ShutdownCleanup(t) ==
  /\ "sigterm" \in Events
  /\ Start(t)
  /\ phase = "up"
  /\ phase' = "stopping"
  /\ saved' = [saved EXCEPT ![t] = original]
  /\ original' = Blank
  /\ after' = [after EXCEPT ![t] = "exit"]
  /\ Goto(t, "restore")
  /\ UNCHANGED <<kernel, bypassCidrs, applied, env, todo, dels, net, seen>>

\* A mutant: every interface is made strict again.
RestoreRpFilterStrict(t) ==
  /\ pc[t] = "restore"
  /\ \E i \in Ifaces :
       /\ saved[t][i] # None
       /\ \/ i \in present /\ rpf' = [rpf EXCEPT ![i] = Strict]
          \/ (i \notin present \/ "restore" \in Events) /\ UNCHANGED rpf
       /\ saved' = [saved EXCEPT ![t][i] = None]
  /\ UNCHANGED <<rules, route, helper, env, phase, pc, after, todo, dels, net, seen>>

\* restore_rp_filter_all: an interface that is gone is skipped.
RestoreRpFilter(t) ==
  /\ pc[t] = "restore"
  /\ \E i \in Ifaces :
       /\ saved[t][i] # None
       /\ \/ i \in present /\ rpf' = [rpf EXCEPT ![i] = saved[t][i]]
          \/ (i \notin present \/ "restore" \in Events) /\ UNCHANGED rpf
       /\ saved' = [saved EXCEPT ![t][i] = None]
  /\ UNCHANGED <<rules, route, helper, env, phase, pc, after, todo, dels, net, seen>>

RestoreEnds(t) ==
  /\ pc[t] = "restore"
  /\ saved[t] = Blank
  /\ TearDown(t, after[t])
  /\ UNCHANGED <<kernel, helper, env, phase, todo, net, seen, saved>>

\* main returns; the tasks that were running end with it.
Exit(t) ==
  /\ pc[t] = "exit"
  /\ phase' = "down"
  /\ pc' = [u \in Tasks |-> IF Busy(u) THEN "err" ELSE pc[u]]
  /\ UNCHANGED <<kernel, helper, env, locals>>

---------------------------------------------------------------------------
(* The bypass list, the watcher of the firewall half, and the environment *)

SetBypassCidrs(list) ==
  /\ phase # "down" /\ gui = "on"
  /\ Cardinality(list) <= MaxBypass
  /\ bypassCidrs' = list
  /\ UNCHANGED <<kernel, applied, original, env, phase, pc, locals>>

\* AddRules spawns a watcher, RemoveRules aborts it (module HelperFirewall).
Watch ==
  /\ phase # "down" /\ gui = "on"
  /\ watched' = ~watched
  /\ UNCHANGED <<kernel, helper, uplink, present, gui, phase, pc, locals>>

GuiVanishes ==
  /\ "vanish" \in Events
  /\ gui = "on"
  /\ gui' = "gone"
  /\ UNCHANGED <<kernel, helper, uplink, present, watched, phase, pc, locals>>

\* The system's default route moves to another interface or goes away.
UplinkMoves ==
  /\ uplink' \in present \cup {None}
  /\ uplink' # uplink
  /\ UNCHANGED <<kernel, helper, present, gui, watched, phase, pc, locals>>

\* The kernel drops the routes of an interface that goes away.
Unplug(i) ==
  /\ "unplug" \in Events
  /\ i \in present
  /\ present' = present \ {i}
  /\ uplink' = IF uplink = i THEN None ELSE uplink
  /\ route' = IF route = i THEN None ELSE route
  /\ UNCHANGED <<rules, rpf, helper, gui, watched, phase, pc, locals>>

\* An interface that comes back has the rp_filter it had at boot.
Plug(i) ==
  /\ i \notin present
  /\ present' = present \cup {i}
  /\ rpf' = [rpf EXCEPT ![i] = Boot[i]]
  /\ UNCHANGED <<rules, route, helper, uplink, gui, watched, phase, pc, locals>>

---------------------------------------------------------------------------
Begin(t) ==
  ApplyBypassRoutes(t) \/ RemoveBypassRoutes(t) \/ VanishTeardown(t) \/ ShutdownCleanup(t)

Step(t) ==
  \/ DeleteRule(t) \/ DeleteEnds(t) \/ DeleteFails(t) \/ Flush(t)
  \/ Capture(t) \/ ReadRpFilter(t) \/ LoosenRpFilter(t)
  \/ InstallRule(t) \/ PopulateTable(t) \/ UndoRpFilter(t) \/ RecordApplied(t)
  \/ RestoreRpFilter(t) \/ RestoreEnds(t) \/ Exit(t)

Environment ==
  \/ \E list \in SUBSET Cidrs : SetBypassCidrs(list)
  \/ \E i \in Ifaces : Unplug(i) \/ Plug(i)
  \/ Watch \/ GuiVanishes \/ UplinkMoves

Next == (\E t \in Tasks : Begin(t) \/ Step(t)) \/ Environment

Spec == Init /\ [][Next]_vars

---------------------------------------------------------------------------
(* Properties *)

Value == RpFilter \cup {None}
DelRuns == 0..2 * MaxBypass
Returns == {"capture", "undo", "removed", "exit"}
Places ==
  Finished \cup {"unsent", "delete", "flush", "capture", "read", "loosen", "install",
                "record", "undo", "restore", "exit"}

TypeOK ==
  /\ rules \subseteq Cidrs /\ route \in Ifaces \cup {None}
  /\ rpf \in [Ifaces -> RpFilter]
  /\ uplink \in Ifaces \cup {None} /\ present \subseteq Ifaces
  /\ gui \in {"on", "gone"} /\ watched \in BOOLEAN
  /\ phase \in {"up", "stopping", "down"}
  /\ bypassCidrs \subseteq Cidrs /\ applied \in BOOLEAN
  /\ original \in [Ifaces -> Value]
  /\ pc \in [Tasks -> Places]
  /\ after \in [Tasks -> Returns]
  /\ todo \in [Tasks -> SUBSET Cidrs]
  /\ dels \in [Tasks -> DelRuns]
  /\ net \in [Tasks -> Ifaces \cup {None}]
  /\ seen \in [Tasks -> Value]
  /\ saved \in [Tasks -> [Ifaces -> Value]]

(***************************************************************************)
(* Whatever overlaps, the helper writes to an interface only 2 or the      *)
(* value that interface had at boot, never one of another interface.       *)
(***************************************************************************)
OnlyBootOrLoose == \A i \in Ifaces : rpf[i] \in {Boot[i], Loose}

(***************************************************************************)
(* service.rs, lines 42 and 43: the map holds "the iface's pre-apply       *)
(* rp_filter value", also after re-applies, failed applies and moves of    *)
(* the uplink.                                                             *)
(***************************************************************************)
RecordedIsOriginal == \A i \in Ifaces : original[i] \in {None, Boot[i]}

(***************************************************************************)
(* The value an interface had before it was loosened is always held by     *)
(* something that will write it back: the map, an apply that can still     *)
(* fail or record it, or a clean-up that has drained the map.              *)
(***************************************************************************)
MayUndo(t) ==
  \/ pc[t] \in {"install", "record", "undo"}
  \/ pc[t] \in {"delete", "flush"} /\ after[t] = "undo"

Held(i) ==
  \/ original[i] = Boot[i]
  \/ \E t \in Tasks : MayUndo(t) /\ net[t] = i /\ seen[t] = Boot[i]
  \/ \E t \in Tasks : pc[t] = "restore" /\ saved[t][i] = Boot[i]

OriginalsHeld == \A i \in present : rpf[i] # Boot[i] => Held(i)

(***************************************************************************)
(* Split tunnelling that is off leaves no trace: after a RemoveBypassRoutes*)
(* or the clean-up for a client that left or a SIGTERM, and after an apply *)
(* that failed when nothing was applied, there is no rule, no route, and   *)
(* every interface has its own rp_filter again (service.rs, lines 315 to   *)
(* 329 and 349 to 367).                                                    *)
(***************************************************************************)
CleanWhenOff ==
  Idle /\ (~applied \/ phase = "down") =>
    /\ rules = {}
    /\ route = None
    /\ \A i \in present : rpf[i] = Boot[i]
=============================================================================
