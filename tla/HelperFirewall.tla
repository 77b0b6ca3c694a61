--------------------------- MODULE HelperFirewall ---------------------------
(***************************************************************************)
(* The firewall half of the privileged helper (helper/src/service.rs and   *)
(* helper/src/watcher.rs): the nft table, the State fields sender, watcher *)
(* and bypass_cidrs, the D-Bus calls that change them, the task spawned by *)
(* each AddRules that waits for its client to leave the bus, and the       *)
(* SIGTERM path.                                                           *)
(*                                                                         *)
(* Every action is the code between two awaits: zbus runs each call in a   *)
(* tokio task of its own, so calls, watcher tasks and the shutdown path    *)
(* interleave at every await.  A call is named by its message (a member of *)
(* Calls, used once), and the watcher that an AddRules spawns, and the     *)
(* table its script builds, are named by that call.                        *)
(***************************************************************************)
EXTENDS Naturals, FiniteSets

CONSTANTS
  Clients,    \* unique bus names; a restarted GUI has a new one
  Calls,      \* D-Bus messages, each sent once (bounds the model)
  Cidrs,      \* networks a caller may name in a bypass list
  BadCidrs,   \* those that canonicalize_cidr rejects
  MaxBypass,  \* MAX_BYPASS_CIDRS
  Events,     \* what else may happen in this instance: nft failing ("add",
              \* "delete"), the subscription failing ("subscribe"), an abort
              \* that comes too late ("late"), "vanish", "sigterm", "crash"
  Serial,     \* TRUE: a call is sent only when no other is in flight
  OneGui,     \* TRUE: a GUI starts only when the one before has left the bus
  None        \* no table, no watcher, no sender

ASSUME NoneAssumption == None \notin Calls /\ None \notin Clients
ASSUME BoundAssumption == MaxBypass \in Nat
ASSUME SerialAssumption == Serial \in BOOLEAN /\ OneGui \in BOOLEAN

VARIABLES
  bus,          \* of each unique name: "absent", "owned", "gone" for good
  phase,        \* "up", "stopping" after SIGTERM, "swept" once cleanup_rules
                \* ran its nft script, "down"
  table,        \* the AddRules whose script built the kernel's table, or None
  pc,           \* where each call is
  client,       \* who sent each call
  snapshot,     \* the bypass list each AddRules read before its nft run
  watch,        \* where the watcher task of each AddRules is
  sender,       \* State.sender
  watcher,      \* State.watcher
  bypassCidrs,  \* State.bypass_cidrs
  abandoned     \* history: since the present table was built a delete failed,
                \* a watcher errored or missed its event, or the helper died

vars == <<bus, phase, table, pc, client, snapshot, watch, sender, watcher,
          bypassCidrs, abandoned>>
state == <<sender, watcher, bypassCidrs>>

AddSteps == {"add_nft", "add_lock", "add_store"}
Alive == {cl \in Clients : bus[cl] = "owned"}

InFlight == AddSteps \cup {"remove_nft"}

\* Calls whose task died; their nft run goes on by itself.
Orphaned == {"orphan_add", "orphan_remove"}

(***************************************************************************)
(* Canonical lists of at most MaxBypass accepted networks: what            *)
(* validate_bypass_cidrs lets through.                                     *)
(***************************************************************************)
ValidList(list) ==
  /\ Cardinality(list) <= MaxBypass
  /\ list \cap BadCidrs = {}

Init ==
  /\ bus = [cl \in Clients |-> "absent"]
  /\ phase = "up"
  /\ table = None
  /\ pc = [c \in Calls |-> "unsent"]
  /\ client = [c \in Calls |-> None]
  /\ snapshot = [c \in Calls |-> {}]
  /\ watch = [c \in Calls |-> "none"]
  /\ sender = None
  /\ watcher = None
  /\ bypassCidrs = {}
  /\ abandoned = FALSE

Send(c, cl) ==
  /\ phase # "down"
  /\ pc[c] = "unsent"
  /\ cl \in Alive
  /\ Serial => \A d \in Calls : pc[d] \notin InFlight
  /\ client' = [client EXCEPT ![c] = cl]

(***************************************************************************)
(* JoinHandle::abort.  A task waiting in an await dies there; the nft      *)
(* process of a task that dies while waiting for it is not killed and may  *)
(* still commit ("detached").  A task that another thread is running gets  *)
(* to its next await first ("locking").                                    *)
(***************************************************************************)
Aborted(w, h) ==
  [t \in Calls |->
     CASE t = h /\ w[t] = "deleting" -> "detached"
       [] t = h /\ w[t] \in {"spawned", "watching", "deaf", "unwinding"} -> "ended"
       [] OTHER -> w[t]]

---------------------------------------------------------------------------
(* AddRules *)

\* validate_interface or split_ips refuses the arguments: nothing changes.
AddRulesRejected(c, cl) ==
  /\ Send(c, cl)
  /\ pc' = [pc EXCEPT ![c] = "err"]
  /\ UNCHANGED <<bus, phase, table, snapshot, watch, state, abandoned>>

\* A mutant: the previous watcher is aborted before the nft run.
AddRulesEarlyAbort(c, cl) ==
  /\ Send(c, cl)
  /\ snapshot' = [snapshot EXCEPT ![c] = bypassCidrs]
  /\ pc' = [pc EXCEPT ![c] = "add_nft"]
  /\ watcher' = None
  /\ watch' = Aborted(watch, watcher)
  /\ UNCHANGED <<bus, phase, table, sender, bypassCidrs, abandoned>>

\* Copy the bypass list under the lock, then run nft without it.
AddRules(c, cl) ==
  /\ Send(c, cl)
  /\ snapshot' = [snapshot EXCEPT ![c] = bypassCidrs]
  /\ pc' = [pc EXCEPT ![c] = "add_nft"]
  /\ UNCHANGED <<bus, phase, table, watch, state, abandoned>>

\* nft commits the script: the old table goes and the new one comes at once.
\* It does so even when the task that ran it is gone.
AddCommit(c) ==
  /\ \/ pc[c] = "add_nft" /\ pc' = [pc EXCEPT ![c] = "add_lock"] /\ abandoned' = FALSE
     \/ pc[c] = "orphan_add" /\ pc' = [pc EXCEPT ![c] = "lost"] /\ abandoned' = TRUE
  /\ table' = c
  /\ UNCHANGED <<bus, phase, client, snapshot, watch, state>>

\* nft refuses the script: the transaction rolls back, the caller gets Err.
AddFailed(c) ==
  /\ "add" \in Events
  /\ pc[c] = "add_nft"
  /\ pc' = [pc EXCEPT ![c] = "err"]
  /\ UNCHANGED <<bus, phase, table, client, snapshot, watch, state, abandoned>>

\* A mutant: the previous watcher is not aborted.
AddLockKeepsOld(c) ==
  /\ pc[c] = "add_lock"
  /\ sender' = client[c]
  /\ watcher' = None
  /\ watch' = [watch EXCEPT ![c] = "spawned"]
  /\ pc' = [pc EXCEPT ![c] = "add_store"]
  /\ UNCHANGED <<bus, phase, table, client, snapshot, bypassCidrs, abandoned>>

\* A mutant: the same client keeps the watcher it has.
AddLockReuse(c) ==
  IF sender = client[c]
    THEN /\ pc[c] = "add_lock"
         /\ pc' = [pc EXCEPT ![c] = "added"]
         /\ UNCHANGED <<bus, phase, table, client, snapshot, watch, state, abandoned>>
    ELSE /\ pc[c] = "add_lock"
         /\ sender' = client[c]
         /\ watcher' = None
         /\ watch' = [Aborted(watch, watcher) EXCEPT ![c] = "spawned"]
         /\ pc' = [pc EXCEPT ![c] = "add_store"]
         /\ UNCHANGED <<bus, phase, table, client, snapshot, bypassCidrs, abandoned>>

\* First lock: record the sender and take the previous watcher; abort it and
\* spawn this call's own.
AddLock(c) ==
  /\ pc[c] = "add_lock"
  /\ sender' = client[c]
  /\ watcher' = None
  /\ watch' = [Aborted(watch, watcher) EXCEPT ![c] = "spawned"]
  /\ pc' = [pc EXCEPT ![c] = "add_store"]
  /\ UNCHANGED <<bus, phase, table, client, snapshot, bypassCidrs, abandoned>>

\* Second lock: store the handle.  A handle found there is dropped, which
\* detaches its task and does not abort it.
AddStore(c) ==
  /\ pc[c] = "add_store"
  /\ watcher' = c
  /\ pc' = [pc EXCEPT ![c] = "added"]
  /\ UNCHANGED <<bus, phase, table, client, snapshot, watch, sender,
                 bypassCidrs, abandoned>>

---------------------------------------------------------------------------
(* RemoveRules *)

\* Forget the client and abort its watcher, then run nft.
RemoveRules(c, cl) ==
  /\ Send(c, cl)
  /\ sender' = None
  /\ watcher' = None
  /\ watch' = Aborted(watch, watcher)
  /\ pc' = [pc EXCEPT ![c] = "remove_nft"]
  /\ UNCHANGED <<bus, phase, table, snapshot, bypassCidrs, abandoned>>

RemoveCommit(c) ==
  /\ \/ pc[c] = "remove_nft" /\ pc' = [pc EXCEPT ![c] = "removed"]
     \/ pc[c] = "orphan_remove" /\ pc' = [pc EXCEPT ![c] = "lost"]
  /\ table' = None
  /\ UNCHANGED <<bus, phase, client, snapshot, watch, state, abandoned>>

\* A failed delete is logged and the caller is told Ok all the same.
RemoveFailed(c) ==
  /\ "delete" \in Events
  /\ pc[c] = "remove_nft"
  /\ abandoned' = TRUE
  /\ pc' = [pc EXCEPT ![c] = "removed"]
  /\ UNCHANGED <<bus, phase, table, client, snapshot, watch, state>>

---------------------------------------------------------------------------
(* SetBypassCidrs and ClearBypassCidrs *)

\* A mutant: the list is stored as it came.
SetBypassCidrsUnchecked(c, cl, list) ==
  /\ Send(c, cl)
  /\ bypassCidrs' = list
  /\ pc' = [pc EXCEPT ![c] = "stored"]
  /\ UNCHANGED <<bus, phase, table, snapshot, watch, sender, watcher, abandoned>>

SetBypassCidrs(c, cl, list) ==
  /\ Send(c, cl)
  /\ IF ValidList(list)
       THEN bypassCidrs' = list /\ pc' = [pc EXCEPT ![c] = "stored"]
       ELSE bypassCidrs' = bypassCidrs /\ pc' = [pc EXCEPT ![c] = "err"]
  /\ UNCHANGED <<bus, phase, table, snapshot, watch, sender, watcher, abandoned>>

ClearBypassCidrs(c, cl) ==
  /\ Send(c, cl)
  /\ bypassCidrs' = {}
  /\ pc' = [pc EXCEPT ![c] = "stored"]
  /\ UNCHANGED <<bus, phase, table, snapshot, watch, sender, watcher, abandoned>>

---------------------------------------------------------------------------
(* watch_and_cleanup *)

\* receive_name_owner_changed: the match rule is in place from here on.  A
\* name that lost its owner earlier will not lose it again ("deaf").
Subscribe(c) ==
  /\ phase # "down"
  /\ watch[c] = "spawned"
  /\ IF client[c] \in Alive
       THEN watch' = [watch EXCEPT ![c] = "watching"] /\ UNCHANGED abandoned
       ELSE watch' = [watch EXCEPT ![c] = "deaf"] /\ abandoned' = TRUE
  /\ UNCHANGED <<bus, phase, table, pc, client, snapshot, state>>

\* The proxy, the subscription or the stream fails: logged, nothing removed.
WatcherErrored(c) ==
  /\ "subscribe" \in Events
  /\ phase # "down"
  /\ watch[c] \in {"spawned", "watching", "deaf"}
  /\ watch' = [watch EXCEPT ![c] = "ended"]
  /\ abandoned' = TRUE
  /\ UNCHANGED <<bus, phase, table, pc, client, snapshot, state>>

\* NameOwnerChanged with no new owner arrives: nft is spawned.
ClientVanished(c) ==
  /\ phase # "down"
  /\ watch[c] = "watching"
  /\ client[c] \notin Alive
  /\ watch' = [watch EXCEPT ![c] = "deleting"]
  /\ UNCHANGED <<bus, phase, table, pc, client, snapshot, state, abandoned>>

CleanupCommit(c) ==
  /\ watch[c] = "deleting"
  /\ table' = None
  /\ watch' = [watch EXCEPT ![c] = "unwinding"]
  /\ UNCHANGED <<bus, phase, pc, client, snapshot, state, abandoned>>

CleanupFailed(c) ==
  /\ "delete" \in Events
  /\ watch[c] = "deleting"
  /\ abandoned' = TRUE
  /\ watch' = [watch EXCEPT ![c] = "unwinding"]
  /\ UNCHANGED <<bus, phase, table, pc, client, snapshot, state>>

\* The nft process of an aborted watcher: its delete may land, or may not if
\* the script had not reached its stdin.
DetachedCommit(c) ==
  /\ watch[c] = "detached"
  /\ table' \in {table, None}
  /\ watch' = [watch EXCEPT ![c] = "ended"]
  /\ UNCHANGED <<bus, phase, pc, client, snapshot, state, abandoned>>

\* A thread takes the task up: an abort no longer keeps it from the lock.
Resume(c) ==
  /\ "late" \in Events
  /\ phase # "down"
  /\ watch[c] = "unwinding"
  /\ watch' = [watch EXCEPT ![c] = "locking"]
  /\ UNCHANGED <<bus, phase, table, pc, client, snapshot, state, abandoned>>

\* The lock section of teardown_bypass_on_vanish: whoever the state names by
\* now is forgotten, and the handle dropped.
Unwind(c) ==
  /\ phase # "down"
  /\ watch[c] \in {"unwinding", "locking"}
  /\ sender' = None
  /\ watcher' = None
  /\ watch' = [watch EXCEPT ![c] = "ended"]
  /\ UNCHANGED <<bus, phase, table, pc, client, snapshot, bypassCidrs, abandoned>>

---------------------------------------------------------------------------
(* The process and its environment *)

\* A GUI connects to the system bus.
Appear(cl) ==
  /\ bus[cl] = "absent"
  /\ OneGui => Alive = {}
  /\ bus' = [bus EXCEPT ![cl] = "owned"]
  /\ UNCHANGED <<phase, table, pc, client, snapshot, watch, state, abandoned>>

\* The GUI exits or crashes: its bus name loses its owner.
Vanish(cl) ==
  /\ "vanish" \in Events
  /\ bus[cl] = "owned"
  /\ bus' = [bus EXCEPT ![cl] = "gone"]
  /\ UNCHANGED <<phase, table, pc, client, snapshot, watch, state, abandoned>>

\* SIGTERM or SIGINT: main leaves its select and enters cleanup_rules.
Sigterm ==
  /\ "sigterm" \in Events
  /\ phase = "up"
  /\ phase' = "stopping"
  /\ UNCHANGED <<bus, table, pc, client, snapshot, watch, state, abandoned>>

\* cleanup_rules deletes the table, or fails to and logs it; calls are still
\* served while it runs.
ShutdownSweep ==
  /\ phase = "stopping"
  /\ phase' = "swept"
  /\ \/ table' = None /\ UNCHANGED abandoned
     \/ "delete" \in Events /\ abandoned' = TRUE /\ UNCHANGED table
  /\ UNCHANGED <<bus, pc, client, snapshot, watch, state>>

\* What the end of the process does to its tasks: an nft run already started
\* goes on by itself, everything else is gone with the memory it was in.
LoseTasks ==
  /\ pc' = [c \in Calls |->
              CASE pc[c] = "add_nft" -> "orphan_add"
                [] pc[c] = "remove_nft" -> "orphan_remove"
                [] pc[c] \in {"add_lock", "add_store"} -> "lost"
                [] OTHER -> pc[c]]
  /\ watch' = [c \in Calls |->
                 CASE watch[c] = "deleting" -> "detached"
                   [] watch[c] \in {"spawned", "watching", "deaf", "unwinding", "locking"} -> "ended"
                   [] OTHER -> watch[c]]
  /\ sender' = None
  /\ watcher' = None
  /\ bypassCidrs' = {}
  /\ abandoned' = TRUE

\* main returns.
Exit ==
  /\ phase = "swept"
  /\ phase' = "down"
  /\ LoseTasks
  /\ UNCHANGED <<bus, table, client, snapshot>>

\* The helper is killed; D-Bus activation starts a new one with a default
\* State, and the kernel's table stays.
Crash ==
  /\ "crash" \in Events
  /\ phase = "up"
  /\ LoseTasks
  /\ UNCHANGED <<bus, phase, table, client, snapshot>>

---------------------------------------------------------------------------
CallStep(c) ==
  \/ AddCommit(c) \/ AddFailed(c) \/ AddLock(c) \/ AddStore(c)
  \/ RemoveCommit(c) \/ RemoveFailed(c)

WatchStep(c) ==
  \/ Subscribe(c) \/ ClientVanished(c) \/ CleanupCommit(c) \/ CleanupFailed(c)
  \/ Resume(c) \/ Unwind(c) \/ DetachedCommit(c)

Request(c, cl) ==
  \/ AddRulesRejected(c, cl)
  \/ AddRules(c, cl)
  \/ RemoveRules(c, cl)
  \/ ClearBypassCidrs(c, cl)
  \/ \E list \in SUBSET Cidrs : SetBypassCidrs(c, cl, list)

Next ==
  \/ \E c \in Calls : CallStep(c) \/ WatchStep(c) \/ WatcherErrored(c)
  \/ \E c \in Calls, cl \in Clients : Request(c, cl)
  \/ \E cl \in Clients : Appear(cl) \/ Vanish(cl)
  \/ Sigterm
  \/ ShutdownSweep
  \/ Exit
  \/ Crash

Spec == Init /\ [][Next]_vars

(***************************************************************************)
(* nft and the tokio scheduler make progress: a started call or task is    *)
(* resumed, and cleanup ends.  Clients, SIGTERM and crashes get no         *)
(* fairness.                                                               *)
(***************************************************************************)
FairSpec ==
  /\ Spec
  /\ \A c \in Calls : WF_vars(CallStep(c)) /\ WF_vars(WatchStep(c))
  /\ WF_vars(ShutdownSweep) /\ WF_vars(Exit)

---------------------------------------------------------------------------
(* Properties *)

Steps == {"unsent", "err", "stored", "added", "removed", "lost"} \cup InFlight \cup Orphaned
WatchSteps == {"none", "spawned", "watching", "deaf", "deleting", "detached",
               "unwinding", "locking", "ended"}

TypeOK ==
  /\ bus \in [Clients -> {"absent", "owned", "gone"}]
  /\ phase \in {"up", "stopping", "swept", "down"}
  /\ table \in Calls \cup {None}
  /\ pc \in [Calls -> Steps]
  /\ client \in [Calls -> Clients \cup {None}]
  /\ snapshot \in [Calls -> SUBSET Cidrs]
  /\ watch \in [Calls -> WatchSteps]
  /\ sender \in Clients \cup {None}
  /\ watcher \in Calls \cup {None}
  /\ bypassCidrs \subseteq Cidrs
  /\ abandoned \in BOOLEAN

(***************************************************************************)
(* Something in the helper will still see to the present table: an AddRules*)
(* about to spawn a watcher, a RemoveRules about to delete the table, a    *)
(* watcher that can hear its client leave or is already deleting, or the   *)
(* shutdown.                                                               *)
(***************************************************************************)
HasAgent ==
  \/ \E c \in Calls : pc[c] \in {"add_lock", "remove_nft"}
  \/ \E c \in Calls : watch[c] \in {"spawned", "watching", "deleting"}
  \/ phase = "stopping"

(***************************************************************************)
(* A table never outlives the helper's interest in it.  Whatever order     *)
(* AddRules, RemoveRules, dying clients, aborted watchers and SIGTERM run  *)
(* in, a present table has an agent, unless the table was abandoned by one *)
(* of the faults that variable records.  (add_rules takes the old watcher  *)
(* only after its nft run, remove_rules before its own.)                   *)
(***************************************************************************)
NoOrphanTable == table # None /\ ~abandoned => HasAgent

(***************************************************************************)
(* Only lists that validate_bypass_cidrs accepted reach the root-run nft   *)
(* script, whenever they were stored and whatever call copied them.        *)
(***************************************************************************)
TrustBoundary ==
  /\ ValidList(bypassCidrs)
  /\ \A c \in Calls : ValidList(snapshot[c])

(***************************************************************************)
(* When calls come one at a time, a watcher task that still runs is the    *)
(* one whose handle the state holds (or the one about to be stored), so    *)
(* the next AddRules or RemoveRules aborts it.  A second one would later   *)
(* delete the table of a client that never left.  (Presumes that an abort  *)
(* is not too late: a watcher aborted on its way to the lock forgets the   *)
(* handle of the one that follows it.)                                     *)
(***************************************************************************)
LiveWatch == {"spawned", "watching", "deaf", "deleting", "unwinding"}

NoStrayWatcher ==
  \A c \in Calls : watch[c] \in LiveWatch => watcher = c \/ pc[c] = "add_store"

(***************************************************************************)
(* When calls come one at a time: if the watcher of the table's client was *)
(* listening when the client left, that table goes, even if the watcher is *)
(* then aborted or SIGTERM comes first.  (Not once cleanup_rules has swept: *)
(* the process may exit before the watcher's own delete.)                  *)
(***************************************************************************)
VanishReleases ==
  \A c \in Calls :
    (/\ table = c
     /\ watch[c] = "watching"
     /\ client[c] \notin Alive
     /\ phase \in {"up", "stopping"}) ~> table # c

(***************************************************************************)
(* service.rs, lines 3 to 5: "if the client disappears, rules are auto-    *)
(* removed so the user is never locked out".  The tables of clients that   *)
(* are gone do not stay.                                                   *)
(***************************************************************************)
VanishedClientFreed ==
  \A c \in Calls : (table = c /\ client[c] \notin Alive) ~> table # c
=============================================================================
