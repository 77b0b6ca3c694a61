--------------------------- MODULE KeyringStore ---------------------------
(***************************************************************************)
(* The saved credentials (gui/src/credentials/store.rs) and those who use  *)
(* them: the request for credentials reads them, its dialog saves or       *)
(* forgets them, the removal of a config wipes its own, Preferences and    *)
(* --clear-secret-storage clear all.                                       *)
(*                                                                         *)
(* An item is found by its attributes.  Three generations of them exist:   *)
(* the digest of the config's path ("hash"), the path itself ("raw",       *)
(* before 0.4.5) and the display name ("name", before 0.3.11), which two   *)
(* configs may share.  Every operation is a future with an await for each  *)
(* call of the Secret Service, and any of these calls may fail.            *)
(***************************************************************************)
EXTENDS Naturals, FiniteSets

CONSTANTS
  ConfigPaths,   \* config paths
  DisplayNames,  \* display names
  NameOf,        \* the display name of each config
  Labels,        \* storable fields
  Jobs,          \* places for operations under way (bound)
  MaxSaves,      \* how often credentials are saved (bound)
  NoSecret

ASSUME NameAssumption ==
  /\ NameOf \in [ConfigPaths -> DisplayNames]
  /\ ConfigPaths \cap DisplayNames = {}
ASSUME SavesAssumption == MaxSaves \in Nat

VARIABLES
  items,   \* the keyring: the secret under each key, or NoSecret
  job,     \* the operation in each place
  saves,   \* how many saves there were
  latest,  \* history: the secret saved last and not deleted since
  raced,   \* history: fields saved while a read of the same field was under way
  asked    \* history: fields whose deletion was ever asked for

history == <<latest, raced, asked>>
keyringVars == <<items, job, saves, history>>

Fields == ConfigPaths \X Labels

HashKey(p, l) == <<"hash", p, l>>

RawKey(p, l) == <<"raw", p, l>>

NameKey(n, l) == <<"name", n, l>>

AllKeys == {HashKey(p, l) : p \in ConfigPaths, l \in Labels} \cup
           {RawKey(p, l)  : p \in ConfigPaths, l \in Labels} \cup
           {NameKey(n, l) : n \in DisplayNames, l \in Labels}

\* A secret, by the config or name it was saved for and by its age.
Secrets == [owner : ConfigPaths \cup DisplayNames, age : 0..MaxSaves]

ASSUME SecretAssumption == NoSecret \notin Secrets

Stored(scope) == {k \in scope \cap DOMAIN items : items[k] # NoSecret}

Task(op, p, l, step, secret) ==
  [op |-> op, path |-> p, label |-> l, step |-> step, secret |-> secret,
   found |-> {}]

NoTask == Task("none", NoSecret, NoSecret, "", NoSecret)

Proceeds(t, step) == job' = [job EXCEPT ![t].step = step]
Ends(t)           == job' = [job EXCEPT ![t] = NoTask]
Doing(t, step)    == job[t].step = step

KeyringInit ==
  /\ \E old \in SUBSET AllKeys :
       items = [k \in AllKeys |-> IF k \in old THEN [owner |-> k[2], age |-> 0] ELSE NoSecret]
  /\ job = [t \in Jobs |-> NoTask]
  /\ saves = 0 /\ raced = {} /\ asked = {}
  /\ latest = [f \in Fields |-> NoSecret]

---------------------------------------------------------------------------
(* Starting an operation *)

\* request_credentials, for one label of its list.
Read(t, p, l) ==
  /\ job[t] = NoTask
  /\ job' = [job EXCEPT ![t] = Task("read", p, l, "unlock", NoSecret)]
  /\ UNCHANGED <<items, saves, history>>

\* save_remembered_credentials, for one field of the dialog.
Save(t, p, l) ==
  /\ job[t] = NoTask
  /\ saves < MaxSaves
  /\ saves' = saves + 1
  /\ job' = [job EXCEPT ![t] =
                Task("save", p, l, "unlock", [owner |-> p, age |-> saves + 1])]
  /\ UNCHANGED <<items, history>>

\* delete_remembered_credentials, for one field of the dialog.
Forgets(t, p, l) ==
  /\ job[t] = NoTask
  /\ job' = [job EXCEPT ![t] = Task("forget", p, l, "unlock", NoSecret)]
  /\ asked' = asked \cup {<<p, l>>}
  /\ UNCHANGED <<items, saves, latest, raced>>

\* remove_config, and the orphan wipe of the tray action.
Wipe(t, p) ==
  /\ job[t] = NoTask
  /\ job' = [job EXCEPT ![t] = Task("wipe", p, NoSecret, "unlock", NoSecret)]
  /\ asked' = asked \cup ({p} \X Labels)
  /\ UNCHANGED <<items, saves, latest, raced>>

ClearAll(t) ==
  /\ job[t] = NoTask
  /\ job' = [job EXCEPT ![t] = Task("clear", NoSecret, NoSecret, "unlock", NoSecret)]
  /\ asked' = Fields
  /\ UNCHANGED <<items, saves, latest, raced>>

\* ensure_unlocked: the user may dismiss the prompt.
Unlock(t) ==
  /\ Doing(t, "unlock")
  /\ \/ Proceeds(t, CASE job[t].op = "read"   -> "hash"
                       [] job[t].op = "save"   -> "create"
                       [] job[t].op = "forget" -> "find"
                       [] job[t].op \in {"wipe", "clear"} -> "find")
     \/ Ends(t)
  /\ UNCHANGED <<items, saves, history>>

---------------------------------------------------------------------------
(* get_with_keyring, and the migration that follows a miss *)

\* A probe of one form: it answers, misses, or fails.
Probe(t, key, next) ==
  /\ \/ items[key] = NoSecret /\ Proceeds(t, next)
     \/ Ends(t)
  /\ UNCHANGED <<items, saves, history>>

\* A mutant: the read looks under another key than the save wrote.
ProbeHashBlind(t) ==
  /\ Doing(t, "hash")
  /\ Proceeds(t, "raw")
  /\ UNCHANGED <<items, saves, history>>

ProbeHash(t) ==
  /\ Doing(t, "hash")
  /\ Probe(t, HashKey(job[t].path, job[t].label), "raw")

ProbeRaw(t) ==
  /\ Doing(t, "raw")
  /\ Probe(t, RawKey(job[t].path, job[t].label), "legacy")

LegacyKey(t) == NameKey(NameOf[job[t].path], job[t].label)

\* A mutant: the migration does not look whether it found something.
ReadLegacyUnchecked(t) ==
  /\ Doing(t, "legacy")
  /\ job' = [job EXCEPT ![t].step = "create", ![t].secret = items[LegacyKey(t)]]
  /\ UNCHANGED <<items, saves, history>>

\* Search and read of the legacy item.
ReadLegacy(t) ==
  /\ Doing(t, "legacy")
  /\ \/ /\ items[LegacyKey(t)] # NoSecret
        /\ job' = [job EXCEPT ![t].step = "create", ![t].secret = items[LegacyKey(t)]]
     \/ Ends(t)
  /\ UNCHANGED <<items, saves, history>>

\* A mutant: the migration goes on whether or not the new item was made.
CreateThenGoOn(t) == IF job[t].op = "read" THEN Proceeds(t, "erase") ELSE Ends(t)

\* What follows a create_item that failed.
CreateFailed(t) == Ends(t)

\* A mutant: the item is kept under the display name's first config.
TargetByName(t) ==
  HashKey(CHOOSE p \in ConfigPaths : NameOf[p] = NameOf[job[t].path], job[t].label)

\* Where a save puts the secret, and a migration.
Target(t) == HashKey(job[t].path, job[t].label)

\* A migration creates the item under the path; so does a save.
Create(t) ==
  LET f == <<job[t].path, job[t].label>>
      saving == job[t].op = "save" IN
  /\ Doing(t, "create")
  /\ \/ /\ items' = [items EXCEPT ![Target(t)] = job[t].secret]
        /\ latest' = IF saving THEN [latest EXCEPT ![f] = job[t].secret] ELSE latest
        /\ raced' = IF saving /\ \E u \in Jobs : job[u].op = "read"
                                   /\ <<job[u].path, job[u].label>> = f
                      THEN raced \cup {f} ELSE raced
        /\ IF saving THEN Ends(t) ELSE Proceeds(t, "erase")
     \/ CreateFailed(t) /\ UNCHANGED <<items, latest, raced>>
  /\ UNCHANGED <<saves, asked>>

\* The legacy item goes last; whether that fails or not, the value is used.
EraseLegacy(t) ==
  /\ Doing(t, "erase")
  /\ \/ items' = [items EXCEPT ![LegacyKey(t)] = NoSecret]
     \/ UNCHANGED items
  /\ Ends(t)
  /\ UNCHANGED <<saves, history>>

---------------------------------------------------------------------------
(* delete_async, delete_for_config_async, clear_all_async *)

\* What the search matches: a field in one form, a config in both path
\* forms, or everything the application stored.
Scope(t) ==
  CASE job[t].op = "forget" ->
         {IF job[t].secret = NoSecret THEN HashKey(job[t].path, job[t].label)
                                       ELSE RawKey(job[t].path, job[t].label)}
    [] job[t].op = "wipe" ->
         {HashKey(job[t].path, l) : l \in Labels} \cup {RawKey(job[t].path, l) : l \in Labels}
    [] job[t].op = "clear" -> AllKeys

\* forget goes through both forms even if the first one fails; the marker
\* "raw" says it has come to the second.
Through(t) ==
  IF job[t].op = "forget" /\ job[t].secret = NoSecret
    THEN job' = [job EXCEPT ![t].step = "find", ![t].found = {}, ![t].secret = "raw"]
    ELSE Ends(t)

Find(t) ==
  /\ Doing(t, "find")
  /\ \/ job' = [job EXCEPT ![t].step = "delete", ![t].found = Stored(Scope(t))]
     \/ Through(t)
  /\ UNCHANGED <<items, saves, history>>

\* One item after the other; the first failure ends it.
Delete(t) ==
  /\ Doing(t, "delete")
  /\ \E k \in job[t].found :
       \/ /\ items[k] # NoSecret
          /\ items' = [items EXCEPT ![k] = NoSecret]
          /\ latest' = [f \in Fields |-> IF HashKey(f[1], f[2]) = k THEN NoSecret ELSE latest[f]]
          /\ job' = [job EXCEPT ![t].found = @ \ {k}]
       \/ Through(t) /\ UNCHANGED <<items, latest>>
  /\ UNCHANGED <<saves, raced, asked>>

Deleted(t) ==
  /\ Doing(t, "delete")
  /\ job[t].found = {}
  /\ Through(t)
  /\ UNCHANGED <<items, saves, history>>

KeyringNext ==
  \E t \in Jobs :
    \/ \E p \in ConfigPaths, l \in Labels : Read(t, p, l) \/ Save(t, p, l) \/ Forgets(t, p, l)
    \/ \E p \in ConfigPaths : Wipe(t, p)
    \/ ClearAll(t) \/ Unlock(t)
    \/ ProbeHash(t) \/ ProbeRaw(t) \/ ReadLegacy(t) \/ Create(t) \/ EraseLegacy(t)
    \/ Find(t) \/ Delete(t) \/ Deleted(t)

KeyringSpec == KeyringInit /\ [][KeyringNext]_keyringVars

---------------------------------------------------------------------------
(* Properties *)

KeyringTypeOK ==
  /\ items \in [AllKeys -> Secrets \cup {NoSecret}]
  /\ saves \in 0..MaxSaves
  /\ latest \in [Fields -> Secrets \cup {NoSecret}]
  /\ raced \subseteq Fields /\ asked \subseteq Fields
  /\ \A t \in Jobs :
       /\ job[t].op \in {"none", "read", "save", "forget", "wipe", "clear"}
       /\ job[t].step \in {"", "unlock", "hash", "raw", "legacy", "create", "erase",
                            "find", "delete"}
       /\ job[t].found \subseteq AllKeys
       /\ job[t].step = "create" => job[t].secret \in Secrets

(***************************************************************************)
(* store.rs, the reason for keying by path: what is kept for a config was  *)
(* saved for it, or for its display name before that scheme changed; never *)
(* what was saved for another config that shares its name.                 *)
(***************************************************************************)
OwnSecretsOnly ==
  \A p \in ConfigPaths, l \in Labels : \A k \in {HashKey(p, l), RawKey(p, l)} :
    items[k] # NoSecret => items[k].owner \in {p, NameOf[p]}

(***************************************************************************)
(* A secret saved last stays the one in the keyring until it is deleted,   *)
(* whatever else goes on; only a read that was under way when it was saved *)
(* may put the legacy secret over it.                                      *)
(***************************************************************************)
NewestKept ==
  \A f \in Fields :
    latest[f] # NoSecret /\ f \notin raced => items[HashKey(f[1], f[2])] = latest[f]

(***************************************************************************)
(* migrate_legacy_secret is never lossy: a secret kept under a display     *)
(* name goes only if it is by then in the keyring under a path with that   *)
(* name, or if the user has asked to delete what was kept for such a path. *)
(***************************************************************************)
NeverLossy ==
  [][\A n \in DisplayNames, l \in Labels :
       (items[NameKey(n, l)] # NoSecret /\ items'[NameKey(n, l)] = NoSecret) =>
         \E p \in ConfigPaths :
           /\ NameOf[p] = n
           /\ items[HashKey(p, l)] # NoSecret \/ <<p, l>> \in asked]_keyringVars
=============================================================================
