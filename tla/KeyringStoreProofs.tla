------------------------- MODULE KeyringStoreProofs -------------------------
(***************************************************************************)
(* What holds of the saved credentials for any configs, names, fields and  *)
(* number of overlapping operations, each of whose calls may fail, and of  *)
(* the dialogs that ask for them.                                          *)
(***************************************************************************)
EXTENDS KeyringStore, CredentialFlow, TLAPS

USE NameAssumption, SavesAssumption DEF history

Ops == {"none", "read", "save", "forget", "wipe", "clear"}
Steps == {"", "unlock", "hash", "raw", "legacy", "create", "erase", "find", "delete"}

TaskType ==
  [op : Ops, path : ConfigPaths \cup {NoSecret}, label : Labels \cup {NoSecret}, step : Steps,
   secret : Secrets \cup {NoSecret, "raw"}, found : SUBSET AllKeys]

TheField(r) == <<r.path, r.label>>

\* An operation that is what its kind and its step say.
Sound(r) ==
  /\ r \in TaskType
  /\ r.step # "" => r.op # "none"
  /\ r.op \in {"read", "save", "forget"} => r.path \in ConfigPaths /\ r.label \in Labels
  /\ r.op = "wipe" => r.path \in ConfigPaths
  /\ r.step \in {"hash", "raw", "legacy", "erase"} => r.op = "read"
  /\ r.step = "create" => r.op \in {"read", "save"}
  /\ r.step \in {"find", "delete"} => r.op \in {"forget", "wipe", "clear"}
  /\ r.step = "create" \/ r.op = "save" => r.secret \in Secrets
  /\ r.step = "create" => r.secret.owner \in {r.path, NameOf[r.path]}
  /\ r.op = "save" => r.secret.owner = r.path

TasksSound == DOMAIN job = Jobs /\ \A t \in Jobs : Sound(job[t])

DataTyped ==
  /\ items \in [AllKeys -> Secrets \cup {NoSecret}]
  /\ saves \in 0..MaxSaves
  /\ latest \in [Fields -> Secrets \cup {NoSecret}]
  /\ raced \subseteq Fields /\ asked \subseteq Fields

\* What was saved under a display name is of that name.
LegacyOwned ==
  \A n \in DisplayNames, l \in Labels :
    items[NameKey(n, l)] # NoSecret => items[NameKey(n, l)].owner = n

Owned == DataTyped /\ TasksSound /\ OwnSecretsOnly /\ LegacyOwned

LEMMA KeysAreKeys ==
  /\ \A p \in ConfigPaths, l \in Labels : HashKey(p, l) \in AllKeys /\ RawKey(p, l) \in AllKeys
  /\ \A n \in DisplayNames, l \in Labels : NameKey(n, l) \in AllKeys
  /\ \A p, q, l, m : /\ HashKey(p, l) = HashKey(q, m) <=> p = q /\ l = m
                     /\ NameKey(p, l) = NameKey(q, m) <=> p = q /\ l = m
                     /\ HashKey(p, l) # RawKey(q, m)
                     /\ HashKey(p, l) # NameKey(q, m)
                     /\ RawKey(p, l) # NameKey(q, m)
BY DEF AllKeys, HashKey, RawKey, NameKey

LEMMA NoTaskSound == Sound(NoTask)
BY DEF Sound, NoTask, Task, TaskType, Ops, Steps

\* One job changes to a sound one.
LEMMA OneSound ==
  ASSUME TasksSound, NEW t \in Jobs, NEW r, Sound(r), job' = [job EXCEPT ![t] = r]
  PROVE  TasksSound'
BY DEF TasksSound

LEMMA EndSound ==
  ASSUME TasksSound, NEW t \in Jobs, Ends(t)
  PROVE  TasksSound'
BY OneSound, NoTaskSound DEF Ends

\* A job goes on to another step of the same operation.
LEMMA GoesSound ==
  ASSUME TasksSound, NEW t \in Jobs, NEW step \in Steps, Proceeds(t, step),
         Sound([job[t] EXCEPT !.step = step])
  PROVE  TasksSound'
<1>1. job' = [job EXCEPT ![t] = [job[t] EXCEPT !.step = step]]
  BY DEF Proceeds
<1> QED BY <1>1, OneSound

LEMMA StepSound ==
  ASSUME NEW r, Sound(r), NEW step \in Steps,
         \/ step \in {"hash", "raw", "legacy", "erase"} /\ r.op = "read"
         \/ step = "create" /\ r.op = "save"
         \/ step \in {"find", "delete"} /\ r.op \in {"forget", "wipe", "clear"}
  PROVE  Sound([r EXCEPT !.step = step])
<1>1. [r EXCEPT !.step = step] \in TaskType
  BY DEF Sound, TaskType
<1>2. /\ [r EXCEPT !.step = step].step = step /\ [r EXCEPT !.step = step].op = r.op
      /\ [r EXCEPT !.step = step].path = r.path /\ [r EXCEPT !.step = step].label = r.label
      /\ [r EXCEPT !.step = step].secret = r.secret
  BY DEF Sound, TaskType
<1> QED BY <1>1, <1>2 DEF Sound

\* A search that fails, or the last deletion.
LEMMA ThroughSound ==
  ASSUME TasksSound, NEW t \in Jobs, job[t].step \in {"find", "delete"}, Through(t)
  PROVE  TasksSound'
<1>1. CASE job[t].op = "forget" /\ job[t].secret = NoSecret
  <2> DEFINE r == [job[t] EXCEPT !.step = "find", !.found = {}, !.secret = "raw"]
  <2>1. Sound(job[t])
    BY DEF TasksSound
  <2>2. job' = [job EXCEPT ![t] = r]
    BY <1>1 DEF Through
  <2>3. r \in TaskType
    BY <2>1 DEF Sound, TaskType, Steps
  <2>4. r.step = "find" /\ r.op = "forget" /\ r.path = job[t].path /\ r.label = job[t].label
    BY <1>1, <2>1 DEF Sound, TaskType
  <2>5. Sound(r)
    BY <1>1, <2>1, <2>3, <2>4 DEF Sound
  <2> QED BY <2>2, <2>5, OneSound
<1>2. CASE ~(job[t].op = "forget" /\ job[t].secret = NoSecret)
  BY <1>2, EndSound DEF Through
<1> QED BY <1>1, <1>2

LEMMA StartsOwned ==
  ASSUME Owned, NEW t \in Jobs,
         \/ \E p \in ConfigPaths, l \in Labels : Read(t, p, l) \/ Save(t, p, l) \/ Forgets(t, p, l)
         \/ \E p \in ConfigPaths : Wipe(t, p)
         \/ ClearAll(t)
  PROVE  Owned'
<1> USE DEF Owned, DataTyped
<1>1. UNCHANGED items /\ UNCHANGED latest /\ UNCHANGED raced
  BY DEF Read, Save, Forgets, Wipe, ClearAll
<1>2. OwnSecretsOnly' /\ LegacyOwned'
  BY <1>1 DEF OwnSecretsOnly, LegacyOwned
<1>3. ASSUME NEW p \in ConfigPaths, NEW l \in Labels,
             Read(t, p, l) \/ Save(t, p, l) \/ Forgets(t, p, l)
      PROVE  TasksSound' /\ saves' \in 0..MaxSaves /\ asked' \subseteq Fields
  <2>1. CASE Read(t, p, l)
    <3>1. Sound(Task("read", p, l, "unlock", NoSecret))
      BY DEF Sound, Task, TaskType, Ops, Steps
    <3> QED BY <2>1, <3>1, OneSound DEF Read
  <2>2. CASE Save(t, p, l)
    <3>1. saves' \in 0..MaxSaves /\ saves + 1 \in 0..MaxSaves
      BY <2>2 DEF Save
    <3>2. Sound(Task("save", p, l, "unlock", [owner |-> p, age |-> saves + 1]))
      BY <3>1 DEF Sound, Task, TaskType, Ops, Steps, Secrets
    <3> QED BY <2>2, <3>1, <3>2, OneSound DEF Save
  <2>3. CASE Forgets(t, p, l)
    <3>1. Sound(Task("forget", p, l, "unlock", NoSecret))
      BY DEF Sound, Task, TaskType, Ops, Steps
    <3> QED BY <2>3, <3>1, OneSound DEF Forgets, Fields
  <2> QED BY <1>3, <2>1, <2>2, <2>3
<1>4. ASSUME NEW p \in ConfigPaths, Wipe(t, p)
      PROVE  TasksSound' /\ saves' \in 0..MaxSaves /\ asked' \subseteq Fields
  <2>1. Sound(Task("wipe", p, NoSecret, "unlock", NoSecret))
    BY DEF Sound, Task, TaskType, Ops, Steps
  <2> QED BY <1>4, <2>1, OneSound DEF Wipe, Fields
<1>5. CASE ClearAll(t)
  <2>1. Sound(Task("clear", NoSecret, NoSecret, "unlock", NoSecret))
    BY DEF Sound, Task, TaskType, Ops, Steps
  <2> QED BY <1>1, <1>2, <1>5, <2>1, OneSound DEF ClearAll
<1> QED BY <1>1, <1>2, <1>3, <1>4, <1>5

LEMMA UnlockSound ==
  ASSUME TasksSound, NEW t \in Jobs, Unlock(t)
  PROVE  TasksSound'
<1>1. Sound(job[t]) /\ job[t].op \in Ops
  BY DEF TasksSound, Sound, TaskType
<1>2. ASSUME job[t].op = "read", Proceeds(t, "hash") PROVE TasksSound'
  BY <1>1, <1>2, StepSound, GoesSound DEF Steps
<1>3. ASSUME job[t].op = "save", Proceeds(t, "create") PROVE TasksSound'
  BY <1>1, <1>3, StepSound, GoesSound DEF Steps
<1>4. ASSUME job[t].op \in {"forget", "wipe", "clear"}, Proceeds(t, "find") PROVE TasksSound'
  BY <1>1, <1>4, StepSound, GoesSound DEF Steps
<1>5. job[t].op # "none"
  BY <1>1 DEF Unlock, Doing, Sound
<1> QED BY <1>1, <1>2, <1>3, <1>4, <1>5, EndSound DEF Unlock, Ops

LEMMA ReadsSound ==
  ASSUME DataTyped, LegacyOwned, TasksSound, NEW t \in Jobs,
         ProbeHash(t) \/ ProbeRaw(t) \/ ReadLegacy(t)
  PROVE  TasksSound'
<1>1. Sound(job[t]) /\ job[t].op = "read"
  BY DEF TasksSound, Sound, ProbeHash, ProbeRaw, ReadLegacy, Doing
<1>2. CASE ProbeHash(t) \/ ProbeRaw(t)
  <2>1. ASSUME NEW step \in {"raw", "legacy"}, Proceeds(t, step) PROVE TasksSound'
    BY <1>1, <2>1, StepSound, GoesSound DEF Steps
  <2> QED BY <1>2, <2>1, EndSound DEF ProbeHash, ProbeRaw, Probe
<1>3. CASE ReadLegacy(t)
  <2>1. CASE Ends(t)
    BY <2>1, EndSound
  <2>2. CASE /\ items[LegacyKey(t)] # NoSecret
             /\ job' = [job EXCEPT ![t].step = "create", ![t].secret = items[LegacyKey(t)]]
    <3> DEFINE s == items[LegacyKey(t)]
               r == [job[t] EXCEPT !.step = "create", !.secret = s]
    <3>1. job[t].path \in ConfigPaths /\ job[t].label \in Labels
      BY <1>1 DEF Sound
    <3>2. LegacyKey(t) \in AllKeys /\ NameOf[job[t].path] \in DisplayNames
      BY <3>1, KeysAreKeys DEF LegacyKey
    <3>3. s \in Secrets /\ s.owner = NameOf[job[t].path]
      BY <2>2, <3>1, <3>2 DEF DataTyped, LegacyOwned, LegacyKey
    <3>4. r \in TaskType
      BY <1>1, <3>3 DEF Sound, TaskType, Steps
    <3>5. /\ r.step = "create" /\ r.op = "read" /\ r.secret = s
          /\ r.path = job[t].path /\ r.label = job[t].label
      BY <1>1 DEF Sound, TaskType
    <3>6. Sound(r)
      BY <3>1, <3>3, <3>4, <3>5 DEF Sound
    <3>7. job' = [job EXCEPT ![t] = r]
      BY <2>2
    <3> QED BY <3>6, <3>7, OneSound
  <2> QED BY <1>3, <2>1, <2>2 DEF ReadLegacy
<1> QED BY <1>2, <1>3

LEMMA CreateOwned ==
  ASSUME Owned, NEW t \in Jobs, Create(t)
  PROVE  Owned'
<1> DEFINE p == job[t].path
           l == job[t].label
<1>1. /\ Sound(job[t]) /\ job[t].op \in {"read", "save"} /\ p \in ConfigPaths /\ l \in Labels
      /\ job[t].secret \in Secrets /\ job[t].secret.owner \in {p, NameOf[p]}
  BY DEF Owned, TasksSound, Sound, Create, Doing
<1>2. Target(t) = HashKey(p, l) /\ HashKey(p, l) \in AllKeys
  BY <1>1, KeysAreKeys DEF Target
<1>3. TasksSound'
  <2>1. CASE Ends(t)
    BY <2>1, EndSound DEF Owned
  <2>2. CASE job[t].op = "read" /\ Proceeds(t, "erase")
    BY <1>1, <2>2, StepSound, GoesSound DEF Owned, Steps
  <2> QED BY <1>1, <2>1, <2>2 DEF Create, CreateFailed
<1>4. CASE UNCHANGED <<items, latest, raced>>
  BY <1>3, <1>4 DEF Owned, DataTyped, OwnSecretsOnly, LegacyOwned, Create
<1>5. CASE items' = [items EXCEPT ![Target(t)] = job[t].secret]
  <2>1. items' \in [AllKeys -> Secrets \cup {NoSecret}]
    BY <1>1, <1>2, <1>5 DEF Owned, DataTyped
  <2>2. \A k \in AllKeys : k # HashKey(p, l) => items'[k] = items[k]
    BY <1>2, <1>5 DEF Owned, DataTyped
  <2>3. items'[HashKey(p, l)] = job[t].secret
    BY <1>2, <1>5 DEF Owned, DataTyped
  <2>4. OwnSecretsOnly'
    <3> SUFFICES ASSUME NEW q \in ConfigPaths, NEW m \in Labels,
                        NEW k \in {HashKey(q, m), RawKey(q, m)}, items'[k] # NoSecret
                 PROVE  items'[k].owner \in {q, NameOf[q]}
      BY DEF OwnSecretsOnly
    <3>1. CASE k = HashKey(p, l)
      <4>1. q = p
        BY <3>1, KeysAreKeys
      <4> QED BY <1>1, <2>3, <3>1, <4>1
    <3>2. CASE k # HashKey(p, l)
      BY <2>2, <3>2, KeysAreKeys DEF Owned, OwnSecretsOnly
    <3> QED BY <3>1, <3>2
  <2>5. LegacyOwned'
    <3> SUFFICES ASSUME NEW n \in DisplayNames, NEW m \in Labels
                 PROVE  items'[NameKey(n, m)] = items[NameKey(n, m)]
      BY DEF Owned, LegacyOwned
    <3>1. NameKey(n, m) # HashKey(p, l)
      BY DEF NameKey, HashKey
    <3>2. NameKey(n, m) \in AllKeys
      BY KeysAreKeys, Zenon
    <3> QED BY <2>2, <3>1, <3>2
  <2>6. latest' \in [Fields -> Secrets \cup {NoSecret}] /\ raced' \subseteq Fields
    <3>1. <<p, l>> \in Fields
      BY <1>1 DEF Fields
    <3> QED BY <1>1, <1>5, <3>1 DEF Owned, DataTyped, Create
  <2> QED BY <1>3, <2>1, <2>4, <2>5, <2>6 DEF Owned, DataTyped, Create
<1> QED BY <1>4, <1>5 DEF Create

\* What happens to an item when it is deleted or erased.
LEMMA LessIsOwned ==
  ASSUME Owned, NEW k \in AllKeys, items' = [items EXCEPT ![k] = NoSecret]
  PROVE  /\ items' \in [AllKeys -> Secrets \cup {NoSecret}]
         /\ OwnSecretsOnly' /\ LegacyOwned'
<1>1. items' \in [AllKeys -> Secrets \cup {NoSecret}]
  BY DEF Owned, DataTyped
<1>2. \A j \in AllKeys : items'[j] # NoSecret => items'[j] = items[j]
  BY DEF Owned, DataTyped
<1>3. OwnSecretsOnly'
  BY <1>2, KeysAreKeys DEF Owned, OwnSecretsOnly
<1>4. LegacyOwned'
  BY <1>2, KeysAreKeys DEF Owned, LegacyOwned
<1> QED BY <1>1, <1>3, <1>4

LEMMA EraseOwned ==
  ASSUME Owned, NEW t \in Jobs, EraseLegacy(t)
  PROVE  Owned'
<1>1. TasksSound'
  BY EndSound DEF Owned, EraseLegacy
<1>2. LegacyKey(t) \in AllKeys
  BY KeysAreKeys DEF Owned, TasksSound, Sound, EraseLegacy, Doing, LegacyKey
<1>3. CASE UNCHANGED items
  BY <1>1, <1>3 DEF Owned, DataTyped, OwnSecretsOnly, LegacyOwned, EraseLegacy
<1>4. CASE items' = [items EXCEPT ![LegacyKey(t)] = NoSecret]
  BY <1>1, <1>2, <1>4, LessIsOwned DEF Owned, DataTyped, EraseLegacy
<1> QED BY <1>3, <1>4 DEF EraseLegacy

LEMMA DeletionsOwned ==
  ASSUME Owned, NEW t \in Jobs, Find(t) \/ Delete(t) \/ Deleted(t)
  PROVE  Owned'
<1>1. Sound(job[t]) /\ job[t].step \in {"find", "delete"}
  BY DEF Owned, TasksSound, Find, Delete, Deleted, Doing
<1>2. CASE Through(t) /\ UNCHANGED <<items, saves, history>>
  BY <1>1, <1>2, ThroughSound DEF Owned, DataTyped, OwnSecretsOnly, LegacyOwned
<1>3. CASE /\ job' = [job EXCEPT ![t].step = "delete", ![t].found = Stored(Scope(t))]
           /\ UNCHANGED <<items, saves, history>>
  <2> DEFINE r == [job[t] EXCEPT !.step = "delete", !.found = Stored(Scope(t))]
  <2>1. Stored(Scope(t)) \in SUBSET AllKeys
    BY DEF Stored, Owned, DataTyped
  <2>2. r \in TaskType /\ r.step = "delete" /\ r.op = job[t].op /\ r.path = job[t].path
        /\ r.label = job[t].label /\ r.secret = job[t].secret
    BY <1>1, <2>1 DEF Sound, TaskType, Steps
  <2>3. Sound(r)
    BY <1>1, <2>2 DEF Sound
  <2>4. TasksSound'
    BY <1>3, <2>3, OneSound DEF Owned
  <2> QED BY <1>3, <2>4 DEF Owned, DataTyped, OwnSecretsOnly, LegacyOwned
<1>4. ASSUME NEW k \in job[t].found, UNCHANGED <<saves, raced, asked>>,
             items' = [items EXCEPT ![k] = NoSecret],
             latest' = [f \in Fields |-> IF HashKey(f[1], f[2]) = k THEN NoSecret ELSE latest[f]],
             job' = [job EXCEPT ![t].found = @ \ {k}]
      PROVE  Owned'
  <2> DEFINE r == [job[t] EXCEPT !.found = @ \ {k}]
  <2>1. k \in AllKeys
    BY <1>1 DEF Sound, TaskType
  <2>2. r \in TaskType /\ r.step = job[t].step /\ r.op = job[t].op /\ r.path = job[t].path
        /\ r.label = job[t].label /\ r.secret = job[t].secret
    BY <1>1 DEF Sound, TaskType
  <2>3. Sound(r)
    BY <1>1, <2>2 DEF Sound
  <2>4. TasksSound'
    BY <1>4, <2>3, OneSound DEF Owned
  <2> QED BY <1>4, <2>1, <2>4, LessIsOwned DEF Owned, DataTyped
<1>5. CASE Through(t) /\ UNCHANGED <<items, latest, saves, raced, asked>>
  BY <1>2, <1>5
<1> QED BY <1>2, <1>3, <1>4, <1>5 DEF Find, Delete, Deleted

LEMMA OwnedInductive ==
  /\ KeyringInit => Owned
  /\ Owned /\ [KeyringNext]_keyringVars => Owned'
<1>1. ASSUME KeyringInit PROVE Owned
  <2>1. PICK old \in SUBSET AllKeys :
          items = [k \in AllKeys |-> IF k \in old THEN [owner |-> k[2], age |-> 0] ELSE NoSecret]
    BY <1>1 DEF KeyringInit
  <2>2. \A k \in AllKeys : k[2] \in ConfigPaths \cup DisplayNames
    BY DEF AllKeys, HashKey, RawKey, NameKey
  <2>3. items \in [AllKeys -> Secrets \cup {NoSecret}]
    BY <2>1, <2>2 DEF Secrets
  <2>4. OwnSecretsOnly /\ LegacyOwned
    BY <2>1, KeysAreKeys DEF OwnSecretsOnly, LegacyOwned, HashKey, RawKey, NameKey
  <2>5. TasksSound
    BY <1>1, NoTaskSound DEF KeyringInit, TasksSound
  <2> QED BY <1>1, <2>3, <2>4, <2>5 DEF Owned, DataTyped, KeyringInit
<1>2. ASSUME Owned, [KeyringNext]_keyringVars PROVE Owned'
  <2>1. ASSUME NEW t \in Jobs, Unlock(t) PROVE Owned'
    BY <1>2, <2>1, UnlockSound DEF Owned, DataTyped, OwnSecretsOnly, LegacyOwned, Unlock
  <2>2. ASSUME NEW t \in Jobs, ProbeHash(t) \/ ProbeRaw(t) \/ ReadLegacy(t) PROVE Owned'
    BY <1>2, <2>2, ReadsSound DEF Owned, DataTyped, OwnSecretsOnly, LegacyOwned,
       ProbeHash, ProbeRaw, Probe, ReadLegacy
  <2>3. CASE UNCHANGED keyringVars
    BY <1>2, <2>3 DEF keyringVars, Owned, DataTyped, OwnSecretsOnly, LegacyOwned, TasksSound
  <2> QED BY <1>2, <2>1, <2>2, <2>3, StartsOwned, CreateOwned, EraseOwned, DeletionsOwned
          DEF KeyringNext
<1> QED BY <1>1, <1>2

(***************************************************************************)
(* Type correctness of the keyring and of the operations on it.            *)
(***************************************************************************)
THEOREM TypeCorrect == KeyringSpec => []KeyringTypeOK
<1>1. Owned => KeyringTypeOK
  BY DEF Owned, DataTyped, TasksSound, Sound, TaskType, Ops, Steps, KeyringTypeOK
<1> QED BY <1>1, OwnedInductive, PTL DEF KeyringSpec

(***************************************************************************)
(* No config is ever given what was saved for another one, even of the     *)
(* same display name.                                                      *)
(***************************************************************************)
THEOREM SecretsStayWithTheirConfig == KeyringSpec => []OwnSecretsOnly
<1>1. Owned => OwnSecretsOnly
  BY DEF Owned
<1> QED BY <1>1, OwnedInductive, PTL DEF KeyringSpec

---------------------------------------------------------------------------
(* The newest secret *)

\* A read that has missed under the path's digest: nothing has been saved
\* since, or the save is known to have raced with it.
MissIsTrue ==
  \A t \in Jobs :
    job[t].op = "read" /\ job[t].step \in {"raw", "legacy", "create", "erase"} =>
      latest[TheField(job[t])] = NoSecret \/ TheField(job[t]) \in raced

Newest == Owned /\ NewestKept /\ MissIsTrue

LEMMA FieldParts ==
  ASSUME NEW f \in Fields
  PROVE  f[1] \in ConfigPaths /\ f[2] \in Labels /\ f = <<f[1], f[2]>>
BY DEF Fields

\* A step that changes neither the keyring nor what was saved, and sends no
\* read past the first probe.
LEMMA QuietNewest ==
  ASSUME Newest, UNCHANGED <<items, latest, raced>>,
         \A t \in Jobs :
           job'[t].op = "read" /\ job'[t].step \in {"raw", "legacy", "create", "erase"} =>
             /\ job[t].op = "read" /\ job[t].step \in {"raw", "legacy", "create", "erase"}
             /\ TheField(job'[t]) = TheField(job[t])
  PROVE  NewestKept' /\ MissIsTrue'
<1>1. NewestKept'
  BY DEF Newest, NewestKept
<1>2. MissIsTrue'
  BY DEF Newest, MissIsTrue
<1> QED BY <1>1, <1>2

LEMMA TaskFunction ==
  ASSUME TasksSound, NEW t \in Jobs
  PROVE  /\ \A r : job' = [job EXCEPT ![t] = r] =>
              job'[t] = r /\ \A u \in Jobs \ {t} : job'[u] = job[u]
         /\ job[t] \in TaskType
BY DEF TasksSound, Sound

\* Steps that only change where one job is.
LEMMA OneTaskNewest ==
  ASSUME Newest, UNCHANGED <<items, latest, raced>>, NEW t \in Jobs, NEW r,
         job' = [job EXCEPT ![t] = r],
         r.op = "read" /\ r.step \in {"raw", "legacy", "create", "erase"} =>
           /\ job[t].op = "read" /\ job[t].step \in {"raw", "legacy", "create", "erase"}
           /\ TheField(r) = TheField(job[t])
  PROVE  NewestKept' /\ MissIsTrue'
BY QuietNewest, TaskFunction DEF Newest, Owned

LEMMA EndsNewest ==
  ASSUME Newest, UNCHANGED <<items, latest, raced>>, NEW t \in Jobs, Ends(t)
  PROVE  NewestKept' /\ MissIsTrue'
<1>1. NoTask.op = "none"
  BY DEF NoTask, Task
<1> QED BY <1>1, OneTaskNewest DEF Ends

LEMMA StartsNewest ==
  ASSUME Newest, NEW t \in Jobs,
         \/ \E p \in ConfigPaths, l \in Labels : Read(t, p, l) \/ Save(t, p, l) \/ Forgets(t, p, l)
         \/ \E p \in ConfigPaths : Wipe(t, p)
         \/ ClearAll(t)
  PROVE  NewestKept' /\ MissIsTrue'
<1>1. UNCHANGED <<items, latest, raced>>
  BY DEF Read, Save, Forgets, Wipe, ClearAll
<1>2. PICK op, p, l, s : job' = [job EXCEPT ![t] = Task(op, p, l, "unlock", s)]
  BY DEF Read, Save, Forgets, Wipe, ClearAll
<1>3. Task(op, p, l, "unlock", s).step = "unlock"
  BY DEF Task
<1> QED BY <1>1, <1>2, <1>3, OneTaskNewest

LEMMA GoesNewest ==
  ASSUME Newest, UNCHANGED <<items, latest, raced>>, NEW t \in Jobs, NEW step \in Steps,
         Proceeds(t, step),
         job[t].op = "read" /\ step \in {"raw", "legacy", "create", "erase"} =>
           job[t].step \in {"raw", "legacy", "create", "erase"}
  PROVE  NewestKept' /\ MissIsTrue'
<1> DEFINE r == [job[t] EXCEPT !.step = step]
<1>1. job[t] \in TaskType
  BY TaskFunction DEF Newest, Owned
<1>2. r.op = job[t].op /\ r.step = step /\ r.path = job[t].path /\ r.label = job[t].label
  BY <1>1 DEF TaskType
<1>3. job' = [job EXCEPT ![t] = r]
  BY DEF Proceeds
<1> QED BY <1>2, <1>3, OneTaskNewest DEF TheField

\* The first probe misses only if nothing that was saved is in the keyring.
LEMMA MissNewest ==
  ASSUME Newest, NEW t \in Jobs, ProbeHash(t)
  PROVE  NewestKept' /\ MissIsTrue'
<1>1. UNCHANGED <<items, latest, raced>> /\ job[t].step = "hash"
  BY DEF ProbeHash, Probe, Doing
<1>2. CASE Ends(t)
  BY <1>1, <1>2, EndsNewest
<1>3. CASE items[HashKey(job[t].path, job[t].label)] = NoSecret /\ Proceeds(t, "raw")
  <2> DEFINE r == [job[t] EXCEPT !.step = "raw"]
             f == TheField(job[t])
  <2>1. job[t] \in TaskType /\ job[t].path \in ConfigPaths /\ job[t].label \in Labels
    BY <1>1 DEF Newest, Owned, TasksSound, Sound
  <2>2. job' = [job EXCEPT ![t] = r] /\ TheField(r) = f
    BY <1>3, <2>1 DEF Proceeds, TaskType, TheField
  <2>3. f \in Fields /\ HashKey(f[1], f[2]) = HashKey(job[t].path, job[t].label)
    BY <2>1 DEF TheField, Fields
  <2>4. latest[f] = NoSecret \/ f \in raced
    BY <1>3, <2>3 DEF Newest, NewestKept
  <2>5. job'[t] = r /\ \A u \in Jobs \ {t} : job'[u] = job[u]
    BY <2>2, TaskFunction DEF Newest, Owned
  <2>6. MissIsTrue'
    BY <1>1, <2>2, <2>4, <2>5 DEF Newest, MissIsTrue
  <2>7. NewestKept'
    BY <1>1 DEF Newest, NewestKept
  <2> QED BY <2>6, <2>7
<1> QED BY <1>2, <1>3 DEF ProbeHash, Probe

LEMMA ReadOnNewest ==
  ASSUME Newest, NEW t \in Jobs, ProbeRaw(t) \/ ReadLegacy(t)
  PROVE  NewestKept' /\ MissIsTrue'
<1>1. UNCHANGED <<items, latest, raced>> /\ job[t].step \in {"raw", "legacy"}
  BY DEF ProbeRaw, Probe, ReadLegacy, Doing
<1>2. CASE Ends(t)
  BY <1>1, <1>2, EndsNewest
<1>3. CASE Proceeds(t, "legacy")
  BY <1>1, <1>3, GoesNewest DEF Steps
<1>4. CASE job' = [job EXCEPT ![t].step = "create", ![t].secret = items[LegacyKey(t)]]
  <2> DEFINE r == [job[t] EXCEPT !.step = "create", !.secret = items[LegacyKey(t)]]
  <2>1. job[t] \in TaskType
    BY TaskFunction DEF Newest, Owned
  <2>2. r.op = job[t].op /\ r.path = job[t].path /\ r.label = job[t].label
    BY <2>1 DEF TaskType
  <2>3. job' = [job EXCEPT ![t] = r]
    BY <1>4
  <2> QED BY <1>1, <2>2, <2>3, OneTaskNewest DEF TheField
<1> QED BY <1>2, <1>3, <1>4 DEF ProbeRaw, Probe, ReadLegacy

LEMMA UnlockNewest ==
  ASSUME Newest, NEW t \in Jobs, Unlock(t)
  PROVE  NewestKept' /\ MissIsTrue'
<1>1. UNCHANGED <<items, latest, raced>>
  BY DEF Unlock
<1>2. job[t].op \in Ops \ {"none"}
  BY DEF Newest, Owned, TasksSound, Sound, TaskType, Unlock, Doing
<1>3. CASE job[t].op = "read"
  BY <1>1, <1>3, EndsNewest, GoesNewest DEF Unlock, Steps
<1>4. ASSUME job[t].op # "read", NEW step \in {"create", "find"}, Proceeds(t, step)
      PROVE  NewestKept' /\ MissIsTrue'
  BY <1>1, <1>4, GoesNewest DEF Steps
<1>5. CASE job[t].op = "save"
  BY <1>1, <1>4, <1>5, EndsNewest DEF Unlock
<1>6. CASE job[t].op \in {"forget", "wipe", "clear"}
  BY <1>1, <1>4, <1>6, EndsNewest DEF Unlock
<1> QED BY <1>2, <1>3, <1>5, <1>6 DEF Ops

LEMMA CreateNewest ==
  ASSUME Newest, NEW t \in Jobs, Create(t)
  PROVE  NewestKept' /\ MissIsTrue'
<1> DEFINE f == TheField(job[t])
<1>1. /\ job[t] \in TaskType /\ job[t].op \in {"read", "save"} /\ job[t].step = "create"
      /\ job[t].path \in ConfigPaths /\ job[t].label \in Labels
  BY DEF Newest, Owned, TasksSound, Sound, Create, Doing
<1>2. f \in Fields /\ Target(t) = HashKey(f[1], f[2]) /\ Target(t) \in AllKeys
  BY <1>1, KeysAreKeys DEF Target, TheField, Fields
<1>3. CASE CreateFailed(t) /\ UNCHANGED <<items, latest, raced>>
  BY <1>3, EndsNewest DEF CreateFailed
<1>4. CASE items' = [items EXCEPT ![Target(t)] = job[t].secret]
  <2>1. items'[HashKey(f[1], f[2])] = job[t].secret
    BY <1>2, <1>4 DEF Newest, Owned, DataTyped
  <2>2. \A g \in Fields \ {f} : items'[HashKey(g[1], g[2])] = items[HashKey(g[1], g[2])]
    <3> SUFFICES ASSUME NEW g \in Fields \ {f}
                 PROVE  items'[HashKey(g[1], g[2])] = items[HashKey(g[1], g[2])]
      OBVIOUS
    <3>1. HashKey(g[1], g[2]) \in AllKeys /\ HashKey(g[1], g[2]) # HashKey(f[1], f[2])
      BY <1>2, FieldParts, KeysAreKeys
    <3> QED BY <1>2, <1>4, <3>1 DEF Newest, Owned, DataTyped
  <2>3. raced \subseteq raced'
    BY <1>4 DEF Create, CreateFailed, Ends
  <2>4. ASSUME job[t].op = "save", Ends(t), latest' = [latest EXCEPT ![f] = job[t].secret],
               (\E u \in Jobs : job[u].op = "read" /\ TheField(job[u]) = f) => f \in raced'
        PROVE  NewestKept' /\ MissIsTrue'
    <3>1. latest'[f] = job[t].secret /\ \A g \in Fields \ {f} : latest'[g] = latest[g]
      BY <1>2, <2>4 DEF Newest, Owned, DataTyped
    <3>2. NewestKept'
      BY <2>1, <2>2, <2>3, <3>1 DEF Newest, NewestKept
    <3>3. job'[t] = NoTask /\ NoTask.op = "none" /\ \A u \in Jobs \ {t} : job'[u] = job[u]
      BY <2>4, TaskFunction DEF Newest, Owned, Ends, NoTask, Task
    <3>4. ASSUME NEW u \in Jobs, job[u].op = "read",
                 job[u].step \in {"raw", "legacy", "create", "erase"}
          PROVE  latest'[TheField(job[u])] = NoSecret \/ TheField(job[u]) \in raced'
      <4>1. TheField(job[u]) \in Fields
        BY <3>4 DEF Newest, Owned, TasksSound, Sound, TheField, Fields
      <4> QED BY <2>3, <2>4, <3>1, <3>4, <4>1 DEF Newest, MissIsTrue
    <3>5. MissIsTrue'
      BY <3>3, <3>4 DEF MissIsTrue
    <3> QED BY <3>2, <3>5
  <2>5. ASSUME job[t].op = "read", Proceeds(t, "erase"), latest' = latest
        PROVE  NewestKept' /\ MissIsTrue'
    <3> DEFINE r == [job[t] EXCEPT !.step = "erase"]
    <3>1. latest[f] = NoSecret \/ f \in raced
      BY <1>1, <2>5 DEF Newest, MissIsTrue
    <3>2. NewestKept'
      BY <2>2, <2>3, <2>5, <3>1 DEF Newest, NewestKept
    <3>3. job' = [job EXCEPT ![t] = r] /\ TheField(r) = f
      BY <1>1, <2>5 DEF Proceeds, TaskType, TheField
    <3>4. job'[t] = r /\ \A u \in Jobs \ {t} : job'[u] = job[u]
      BY <3>3, TaskFunction DEF Newest, Owned
    <3>5. MissIsTrue'
      BY <2>3, <2>5, <3>1, <3>3, <3>4 DEF Newest, MissIsTrue
    <3> QED BY <3>2, <3>5
  <2>6. CASE CreateFailed(t) /\ UNCHANGED <<items, latest, raced>>
    BY <1>3, <2>6
  <2>7. CASE ~(CreateFailed(t) /\ UNCHANGED <<items, latest, raced>>)
    <3>1. CASE job[t].op = "save"
      <4>1. Ends(t) /\ latest' = [latest EXCEPT ![f] = job[t].secret]
        BY <2>7, <3>1 DEF Create, TheField
      <4>2. (\E u \in Jobs : job[u].op = "read" /\ TheField(job[u]) = f) => f \in raced'
        BY <2>7, <3>1 DEF Create, TheField
      <4> QED BY <2>4, <3>1, <4>1, <4>2
    <3>2. CASE job[t].op = "read"
      BY <2>5, <2>7, <3>2 DEF Create
    <3> QED BY <1>1, <3>1, <3>2
  <2> QED BY <2>6, <2>7
<1> QED BY <1>3, <1>4 DEF Create

LEMMA EraseNewest ==
  ASSUME Newest, NEW t \in Jobs, EraseLegacy(t)
  PROVE  NewestKept' /\ MissIsTrue'
<1>1. LegacyKey(t) \in AllKeys /\ \A f \in Fields : HashKey(f[1], f[2]) # LegacyKey(t)
  <2>1. job[t].path \in ConfigPaths /\ job[t].label \in Labels
    BY DEF Newest, Owned, TasksSound, Sound, EraseLegacy, Doing
  <2>2. LegacyKey(t) \in AllKeys
    BY <2>1, KeysAreKeys DEF LegacyKey
  <2>3. \A p, l, n, m : HashKey(p, l) # NameKey(n, m)
    BY DEF HashKey, NameKey
  <2> QED BY <2>2, <2>3 DEF LegacyKey
<1>2. \A f \in Fields : items'[HashKey(f[1], f[2])] = items[HashKey(f[1], f[2])]
  <2>1. \A f \in Fields : HashKey(f[1], f[2]) \in AllKeys
    BY FieldParts, KeysAreKeys
  <2> QED BY <1>1, <2>1 DEF EraseLegacy, Newest, Owned, DataTyped
<1>3. NewestKept'
  BY <1>2 DEF EraseLegacy, Newest, NewestKept
<1>4. job'[t] = NoTask /\ NoTask.op = "none" /\ \A u \in Jobs \ {t} : job'[u] = job[u]
  BY TaskFunction DEF Newest, Owned, EraseLegacy, Ends, NoTask, Task
<1>5. MissIsTrue'
  BY <1>4 DEF EraseLegacy, Newest, MissIsTrue
<1> QED BY <1>3, <1>5

LEMMA DeletionsNewest ==
  ASSUME Newest, NEW t \in Jobs, Find(t) \/ Delete(t) \/ Deleted(t)
  PROVE  NewestKept' /\ MissIsTrue'
<1>1. Sound(job[t]) /\ job[t] \in TaskType /\ job[t].op \in {"forget", "wipe", "clear"}
  BY DEF Newest, Owned, TasksSound, Sound, Find, Delete, Deleted, Doing
<1>2. CASE Through(t) /\ UNCHANGED <<items, latest, raced>>
  <2>1. CASE Ends(t)
    BY <1>2, <2>1, EndsNewest
  <2>2. CASE job' = [job EXCEPT ![t].step = "find", ![t].found = {}, ![t].secret = "raw"]
    <3> DEFINE r == [job[t] EXCEPT !.step = "find", !.found = {}, !.secret = "raw"]
    <3>1. job' = [job EXCEPT ![t] = r] /\ r.step = "find"
      BY <1>1, <2>2 DEF TaskType
    <3> QED BY <1>2, <3>1, OneTaskNewest
  <2> QED BY <1>2, <2>1, <2>2 DEF Through
<1>3. CASE /\ job' = [job EXCEPT ![t].step = "delete", ![t].found = Stored(Scope(t))]
           /\ UNCHANGED <<items, latest, raced>>
  <2> DEFINE r == [job[t] EXCEPT !.step = "delete", !.found = Stored(Scope(t))]
  <2>1. job' = [job EXCEPT ![t] = r] /\ r.step = "delete"
    BY <1>1, <1>3 DEF TaskType
  <2> QED BY <1>3, <2>1, OneTaskNewest
<1>4. ASSUME NEW k \in job[t].found, UNCHANGED raced,
             items' = [items EXCEPT ![k] = NoSecret],
             latest' = [f \in Fields |-> IF HashKey(f[1], f[2]) = k THEN NoSecret ELSE latest[f]],
             job' = [job EXCEPT ![t].found = @ \ {k}]
      PROVE  NewestKept' /\ MissIsTrue'
  <2> DEFINE r == [job[t] EXCEPT !.found = @ \ {k}]
  <2>1. job' = [job EXCEPT ![t] = r] /\ r.op = job[t].op
    BY <1>1, <1>4 DEF TaskType
  <2>2. job'[t] = r /\ \A u \in Jobs \ {t} : job'[u] = job[u]
    BY <2>1, TaskFunction DEF Newest, Owned
  <2>3. \A f \in Fields : latest'[f] # NoSecret =>
          HashKey(f[1], f[2]) # k /\ latest'[f] = latest[f]
    BY <1>4
  <2>4. \A f \in Fields : HashKey(f[1], f[2]) \in AllKeys
    BY FieldParts, KeysAreKeys
  <2>5. NewestKept'
    BY <1>4, <2>3, <2>4 DEF Newest, NewestKept, Owned, DataTyped
  <2>6. ASSUME NEW u \in Jobs, job[u].op = "read",
               job[u].step \in {"raw", "legacy", "create", "erase"}
        PROVE  latest'[TheField(job[u])] = NoSecret \/ TheField(job[u]) \in raced'
    <3>1. TheField(job[u]) \in Fields
      BY <2>6 DEF Newest, Owned, TasksSound, Sound, TheField, Fields
    <3> QED BY <1>4, <2>3, <2>6, <3>1 DEF Newest, MissIsTrue
  <2>7. MissIsTrue'
    BY <1>1, <2>1, <2>2, <2>6 DEF MissIsTrue
  <2> QED BY <2>5, <2>7
<1> QED BY <1>2, <1>3, <1>4 DEF Find, Delete, Deleted

(***************************************************************************)
(* What was saved last stays until it is deleted; only a read that was     *)
(* under way at that moment may put an older secret over it.               *)
(***************************************************************************)
THEOREM NewestStays == KeyringSpec => []NewestKept
<1>1. KeyringInit => NewestKept /\ MissIsTrue
  <2>1. KeyringInit => \A f \in Fields : latest[f] = NoSecret
    BY DEF KeyringInit
  <2>2. KeyringInit => \A t \in Jobs : job[t].op = "none"
    <3>1. NoTask.op = "none"
      BY DEF NoTask, Task
    <3> QED BY <3>1 DEF KeyringInit
  <2> QED BY <2>1, <2>2 DEF NewestKept, MissIsTrue
<1>2. Newest /\ [KeyringNext]_keyringVars => NewestKept' /\ MissIsTrue'
  <2>1. Newest /\ UNCHANGED keyringVars => NewestKept' /\ MissIsTrue'
    BY DEF keyringVars, Newest, NewestKept, MissIsTrue
  <2> QED BY <2>1, StartsNewest, UnlockNewest, MissNewest, ReadOnNewest, CreateNewest,
             EraseNewest, DeletionsNewest DEF KeyringNext
<1>3. KeyringInit => Newest
  BY <1>1, OwnedInductive DEF Newest
<1>4. Newest /\ [KeyringNext]_keyringVars => Newest'
  BY <1>2, OwnedInductive DEF Newest
<1>5. Newest => NewestKept
  BY DEF Newest
<1> QED BY <1>3, <1>4, <1>5, PTL DEF KeyringSpec

---------------------------------------------------------------------------
(* The migration loses nothing *)

\* What may be deleted once the fields A were asked for.
Allowed(A) ==
  {k \in AllKeys : /\ \A f \in Fields : k = HashKey(f[1], f[2]) => f \in A
                /\ \A n \in DisplayNames, l \in Labels : k = NameKey(n, l) => A = Fields}

\* An operation that deletes only what was asked for.
Asks(r, A) ==
  /\ r.op = "forget" => TheField(r) \in A
  /\ r.op = "wipe" => {r.path} \X Labels \subseteq A
  /\ r.op = "clear" => A = Fields
  /\ r.step = "delete" => r.found \subseteq Allowed(A)

AskedFor == \A t \in Jobs : Asks(job[t], asked)

\* Before the legacy item is erased the new one is there.
CopiedFirst ==
  \A t \in Jobs :
    job[t].step = "erase" =>
      items[HashKey(job[t].path, job[t].label)] # NoSecret \/ TheField(job[t]) \in asked

Safe == Owned /\ AskedFor /\ CopiedFirst

LEMMA AsksGrows ==
  ASSUME NEW A, NEW B, A \subseteq B, B \subseteq Fields, NEW r, Asks(r, A)
  PROVE  Asks(r, B)
<1>1. A = Fields => B = Fields
  OBVIOUS
<1>2. Allowed(A) \subseteq Allowed(B)
  BY <1>1 DEF Allowed
<1> QED BY <1>1, <1>2 DEF Asks

\* One job moves, to a place where it keeps what Asks says of it.
LEMMA OneTaskAsked ==
  ASSUME Safe, NEW t \in Jobs, NEW r, job' = [job EXCEPT ![t] = r],
         asked \subseteq asked', asked' \subseteq Fields, Asks(r, asked')
  PROVE  AskedFor'
<1>1. job'[t] = r /\ \A u \in Jobs \ {t} : job'[u] = job[u]
  BY TaskFunction DEF Safe, Owned
<1>2. \A u \in Jobs \ {t} : Asks(job[u], asked')
  BY AsksGrows DEF Safe, AskedFor
<1> QED BY <1>1, <1>2 DEF AskedFor

LEMMA OneTaskSafe ==
  ASSUME Safe, UNCHANGED items, NEW t \in Jobs, NEW r, job' = [job EXCEPT ![t] = r],
         asked \subseteq asked', asked' \subseteq Fields, Asks(r, asked'), r.step # "erase"
  PROVE  AskedFor' /\ CopiedFirst'
<1>1. job'[t] = r /\ \A u \in Jobs \ {t} : job'[u] = job[u]
  BY TaskFunction DEF Safe, Owned
<1>2. CopiedFirst'
  BY <1>1 DEF Safe, CopiedFirst
<1> QED BY <1>2, OneTaskAsked

LEMMA NoTaskAsks == \A A : Asks(NoTask, A) /\ NoTask.step = ""
BY DEF Asks, NoTask, Task

LEMMA EndsSafe ==
  ASSUME Safe, NEW t \in Jobs, Ends(t), UNCHANGED asked
  PROVE  AskedFor' /\ (UNCHANGED items => CopiedFirst')
<1>1. asked' \subseteq Fields /\ Asks(NoTask, asked') /\ NoTask.step # "erase"
  BY NoTaskAsks DEF Safe, Owned, DataTyped
<1>2. AskedFor'
  BY <1>1, OneTaskAsked DEF Ends
<1>3. UNCHANGED items => CopiedFirst'
  BY <1>1, OneTaskSafe DEF Ends
<1> QED BY <1>2, <1>3

\* A job that has just been unlocked or started deletes nothing yet.
LEMMA FreshAsks ==
  ASSUME NEW op, NEW p, NEW l, NEW s, NEW A,
         op = "forget" => <<p, l>> \in A,
         op = "wipe" => {p} \X Labels \subseteq A,
         op = "clear" => A = Fields
  PROVE  Asks(Task(op, p, l, "unlock", s), A) /\ Task(op, p, l, "unlock", s).step # "erase"
BY DEF Task, Asks, TheField

LEMMA StartsSafe ==
  ASSUME Safe, NEW t \in Jobs,
         \/ \E p \in ConfigPaths, l \in Labels : Read(t, p, l) \/ Save(t, p, l) \/ Forgets(t, p, l)
         \/ \E p \in ConfigPaths : Wipe(t, p)
         \/ ClearAll(t)
  PROVE  AskedFor' /\ CopiedFirst'
<1>1. asked \subseteq asked' /\ asked' \subseteq Fields
  BY DEF Read, Save, Forgets, Wipe, ClearAll, Safe, Owned, DataTyped, Fields
<1>2. UNCHANGED items
  BY DEF Read, Save, Forgets, Wipe, ClearAll
<1>3. ASSUME NEW p \in ConfigPaths, NEW l \in Labels, Read(t, p, l)
      PROVE  AskedFor' /\ CopiedFirst'
  <2> DEFINE r == Task("read", p, l, "unlock", NoSecret)
  <2>1. job' = [job EXCEPT ![t] = r]
    BY <1>3 DEF Read
  <2>2. Asks(r, asked') /\ r.step # "erase"
    BY FreshAsks
  <2> HIDE DEF r
  <2> QED BY <1>1, <1>2, <2>1, <2>2, OneTaskSafe
<1>4. ASSUME NEW p \in ConfigPaths, NEW l \in Labels, Save(t, p, l)
      PROVE  AskedFor' /\ CopiedFirst'
  <2> DEFINE r == Task("save", p, l, "unlock", [owner |-> p, age |-> saves + 1])
  <2>1. job' = [job EXCEPT ![t] = r]
    BY <1>4 DEF Save
  <2>2. Asks(r, asked') /\ r.step # "erase"
    BY FreshAsks
  <2> HIDE DEF r
  <2> QED BY <1>1, <1>2, <2>1, <2>2, OneTaskSafe
<1>5. ASSUME NEW p \in ConfigPaths, NEW l \in Labels, Forgets(t, p, l)
      PROVE  AskedFor' /\ CopiedFirst'
  <2> DEFINE r == Task("forget", p, l, "unlock", NoSecret)
  <2>1. job' = [job EXCEPT ![t] = r] /\ <<p, l>> \in asked'
    BY <1>5 DEF Forgets
  <2>2. Asks(r, asked') /\ r.step # "erase"
    BY <2>1, FreshAsks
  <2> HIDE DEF r
  <2> QED BY <1>1, <1>2, <2>1, <2>2, OneTaskSafe
<1>6. ASSUME NEW p \in ConfigPaths, Wipe(t, p)
      PROVE  AskedFor' /\ CopiedFirst'
  <2> DEFINE r == Task("wipe", p, NoSecret, "unlock", NoSecret)
  <2>1. job' = [job EXCEPT ![t] = r] /\ {p} \X Labels \subseteq asked'
    BY <1>6 DEF Wipe
  <2>2. Asks(r, asked') /\ r.step # "erase"
    BY <2>1, FreshAsks
  <2> HIDE DEF r
  <2> QED BY <1>1, <1>2, <2>1, <2>2, OneTaskSafe
<1>7. ASSUME ClearAll(t)
      PROVE  AskedFor' /\ CopiedFirst'
  <2> DEFINE r == Task("clear", NoSecret, NoSecret, "unlock", NoSecret)
  <2>1. job' = [job EXCEPT ![t] = r] /\ asked' = Fields
    BY <1>7 DEF ClearAll
  <2>2. Asks(r, asked') /\ r.step # "erase"
    BY <2>1, FreshAsks
  <2> HIDE DEF r
  <2> QED BY <1>1, <1>2, <2>1, <2>2, OneTaskSafe
<1> QED BY <1>3, <1>4, <1>5, <1>6, <1>7

\* A job goes on to a step that neither deletes nor erases.
LEMMA GoesSafe ==
  ASSUME Safe, NEW t \in Jobs, NEW step \in Steps \ {"erase", "delete"}, Proceeds(t, step),
         UNCHANGED <<items, asked>>
  PROVE  AskedFor' /\ CopiedFirst'
<1> DEFINE r == [job[t] EXCEPT !.step = step]
<1>1. job' = [job EXCEPT ![t] = r]
  BY DEF Proceeds
<1>2. job[t] \in TaskType /\ Asks(job[t], asked)
  BY DEF Safe, Owned, TasksSound, Sound, AskedFor
<1>3. /\ r.step = step /\ r.op = job[t].op /\ r.path = job[t].path /\ r.label = job[t].label
  BY <1>2 DEF TaskType
<1>4. Asks(r, asked') /\ r.step # "erase"
  BY <1>2, <1>3 DEF Asks, TheField
<1>5. asked \subseteq asked' /\ asked' \subseteq Fields
  BY DEF Safe, Owned, DataTyped
<1> HIDE DEF r
<1> QED BY <1>1, <1>4, <1>5, OneTaskSafe

LEMMA UnlockSafe ==
  ASSUME Safe, NEW t \in Jobs, Unlock(t)
  PROVE  AskedFor' /\ CopiedFirst'
<1>1. UNCHANGED <<items, asked>>
  BY DEF Unlock
<1>2. CASE Ends(t)
  BY <1>1, <1>2, EndsSafe
<1>3. CASE ~Ends(t)
  <2>1. job[t].op \in {"read", "save", "forget", "wipe", "clear"}
    BY DEF Safe, Owned, TasksSound, Sound, TaskType, Ops, Unlock, Doing
  <2>2. CASE job[t].op = "read"
    <3>1. Proceeds(t, "hash")
      BY <1>3, <2>2 DEF Unlock
    <3> QED BY <1>1, <3>1, GoesSafe DEF Steps
  <2>3. CASE job[t].op = "save"
    <3>1. Proceeds(t, "create")
      BY <1>3, <2>3 DEF Unlock
    <3> QED BY <1>1, <3>1, GoesSafe DEF Steps
  <2>4. CASE job[t].op \in {"forget", "wipe", "clear"}
    <3>1. Proceeds(t, "find")
      BY <1>3, <2>4 DEF Unlock
    <3> QED BY <1>1, <3>1, GoesSafe DEF Steps
  <2> QED BY <2>1, <2>2, <2>3, <2>4
<1> QED BY <1>2, <1>3

LEMMA ReadsSafe ==
  ASSUME Safe, NEW t \in Jobs, ProbeHash(t) \/ ProbeRaw(t) \/ ReadLegacy(t)
  PROVE  AskedFor' /\ CopiedFirst'
<1>1. UNCHANGED <<items, asked>>
  BY DEF ProbeHash, ProbeRaw, Probe, ReadLegacy
<1>2. CASE Ends(t)
  BY <1>1, <1>2, EndsSafe
<1>3. CASE Proceeds(t, "raw") \/ Proceeds(t, "legacy")
  BY <1>1, <1>3, GoesSafe DEF Steps
<1>4. CASE /\ Doing(t, "legacy")
           /\ job' = [job EXCEPT ![t].step = "create", ![t].secret = items[LegacyKey(t)]]
  <2> DEFINE r == [job[t] EXCEPT !.step = "create", !.secret = items[LegacyKey(t)]]
  <2>1. job' = [job EXCEPT ![t] = r]
    BY <1>4
  <2>2. job[t] \in TaskType /\ job[t].op = "read"
    BY <1>4 DEF Safe, Owned, TasksSound, Sound, Doing
  <2>3. r.step = "create" /\ r.op = "read"
    BY <2>2 DEF TaskType
  <2>4. Asks(r, asked')
    BY <2>3 DEF Asks
  <2>5. asked \subseteq asked' /\ asked' \subseteq Fields /\ r.step # "erase"
    BY <1>1, <2>3 DEF Safe, Owned, DataTyped
  <2> HIDE DEF r
  <2> QED BY <1>1, <2>1, <2>4, <2>5, OneTaskSafe
<1> QED BY <1>2, <1>3, <1>4 DEF ProbeHash, ProbeRaw, Probe, ReadLegacy

LEMMA CreateSafe ==
  ASSUME Safe, NEW t \in Jobs, Create(t)
  PROVE  AskedFor' /\ CopiedFirst'
<1>1. /\ Sound(job[t]) /\ job[t] \in TaskType /\ job[t].op \in {"read", "save"}
      /\ job[t].path \in ConfigPaths /\ job[t].label \in Labels
      /\ job[t].secret # NoSecret
  BY SecretAssumption DEF Safe, Owned, TasksSound, Sound, Create, Doing
<1>2. UNCHANGED asked /\ asked' \subseteq Fields
  BY DEF Create, Safe, Owned, DataTyped
<1>3. CASE Ends(t) /\ UNCHANGED items
  BY <1>2, <1>3, EndsSafe
<1>4. ASSUME items' = [items EXCEPT ![Target(t)] = job[t].secret],
             Ends(t) \/ (job[t].op = "read" /\ Proceeds(t, "erase"))
      PROVE  AskedFor' /\ CopiedFirst'
  <2> DEFINE e == [job[t] EXCEPT !.step = "erase"]
  <2>1. PICK r : /\ job' = [job EXCEPT ![t] = r] /\ Asks(r, asked')
                 /\ r.step = "erase" => r.path = job[t].path /\ r.label = job[t].label
    <3>1. CASE Ends(t)
      BY <3>1, NoTaskAsks DEF Ends
    <3>2. CASE job[t].op = "read" /\ Proceeds(t, "erase")
      <4>1. job' = [job EXCEPT ![t] = e]
        BY <3>2 DEF Proceeds
      <4>2. e.step = "erase" /\ e.op = "read" /\ e.path = job[t].path /\ e.label = job[t].label
        BY <1>1, <3>2 DEF TaskType
      <4>3. Asks(e, asked')
        BY <4>2 DEF Asks
      <4> HIDE DEF e
      <4> QED BY <4>1, <4>2, <4>3
    <3> QED BY <1>4, <3>1, <3>2
  <2>2. AskedFor'
    BY <1>2, <2>1, OneTaskAsked
  <2>3. job'[t] = r /\ \A u \in Jobs \ {t} : job'[u] = job[u]
    BY <2>1, TaskFunction DEF Safe, Owned
  <2>4. HashKey(job[t].path, job[t].label) \in AllKeys
    BY <1>1, KeysAreKeys
  <2>5. \A k \in AllKeys : items[k] # NoSecret => items'[k] # NoSecret
    BY <1>1, <1>4 DEF Safe, Owned, DataTyped
  <2>6. items'[HashKey(job[t].path, job[t].label)] # NoSecret
    BY <1>1, <1>4, <2>4 DEF Target, Safe, Owned, DataTyped
  <2>7. \A u \in Jobs : job[u].step = "erase" => HashKey(job[u].path, job[u].label) \in AllKeys
    BY KeysAreKeys DEF Safe, Owned, TasksSound, Sound
  <2>8. CopiedFirst'
    BY <1>2, <2>1, <2>3, <2>5, <2>6, <2>7 DEF Safe, CopiedFirst
  <2> QED BY <2>2, <2>8
<1> QED BY <1>1, <1>3, <1>4 DEF Create, CreateFailed

LEMMA EraseSafe ==
  ASSUME Safe, NEW t \in Jobs, EraseLegacy(t)
  PROVE  AskedFor' /\ CopiedFirst'
<1>1. Ends(t) /\ UNCHANGED asked
  BY DEF EraseLegacy
<1>2. AskedFor'
  BY <1>1, EndsSafe
<1>3. \A p \in ConfigPaths, l \in Labels : items'[HashKey(p, l)] = items[HashKey(p, l)]
  <2>1. \A p, l, n, m : HashKey(p, l) # NameKey(n, m)
    BY DEF HashKey, NameKey
  <2>2. \A p \in ConfigPaths, l \in Labels :
          HashKey(p, l) \in AllKeys /\ HashKey(p, l) # LegacyKey(t)
    BY <2>1, KeysAreKeys DEF LegacyKey
  <2> QED BY <2>2 DEF EraseLegacy, Safe, Owned, DataTyped
<1>4. job'[t] = NoTask /\ \A u \in Jobs \ {t} : job'[u] = job[u]
  BY <1>1, TaskFunction DEF Ends, Safe, Owned
<1>5. \A u \in Jobs :
        job[u].step = "erase" => job[u].path \in ConfigPaths /\ job[u].label \in Labels
  BY DEF Safe, Owned, TasksSound, Sound
<1>6. ASSUME NEW u \in Jobs, job'[u].step = "erase"
      PROVE  items'[HashKey(job'[u].path, job'[u].label)] # NoSecret
               \/ TheField(job'[u]) \in asked'
  <2>1. u # t
    BY <1>4, <1>6, NoTaskAsks
  <2>2. job'[u] = job[u]
    BY <1>4, <2>1
  <2> QED BY <1>1, <1>3, <1>5, <1>6, <2>2 DEF Safe, CopiedFirst
<1>7. CopiedFirst'
  BY <1>6 DEF CopiedFirst
<1> QED BY <1>2, <1>7

\* A deletion finds only what was asked for.
LEMMA ScopeAllowed ==
  ASSUME Safe, NEW t \in Jobs, job[t].op \in {"forget", "wipe", "clear"}
  PROVE  Stored(Scope(t)) \subseteq Allowed(asked)
<1>1. /\ Sound(job[t]) /\ Asks(job[t], asked) /\ DOMAIN items = AllKeys
  BY DEF Safe, Owned, DataTyped, TasksSound, AskedFor
<1>2. /\ \A p, l, q, m : HashKey(p, l) = HashKey(q, m) => p = q /\ l = m
      /\ \A p, l, q, m : HashKey(p, l) # NameKey(q, m)
      /\ \A p, l, q, m : RawKey(p, l) # NameKey(q, m)
      /\ \A p, l, q, m : RawKey(p, l) # HashKey(q, m)
  BY DEF HashKey, RawKey, NameKey
<1>3. CASE job[t].op = "forget"
  <2>1. TheField(job[t]) \in asked
    BY <1>1, <1>3 DEF Asks
  <2>2. Scope(t) \subseteq {HashKey(job[t].path, job[t].label), RawKey(job[t].path, job[t].label)}
    BY <1>3 DEF Scope
  <2>3. \A f \in Fields : HashKey(job[t].path, job[t].label) = HashKey(f[1], f[2]) => f \in asked
    BY <1>2, <2>1, FieldParts DEF TheField, Fields
  <2> QED BY <1>1, <1>2, <2>2, <2>3 DEF Stored, Allowed
<1>4. CASE job[t].op = "wipe"
  <2>1. {job[t].path} \X Labels \subseteq asked
    BY <1>1, <1>4 DEF Asks
  <2>2. Scope(t) = {HashKey(job[t].path, l) : l \in Labels}
                     \cup {RawKey(job[t].path, l) : l \in Labels}
    BY <1>4 DEF Scope
  <2>3. \A l \in Labels, f \in Fields : HashKey(job[t].path, l) = HashKey(f[1], f[2]) => f \in asked
    BY <1>2, <2>1, FieldParts DEF Fields
  <2> QED BY <1>1, <1>2, <2>2, <2>3 DEF Stored, Allowed
<1>5. CASE job[t].op = "clear"
  BY <1>1, <1>5 DEF Asks, Stored, Allowed
<1> QED BY <1>3, <1>4, <1>5

LEMMA DeletionsSafe ==
  ASSUME Safe, NEW t \in Jobs, Find(t) \/ Delete(t) \/ Deleted(t)
  PROVE  AskedFor' /\ CopiedFirst'
<1>1. /\ Sound(job[t]) /\ job[t] \in TaskType /\ job[t].op \in {"forget", "wipe", "clear"}
      /\ Asks(job[t], asked)
  BY DEF Safe, Owned, TasksSound, Sound, AskedFor, Find, Delete, Deleted, Doing
<1>2. UNCHANGED asked /\ asked \subseteq asked' /\ asked' \subseteq Fields
  BY DEF Find, Delete, Deleted, Safe, Owned, DataTyped
<1>3. CASE Through(t) /\ UNCHANGED items
  <2>1. CASE Ends(t)
    BY <1>2, <1>3, <2>1, EndsSafe
  <2>2. CASE job' = [job EXCEPT ![t].step = "find", ![t].found = {}, ![t].secret = "raw"]
    <3> DEFINE r == [job[t] EXCEPT !.step = "find", !.found = {}, !.secret = "raw"]
    <3>1. job' = [job EXCEPT ![t] = r]
      BY <2>2
    <3>2. r.step = "find" /\ r.op = job[t].op /\ r.path = job[t].path /\ r.label = job[t].label
      BY <1>1 DEF TaskType
    <3>3. Asks(r, asked') /\ r.step # "erase"
      BY <1>1, <1>2, <3>2 DEF Asks, TheField
    <3> HIDE DEF r
    <3> QED BY <1>2, <1>3, <3>1, <3>3, OneTaskSafe
  <2> QED BY <1>3, <2>1, <2>2 DEF Through
<1>4. CASE /\ job' = [job EXCEPT ![t].step = "delete", ![t].found = Stored(Scope(t))]
           /\ UNCHANGED items
  <2> DEFINE r == [job[t] EXCEPT !.step = "delete", !.found = Stored(Scope(t))]
  <2>1. job' = [job EXCEPT ![t] = r]
    BY <1>4
  <2>2. /\ r.step = "delete" /\ r.op = job[t].op /\ r.path = job[t].path
        /\ r.label = job[t].label /\ r.found = Stored(Scope(t))
    BY <1>1 DEF TaskType
  <2>3. Asks(r, asked') /\ r.step # "erase"
    BY <1>1, <1>2, <2>2, ScopeAllowed DEF Asks, TheField
  <2> HIDE DEF r
  <2> QED BY <1>2, <1>4, <2>1, <2>3, OneTaskSafe
<1>5. ASSUME Doing(t, "delete"), NEW k \in job[t].found, items' = [items EXCEPT ![k] = NoSecret],
             job' = [job EXCEPT ![t].found = @ \ {k}]
      PROVE  AskedFor' /\ CopiedFirst'
  <2> DEFINE r == [job[t] EXCEPT !.found = @ \ {k}]
  <2>1. job' = [job EXCEPT ![t] = r]
    BY <1>5
  <2>2. /\ r.step = "delete" /\ r.op = job[t].op /\ r.path = job[t].path
        /\ r.label = job[t].label /\ r.found = job[t].found \ {k}
    BY <1>1, <1>5 DEF TaskType, Doing
  <2>3. k \in Allowed(asked) /\ job[t].found \subseteq Allowed(asked)
    BY <1>1, <1>5 DEF Asks, Doing
  <2>4. Asks(r, asked')
    BY <1>1, <1>2, <2>2, <2>3 DEF Asks, TheField
  <2> HIDE DEF r
  <2>5. AskedFor'
    BY <1>2, <2>1, <2>4, OneTaskAsked
  <2>6. job'[t] = r /\ \A u \in Jobs \ {t} : job'[u] = job[u]
    BY <2>1, TaskFunction DEF Safe, Owned
  <2>7. \A f \in Fields : items'[HashKey(f[1], f[2])] = items[HashKey(f[1], f[2])] \/ f \in asked
    <3>1. \A f \in Fields : HashKey(f[1], f[2]) \in AllKeys
      BY FieldParts, KeysAreKeys
    <3>2. \A f \in Fields : k = HashKey(f[1], f[2]) => f \in asked
      BY <2>3 DEF Allowed
    <3> QED BY <1>5, <3>1, <3>2 DEF Safe, Owned, DataTyped
  <2>8. \A u \in Jobs : job[u].step = "erase" => TheField(job[u]) \in Fields
    BY DEF Safe, Owned, TasksSound, Sound, TheField, Fields
  <2>9. CopiedFirst'
    BY <1>2, <2>2, <2>6, <2>7, <2>8 DEF Safe, CopiedFirst, TheField
  <2> QED BY <2>5, <2>9
<1> QED BY <1>3, <1>4, <1>5 DEF Find, Delete, Deleted

LEMMA SafeInductive ==
  /\ KeyringInit => Safe
  /\ Safe /\ [KeyringNext]_keyringVars => Safe'
<1>1. KeyringInit => AskedFor /\ CopiedFirst
  BY NoTaskAsks DEF KeyringInit, AskedFor, CopiedFirst
<1>2. Safe /\ [KeyringNext]_keyringVars => AskedFor' /\ CopiedFirst'
  <2>1. Safe /\ UNCHANGED keyringVars => AskedFor' /\ CopiedFirst'
    BY DEF keyringVars, Safe, AskedFor, CopiedFirst
  <2> QED BY <2>1, StartsSafe, UnlockSafe, ReadsSafe, CreateSafe, EraseSafe, DeletionsSafe
          DEF KeyringNext
<1> QED BY <1>1, <1>2, OwnedInductive DEF Safe

\* Which steps take a secret from under a display name.
LEMMA LegacyGoes ==
  ASSUME Safe, KeyringNext, NEW n \in DisplayNames, NEW l \in Labels,
         items[NameKey(n, l)] # NoSecret, items'[NameKey(n, l)] = NoSecret
  PROVE  \/ \E t \in Jobs : EraseLegacy(t) /\ NameKey(n, l) = LegacyKey(t)
         \/ asked = Fields
<1>1. NameKey(n, l) \in AllKeys /\ items \in [AllKeys -> Secrets \cup {NoSecret}]
  BY KeysAreKeys DEF Safe, Owned, DataTyped
<1>2. PICK t \in Jobs :
        \/ \E p \in ConfigPaths, m \in Labels : Read(t, p, m) \/ Save(t, p, m) \/ Forgets(t, p, m)
        \/ \E p \in ConfigPaths : Wipe(t, p)
        \/ ClearAll(t) \/ Unlock(t)
        \/ ProbeHash(t) \/ ProbeRaw(t) \/ ReadLegacy(t) \/ Create(t) \/ EraseLegacy(t)
        \/ Find(t) \/ Delete(t) \/ Deleted(t)
  BY DEF KeyringNext
<1>3. ~UNCHANGED items
  OBVIOUS
<1>4. Create(t) \/ EraseLegacy(t) \/ Delete(t)
  BY <1>2, <1>3 DEF Read, Save, Forgets, Wipe, ClearAll, Unlock, ProbeHash, ProbeRaw, Probe,
                    ReadLegacy, Find, Deleted
<1>5. ~Create(t)
  <2>1. SUFFICES ASSUME Create(t) PROVE FALSE
    OBVIOUS
  <2>2. Target(t) # NameKey(n, l)
    BY DEF Target, HashKey, NameKey
  <2> QED BY <1>1, <1>3, <2>1, <2>2 DEF Create
<1>6. CASE EraseLegacy(t)
  BY <1>1, <1>3, <1>6 DEF EraseLegacy
<1>7. CASE Delete(t)
  <2>1. PICK k \in job[t].found : items' = [items EXCEPT ![k] = NoSecret]
    BY <1>3, <1>7 DEF Delete
  <2>2. k = NameKey(n, l)
    BY <1>1, <2>1
  <2>3. k \in Allowed(asked)
    BY <1>7 DEF Safe, AskedFor, Asks, Delete, Doing
  <2> QED BY <2>2, <2>3 DEF Allowed
<1> QED BY <1>4, <1>5, <1>6, <1>7

(***************************************************************************)
(* The migration of a secret kept under a display name never loses it, so  *)
(* long as every display name is the name of some config.                  *)
(***************************************************************************)
THEOREM MigrationLosesNothing ==
  ASSUME \A n \in DisplayNames : \E p \in ConfigPaths : NameOf[p] = n
  PROVE  KeyringSpec => NeverLossy
<1> DEFINE Kept(n, l) ==
             (items[NameKey(n, l)] # NoSecret /\ items'[NameKey(n, l)] = NoSecret) =>
               \E p \in ConfigPaths :
                 /\ NameOf[p] = n
                 /\ items[HashKey(p, l)] # NoSecret \/ <<p, l>> \in asked
<1>1. ASSUME Safe, KeyringNext, NEW n \in DisplayNames, NEW l \in Labels
      PROVE  Kept(n, l)
  <2> SUFFICES ASSUME items[NameKey(n, l)] # NoSecret, items'[NameKey(n, l)] = NoSecret
               PROVE  \E p \in ConfigPaths :
                        /\ NameOf[p] = n
                        /\ items[HashKey(p, l)] # NoSecret \/ <<p, l>> \in asked
    OBVIOUS
  <2>1. CASE asked = Fields
    BY <2>1 DEF Fields
  <2>2. ASSUME NEW t \in Jobs, EraseLegacy(t), NameKey(n, l) = LegacyKey(t)
        PROVE  \E p \in ConfigPaths :
                 /\ NameOf[p] = n
                 /\ items[HashKey(p, l)] # NoSecret \/ <<p, l>> \in asked
    <3>1. job[t].path \in ConfigPaths /\ NameOf[job[t].path] = n /\ job[t].label = l
      BY <1>1, <2>2 DEF Safe, Owned, TasksSound, Sound, EraseLegacy, Doing, LegacyKey, NameKey
    <3>2. \/ items[HashKey(job[t].path, job[t].label)] # NoSecret
          \/ <<job[t].path, job[t].label>> \in asked
      BY <1>1, <2>2 DEF Safe, CopiedFirst, EraseLegacy, Doing, TheField
    <3> QED BY <3>1, <3>2
  <2> QED BY <1>1, <2>1, <2>2, LegacyGoes
<1>2. ASSUME Safe, [KeyringNext]_keyringVars
      PROVE  [\A n \in DisplayNames, l \in Labels : Kept(n, l)]_keyringVars
  BY <1>1, <1>2
<1> QED BY <1>2, SafeInductive, PTL DEF KeyringSpec, NeverLossy

---------------------------------------------------------------------------
(* The dialogs *)

SessionsTyped ==
  /\ phase \in [Tunnels -> {"unborn", "asking", "verifying", "up", "refused", "gone"}]
  /\ round \in [Tunnels -> 1..Len(Rounds)]
  /\ given \in [Tunnels -> SUBSET Inputs]
  /\ signals \in [Tunnels -> SUBSET {"input", "connected", "refused"}]
  /\ \A s \in Tunnels : given[s] \subseteq Queue(s)

\* A window or a future has slots of its session only.
WindowsTyped ==
  /\ dialog \in [Tunnels -> (SUBSET Inputs) \cup {Nobody}]
  /\ \A s \in Tunnels : dialog[s] # Nobody => dialog[s] \subseteq Queue(s)

FutureOK(j) ==
  /\ j \in FutureType /\ j.todo \subseteq IF j.kind = "submit" THEN j.slots ELSE {}
  /\ j.kind \in {"none", "connect"} \/ j.session \in Tunnels
  /\ \A s \in Tunnels : j.session = s => j.slots \subseteq Queue(s)

FuturesTyped ==
  /\ future \in [Workers -> FutureType]
  /\ \A f \in Workers : FutureOK(future[f])

\* The retries, and the sessions given up.
AttemptTyped == attempt \in 0..MaxRetries - 1 /\ forsaken \subseteq Tunnels

LEMMA CredentialTypes ==
  CredentialTypeOK <=>
    SessionsTyped /\ WindowsTyped /\ FuturesTyped /\ AttemptTyped
BY DEF CredentialTypeOK, SessionsTyped, WindowsTyped, FuturesTyped, FutureOK, AttemptTyped

\* What is asked for is of the round, and rounds only go on.
LEMMA RoundsIn ==
  ASSUME SessionsTyped, NEW s \in Tunnels
  PROVE  /\ Rounds[round[s]] \in SUBSET Inputs /\ Rounds[round[s]] \subseteq Queue(s)
         /\ Asked(s) \in SUBSET Inputs /\ Asked(s) \subseteq Queue(s)
<1>1. round[s] \in 1..Len(Rounds) /\ round[s] \in 1..round[s]
  BY DEF SessionsTyped
<1>2. Rounds[round[s]] \in SUBSET Inputs
  BY <1>1, SlotAssumption
<1>3. Rounds[round[s]] \subseteq Queue(s)
  BY <1>1 DEF Queue
<1> QED BY <1>2, <1>3 DEF Asked

LEMMA FutureFields ==
  ASSUME FuturesTyped, NEW f \in Workers
  PROVE  /\ FutureOK(future[f]) /\ future[f] \in FutureType
         /\ future[f].kind \in {"none", "request", "submit", "retry", "drop", "connect"}
         /\ future[f].step \in {"", "dispatch", "fetch", "keyring", "check", "provide",
                                "connect", "disconnect", "tunnel"}
         /\ future[f].session \in Tunnels \cup {Nobody}
         /\ future[f].slots \in SUBSET Inputs /\ future[f].filled \in SUBSET Inputs
         /\ future[f].todo \in SUBSET Inputs /\ future[f].todo \subseteq future[f].slots
BY DEF FuturesTyped, FutureType, FutureOK

LEMMA NewFuture ==
  ASSUME NEW kind \in {"none", "request", "submit", "retry", "drop", "connect"},
         NEW step \in {"", "dispatch", "fetch", "keyring", "check", "provide", "connect",
                       "disconnect", "tunnel"},
         NEW s \in Tunnels \cup {Nobody}, kind \in {"none", "connect"} \/ s \in Tunnels
  PROVE  FutureOK(FutureOf(kind, step, s, {}))
BY DEF FutureOK, FutureType, FutureOf

\* One future is replaced.
LEMMA Replaced ==
  ASSUME FuturesTyped, UNCHANGED round, NEW f \in Workers, NEW j, FutureOK(j),
         future' = [future EXCEPT ![f] = j]
  PROVE  FuturesTyped'
<1>1. future' \in [Workers -> FutureType]
  BY DEF FuturesTyped, FutureOK
<1>2. \A g \in Workers : future'[g] = IF g = f THEN j ELSE future[g]
  BY DEF FuturesTyped
<1>3. \A g \in Workers : FutureOK(future'[g])
  BY <1>2 DEF FuturesTyped
<1> QED BY <1>1, <1>3 DEF FuturesTyped, FutureOK, Queue

LEMMA Begins ==
  ASSUME FuturesTyped, UNCHANGED round, NEW j, FutureOK(j), Start(j)
  PROVE  FuturesTyped'
BY Replaced DEF Start

LEMMA Stops ==
  ASSUME FuturesTyped, UNCHANGED round, NEW f \in Workers, Stop(f)
  PROVE  FuturesTyped'
<1>1. FutureOK(Vacant)
  BY NewFuture DEF Vacant
<1> QED BY <1>1, Replaced DEF Stop

LEMMA Turns ==
  ASSUME FuturesTyped, UNCHANGED round, NEW f \in Workers,
         NEW step \in {"fetch", "connect", "tunnel"}, Turn(f, step)
  PROVE  FuturesTyped'
<1> DEFINE j == [future[f] EXCEPT !.step = step]
<1>1. /\ j \in FutureType /\ j.session = future[f].session /\ j.kind = future[f].kind
      /\ j.slots = future[f].slots /\ j.todo = future[f].todo
  BY FutureFields DEF FutureType
<1> HIDE DEF j
<1>2. FutureOK(j)
  BY <1>1, FutureFields DEF FutureOK
<1>3. future' = [future EXCEPT ![f] = j]
  BY DEF Turn, j
<1> QED BY <1>2, <1>3, Replaced

\* A window is raised, or opened with slots of its session.
LEMMA Presents ==
  ASSUME WindowsTyped, UNCHANGED round, NEW s, NEW slots \in SUBSET Inputs,
         s \in Tunnels => slots \subseteq Queue(s), Present(s, slots)
  PROVE  WindowsTyped'
<1>1. dialog' \in [Tunnels -> (SUBSET Inputs) \cup {Nobody}]
  BY DEF WindowsTyped, Present
<1>2. ASSUME NEW t \in Tunnels, dialog'[t] # Nobody PROVE dialog'[t] \subseteq Queue(t)
  BY <1>2 DEF WindowsTyped, Present
<1> QED BY <1>1, <1>2 DEF WindowsTyped, Queue

LEMMA WindowCloses ==
  ASSUME WindowsTyped, UNCHANGED round, NEW s \in Tunnels,
         dialog' = [dialog EXCEPT ![s] = Nobody]
  PROVE  WindowsTyped'
<1>1. dialog' \in [Tunnels -> (SUBSET Inputs) \cup {Nobody}]
  <2>1. dialog \in [Tunnels -> (SUBSET Inputs) \cup {Nobody}] /\ Nobody \in (SUBSET Inputs) \cup {Nobody}
    BY DEF WindowsTyped
  <2> QED BY <2>1
<1>2. ASSUME NEW t \in Tunnels, dialog'[t] # Nobody PROVE dialog'[t] \subseteq Queue(t)
  BY <1>2 DEF WindowsTyped
<1> QED BY <1>1, <1>2 DEF WindowsTyped, Queue

LEMMA AttemptIn == 0 \in 0..MaxRetries - 1
BY TunnelAssumption

LEMMA Forsaking ==
  ASSUME AttemptTyped, UNCHANGED attempt, NEW s, Forsakes(s) \/ UNCHANGED forsaken
  PROVE  AttemptTyped'
BY DEF AttemptTyped, Forsakes

\* openvpn3 goes on by itself.
LEMMA ServicesTyped ==
  ASSUME CredentialTypeOK, NEW s \in Tunnels,
         StartedOutside(s) \/ Accepted(s) \/ Challenged(s) \/ Refused(s)
  PROVE  CredentialTypeOK'
<1> USE CredentialTypes
<1>1. UNCHANGED <<given, dialog, future, attempt>> /\ AttemptTyped'
  BY DEF StartedOutside, Accepted, Challenged, Refused, AttemptTyped
<1>2. /\ phase' \in [Tunnels -> {"unborn", "asking", "verifying", "up", "refused", "gone"}]
      /\ signals' \in [Tunnels -> SUBSET {"input", "connected", "refused"}]
  <2> USE DEF SessionsTyped
  <2>1. CASE StartedOutside(s)
    BY <2>1 DEF StartedOutside
  <2>2. CASE Accepted(s)
    BY <2>2 DEF Accepted
  <2>3. CASE Challenged(s)
    BY <2>3 DEF Challenged
  <2>4. CASE Refused(s)
    BY <2>4 DEF Refused
  <2> QED BY <2>1, <2>2, <2>3, <2>4
<1>3. round' \in [Tunnels -> 1..Len(Rounds)] /\ \A t \in Tunnels : round'[t] >= round[t]
  <2>1. round \in [Tunnels -> 1..Len(Rounds)] /\ Len(Rounds) \in Nat
    BY SlotAssumption DEF SessionsTyped
  <2>2. CASE UNCHANGED round
    BY <2>1, <2>2
  <2>3. CASE round' = [round EXCEPT ![s] = @ + 1] /\ round[s] < Len(Rounds)
    BY <2>1, <2>3
  <2> QED BY <2>2, <2>3 DEF StartedOutside, Accepted, Challenged, Refused
<1>4. ASSUME NEW t \in Tunnels PROVE Queue(t) \subseteq Queue(t)'
  <2>1. round[t] \in Nat /\ round'[t] \in Nat
    BY <1>3 DEF SessionsTyped
  <2>2. 1..round[t] \subseteq 1..round'[t]
    BY <1>3, <2>1
  <2> QED BY <2>2 DEF Queue
<1>5. SessionsTyped'
  BY <1>1, <1>2, <1>3, <1>4 DEF SessionsTyped
<1>6. WindowsTyped'
  BY <1>1, <1>4 DEF WindowsTyped
<1>7. FuturesTyped'
  BY <1>1, <1>4 DEF FuturesTyped, FutureOK
<1>8. (SessionsTyped /\ WindowsTyped /\ FuturesTyped /\ AttemptTyped)'
  BY <1>1, <1>5, <1>6, <1>7
<1> QED BY <1>8 DEF CredentialTypeOK, SessionsTyped, WindowsTyped, FuturesTyped, FutureOK, AttemptTyped

\* The signals: a request, a retry or the end.
LEMMA SignalsTyped ==
  ASSUME CredentialTypeOK, NEW s \in Tunnels, OnSignal(s)
  PROVE  CredentialTypeOK'
<1>1. SessionsTyped /\ WindowsTyped /\ FuturesTyped /\ AttemptTyped
  BY CredentialTypes
<1>2. /\ UNCHANGED <<phase, round, given, dialog>>
      /\ signals' \in [Tunnels -> SUBSET {"input", "connected", "refused"}]
  BY <1>1 DEF OnSignal, OnInput, OnConnected, OnRefused, Take, SessionsTyped
<1>3. SessionsTyped' /\ WindowsTyped'
  BY <1>1, <1>2 DEF SessionsTyped, WindowsTyped, Queue
<1>4. AttemptTyped'
  BY <1>1, TunnelAssumption DEF OnSignal, OnInput, OnConnected, OnRefused, Take, AttemptTyped
<1>5. FuturesTyped'
  <2>1. CASE UNCHANGED future
    BY <1>1, <1>2, <2>1 DEF FuturesTyped, FutureOK, Queue
  <2>2. ASSUME NEW kind \in {"request", "retry", "drop"}, NEW step \in {"dispatch", "fetch", "disconnect"},
               Start(FutureOf(kind, step, s, {}))
        PROVE  FuturesTyped'
    <3>1. FutureOK(FutureOf(kind, step, s, {}))
      BY NewFuture
    <3> QED BY <1>1, <1>2, <2>2, <3>1, Begins
  <2> QED BY <2>1, <2>2 DEF OnSignal, OnInput, OnConnected, OnRefused
<1>6. (SessionsTyped /\ WindowsTyped /\ FuturesTyped /\ AttemptTyped)'
  BY <1>3, <1>4, <1>5
<1> QED BY <1>6 DEF CredentialTypeOK, SessionsTyped, WindowsTyped, FuturesTyped, FutureOK, AttemptTyped

\* The user.
LEMMA AnswersTyped ==
  ASSUME CredentialTypeOK, UserConnects \/ \E s \in Tunnels : SubmitSome(s) \/ Cancel(s) \/ CloseWindow(s)
  PROVE  CredentialTypeOK'
<1>1. SessionsTyped /\ WindowsTyped /\ FuturesTyped /\ AttemptTyped
  BY CredentialTypes
<1>2. UNCHANGED <<session, attempt>> /\ AttemptTyped'
  BY <1>1, Forsaking DEF UserConnects, SubmitSome, Submit, Cancel, CloseWindow
<1>3. SessionsTyped' /\ UNCHANGED round /\ AttemptTyped'
  BY <1>1, <1>2 DEF session, SessionsTyped, Queue
<1>4. WindowsTyped'
  <2>1. CASE UNCHANGED dialog
    BY <1>1, <1>3, <2>1 DEF WindowsTyped, Queue
  <2>2. ASSUME NEW s \in Tunnels, dialog' = [dialog EXCEPT ![s] = Nobody] PROVE WindowsTyped'
    BY <1>1, <1>3, <2>2, WindowCloses
  <2> QED BY <2>1, <2>2 DEF UserConnects, SubmitSome, Submit, Cancel, CloseWindow
<1>5. FuturesTyped'
  <2>1. CASE UserConnects
    <3>1. FutureOK(FutureOf("connect", "tunnel", Nobody, {}))
      BY NewFuture
    <3> QED BY <1>1, <1>3, <2>1, <3>1, Begins DEF UserConnects
  <2>2. ASSUME NEW s \in Tunnels, Cancel(s) PROVE FuturesTyped'
    <3>1. FutureOK(FutureOf("drop", "disconnect", s, {}))
      BY NewFuture
    <3> QED BY <1>1, <1>3, <2>2, <3>1, Begins DEF Cancel
  <2>3. ASSUME NEW s \in Tunnels, NEW filled \in SUBSET Inputs, Submit(s, filled)
        PROVE  FuturesTyped'
    <3> DEFINE j == [FutureOf("submit", "check", s, dialog[s]) EXCEPT !.filled = filled]
    <3>1. dialog[s] \in SUBSET Inputs /\ dialog[s] \subseteq Queue(s)
      <4>1. dialog[s] # Nobody
        BY <2>3 DEF Submit
      <4>2. dialog[s] \in (SUBSET Inputs) \cup {Nobody}
        BY <1>1 DEF WindowsTyped
      <4> QED BY <1>1, <4>1, <4>2 DEF WindowsTyped
    <3>2. /\ j \in FutureType /\ j.todo = {} /\ j.slots = dialog[s] /\ j.session = s /\ j.kind = "submit"
      BY <3>1 DEF FutureOf, FutureType
    <3>3. Start(j)
      BY <2>3 DEF Submit
    <3> HIDE DEF j
    <3>4. FutureOK(j)
      BY <3>1, <3>2 DEF FutureOK
    <3> QED BY <1>1, <1>3, <3>3, <3>4, Begins
  <2>4. ASSUME NEW s \in Tunnels, CloseWindow(s) PROVE FuturesTyped'
    BY <1>1, <1>3, <2>4 DEF CloseWindow, FuturesTyped, FutureOK, Queue
  <2> QED BY <2>1, <2>2, <2>3, <2>4 DEF SubmitSome
<1>6. (SessionsTyped /\ WindowsTyped /\ FuturesTyped /\ AttemptTyped)'
  BY <1>3, <1>4, <1>5
<1> QED BY <1>6 DEF CredentialTypeOK, SessionsTyped, WindowsTyped, FuturesTyped, FutureOK, AttemptTyped

\* A request reads the slots of its session and shows them.
LEMMA RequestsTyped ==
  ASSUME SessionsTyped, WindowsTyped, FuturesTyped, AttemptTyped, NEW f \in Workers,
         Dispatch(f) \/ Fetch(f) \/ Show(f)
  PROVE  SessionsTyped' /\ WindowsTyped' /\ FuturesTyped' /\ AttemptTyped'
<1>1. UNCHANGED <<session, attempt>> /\ AttemptTyped'
  BY Forsaking DEF Dispatch, Fetch, Show, Fails
<1>2. SessionsTyped' /\ UNCHANGED round
  BY <1>1 DEF session, SessionsTyped, Queue
<1>3. UNCHANGED dialog => WindowsTyped'
  BY <1>2 DEF WindowsTyped, Queue
<1>4. CASE Dispatch(f)
  BY <1>1, <1>2, <1>3, <1>4, Stops, Turns DEF Dispatch, Fails
<1>5. CASE Show(f)
  <2>1. WindowsTyped'
    BY <1>2, <1>5, FutureFields, Presents DEF Show, FutureOK
  <2> QED BY <1>1, <1>2, <1>5, <2>1, Stops DEF Show
<1>6. CASE Fetch(f)
  <2> DEFINE s == future[f].session
  <2>1. CASE Fails(f)
    BY <1>1, <1>2, <1>3, <1>6, <2>1, Stops DEF Fetch, Fails
  <2>2. ASSUME NEW slots \in SUBSET Unanswered(s),
               future' = [future EXCEPT ![f].step = "keyring", ![f].slots = slots]
        PROVE  SessionsTyped' /\ WindowsTyped' /\ FuturesTyped'
    <3> DEFINE j == [future[f] EXCEPT !.step = "keyring", !.slots = slots]
    <3>1. future' = [future EXCEPT ![f] = j]
      BY <2>2 DEF FuturesTyped
    <3>2. FutureOK(j)
      <4>1. s \in Tunnels
        BY <1>6, FutureFields DEF Fetch, Is, FutureOK
      <4>2. slots \in SUBSET Inputs /\ slots \subseteq Queue(s)
        BY <4>1, RoundsIn DEF Unanswered
      <4>3. future[f].todo = {}
        BY <1>6, FutureFields DEF Fetch, Is, FutureOK
      <4>4. /\ j \in FutureType /\ j.session = s /\ j.slots = slots /\ j.todo = future[f].todo
        BY <4>2, FutureFields DEF FutureType
      <4> QED BY <4>1, <4>2, <4>3, <4>4 DEF FutureOK
    <3> QED BY <1>1, <1>2, <1>3, <1>6, <3>1, <3>2, Replaced DEF Fetch
  <2> QED BY <1>1, <1>6, <2>1, <2>2 DEF Fetch
<1> QED BY <1>4, <1>5, <1>6

\* A submission gives its slots one by one.
LEMMA SubmissionsTyped ==
  ASSUME SessionsTyped, WindowsTyped, FuturesTyped, AttemptTyped, NEW f \in Workers,
         Check(f) \/ (\E i \in Inputs : Provide(f, i)) \/ Ready(f) \/ ConnectSession(f)
  PROVE  SessionsTyped' /\ WindowsTyped' /\ FuturesTyped' /\ AttemptTyped'
<1> DEFINE s == future[f].session
<1>1. UNCHANGED <<round, signals, attempt>> /\ AttemptTyped'
  BY Forsaking DEF Check, Provide, Ready, ConnectSession, session, Fails
<1>2. UNCHANGED dialog => WindowsTyped'
  BY <1>1 DEF WindowsTyped, Queue
<1>3. ASSUME future[f].kind = "submit" PROVE s \in Tunnels /\ future[f].slots \subseteq Queue(s)
  BY <1>3, FutureFields DEF FutureOK
<1>4. CASE Check(f)
  <2>1. SessionsTyped'
    BY <1>4 DEF Check, session, SessionsTyped, Queue
  <2>2. WindowsTyped'
    BY <1>1, <1>2, <1>4, FutureFields, Presents DEF Check, FutureOK
  <2>3. CASE Stop(f)
    BY <1>1, <2>1, <2>2, <2>3, Stops
  <2>4. CASE future' = [future EXCEPT ![f].step = "provide", ![f].todo = future[f].slots]
    <3> DEFINE j == [future[f] EXCEPT !.step = "provide", !.todo = future[f].slots]
    <3>1. future' = [future EXCEPT ![f] = j]
      BY <2>4 DEF FuturesTyped
    <3>2. /\ j \in FutureType /\ j.session = s /\ j.slots = future[f].slots
          /\ j.todo = future[f].slots /\ j.kind = "submit"
      BY <1>4, FutureFields DEF FutureType, Check, Is
    <3> HIDE DEF j
    <3>3. FutureOK(j)
      <4>1. future[f].kind = "submit"
        BY <1>4 DEF Check, Is
      <4> QED BY <3>2, <4>1, <1>3, FutureFields DEF FutureOK
    <3> QED BY <1>1, <2>1, <2>2, <3>1, <3>3, Replaced
  <2> QED BY <1>1, <1>4, <2>3, <2>4 DEF Check, Fails
<1>5. ASSUME NEW i \in Inputs, Provide(f, i)
      PROVE  SessionsTyped' /\ WindowsTyped' /\ FuturesTyped'
  <2> DEFINE j == [future[f] EXCEPT !.todo = @ \ {i}]
  <2>1. WindowsTyped' /\ future[f].kind = "submit" /\ s \in Tunnels
    BY <1>2, <1>3, <1>5 DEF Provide, Is
  <2>2. SessionsTyped'
    <3>1. CASE UNCHANGED given
      BY <1>5, <3>1 DEF Provide, SessionsTyped, Queue
    <3>2. CASE given' = [given EXCEPT ![s] = @ \cup {i}] /\ i \in Asked(s)
      <4>1. i \in Queue(s)
        BY <2>1, <3>2, RoundsIn
      <4>2. given' \in [Tunnels -> SUBSET Inputs]
        BY <2>1, <3>2 DEF SessionsTyped
      <4>3. \A t \in Tunnels : given'[t] \subseteq Queue(t)
        BY <2>1, <3>2, <4>1 DEF SessionsTyped
      <4> QED BY <1>5, <4>2, <4>3 DEF Provide, SessionsTyped, Queue
    <3> QED BY <1>5, <3>1, <3>2 DEF Provide
  <2>3. CASE future' = [future EXCEPT ![f].todo = @ \ {i}]
    <3>1. future' = [future EXCEPT ![f] = j]
      BY <2>3 DEF FuturesTyped
    <3>2. /\ j \in FutureType /\ j.session = s /\ j.slots = future[f].slots
          /\ j.todo \subseteq future[f].todo /\ j.kind = "submit"
      BY <2>1, FutureFields DEF FutureType
    <3> HIDE DEF j
    <3>3. FutureOK(j)
      BY <3>2, <1>3, <2>1, FutureFields DEF FutureOK
    <3> QED BY <1>1, <2>1, <2>2, <3>1, <3>3, Replaced
  <2>4. CASE future' = [future EXCEPT ![f] = FutureOf("request", "fetch", s, {})]
    <3>1. FutureOK(FutureOf("request", "fetch", s, {}))
      BY <2>1, NewFuture
    <3> QED BY <1>1, <2>1, <2>2, <2>4, <3>1, Replaced
  <2>5. CASE Stop(f)
    BY <1>1, <2>1, <2>2, <2>5, Stops
  <2> QED BY <1>5, <2>3, <2>4, <2>5 DEF Provide, Fails
<1>6. CASE Ready(f)
  <2>1. SessionsTyped'
    BY <1>6 DEF Ready, session, SessionsTyped, Queue
  <2> QED BY <1>1, <1>2, <1>6, <2>1, Stops, Turns DEF Ready, Fails
<1>7. CASE ConnectSession(f)
  <2>1. phase' \in [Tunnels -> {"unborn", "asking", "verifying", "up", "refused", "gone"}]
    BY <1>7 DEF ConnectSession, SessionsTyped
  <2>2. SessionsTyped'
    BY <1>7, <2>1 DEF ConnectSession, SessionsTyped, Queue
  <2> QED BY <1>1, <1>2, <1>7, <2>2, Stops DEF ConnectSession, Fails
<1> QED BY <1>1, <1>4, <1>5, <1>6, <1>7

\* A session ends, or a new one begins.
LEMMA OperationsTyped ==
  ASSUME SessionsTyped, WindowsTyped, FuturesTyped, AttemptTyped, NEW f \in Workers,
         EndSession(f) \/ (\E s \in Tunnels : NewTunnel(f, s)) \/ TunnelFails(f)
  PROVE  SessionsTyped' /\ WindowsTyped' /\ FuturesTyped' /\ AttemptTyped'
<1>1. UNCHANGED <<round, given, dialog, attempt>> /\ AttemptTyped'
  BY Forsaking DEF EndSession, NewTunnel, TunnelFails, session
<1>2. WindowsTyped'
  BY <1>1 DEF WindowsTyped, Queue
<1>3. CASE EndSession(f)
  <2>1. phase' \in [Tunnels -> {"unborn", "asking", "verifying", "up", "refused", "gone"}]
    BY <1>3 DEF EndSession, SessionsTyped
  <2>2. SessionsTyped'
    BY <1>3, <2>1 DEF EndSession, SessionsTyped, Queue
  <2> QED BY <1>1, <1>2, <1>3, <2>2, Stops, Turns DEF EndSession
<1>4. ASSUME NEW s \in Tunnels, NewTunnel(f, s) PROVE SessionsTyped' /\ FuturesTyped'
  <2>1. /\ phase' \in [Tunnels -> {"unborn", "asking", "verifying", "up", "refused", "gone"}]
        /\ signals' \in [Tunnels -> SUBSET {"input", "connected", "refused"}]
    BY <1>4 DEF NewTunnel, SessionsTyped
  <2>2. SessionsTyped'
    BY <1>4, <2>1 DEF NewTunnel, SessionsTyped, Queue
  <2>3. FutureOK(FutureOf("request", "fetch", s, {}))
    BY NewFuture
  <2> QED BY <1>1, <1>4, <2>2, <2>3, Replaced DEF NewTunnel
<1>5. CASE TunnelFails(f)
  <2>1. SessionsTyped'
    BY <1>5 DEF TunnelFails, session, SessionsTyped, Queue
  <2> QED BY <1>1, <1>2, <1>5, <2>1, Stops DEF TunnelFails
<1> QED BY <1>1, <1>2, <1>3, <1>4, <1>5

(***************************************************************************)
(* Type correctness of the dialogs, for any tunnels, slots, rounds and     *)
(* futures: no window, submission or answer has a slot that its session    *)
(* has not asked for, and the attempts stay below their limit.             *)
(***************************************************************************)
THEOREM CredentialTypeCorrect == CredentialSpec => []CredentialTypeOK
<1>1. ASSUME CredentialInit PROVE CredentialTypeOK
  <2>1. SessionsTyped
    <3>1. 1 \in 1..Len(Rounds)
      BY SlotAssumption
    <3> QED BY <1>1, <3>1 DEF CredentialInit, SessionsTyped
  <2>2. WindowsTyped
    BY <1>1 DEF CredentialInit, WindowsTyped
  <2>3. FuturesTyped
    <3>1. FutureOK(Vacant)
      BY NewFuture DEF Vacant
    <3> QED BY <1>1, <3>1 DEF CredentialInit, FuturesTyped, FutureOK
  <2> QED BY <1>1, <2>1, <2>2, <2>3, CredentialTypes, AttemptIn DEF CredentialInit, AttemptTyped
<1>2. ASSUME CredentialTypeOK, [CredentialNext]_credentialVars PROVE CredentialTypeOK'
  <2>1. ASSUME NEW f \in Workers, Work(f) PROVE CredentialTypeOK'
    <3>1. (SessionsTyped /\ WindowsTyped /\ FuturesTyped /\ AttemptTyped)'
      BY <1>2, <2>1, CredentialTypes, RequestsTyped, SubmissionsTyped, OperationsTyped DEF Work
    <3> QED BY <3>1 DEF CredentialTypeOK, SessionsTyped, WindowsTyped, FuturesTyped, FutureOK, AttemptTyped
  <2>2. CASE UNCHANGED credentialVars
    BY <1>2, <2>2 DEF credentialVars, session, CredentialTypeOK, Queue
  <2> QED BY <1>2, <2>1, <2>2, ServicesTyped, SignalsTyped, AnswersTyped DEF CredentialNext
<1> QED BY <1>1, <1>2, PTL DEF CredentialSpec
=============================================================================
