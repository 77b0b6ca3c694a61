---------------------------- MODULE WindowsProofs ----------------------------
(***************************************************************************)
(* Proofs about the editor of bypassed networks, the notifications, the    *)
(* session list and the log viewer.  Each has one inductive invariant,     *)
(* preserved action by action.                                             *)
(***************************************************************************)
EXTENDS BypassEditor, SessionMirror, Notifications, LogStream, FiniteSetTheorems,
        SequenceTheorems, TLAPS

---------------------------------------------------------------------------
(* The editor of bypassed networks *)

\* Cutting off the host bits twice is cutting them off once.
LEMMA MaskedTwice ==
  ASSUME NEW net \in Networks
  PROVE  Masked(net) \in Networks /\ Masked(Masked(net)) = Masked(net)
<1> DEFINE cut == [bit \in 1..Width |-> bit <= net[2] /\ net[1][bit]]
<1>1. net[1] \in [1..Width -> BOOLEAN] /\ net[2] \in 0..Width
  BY DEF Networks, Addresses
<1>2. cut \in [1..Width -> BOOLEAN]
  BY <1>1, Zenon
<1>3. Masked(net) = <<cut, net[2]>>
  BY DEF Masked
<1>4. Masked(net)[1] = cut /\ Masked(net)[2] = net[2]
  BY <1>3
<1>5. [bit \in 1..Width |-> bit <= net[2] /\ cut[bit]] = cut
  BY Zenon
<1>6. Masked(Masked(net)) = <<cut, net[2]>>
  BY <1>4, <1>5 DEF Masked
<1> HIDE DEF cut
<1>7. Masked(net) \in Networks
  BY <1>1, <1>2, <1>3 DEF Networks, Addresses
<1> QED BY <1>3, <1>6, <1>7

\* What RemoveAt leaves.
LEMMA Removing ==
  ASSUME NEW S, NEW s \in Seq(S), NEW i \in DOMAIN s
  PROVE  /\ RemoveAt(s, i) \in Seq(S)
         /\ DOMAIN RemoveAt(s, i) = 1..(Len(s) - 1)
         /\ \A j \in 1..(Len(s) - 1) :
              RemoveAt(s, i)[j] = IF j < i THEN s[j] ELSE s[j + 1]
<1> DEFINE before == SubSeq(s, 1, i - 1)
           after == SubSeq(s, i + 1, Len(s))
<1>1. Len(s) \in Nat /\ i \in 1..Len(s) /\ \A j \in 1..Len(s) : s[j] \in S
  OBVIOUS
<1>2. before \in Seq(S) /\ Len(before) = i - 1 /\ \A j \in 1..(i - 1) : before[j] = s[j]
  <2>1. \A j \in 1..(i - 1) : s[j] \in S
    BY <1>1
  <2>2. 1 \in Int /\ i - 1 \in Int
    BY <1>1
  <2>3. /\ before \in Seq(S)
        /\ Len(before) = IF 1 <= i - 1 THEN (i - 1) - 1 + 1 ELSE 0
        /\ \A j \in 1..((i - 1) - 1 + 1) : before[j] = s[1 + j - 1]
    BY <2>1, <2>2, SubSeqProperties
  <2> QED BY <1>1, <2>3
<1>3. /\ after \in Seq(S) /\ Len(after) = Len(s) - i
      /\ \A j \in 1..(Len(s) - i) : after[j] = s[i + j]
  <2>1. \A j \in (i + 1)..Len(s) : s[j] \in S
    BY <1>1
  <2>2. i + 1 \in Int /\ Len(s) \in Int
    BY <1>1
  <2>3. /\ after \in Seq(S)
        /\ Len(after) = IF i + 1 <= Len(s) THEN Len(s) - (i + 1) + 1 ELSE 0
        /\ \A j \in 1..(Len(s) - (i + 1) + 1) : after[j] = s[(i + 1) + j - 1]
    BY <2>1, <2>2, SubSeqProperties
  <2> QED BY <1>1, <2>3
<1> HIDE DEF before, after
<1>4. /\ before \o after \in Seq(S) /\ Len(before \o after) = Len(s) - 1
      /\ \A j \in 1..(Len(s) - 1) :
           (before \o after)[j] = IF j <= i - 1 THEN before[j] ELSE after[j - (i - 1)]
  BY <1>1, <1>2, <1>3, ConcatProperties
<1>5. RemoveAt(s, i) = before \o after
  BY DEF RemoveAt, before, after
<1>6. ASSUME NEW j \in 1..(Len(s) - 1)
      PROVE  RemoveAt(s, i)[j] = IF j < i THEN s[j] ELSE s[j + 1]
  <2>1. CASE j < i
    BY <1>1, <1>2, <1>4, <1>5, <2>1
  <2>2. CASE ~(j < i)
    <3>1. j - (i - 1) \in 1..(Len(s) - i) /\ i + (j - (i - 1)) = j + 1
      BY <1>1, <2>2
    <3>2. after[j - (i - 1)] = s[j + 1]
      BY <1>3, <3>1
    <3>3. ~(j <= i - 1)
      BY <1>1, <2>2
    <3>4. (before \o after)[j] = after[j - (i - 1)]
      BY <1>4, <3>3
    <3> QED BY <1>5, <2>2, <3>2, <3>4
  <2> QED BY <2>1, <2>2
<1> QED BY <1>1, <1>4, <1>5, <1>6

(***************************************************************************)
(* The list holds each network once and in canonical form, so that a row   *)
(* that is deleted takes its network with it; and no list under way to the *)
(* helper has a network that was deleted since it last was sent.           *)
(***************************************************************************)
FieldOK ==
  /\ unchecked \subseteq Networks /\ editing \in Nat
  /\ text \in Networks \cup {NoText} /\ sensitive \in BOOLEAN

ListOK ==
  /\ entries \in Seq(Networks) /\ IsInjective(entries)
  /\ \A i \in DOMAIN entries : Masked(entries[i]) = entries[i] /\ entries[i] \notin gone

ChecksOK ==
  \A k \in Checks : check[k] # Refused =>
    /\ check[k] \in Seq(Networks)
    /\ \A i \in DOMAIN check[k] : Masked(check[k][i]) \notin gone

EditorInv ==
  FieldOK /\ ListOK /\ ChecksOK /\ check = [k \in Checks |-> check[k]]

LEMMA EditorBegins == EditorInit => EditorInv
<1> SUFFICES ASSUME EditorInit PROVE EditorInv
  OBVIOUS
<1>1. entries \in Seq(Networks) /\ DOMAIN entries = {}
  BY DEF EditorInit
<1>2. ListOK
  BY <1>1 DEF ListOK, IsInjective
<1>3. FieldOK
  BY DEF EditorInit, FieldOK
<1> QED BY <1>2, <1>3 DEF EditorInit, EditorInv, ChecksOK

\* The steps that leave the list and what is under way alone.
LEMMA EditorFieldSteps ==
  ASSUME EditorInv, UNCHANGED <<entries, check, gone>>, FieldOK'
  PROVE  EditorInv'
BY DEF EditorInv, ListOK, ChecksOK

LEMMA EditorTypes ==
  ASSUME EditorInv, NEW new \in Texts \cup {NoText}, Types(new)
  PROVE  EditorInv'
<1>1. FieldOK'
  BY WidthAssumption DEF EditorInv, FieldOK, Types, Changes
<1> QED BY <1>1, EditorFieldSteps DEF Types

LEMMA EditorLoads ==
  ASSUME EditorInv, NEW i \in DOMAIN entries, Loads(i)
  PROVE  EditorInv'
<1>1. i \in Nat /\ entries[i] \in Networks
  BY DEF EditorInv, ListOK
<1>2. FieldOK'
  BY <1>1 DEF EditorInv, FieldOK, Loads, Changes
<1> QED BY <1>2, EditorFieldSteps DEF Loads

LEMMA EditorCancels ==
  ASSUME EditorInv, CancelsEdit
  PROVE  EditorInv'
<1>1. FieldOK'
  BY DEF EditorInv, FieldOK, CancelsEdit, ToAdding
<1> QED BY <1>1, EditorFieldSteps DEF CancelsEdit

LEMMA EditorTicks ==
  ASSUME EditorInv, NEW i \in DOMAIN entries, Ticks(i)
  PROVE  EditorInv'
<1>1. entries[i] \in Networks
  BY DEF EditorInv, ListOK
<1>2. FieldOK'
  BY <1>1 DEF EditorInv, FieldOK, Ticks
<1> QED BY <1>2, EditorFieldSteps DEF Ticks

LEMMA EditorDeletes ==
  ASSUME EditorInv, NEW i \in DOMAIN entries, Deletes(i)
  PROVE  EditorInv'
<1> DEFINE rest == RemoveAt(entries, i)
<1>1. /\ entries \in Seq(Networks) /\ Len(entries) \in Nat /\ i \in 1..Len(entries)
      /\ DOMAIN entries = 1..Len(entries)
  BY DEF EditorInv, ListOK
<1>2. /\ rest \in Seq(Networks) /\ DOMAIN rest = 1..(Len(entries) - 1)
      /\ \A j \in 1..(Len(entries) - 1) :
           rest[j] = IF j < i THEN entries[j] ELSE entries[j + 1]
  BY <1>1, Removing
<1>3. entries' = rest /\ check' = check /\ gone' \in {gone, gone \cup {entries[i]}}
  BY DEF Deletes
<1> HIDE DEF rest
<1>4. ASSUME NEW j \in DOMAIN rest
      PROVE  \E n \in DOMAIN entries \ {i} : rest[j] = entries[n]
  BY <1>1, <1>2
<1>5. IsInjective(rest)
  <2> SUFFICES ASSUME NEW a \in DOMAIN rest, NEW b \in DOMAIN rest, rest[a] = rest[b]
               PROVE  a = b
    BY DEF IsInjective
  <2>1. PICK m \in DOMAIN entries : rest[a] = entries[m] /\ m = IF a < i THEN a ELSE a + 1
    BY <1>1, <1>2
  <2>2. PICK n \in DOMAIN entries : rest[b] = entries[n] /\ n = IF b < i THEN b ELSE b + 1
    BY <1>1, <1>2
  <2>3. m = n
    BY <2>1, <2>2 DEF EditorInv, ListOK, IsInjective
  <2> QED BY <1>1, <1>2, <2>1, <2>2, <2>3
<1>6. ASSUME NEW j \in DOMAIN rest
      PROVE  Masked(rest[j]) = rest[j] /\ rest[j] \notin gone'
  <2>1. PICK n \in DOMAIN entries \ {i} : rest[j] = entries[n]
    BY <1>4
  <2>2. entries[n] # entries[i]
    BY <2>1 DEF EditorInv, ListOK, IsInjective
  <2> QED BY <1>3, <2>1, <2>2 DEF EditorInv, ListOK
<1>7. ListOK'
  BY <1>2, <1>3, <1>5, <1>6 DEF ListOK
<1>8. FieldOK'
  <2>1. unchecked' \subseteq Networks
    BY DEF EditorInv, FieldOK, Deletes
  <2>2. CASE editing = i
    BY <2>1, <2>2 DEF EditorInv, FieldOK, Deletes, ToAdding
  <2>3. CASE editing # i
    BY <2>1, <2>3 DEF EditorInv, FieldOK, Deletes
  <2> QED BY <2>2, <2>3
<1>9. ChecksOK'
  <2>1. CASE \A k \in Checks : check[k] = Refused
    BY <1>3, <2>1 DEF ChecksOK
  <2>2. CASE ~\A k \in Checks : check[k] = Refused
    <3>1. gone' = gone
      BY <2>2 DEF Deletes
    <3> QED BY <1>3, <3>1 DEF EditorInv, ChecksOK
  <2> QED BY <2>1, <2>2
<1> QED BY <1>3, <1>7, <1>8, <1>9 DEF EditorInv

\* Only the text that is sent can bring a network back.
LEMMA ProspectiveIs ==
  ASSUME EditorInv, text \in Networks
  PROVE  /\ Prospective \in Seq(Networks)
         /\ \A i \in DOMAIN Prospective :
              Prospective[i] = text \/ \E j \in DOMAIN entries : Prospective[i] = entries[j]
<1>1. entries \in Seq(Networks)
  BY DEF EditorInv, ListOK
<1>2. CASE editing \in DOMAIN entries
  BY <1>1, <1>2 DEF Prospective
<1>3. CASE editing \notin DOMAIN entries
  <2>1. Prospective = Append(entries, text)
    BY <1>3 DEF Prospective
  <2> QED BY <1>1, <2>1
<1> QED BY <1>2, <1>3

LEMMA EditorClicks ==
  ASSUME EditorInv, NEW k \in Checks, Clicks(k)
  PROVE  EditorInv'
<1>1. text \in Networks
  BY DEF EditorInv, FieldOK, Clicks
<1>2. /\ entries' = entries /\ gone' = gone \ {Masked(text)}
      /\ check' = [check EXCEPT ![k] = Prospective]
  BY DEF Clicks
<1>3. ListOK' /\ FieldOK'
  BY <1>2 DEF EditorInv, ListOK, FieldOK, Clicks
<1>4. ASSUME NEW i \in DOMAIN Prospective PROVE Masked(Prospective[i]) \notin gone'
  <2>1. CASE Prospective[i] = text
    BY <1>2, <2>1
  <2>2. ASSUME NEW j \in DOMAIN entries, Prospective[i] = entries[j]
        PROVE  Masked(Prospective[i]) \notin gone'
    BY <1>2, <2>2 DEF EditorInv, ListOK
  <2> QED BY <1>1, <2>1, <2>2, ProspectiveIs
<1>5. ASSUME NEW c \in Checks, check'[c] # Refused
      PROVE  /\ check'[c] \in Seq(Networks)
             /\ \A i \in DOMAIN check'[c] : Masked(check'[c][i]) \notin gone'
  <2>1. CASE c = k
    <3>1. check'[c] = Prospective
      BY <1>2, <2>1 DEF EditorInv
    <3> QED BY <1>1, <1>4, <3>1, ProspectiveIs
  <2>2. CASE c # k
    <3>1. check'[c] = check[c]
      BY <1>2, <2>2 DEF EditorInv
    <3> QED BY <1>2, <1>5, <3>1 DEF EditorInv, ChecksOK
  <2> QED BY <2>1, <2>2
<1>6. ChecksOK'
  BY <1>5 DEF ChecksOK
<1> QED BY <1>2, <1>3, <1>6 DEF EditorInv

LEMMA EditorAccepted ==
  ASSUME EditorInv, NEW k \in Checks, Accepted(k)
  PROVE  EditorInv'
<1> DEFINE nets == check[k]
<1>1. /\ nets \in Seq(Networks) /\ \A i \in DOMAIN nets : Masked(nets[i]) \notin gone
      /\ IsInjective(Canonical(nets))
  BY DEF EditorInv, ChecksOK, Accepted, Valid
<1>2. /\ entries' = Canonical(nets) /\ gone' = gone
      /\ check' = [check EXCEPT ![k] = Refused]
  BY DEF Accepted
<1>3. Canonical(nets) = [i \in DOMAIN nets |-> Masked(nets[i])]
  BY DEF Canonical
<1> HIDE DEF nets
<1>4. \A i \in DOMAIN nets : nets[i] \in Networks
  BY <1>1
<1>5. \A i \in DOMAIN nets : /\ Masked(nets[i]) \in Networks
                             /\ Masked(Masked(nets[i])) = Masked(nets[i])
  BY <1>4, MaskedTwice
<1>6. Canonical(nets) \in Seq(Networks)
  BY <1>1, <1>3, <1>5
<1>7. ListOK'
  BY <1>1, <1>2, <1>3, <1>5, <1>6 DEF ListOK
<1>8. FieldOK'
  BY DEF EditorInv, FieldOK, Accepted, ToAdding
<1>9. ChecksOK'
  BY <1>2 DEF EditorInv, ChecksOK
<1> QED BY <1>2, <1>7, <1>8, <1>9 DEF EditorInv

LEMMA EditorRejected ==
  ASSUME EditorInv, NEW k \in Checks, Rejected(k)
  PROVE  EditorInv'
BY DEF EditorInv, FieldOK, ListOK, ChecksOK, Rejected

LEMMA EditorInductive ==
  /\ EditorInit => EditorInv
  /\ EditorInv /\ [EditorNext]_editorVars => EditorInv'
<1>1. ASSUME EditorInv, [EditorNext]_editorVars PROVE EditorInv'
  <2>1. CASE \E new \in Texts \cup {NoText} : Types(new)
    BY <1>1, <2>1, EditorTypes
  <2>2. CASE \E i \in DOMAIN entries : Loads(i) \/ Ticks(i) \/ Deletes(i)
    BY <1>1, <2>2, EditorLoads, EditorTicks, EditorDeletes
  <2>3. CASE CancelsEdit
    BY <1>1, <2>3, EditorCancels
  <2>4. CASE \E k \in Checks : Clicks(k) \/ Accepted(k) \/ Rejected(k)
    BY <1>1, <2>4, EditorClicks, EditorAccepted, EditorRejected
  <2>5. CASE UNCHANGED editorVars
    BY <1>1, <2>5 DEF editorVars, EditorInv, FieldOK, ListOK, ChecksOK
  <2> QED BY <1>1, <2>1, <2>2, <2>3, <2>4, <2>5 DEF EditorNext
<1> QED BY <1>1, EditorBegins

(***************************************************************************)
(* Type correctness of the editor's list, entry field and button.          *)
(***************************************************************************)
THEOREM EditorTypeCorrect == EditorSpec => []EditorTypeOK
<1>1. EditorInv => EditorTypeOK
  BY DEF EditorInv, FieldOK, ListOK, EditorTypeOK
<1> QED BY <1>1, EditorInductive, PTL DEF EditorSpec

(***************************************************************************)
(* For lists, addresses and validations of any number and size: a network  *)
(* deleted while no validation is under way stays away until it is sent    *)
(* again.                                                                  *)
(***************************************************************************)
THEOREM DeletedStays == EditorSpec => []DeletedStaysDeleted
<1>1. EditorInv => DeletedStaysDeleted
  BY DEF EditorInv, ListOK, DeletedStaysDeleted, ToSet
<1> QED BY <1>1, EditorInductive, PTL DEF EditorSpec

---------------------------------------------------------------------------
(* Notifications *)

Stages == {"free", "locking", "send", "shown", "refused", "listening", "closing"}
Plain(id) == ~screen[id].buttons

\* Ids only grow; only plain tasks wait for a lock or listen to nothing; what
\* goes without buttons is never the help of the first run.
ScreenOK ==
  /\ given \in 0..MaxIds
  /\ screen \in [DOMAIN screen -> [key : Keys, buttons : BOOLEAN]]
  /\ DOMAIN screen \subseteq 1..given
  /\ \A id \in DOMAIN screen : Plain(id) => screen[id].key \in Names

KeptOK ==
  /\ DOMAIN kept \subseteq Keys
  /\ \A key \in DOMAIN kept : kept[key] \in 1..given
  /\ clicked \subseteq Tasks /\ closed \subseteq Tasks
  /\ slipped \subseteq Keys /\ dead \subseteq 1..given

Futures == [at : Stages, key : Keys, buttons : BOOLEAN, id : Nat]

FutureOK(x, newest) ==
  /\ x \in Futures /\ x.id <= newest
  /\ x.at \in {"shown", "listening", "closing"} => x.id # 0
  /\ x.at # "free" /\ ~x.buttons => x.key \in Names
  /\ x.at = "send" /\ x.buttons => x.id = 0
  /\ x.at = "locking" => ~x.buttons

TasksOK == task \in [Tasks -> Futures] /\ \A t \in Tasks : FutureOK(task[t], given)

ToastsOK == ScreenOK /\ KeptOK /\ TasksOK

LEMMA ToastsBegin == NotificationInit => ToastsOK
<1> SUFFICES ASSUME NotificationInit PROVE ToastsOK
  OBVIOUS
<1>1. HelpKey \in Keys /\ Free \in Futures
  BY DEF Keys, Free, Stages, Futures
<1>2. TasksOK
  <2>1. FutureOK(Free, given)
    BY <1>1 DEF FutureOK, Free, NotificationInit
  <2>2. task \in [Tasks -> Futures] /\ \A t \in Tasks : task[t] = Free
    BY <1>1 DEF NotificationInit
  <2> QED BY <2>1, <2>2 DEF TasksOK
<1>3. ScreenOK
  BY NotificationAssumption DEF NotificationInit, ScreenOK
<1>4. KeptOK
  BY DEF NotificationInit, KeptOK
<1> QED BY <1>2, <1>3, <1>4 DEF ToastsOK

\* A task that becomes, or is replaced by, another one.
LEMMA TaskSteps ==
  ASSUME TasksOK, given \in Nat, given' \in Nat, given <= given', NEW t \in Tasks,
         NEW x, FutureOK(x, given'), task' = [task EXCEPT ![t] = x]
  PROVE  TasksOK'
<1>1. task' \in [Tasks -> Futures]
  BY DEF TasksOK, FutureOK
<1>2. ASSUME NEW u \in Tasks PROVE FutureOK(task'[u], given')
  <2>1. CASE u = t
    <3>1. task'[u] = x
      BY <2>1 DEF TasksOK
    <3> QED BY <3>1
  <2>2. CASE u # t
    <3>1. task'[u] = task[u]
      BY <2>2 DEF TasksOK
    <3>2. FutureOK(task[u], given) /\ task[u].id \in Nat
      BY DEF TasksOK, Futures
    <3> QED BY <3>1, <3>2 DEF FutureOK
  <2> QED BY <2>1, <2>2
<1> QED BY <1>1, <1>2 DEF TasksOK

\* What Notify does, in its three outcomes.
LEMMA NotifyTyped ==
  ASSUME ToastsOK, NEW t \in Tasks, Notify(t)
  PROVE  ToastsOK'
<1> DEFINE toast == [key |-> task[t].key, buttons |-> task[t].buttons]
           id == task[t].id
           new == given + 1
<1>1. /\ task[t] \in Futures
      /\ id \in Nat /\ id <= given /\ given \in Nat /\ At(t, "send")
  BY DEF ToastsOK, TasksOK, FutureOK, Futures, ScreenOK, Notify
<1>2. toast \in [key : Keys, buttons : BOOLEAN] /\ (~toast.buttons => toast.key \in Names)
  BY <1>1 DEF ToastsOK, TasksOK, FutureOK, Futures, At
<1>3. UNCHANGED <<up, kept, clicked, closed, service, slipped, dead>>
  BY DEF Notify, signals, lapses
<1>4. CASE /\ id \in DOMAIN screen
           /\ screen' = [screen EXCEPT ![id] = toast]
           /\ Goes(t, "shown") /\ UNCHANGED given
  <2>1. id # 0
    BY <1>4 DEF ToastsOK, ScreenOK
  <2>2. TasksOK'
    <3> DEFINE x == [task[t] EXCEPT !.at = "shown"]
    <3>1. task' = [task EXCEPT ![t] = x]
      BY <1>4 DEF Goes
    <3>2. /\ x \in Futures
          /\ x.at = "shown" /\ x.id = id /\ x.key = task[t].key /\ x.buttons = task[t].buttons
      BY <1>1 DEF Stages, Futures
    <3> HIDE DEF x
    <3>3. FutureOK(x, given')
      BY <1>1, <1>2, <1>4, <2>1, <3>2 DEF FutureOK
    <3>4. given' \in Nat /\ given <= given'
      BY <1>1, <1>4
    <3> QED BY <1>1, <3>1, <3>3, <3>4, TaskSteps DEF ToastsOK
  <2>3. ScreenOK'
    BY <1>2, <1>4 DEF ToastsOK, ScreenOK, Plain
  <2>4. KeptOK'
    BY <1>3, <1>4 DEF ToastsOK, KeptOK
  <2> QED BY <2>2, <2>3, <2>4 DEF ToastsOK
<1>5. CASE /\ id \notin DOMAIN screen /\ up /\ new <= MaxIds
           /\ given' = new
           /\ screen' = [i \in DOMAIN screen \cup {new} |-> IF i = new THEN toast ELSE screen[i]]
           /\ task' = [task EXCEPT ![t].at = "shown", ![t].id = new]
  <2>1. new \in Nat /\ given <= new /\ new # 0 /\ new \notin DOMAIN screen
    BY <1>1 DEF ToastsOK, ScreenOK
  <2>2. TasksOK'
    <3> DEFINE x == [task[t] EXCEPT !.at = "shown", !.id = new]
    <3>1. task' = [task EXCEPT ![t] = x]
      BY <1>5 DEF TasksOK, ToastsOK
    <3>2. /\ x \in Futures
          /\ x.at = "shown" /\ x.id = new /\ x.key = task[t].key /\ x.buttons = task[t].buttons
      BY <1>1, <2>1 DEF Stages, Futures
    <3> HIDE DEF x
    <3>3. FutureOK(x, given')
      BY <1>1, <1>2, <1>5, <2>1, <3>2 DEF FutureOK
    <3> QED BY <1>1, <1>5, <2>1, <3>1, <3>3, TaskSteps DEF ToastsOK
  <2>3. ScreenOK'
    <3>1. given' \in 0..MaxIds
      BY <1>1, <1>5, NotificationAssumption
    <3>2. DOMAIN screen' = DOMAIN screen \cup {new} /\ DOMAIN screen' \subseteq 1..given'
      BY <1>1, <1>5 DEF ToastsOK, ScreenOK
    <3>3. ASSUME NEW i \in DOMAIN screen'
          PROVE  /\ screen'[i] \in [key : Keys, buttons : BOOLEAN]
                 /\ ~screen'[i].buttons => screen'[i].key \in Names
      BY <1>2, <1>5, <3>2 DEF ToastsOK, ScreenOK, Plain
    <3>4. screen' \in [DOMAIN screen' -> [key : Keys, buttons : BOOLEAN]]
      BY <1>5, <3>3
    <3> QED BY <3>1, <3>2, <3>3, <3>4 DEF ScreenOK, Plain
  <2>4. KeptOK'
    BY <1>1, <1>3, <1>5 DEF ToastsOK, KeptOK, ScreenOK
  <2> QED BY <2>2, <2>3, <2>4 DEF ToastsOK
<1>6. CASE Goes(t, "refused") /\ UNCHANGED <<screen, given>>
  <2>1. TasksOK'
    <3> DEFINE x == [task[t] EXCEPT !.at = "refused"]
    <3>1. task' = [task EXCEPT ![t] = x]
      BY <1>6 DEF Goes
    <3>2. /\ x \in Futures
          /\ x.at = "refused" /\ x.id = id /\ x.key = task[t].key /\ x.buttons = task[t].buttons
      BY <1>1 DEF Stages, Futures
    <3> HIDE DEF x
    <3>3. FutureOK(x, given')
      BY <1>1, <1>2, <1>6, <3>2 DEF FutureOK
    <3>4. given' \in Nat /\ given <= given'
      BY <1>1, <1>6
    <3> QED BY <1>1, <3>1, <3>3, <3>4, TaskSteps DEF ToastsOK
  <2> QED BY <1>3, <1>6, <2>1 DEF ToastsOK, ScreenOK, KeptOK, Plain
<1> QED BY <1>4, <1>5, <1>6 DEF Notify

\* A task that is done.
LEMMA FreeTyped ==
  ASSUME ToastsOK, NEW t \in Tasks, task' = [task EXCEPT ![t] = Free], given' = given
  PROVE  TasksOK'
<1>1. given \in Nat
  BY DEF ToastsOK, ScreenOK
<1>2. FutureOK(Free, given')
  BY <1>1 DEF FutureOK, Keys, Free, Stages, Futures
<1>3. given' \in Nat /\ given <= given'
  BY <1>1
<1> QED BY <1>1, <1>2, <1>3, TaskSteps DEF ToastsOK

\* A task that only goes on to its next stage.
LEMMA GoesTyped ==
  ASSUME ToastsOK, NEW t \in Tasks, NEW place \in Stages, Goes(t, place), given' = given,
         place \notin {"send", "locking"}, ~At(t, "free"), task[t].id # 0
  PROVE  TasksOK'
<1> DEFINE x == [task[t] EXCEPT !.at = place]
<1>1. /\ task[t] \in Futures
      /\ task[t].id <= given /\ given \in Nat
  BY DEF ToastsOK, TasksOK, FutureOK, ScreenOK
<1>2. task' = [task EXCEPT ![t] = x]
  BY DEF Goes
<1>3. /\ x \in Futures
      /\ x.at = place /\ x.id = task[t].id /\ x.key = task[t].key
      /\ x.buttons = task[t].buttons
  BY <1>1 DEF Futures
<1> HIDE DEF x
<1>4. FutureOK(x, given')
  BY <1>1, <1>3 DEF ToastsOK, TasksOK, FutureOK, At
<1>5. given' \in Nat /\ given <= given'
  BY <1>1
<1> QED BY <1>1, <1>2, <1>4, <1>5, TaskSteps DEF ToastsOK

\* Toasts only leave the screen.
LEMMA ForgetTyped ==
  ASSUME ToastsOK, NEW out, screen' = Without(screen, out), given' = given
  PROVE  ScreenOK'
BY DEF ToastsOK, ScreenOK, Without, Restrict, Plain

LEMMA ResolveTyped ==
  ASSUME ToastsOK, NEW key \in Keys
  PROVE  Resolve(key) \in Nat /\ Resolve(key) <= given /\ given \in Nat
BY DEF ToastsOK, KeptOK, ScreenOK, Resolve

\* A step of a future that touches neither the screen nor the map of ids.
LEMMA OnlyTaskTyped ==
  ASSUME ToastsOK, UNCHANGED <<screen, given, kept>>, clicked' \subseteq Tasks,
         closed' \subseteq Tasks, slipped' \subseteq Keys, dead' \subseteq 1..given, TasksOK'
  PROVE  ToastsOK'
BY DEF ToastsOK, ScreenOK, KeptOK, Plain

LEMMA PlainStepsTyped ==
  ASSUME ToastsOK, NEW t \in Tasks,
         \/ \E key \in Names : Shows(t, key)
         \/ Reads(t) \/ Unreadable(t) \/ IdRefused(t)
         \/ \E key \in Keys : Prompts(t, key)
  PROVE  ToastsOK'
<1>1. /\ task[t] \in Futures /\ FutureOK(task[t], given) /\ given \in Nat
      /\ clicked \subseteq Tasks /\ closed \subseteq Tasks
      /\ slipped \subseteq Keys /\ dead \subseteq 1..given
  BY DEF ToastsOK, TasksOK, ScreenOK, KeptOK
<1>2. /\ Free \in Futures
      /\ Free.at = "free" /\ Free.buttons = FALSE /\ Free.id = 0
  BY DEF Free, Keys, Futures, Stages
<1>3. given' = given => given' \in Nat /\ given <= given'
  BY <1>1
<1>4. ASSUME NEW key \in Names, Shows(t, key) PROVE ToastsOK'
  <2> DEFINE x == [Free EXCEPT !.at = "locking", !.key = key]
  <2>1. /\ x \in Futures /\ x.at = "locking" /\ x.buttons = FALSE
        /\ x.id = 0 /\ x.key = key /\ given' = given
    BY <1>2, <1>4 DEF Futures, Stages, Keys, Shows
  <2>2. task' = [task EXCEPT ![t] = x]
    BY <1>4 DEF Shows
  <2> HIDE DEF x
  <2>3. FutureOK(x, given')
    BY <1>1, <2>1 DEF FutureOK
  <2>4. TasksOK'
    BY <1>1, <1>3, <1>4, <2>3, <2>2, TaskSteps DEF ToastsOK, Shows
  <2> QED BY <1>1, <1>4, <2>4, OnlyTaskTyped DEF Shows, signals, lapses
<1>5. CASE Reads(t)
  <2> DEFINE x == [task[t] EXCEPT !.at = "send", !.id = Resolve(task[t].key)]
  <2>1. task[t].key \in Keys
    BY <1>1 DEF Futures
  <2>2. Resolve(task[t].key) \in Nat /\ Resolve(task[t].key) <= given
    BY <2>1, ResolveTyped
  <2>3. x \in Futures /\ x.at = "send" /\ x.id = Resolve(task[t].key) /\ x.buttons = task[t].buttons
        /\ x.key = task[t].key
    BY <1>1, <2>2 DEF Futures, Stages
  <2>4. task' = [task EXCEPT ![t] = x]
    BY <1>5 DEF Reads, ToastsOK, TasksOK
  <2> HIDE DEF x
  <2>5. FutureOK(x, given')
    BY <1>1, <1>5, <2>2, <2>3 DEF FutureOK, Reads, At
  <2>6. TasksOK'
    BY <1>1, <1>3, <1>5, <2>4, <2>5, TaskSteps DEF ToastsOK, Reads
  <2> QED BY <1>1, <1>5, <2>6, OnlyTaskTyped DEF Reads, signals, lapses
<1>6. CASE Unreadable(t)
  <2>1. TasksOK'
    BY <1>6, FreeTyped DEF Unreadable
  <2>2. task[t].key \in Keys
    BY <1>1 DEF Futures
  <2> QED BY <1>1, <1>6, <2>1, <2>2, OnlyTaskTyped
                DEF Unreadable, signals, FutureOK, At, Futures
<1>7. CASE IdRefused(t)
  <2>1. CASE task[t].id = 0
    <3>1. task' = [task EXCEPT ![t] = Free] /\ given' = given
      BY <1>7, <2>1 DEF IdRefused, ToastsOK, TasksOK
    <3>2. TasksOK'
      BY <3>1, FreeTyped
    <3> QED BY <1>1, <1>7, <3>2, OnlyTaskTyped DEF IdRefused, signals, lapses
  <2>2. CASE task[t].id # 0
    <3> DEFINE x == [task[t] EXCEPT !.at = "send", !.id = 0]
    <3>1. task' = [task EXCEPT ![t] = x] /\ given' = given
      BY <1>7, <2>2 DEF IdRefused, ToastsOK, TasksOK
    <3>2. x \in Futures /\ x.at = "send" /\ x.id = 0 /\ x.buttons = task[t].buttons
          /\ x.key = task[t].key
      BY <1>1 DEF Futures, Stages
    <3> HIDE DEF x
    <3>3. FutureOK(x, given')
      BY <1>1, <1>7, <3>1, <3>2 DEF FutureOK, IdRefused, At
    <3>4. TasksOK'
      BY <1>1, <1>3, <3>1, <3>3, TaskSteps DEF ToastsOK
    <3> QED BY <1>1, <1>7, <3>4, OnlyTaskTyped DEF IdRefused, signals, lapses
  <2> QED BY <2>1, <2>2
<1>8. ASSUME NEW key \in Keys, Prompts(t, key) PROVE ToastsOK'
  <2> DEFINE x == [Free EXCEPT !.at = "send", !.key = key, !.buttons = TRUE]
  <2>1. /\ x \in Futures /\ x.at = "send" /\ x.buttons = TRUE
        /\ x.id = 0 /\ x.key = key /\ given' = given
    BY <1>2, <1>8 DEF Futures, Stages, Prompts
  <2>2. task' = [task EXCEPT ![t] = x]
    BY <1>8 DEF Prompts
  <2> HIDE DEF x
  <2>3. FutureOK(x, given')
    BY <1>1, <2>1 DEF FutureOK
  <2>4. TasksOK'
    BY <1>1, <1>3, <1>8, <2>3, <2>2, TaskSteps DEF ToastsOK, Prompts
  <2> QED BY <1>1, <1>8, <2>4, OnlyTaskTyped DEF Prompts, signals, lapses
<1> QED BY <1>4, <1>5, <1>6, <1>7, <1>8

LEMMA ButtonStepsTyped ==
  ASSUME ToastsOK, NEW t \in Tasks,
         Listens(t) \/ Presses(t) \/ Handles(t) \/ UserCloses(t) \/ HearsClosed(t) \/ Records(t)
  PROVE  ToastsOK'
<1>1. /\ task[t] \in Futures /\ FutureOK(task[t], given) /\ given \in Nat
      /\ clicked \subseteq Tasks /\ closed \subseteq Tasks
      /\ slipped \subseteq Keys /\ dead \subseteq 1..given
  BY DEF ToastsOK, TasksOK, ScreenOK, KeptOK
<1>2. task[t].key \in Keys
  BY <1>1 DEF Futures
<1>3. task[t].at = "shown" => task[t].id \in 1..given
  BY <1>1 DEF FutureOK, Futures
<1>4. CASE Listens(t)
  <2>1. TasksOK'
    <3>1. task[t].id # 0 /\ ~At(t, "free") /\ Goes(t, "listening") /\ given' = given
      BY <1>1, <1>4 DEF Listens, At, FutureOK
    <3> QED BY <3>1, GoesTyped DEF Stages
  <2>2. ScreenOK'
    BY <1>4 DEF ToastsOK, ScreenOK, Listens, Plain
  <2>3. KeptOK'
    BY <1>1, <1>2, <1>3, <1>4 DEF ToastsOK, KeptOK, Listens, At, signals
  <2> QED BY <2>1, <2>2, <2>3 DEF ToastsOK
<1>5. CASE Presses(t)
  <2>1. TasksOK'
    BY <1>5 DEF Presses, ToastsOK, TasksOK
  <2> QED BY <1>1, <1>5, <2>1, OnlyTaskTyped DEF Presses, signals, lapses
<1>6. CASE Handles(t)
  <2>1. TasksOK'
    <3>1. task[t].id # 0 /\ ~At(t, "free") /\ Goes(t, "closing") /\ given' = given
      BY <1>1, <1>6 DEF Handles, At, FutureOK
    <3> QED BY <3>1, GoesTyped DEF Stages
  <2> QED BY <1>1, <1>6, <2>1, OnlyTaskTyped DEF Handles, signals, lapses
<1>7. CASE UserCloses(t)
  <2>1. TasksOK'
    BY <1>7, FreeTyped DEF UserCloses
  <2>2. ScreenOK'
    <3>1. CASE screen' = Without(screen, {task[t].id})
      BY <1>7, <3>1, ForgetTyped DEF UserCloses
    <3>2. CASE UNCHANGED screen
      BY <1>7, <3>2 DEF ToastsOK, ScreenOK, UserCloses, Plain
    <3> QED BY <1>7, <3>1, <3>2 DEF UserCloses
  <2>3. KeptOK'
    <3>1. task[t].id \in 1..given
      BY <1>1, <1>7 DEF FutureOK, Futures, UserCloses, At
    <3>2. closed' \subseteq Tasks /\ dead' \subseteq 1..given
      BY <1>1, <1>7, <3>1 DEF UserCloses, Hearers
    <3> QED BY <1>7, <3>2 DEF ToastsOK, KeptOK, UserCloses
  <2> QED BY <2>1, <2>2, <2>3 DEF ToastsOK
<1>8. CASE HearsClosed(t)
  <2>1. TasksOK'
    BY <1>8, FreeTyped DEF HearsClosed
  <2> QED BY <1>1, <1>8, <2>1, OnlyTaskTyped DEF HearsClosed, signals, lapses
<1>9. CASE Records(t)
  <2>1. TasksOK'
    BY <1>9, FreeTyped DEF Records
  <2>2. ScreenOK'
    BY <1>9 DEF ToastsOK, ScreenOK, Records, Plain
  <2>3. KeptOK'
    <3> DEFINE rest == IF Cardinality(DOMAIN kept) >= MaxKept THEN <<>> ELSE kept
    <3>1. DOMAIN rest \subseteq DOMAIN kept /\ \A k \in DOMAIN rest : rest[k] = kept[k]
      OBVIOUS
    <3>2. kept' = [k \in DOMAIN rest \cup {task[t].key} |->
                     IF k = task[t].key THEN task[t].id ELSE rest[k]]
      BY <1>9 DEF Records, Record
    <3>3. /\ slipped' = slipped \cup (DOMAIN kept \ DOMAIN kept')
          /\ given' = given /\ UNCHANGED <<clicked, closed, dead>>
      BY <1>9 DEF Records, Record, signals
    <3> HIDE DEF rest
    <3>4. DOMAIN kept' \subseteq Keys /\ \A k \in DOMAIN kept' : kept'[k] \in 1..given'
      BY <1>2, <1>3, <1>9, <3>1, <3>2, <3>3 DEF ToastsOK, KeptOK, Records, At
    <3> QED BY <3>3, <3>4 DEF ToastsOK, KeptOK
  <2> QED BY <2>1, <2>2, <2>3 DEF ToastsOK
<1> QED BY <1>4, <1>5, <1>6, <1>7, <1>8, <1>9

\* Type correctness of the notifications.
LEMMA ToastsTyped ==
  /\ NotificationInit => ToastsOK
  /\ ToastsOK /\ [NotificationNext]_notificationVars => ToastsOK'
<1>1. ASSUME ToastsOK, [NotificationNext]_notificationVars PROVE ToastsOK'
  <2>1. CASE Clears
    <3>1. KeptOK'
      BY <1>1, <2>1 DEF ToastsOK, KeptOK, Clears, signals
    <3> QED BY <1>1, <2>1, <3>1 DEF ToastsOK, ScreenOK, TasksOK, Clears, Plain
  <2>2. CASE Withdraws
    <3>1. ScreenOK'
      <4>1. CASE screen' = Without(screen, {Resolve(HelpKey)})
        BY <1>1, <2>2, <4>1, ForgetTyped DEF Withdraws
      <4>2. CASE UNCHANGED screen
        BY <1>1, <2>2, <4>2 DEF ToastsOK, ScreenOK, Withdraws, Plain
      <4> QED BY <2>2, <4>1, <4>2 DEF Withdraws
    <3>2. closed' \subseteq Tasks
      BY <1>1, <2>2 DEF ToastsOK, KeptOK, Withdraws, Hearers
    <3>3. KeptOK' /\ TasksOK'
      BY <1>1, <2>2, <3>2 DEF ToastsOK, KeptOK, TasksOK, Withdraws, Without, Restrict, lapses
    <3> QED BY <3>1, <3>3 DEF ToastsOK
  <2>3. ASSUME NEW id \in DOMAIN screen, Reaps(id) PROVE ToastsOK'
    <3>1. ScreenOK'
      BY <1>1, <2>3, ForgetTyped DEF Reaps
    <3>2. closed' \subseteq Tasks
      BY <1>1, <2>3 DEF ToastsOK, KeptOK, Reaps, Hearers
    <3> QED BY <1>1, <2>3, <3>1, <3>2 DEF ToastsOK, KeptOK, TasksOK, Reaps, lapses
  <2>4. CASE Stops
    BY <1>1, <2>4 DEF ToastsOK, ScreenOK, KeptOK, TasksOK, Stops, Plain, signals, lapses
  <2>5. CASE UNCHANGED notificationVars
    BY <1>1, <2>5 DEF ToastsOK, ScreenOK, KeptOK, TasksOK, notificationVars, Plain, signals, lapses
  <2> QED BY <1>1, <2>1, <2>2, <2>3, <2>4, <2>5, NotifyTyped, PlainStepsTyped,
             ButtonStepsTyped DEF NotificationNext
<1> QED BY <1>1, ToastsBegin

(***************************************************************************)
(* Ids, keys and what is kept of them have their types: no id is kept that *)
(* the daemon has not given out.                                           *)
(***************************************************************************)
THEOREM NotificationTypeCorrect == NotificationSpec => []NotificationTypeOK
<1>1. ToastsOK => NotificationTypeOK
  BY DEF ToastsOK, ScreenOK, KeptOK, NotificationTypeOK, Range
<1> QED BY <1>1, ToastsTyped, PTL DEF NotificationSpec

(***************************************************************************)
(* A toast with buttons has a task of its own that shows it, listens or    *)
(* closes it.                                                              *)
(***************************************************************************)
Attends(t, id) ==
  task[t].buttons /\ task[t].id = id /\ task[t].at \in {"shown", "listening", "closing"}

Attended ==
  \A id \in DOMAIN screen \ dead : screen[id].buttons => \E t \in Tasks : Attends(t, id)

\* Steps that show no new buttons and whose task keeps what it attends to, as
\* long as that is on the screen.
LEMMA AttendSteps ==
  ASSUME ToastsOK, Attended, NEW t \in Tasks, NEW x, task' = [task EXCEPT ![t] = x],
         dead \subseteq dead',
         \A id \in DOMAIN screen' \ dead' :
           /\ screen'[id].buttons => id \in DOMAIN screen /\ screen[id].buttons
           /\ Attends(t, id) =>
                x.buttons /\ x.id = id /\ x.at \in {"shown", "listening", "closing"}
  PROVE  Attended'
<1> SUFFICES ASSUME NEW id \in DOMAIN screen' \ dead', screen'[id].buttons
             PROVE  \E u \in Tasks : Attends(u, id)'
  BY DEF Attended
<1>1. PICK u \in Tasks : Attends(u, id)
  BY DEF Attended
<1>2. DOMAIN task = Tasks
  BY DEF ToastsOK, TasksOK
<1>3. CASE u = t
  BY <1>1, <1>2, <1>3 DEF Attends
<1>4. CASE u # t
  <2>1. task'[u] = task[u]
    BY <1>2, <1>4
  <2> QED BY <1>1, <2>1 DEF Attends
<1> QED BY <1>3, <1>4

\* Who has a NotificationClosed in its stream listens for a toast that is gone.
ClosedAreGone == \A t \in closed : At(t, "listening") /\ task[t].id \notin DOMAIN screen

LEMMA ClosesTold ==
  ASSUME ToastsOK, ClosedAreGone, NEW id, screen' = Without(screen, {id}),
         closed' = closed \cup Hearers(id),
         \A u \in Tasks : At(u, "listening") => task'[u] = task[u]
  PROVE  ClosedAreGone'
BY DEF ToastsOK, KeptOK, Without, Restrict, ClosedAreGone, At, Hearers

\* A step of a task that is not listening, or stops, leaves the others alone.
LEMMA StepTold ==
  ASSUME ToastsOK, ClosedAreGone, NEW t \in Tasks, closed' \subseteq closed,
         t \notin closed', \A u \in Tasks \ {t} : task'[u] = task[u],
         DOMAIN screen' \subseteq DOMAIN screen \cup {given + 1}
  PROVE  ClosedAreGone'
<1> SUFFICES ASSUME NEW u \in closed'
             PROVE  At(u, "listening")' /\ task'[u].id \notin DOMAIN screen'
  BY DEF ClosedAreGone
<1>1. u \in Tasks /\ u \in closed /\ u # t /\ task'[u] = task[u]
  BY DEF ToastsOK, KeptOK
<1>2. task[u].id \in Nat /\ task[u].id <= given /\ given \in Nat
  BY <1>1 DEF ToastsOK, ScreenOK, TasksOK, FutureOK, Futures
<1> QED BY <1>1, <1>2 DEF ClosedAreGone, At

LEMMA ToldInductive ==
  /\ NotificationInit => ClosedAreGone
  /\ ToastsOK /\ ClosedAreGone /\ [NotificationNext]_notificationVars => ClosedAreGone'
<1>1. NotificationInit => ClosedAreGone
  BY DEF NotificationInit, ClosedAreGone
<1>2. ASSUME ToastsOK, ClosedAreGone, [NotificationNext]_notificationVars PROVE ClosedAreGone'
  <2>1. task \in [Tasks -> Futures]
    BY <1>2 DEF ToastsOK, TasksOK
  <2>2. ASSUME NEW t \in Tasks,
               \/ \E key \in Names : Shows(t, key)
               \/ \E key \in Keys : Prompts(t, key)
               \/ Reads(t) \/ Records(t) \/ Unreadable(t) \/ IdRefused(t) \/ Listens(t)
        PROVE  ClosedAreGone'
    <3>1. closed' = closed /\ screen' = screen /\ ~At(t, "listening")
      BY <2>2 DEF Shows, Prompts, Reads, Records, Unreadable, IdRefused, Listens, At, signals
    <3>2. \A u \in Tasks \ {t} : task'[u] = task[u]
      BY <2>1, <2>2 DEF Shows, Prompts, Reads, Records, Unreadable, IdRefused, Listens, Goes
    <3> QED BY <1>2, <3>1, <3>2, StepTold DEF ClosedAreGone
  <2>3. ASSUME NEW t \in Tasks, Notify(t) PROVE ClosedAreGone'
    <3>1. closed' = closed /\ ~At(t, "listening")
      BY <2>3 DEF Notify, At, signals
    <3>2. /\ \A u \in Tasks \ {t} : task'[u] = task[u]
          /\ DOMAIN screen' \subseteq DOMAIN screen \cup {given + 1}
      BY <1>2, <2>1, <2>3 DEF Notify, Goes, ToastsOK, ScreenOK
    <3> QED BY <1>2, <3>1, <3>2, StepTold DEF ClosedAreGone
  <2>4. ASSUME NEW t \in Tasks, Handles(t) \/ HearsClosed(t) PROVE ClosedAreGone'
    <3>1. closed' = closed \ {t} /\ screen' = screen
      BY <2>4 DEF Handles, HearsClosed
    <3>2. \A u \in Tasks \ {t} : task'[u] = task[u]
      BY <2>1, <2>4 DEF Handles, HearsClosed, Goes
    <3> QED BY <1>2, <3>1, <3>2, StepTold
  <2>5. ASSUME NEW t \in Tasks, UserCloses(t) PROVE ClosedAreGone'
    <3>1. ~At(t, "listening") /\ task' = [task EXCEPT ![t] = Free]
      BY <2>5 DEF UserCloses, At
    <3>2. \A u \in Tasks : At(u, "listening") => task'[u] = task[u]
      BY <2>1, <3>1 DEF At
    <3>3. CASE /\ screen' = Without(screen, {task[t].id})
               /\ closed' = closed \cup Hearers(task[t].id)
      BY <1>2, <3>2, <3>3, ClosesTold
    <3>4. CASE UNCHANGED <<screen, closed>>
      BY <1>2, <3>1, <3>2, <3>4, StepTold DEF ClosedAreGone, ToastsOK, KeptOK, At
    <3> QED BY <2>5, <3>3, <3>4 DEF UserCloses
  <2>6. ASSUME NEW id \in DOMAIN screen, Reaps(id) PROVE ClosedAreGone'
    BY <1>2, <2>6, ClosesTold DEF Reaps
  <2>7. CASE Withdraws
    <3>1. task' = task
      BY <2>7 DEF Withdraws
    <3>2. CASE /\ screen' = Without(screen, {Resolve(HelpKey)})
               /\ closed' = closed \cup Hearers(Resolve(HelpKey))
      BY <1>2, <3>1, <3>2, ClosesTold
    <3>3. CASE UNCHANGED <<screen, closed>>
      BY <1>2, <3>1, <3>3 DEF ClosedAreGone, At
    <3> QED BY <2>7, <3>2, <3>3 DEF Withdraws
  <2>8. CASE (\E t \in Tasks : Presses(t)) \/ Clears \/ Stops \/ UNCHANGED notificationVars
    BY <1>2, <2>8 DEF Presses, Clears, Stops, notificationVars, signals, ClosedAreGone, At
  <2> QED BY <1>2, <2>2, <2>3, <2>4, <2>5, <2>6, <2>7, <2>8 DEF NotificationNext
<1> QED BY <1>1, <1>2

LEMMA NotifyAttended ==
  ASSUME ToastsOK, Attended, NEW t \in Tasks, Notify(t)
  PROVE  Attended'
<1> DEFINE toast == [key |-> task[t].key, buttons |-> task[t].buttons]
           id == task[t].id
           new == given + 1
<1>1. /\ task[t] \in Futures /\ At(t, "send") /\ task \in [Tasks -> Futures]
      /\ (task[t].buttons => id = 0) /\ ~\E i \in DOMAIN screen : Attends(t, i)
  BY DEF ToastsOK, TasksOK, FutureOK, Notify, At, Attends
<1>2. 0 \notin DOMAIN screen /\ new \notin DOMAIN screen
  BY DEF ToastsOK, ScreenOK
<1>3. CASE /\ id \in DOMAIN screen
           /\ screen' = [screen EXCEPT ![id] = toast]
           /\ Goes(t, "shown") /\ UNCHANGED given
  <2> DEFINE x == [task[t] EXCEPT !.at = "shown"]
  <2>1. task' = [task EXCEPT ![t] = x]
    BY <1>3 DEF Goes
  <2>2. ~task[t].buttons
    BY <1>1, <1>2, <1>3
  <2>3. ASSUME NEW i \in DOMAIN screen'
        PROVE  /\ screen'[i].buttons => i \in DOMAIN screen /\ screen[i].buttons
               /\ ~Attends(t, i)
    BY <1>1, <1>3, <2>2 DEF ToastsOK, ScreenOK
  <2>4. dead' = dead
    BY DEF Notify, lapses
  <2> HIDE DEF x
  <2> QED BY <2>1, <2>3, <2>4, AttendSteps
<1>4. CASE /\ id \notin DOMAIN screen /\ up /\ new <= MaxIds
           /\ given' = new
           /\ screen' = [i \in DOMAIN screen \cup {new} |-> IF i = new THEN toast ELSE screen[i]]
           /\ task' = [task EXCEPT ![t].at = "shown", ![t].id = new]
  <2>1. /\ task'[t].at = "shown" /\ task'[t].id = new /\ task'[t].buttons = task[t].buttons
        /\ \A u \in Tasks \ {t} : task'[u] = task[u]
    BY <1>1, <1>4 DEF Futures
  <2>2. ASSUME NEW i \in DOMAIN screen' \ dead', screen'[i].buttons
        PROVE  \E u \in Tasks : Attends(u, i)'
    <3>1. CASE i = new
      <4>1. task[t].buttons
        BY <1>4, <2>2, <3>1
      <4> QED BY <2>1, <3>1, <4>1 DEF Attends
    <3>2. CASE i # new
      <4>1. i \in DOMAIN screen \ dead /\ screen[i].buttons
        BY <1>4, <2>2, <3>2 DEF Notify, lapses
      <4>2. PICK u \in Tasks : Attends(u, i)
        BY <4>1 DEF Attended
      <4>3. task'[u] = task[u]
        BY <1>1, <2>1, <4>1, <4>2
      <4> QED BY <4>2, <4>3 DEF Attends
    <3> QED BY <3>1, <3>2
  <2> QED BY <2>2 DEF Attended
<1>5. CASE Goes(t, "refused") /\ UNCHANGED <<screen, given>>
  <2> DEFINE x == [task[t] EXCEPT !.at = "refused"]
  <2>1. task' = [task EXCEPT ![t] = x]
    BY <1>5 DEF Goes
  <2>2. \A i \in DOMAIN screen' :
          /\ screen'[i].buttons => i \in DOMAIN screen /\ screen[i].buttons
          /\ ~Attends(t, i)
    BY <1>1, <1>5
  <2>3. dead' = dead
    BY DEF Notify, lapses
  <2> HIDE DEF x
  <2> QED BY <2>1, <2>2, <2>3, AttendSteps
<1> QED BY <1>3, <1>4, <1>5 DEF Notify

\* The other steps of a task whose toast has no buttons or is not there yet.
LEMMA OtherStepsAttended ==
  ASSUME ToastsOK, Attended, NEW t \in Tasks,
         \/ \E key \in Names : Shows(t, key)
         \/ \E key \in Keys : Prompts(t, key)
         \/ Reads(t) \/ Unreadable(t) \/ IdRefused(t) \/ Records(t)
  PROVE  Attended'
<1>1. /\ screen' = screen /\ dead \subseteq dead'
      /\ \A id : Attends(t, id) => id \in dead'
  BY DEF Shows, Prompts, Reads, Unreadable, IdRefused, Records, Attends, At, lapses
<1>2. task \in [Tasks -> Futures]
  BY DEF ToastsOK, TasksOK
<1>3. \A u \in Tasks \ {t} : task'[u] = task[u]
  BY <1>2 DEF Shows, Prompts, Reads, Unreadable, IdRefused, Records
<1> SUFFICES ASSUME NEW id \in DOMAIN screen \ dead', screen[id].buttons
             PROVE  \E u \in Tasks : Attends(u, id)'
  BY <1>1 DEF Attended
<1>4. PICK u \in Tasks : Attends(u, id)
  BY <1>1 DEF Attended
<1>5. task'[u] = task[u]
  BY <1>1, <1>3, <1>4
<1> QED BY <1>4, <1>5 DEF Attends

LEMMA ButtonStepsAttended ==
  ASSUME ToastsOK, ClosedAreGone, Attended, NEW t \in Tasks,
         Listens(t) \/ Presses(t) \/ Handles(t) \/ UserCloses(t) \/ HearsClosed(t)
  PROVE  Attended'
<1>1. task \in [Tasks -> Futures] /\ task[t] \in Futures
  BY DEF ToastsOK, TasksOK
<1>2. ASSUME NEW place \in {"listening", "closing"}, Goes(t, place), screen' = screen,
             dead' = dead
      PROVE  Attended'
  <2> DEFINE x == [task[t] EXCEPT !.at = place]
  <2>1. task' = [task EXCEPT ![t] = x]
    BY <1>2 DEF Goes
  <2>2. x.at = place /\ x.id = task[t].id /\ x.buttons = task[t].buttons
    BY <1>1 DEF Futures
  <2>3. \A id \in DOMAIN screen' :
          /\ screen'[id].buttons => id \in DOMAIN screen /\ screen[id].buttons
          /\ Attends(t, id) =>
               x.buttons /\ x.id = id /\ x.at \in {"shown", "listening", "closing"}
    BY <1>2, <2>2 DEF Attends
  <2> HIDE DEF x
  <2> QED BY <1>2, <2>1, <2>3, AttendSteps
<1>3. CASE Listens(t)
  BY <1>2, <1>3 DEF Listens
<1>4. CASE Presses(t)
  BY <1>4 DEF Presses, Attended, Attends, lapses
<1>5. CASE Handles(t)
  BY <1>2, <1>5 DEF Handles, lapses
<1>6. CASE UserCloses(t)
  <2>1. task' = [task EXCEPT ![t] = Free] /\ dead \subseteq dead'
    BY <1>6 DEF UserCloses
  <2>2. \/ screen' = [id \in DOMAIN screen \ {task[t].id} |-> screen[id]]
        \/ screen' = screen /\ task[t].id \in dead'
    BY <1>6 DEF UserCloses, Without, Restrict
  <2>3. \A id \in DOMAIN screen' \ dead' :
          /\ screen'[id].buttons => id \in DOMAIN screen /\ screen[id].buttons
          /\ ~Attends(t, id)
    BY <2>2 DEF Attends
  <2> QED BY <2>1, <2>3, AttendSteps
<1>7. CASE HearsClosed(t)
  <2>1. task' = [task EXCEPT ![t] = Free] /\ screen' = screen /\ dead' = dead
    BY <1>7 DEF HearsClosed, lapses
  <2>2. task[t].id \notin DOMAIN screen
    BY <1>7 DEF HearsClosed, ClosedAreGone
  <2>3. \A id \in DOMAIN screen' : ~Attends(t, id)
    BY <2>1, <2>2 DEF Attends
  <2> QED BY <2>1, <2>3, AttendSteps
<1> QED BY <1>3, <1>4, <1>5, <1>6, <1>7

LEMMA AttendedInductive ==
  /\ NotificationInit => Attended
  /\ ToastsOK /\ ClosedAreGone /\ Attended /\ [NotificationNext]_notificationVars => Attended'
<1>1. NotificationInit => Attended
  BY DEF NotificationInit, Attended
<1>2. ASSUME ToastsOK, ClosedAreGone, Attended, [NotificationNext]_notificationVars PROVE Attended'
  <2>1. CASE task' = task /\ dead' = dead /\ \E out : screen' = Without(screen, out)
    <3>1. PICK out : screen' = [id \in DOMAIN screen \ out |-> screen[id]]
      BY <2>1 DEF Without, Restrict
    <3> QED BY <1>2, <2>1, <3>1 DEF Attended, Attends
  <2>2. CASE task' = task /\ screen' = screen /\ dead' = dead
    BY <1>2, <2>2 DEF Attended, Attends
  <2>3. (\E id \in DOMAIN screen : Reaps(id)) \/ Withdraws
        => /\ task' = task /\ dead' = dead
           /\ screen' = screen \/ \E out : screen' = Without(screen, out)
    BY DEF Reaps, Withdraws, lapses
  <2>4. Clears \/ Stops \/ UNCHANGED notificationVars
        => task' = task /\ screen' = screen /\ dead' = dead
    BY DEF Clears, Stops, notificationVars, lapses
  <2> QED BY <1>2, <2>1, <2>2, <2>3, <2>4, NotifyAttended, OtherStepsAttended,
             ButtonStepsAttended DEF NotificationNext
<1> QED BY <1>1, <1>2

(***************************************************************************)
(* However notifications race, are refused, replaced, withdrawn and        *)
(* closed: buttons on the screen have a task that acts on them, unless the *)
(* reply to their Notify could not be read or their CloseNotification      *)
(* failed.                                                                 *)
(***************************************************************************)
THEOREM ButtonsHaveListeners == NotificationSpec => []ButtonsWork
<1>1. Attended => ButtonsWork
  BY DEF Attended, Attends, ButtonsWork
<1> QED BY <1>1, ToastsTyped, ToldInductive, AttendedInductive, PTL DEF NotificationSpec

(***************************************************************************)
(* Why toasts of one key do not stack.  The lock gives a key one plain     *)
(* task at a time; the only toast of the key is then the one that the task *)
(* is about to replace or has just shown, none after a refusal, and without*)
(* such a task the one whose id is kept.                                   *)
(***************************************************************************)
Holds(t, key) ==
  ~task[t].buttons /\ task[t].key = key /\ task[t].at \in {"send", "shown", "refused"}

Single(key) ==
  /\ \A t, u \in Tasks : Holds(t, key) /\ Holds(u, key) => t = u
  /\ \A t \in Tasks : Holds(t, key) =>
       Toasts(key) \subseteq (IF At(t, "refused") THEN {} ELSE {task[t].id})
  /\ (\A t \in Tasks : ~Holds(t, key)) => Toasts(key) \subseteq {Resolve(key)}

AllSingle == \A key \in Keys \ slipped : Single(key)

\* Steps that leave the holder of a key, its toasts and its kept id alone, or
\* take toasts away.
LEMMA SingleKept ==
  ASSUME NEW key \in Keys, Single(key),
         \A u \in Tasks : (Holds(u, key)' <=> Holds(u, key))
                          /\ (Holds(u, key) => task'[u] = task[u]),
         Toasts(key)' \subseteq Toasts(key),
         Resolve(key)' = Resolve(key) \/ Toasts(key)' = {}
  PROVE  Single(key)'
<1>1. ASSUME NEW t \in Tasks, NEW u \in Tasks, Holds(t, key)', Holds(u, key)' PROVE t = u
  BY <1>1 DEF Single
<1>2. ASSUME NEW t \in Tasks, Holds(t, key)'
      PROVE  Toasts(key)' \subseteq (IF task'[t].at = "refused" THEN {} ELSE {task'[t].id})
  <2>1. Holds(t, key) /\ task'[t] = task[t]
    BY <1>2
  <2>2. Toasts(key) \subseteq (IF task[t].at = "refused" THEN {} ELSE {task[t].id})
    BY <2>1 DEF Single, At
  <2> QED BY <2>1, <2>2
<1>3. ASSUME \A t \in Tasks : ~Holds(t, key)' PROVE Toasts(key)' \subseteq {Resolve(key)'}
  <2>1. Toasts(key) \subseteq {Resolve(key)}
    BY <1>3 DEF Single
  <2> QED BY <2>1
<1> QED BY <1>1, <1>2, <1>3 DEF Single, At

LEMMA NotifySingle ==
  ASSUME ToastsOK, NEW t \in Tasks, Notify(t), NEW key \in Keys, Single(key)
  PROVE  Single(key)'
<1> DEFINE toast == [key |-> task[t].key, buttons |-> task[t].buttons]
           id == task[t].id
           new == given + 1
           shape == [key |-> key, buttons |-> FALSE]
<1>1. /\ task[t] \in Futures /\ At(t, "send") /\ task \in [Tasks -> Futures]
      /\ kept' = kept
  BY DEF ToastsOK, TasksOK, Notify
<1>2. new \notin DOMAIN screen
  BY DEF ToastsOK, ScreenOK
<1>3. Resolve(key)' = Resolve(key)
  BY <1>1 DEF Resolve
<1>4. \A u \in Tasks \ {t} : task'[u] = task[u]
  BY <1>1 DEF Notify, Goes
<1>5. /\ task'[t].buttons = task[t].buttons /\ task'[t].key = task[t].key
      /\ \/ /\ id \in DOMAIN screen /\ screen' = [screen EXCEPT ![id] = toast]
            /\ task'[t].at = "shown" /\ task'[t].id = id
         \/ /\ id \notin DOMAIN screen /\ task'[t].at = "shown" /\ task'[t].id = new
            /\ screen' = [i \in DOMAIN screen \cup {new} |-> IF i = new THEN toast ELSE screen[i]]
         \/ id \notin DOMAIN screen /\ screen' = screen /\ task'[t].at = "refused"
  BY <1>1 DEF Notify, Goes, Futures
<1>6. \A u \in Tasks : Holds(u, key)' <=> Holds(u, key)
  BY <1>1, <1>4, <1>5 DEF Holds, At
<1>7. CASE ~Holds(t, key)
  <2>1. toast # shape
    BY <1>1, <1>7 DEF Holds, At, Futures
  <2>2. Toasts(key)' \subseteq Toasts(key)
    BY <1>2, <1>5, <2>1 DEF Toasts
  <2>3. \A u \in Tasks : Holds(u, key) => task'[u] = task[u]
    BY <1>4, <1>7
  <2> QED BY <1>3, <1>6, <2>2, <2>3, SingleKept
<1>8. CASE Holds(t, key)
  <2>1. Toasts(key) \subseteq {id}
    BY <1>1, <1>8 DEF Single, At
  <2>2. Toasts(key)' \subseteq (IF task'[t].at = "refused" THEN {} ELSE {task'[t].id})
    <3>1. CASE id \in DOMAIN screen
      BY <1>5, <2>1, <3>1 DEF Toasts
    <3>2. CASE id \notin DOMAIN screen
      <4>1. Toasts(key) = {}
        BY <2>1, <3>2 DEF Toasts
      <4>2. \A i \in DOMAIN screen : screen[i] # shape
        BY <4>1 DEF Toasts
      <4> QED BY <1>5, <3>2, <4>2 DEF Toasts
    <3> QED BY <3>1, <3>2
  <2>3. \A u \in Tasks : Holds(u, key)' => u = t
    BY <1>6, <1>8 DEF Single
  <2>4. Holds(t, key)'
    BY <1>6, <1>8
  <2> QED BY <2>2, <2>3, <2>4 DEF Single, At
<1> QED BY <1>7, <1>8

LEMMA ReadsSingle ==
  ASSUME ToastsOK, NEW t \in Tasks, Reads(t), NEW key \in Keys, Single(key)
  PROVE  Single(key)'
<1>1. /\ task[t] \in Futures /\ task \in [Tasks -> Futures] /\ At(t, "locking")
      /\ screen' = screen /\ kept' = kept /\ ~task[t].buttons
      /\ \A u \in Tasks \ {t} : task'[u] = task[u]
  BY DEF ToastsOK, TasksOK, FutureOK, Reads, At
<1>2. Toasts(key)' = Toasts(key) /\ Resolve(key)' = Resolve(key)
  BY <1>1 DEF Toasts, Resolve
<1>3. /\ task'[t].at = "send" /\ task'[t].id = Resolve(task[t].key)
      /\ task'[t].key = task[t].key /\ task'[t].buttons = task[t].buttons
  BY <1>1 DEF Reads, Futures
<1>4. ~Holds(t, key)
  BY <1>1 DEF Holds, At
<1>5. CASE task[t].key # key
  <2>1. \A u \in Tasks : (Holds(u, key)' <=> Holds(u, key)) /\ (Holds(u, key) => task'[u] = task[u])
    BY <1>1, <1>3, <1>4, <1>5 DEF Holds
  <2> QED BY <1>2, <2>1, SingleKept
<1>6. CASE task[t].key = key
  <2>1. \A u \in Tasks : ~Holds(u, key)
    BY <1>6 DEF Reads, Locked, Holds
  <2>2. Toasts(key) \subseteq {Resolve(key)}
    BY <2>1 DEF Single
  <2>3. \A u \in Tasks : Holds(u, key)' => u = t
    BY <1>1, <2>1 DEF Holds
  <2>4. Holds(t, key)' /\ task'[t].at # "refused" /\ task'[t].id = Resolve(key)
    BY <1>1, <1>3, <1>6 DEF Holds
  <2> QED BY <1>2, <2>2, <2>3, <2>4 DEF Single, At
<1> QED BY <1>5, <1>6

\* What Record leaves of the other keys.
LEMMA RecordKeeps ==
  ASSUME NEW own, NEW id, Record(own, id), NEW key, key \notin slipped'
  PROVE  Resolve(key)' = IF key = own THEN id ELSE Resolve(key)
<1> DEFINE rest == IF Cardinality(DOMAIN kept) >= MaxKept THEN <<>> ELSE kept
<1>1. kept' = [k \in DOMAIN rest \cup {own} |-> IF k = own THEN id ELSE rest[k]]
  BY DEF Record
<1>2. slipped' = slipped \cup (DOMAIN kept \ DOMAIN kept')
  BY DEF Record
<1>3. rest = kept \/ DOMAIN rest = {}
  OBVIOUS
<1> HIDE DEF rest
<1>4. CASE key = own
  BY <1>1, <1>4 DEF Resolve
<1>5. CASE key # own
  <2>1. key \in DOMAIN kept <=> key \in DOMAIN rest
    BY <1>1, <1>2, <1>3, <1>5
  <2>2. key \in DOMAIN kept' <=> key \in DOMAIN kept
    BY <1>1, <1>5, <2>1
  <2>3. key \in DOMAIN kept => kept'[key] = kept[key]
    BY <1>1, <1>3, <1>5, <2>1
  <2> QED BY <1>5, <2>2, <2>3 DEF Resolve
<1> QED BY <1>4, <1>5

LEMMA RecordsSingle ==
  ASSUME ToastsOK, NEW t \in Tasks, Records(t), NEW key \in Keys \ slipped', Single(key)
  PROVE  Single(key)'
<1>1. /\ task \in [Tasks -> Futures] /\ task' = [task EXCEPT ![t] = Free]
      /\ screen' = screen /\ At(t, "shown") /\ ~task[t].buttons
  BY DEF ToastsOK, TasksOK, Records
<1>2. Toasts(key)' = Toasts(key)
  BY <1>1 DEF Toasts
<1>3. Resolve(key)' = IF key = task[t].key THEN task[t].id ELSE Resolve(key)
  BY RecordKeeps DEF Records
<1>4. ~Holds(t, key)' /\ \A u \in Tasks \ {t} : task'[u] = task[u]
  BY <1>1 DEF Holds, Free
<1>5. CASE task[t].key # key
  <2>1. \A u \in Tasks : (Holds(u, key)' <=> Holds(u, key)) /\ (Holds(u, key) => task'[u] = task[u])
    BY <1>4, <1>5 DEF Holds
  <2> QED BY <1>2, <1>3, <1>5, <2>1, SingleKept
<1>6. CASE task[t].key = key
  <2>1. Holds(t, key)
    BY <1>1, <1>6 DEF Holds, At
  <2>2. \A u \in Tasks : ~Holds(u, key)'
    BY <1>4, <2>1 DEF Single, Holds
  <2>3. Toasts(key) \subseteq {task[t].id}
    BY <1>1, <2>1 DEF Single, At
  <2> QED BY <1>2, <1>3, <1>6, <2>2, <2>3 DEF Single
<1> QED BY <1>5, <1>6

LEMMA IdRefusedSingle ==
  ASSUME ToastsOK, NEW t \in Tasks, IdRefused(t), NEW key \in Keys, Single(key)
  PROVE  Single(key)'
<1>1. /\ task[t] \in Futures /\ task \in [Tasks -> Futures] /\ At(t, "refused")
      /\ screen' = screen /\ kept' = kept
      /\ \A u \in Tasks \ {t} : task'[u] = task[u]
  BY DEF ToastsOK, TasksOK, IdRefused
<1>2. Toasts(key)' = Toasts(key) /\ Resolve(key)' = Resolve(key)
  BY <1>1 DEF Toasts, Resolve
<1>3. \/ /\ task'[t].at = "send" /\ task'[t].id = 0
         /\ task'[t].key = task[t].key /\ task'[t].buttons = task[t].buttons
      \/ task'[t].at = "free"
  BY <1>1 DEF IdRefused, Futures, Free
<1>4. CASE ~Holds(t, key)
  <2>1. \A u \in Tasks : (Holds(u, key)' <=> Holds(u, key)) /\ (Holds(u, key) => task'[u] = task[u])
    BY <1>1, <1>3, <1>4 DEF Holds, At
  <2> QED BY <1>2, <2>1, SingleKept
<1>5. CASE Holds(t, key)
  <2>1. Toasts(key)' = {}
    BY <1>1, <1>2, <1>5 DEF Single
  <2>2. \A u \in Tasks : Holds(u, key)' => u = t
    BY <1>1, <1>5 DEF Single, Holds
  <2> QED BY <2>1, <2>2 DEF Single
<1> QED BY <1>4, <1>5

\* Tasks that neither take nor give up the lock of this key.
LEMMA OtherTasksSingle ==
  ASSUME ToastsOK, NEW t \in Tasks,
         \/ \E name \in Names : Shows(t, name)
         \/ \E name \in Keys : Prompts(t, name)
         \/ Unreadable(t) \/ Listens(t) \/ Presses(t) \/ Handles(t) \/ UserCloses(t)
         \/ HearsClosed(t),
         NEW key \in Keys \ slipped', Single(key)
  PROVE  Single(key)'
<1>1. task \in [Tasks -> Futures] /\ task[t] \in Futures
  BY DEF ToastsOK, TasksOK
<1>2. \A u \in Tasks \ {t} : task'[u] = task[u]
  BY <1>1 DEF Shows, Prompts, Unreadable, Listens, Presses, Handles, UserCloses, HearsClosed,
              Goes
<1>3. Presses(t) \/ (~Holds(t, key) /\ ~Holds(t, key)')
  <2>1. ASSUME NEW name, Shows(t, name) PROVE ~Holds(t, key) /\ ~Holds(t, key)'
    <3>1. task'[t] = [Free EXCEPT !.at = "locking", !.key = name]
      BY <1>1, <2>1 DEF Shows
    <3>2. task'[t].at = "locking"
      BY <3>1 DEF Free
    <3> QED BY <2>1, <3>2 DEF Shows, Holds, At
  <2>2. ASSUME NEW name, Prompts(t, name) PROVE ~Holds(t, key) /\ ~Holds(t, key)'
    <3>1. task'[t] = [Free EXCEPT !.at = "send", !.key = name, !.buttons = TRUE]
      BY <1>1, <2>2 DEF Prompts
    <3>2. task'[t].buttons
      BY <3>1 DEF Free
    <3> QED BY <2>2, <3>2 DEF Prompts, Holds, At
  <2>3. CASE Unreadable(t)
    BY <1>1, <2>3 DEF Unreadable, Holds, Free
  <2>4. CASE Listens(t) \/ Handles(t)
    BY <1>1, <2>4 DEF Listens, Handles, Goes, Holds, At, Futures
  <2>5. CASE UserCloses(t) \/ HearsClosed(t)
    BY <1>1, <2>5 DEF UserCloses, HearsClosed, Holds, Free, At
  <2> QED BY <2>1, <2>2, <2>3, <2>4, <2>5
<1>4. \A u \in Tasks : (Holds(u, key)' <=> Holds(u, key)) /\ (Holds(u, key) => task'[u] = task[u])
  <2>1. CASE Presses(t)
    BY <2>1 DEF Presses, Holds
  <2>2. CASE ~Holds(t, key) /\ ~Holds(t, key)'
    BY <1>2, <2>2 DEF Holds
  <2> QED BY <1>3, <2>1, <2>2
<1>5. Toasts(key)' \subseteq Toasts(key)
  <2>1. CASE UserCloses(t)
    BY <2>1 DEF UserCloses, Without, Restrict, Toasts
  <2>2. CASE screen' = screen
    BY <2>2 DEF Toasts
  <2> QED BY <2>1, <2>2 DEF Shows, Prompts, Unreadable, Listens, Presses, Handles, HearsClosed
<1>6. Resolve(key)' = Resolve(key)
  <2>1. CASE Listens(t)
    <3>1. key # task[t].key
      BY <2>1 DEF Listens
    <3> QED BY <2>1, <3>1 DEF Listens, Resolve
  <2>2. CASE kept' = kept
    BY <2>2 DEF Resolve
  <2> QED BY <2>1, <2>2 DEF Shows, Prompts, Unreadable, Presses, Handles, UserCloses, HearsClosed
<1> QED BY <1>4, <1>5, <1>6, SingleKept

LEMMA AroundSingle ==
  ASSUME ToastsOK, NEW key \in Keys \ slipped', Single(key),
         \/ \E id \in DOMAIN screen : Reaps(id)
         \/ Clears \/ Withdraws \/ Stops \/ UNCHANGED notificationVars
  PROVE  Single(key)'
<1>1. task' = task
  BY DEF Reaps, Clears, Withdraws, Stops, notificationVars
<1>2. \A u \in Tasks : (Holds(u, key)' <=> Holds(u, key)) /\ (Holds(u, key) => task'[u] = task[u])
  BY <1>1 DEF Holds
<1>3. Toasts(key)' \subseteq Toasts(key)
  <2>1. CASE \E out : screen' = Without(screen, out)
    BY <2>1 DEF Without, Restrict, Toasts
  <2>2. CASE screen' = screen
    BY <2>2 DEF Toasts
  <2>3. (\E id \in DOMAIN screen : Reaps(id)) \/ Withdraws =>
          screen' = screen \/ \E out : screen' = Without(screen, out)
    BY DEF Reaps, Withdraws
  <2>4. Clears \/ Stops \/ UNCHANGED notificationVars => screen' = screen
    BY DEF Clears, Stops, notificationVars
  <2> QED BY <2>1, <2>2, <2>3, <2>4
<1>4. Resolve(key)' = Resolve(key) \/ Toasts(key)' = {}
  <2>1. CASE Clears
    <3>1. key \notin DOMAIN kept /\ kept' = <<>>
      BY <2>1 DEF Clears
    <3> QED BY <3>1 DEF Resolve
  <2>2. CASE Withdraws
    <3>1. CASE key = HelpKey
      <4>1. Toasts(key) = {}
        BY <3>1, NotificationAssumption DEF ToastsOK, ScreenOK, Plain, Toasts
      <4> QED BY <1>3, <4>1
    <3>2. CASE key # HelpKey
      BY <2>2, <3>2 DEF Withdraws, Without, Restrict, Resolve
    <3> QED BY <3>1, <3>2
  <2>3. CASE kept' = kept
    BY <2>3 DEF Resolve
  <2> QED BY <2>1, <2>2, <2>3 DEF Reaps, Stops, notificationVars
<1> QED BY <1>2, <1>3, <1>4, SingleKept

LEMMA SingleInductive ==
  /\ NotificationInit => AllSingle
  /\ ToastsOK /\ AllSingle /\ [NotificationNext]_notificationVars => AllSingle'
<1>1. NotificationInit => AllSingle
  BY DEF NotificationInit, AllSingle, Single, Holds, Toasts, Free
<1>2. ASSUME ToastsOK, AllSingle, [NotificationNext]_notificationVars PROVE AllSingle'
  <2>1. slipped \subseteq slipped'
    BY <1>2 DEF NotificationNext, notificationVars, Shows, Reads, Notify, Records, Record,
                Unreadable, IdRefused, Clears, Prompts, Listens, Presses, Handles, UserCloses,
                HearsClosed, Withdraws, Reaps, Stops, lapses
  <2> SUFFICES ASSUME NEW key \in Keys \ slipped' PROVE Single(key)'
    BY DEF AllSingle
  <2>2. Single(key)
    BY <1>2, <2>1 DEF AllSingle
  <2>3. ASSUME NEW t \in Tasks, Notify(t) \/ Reads(t) \/ Records(t) \/ IdRefused(t)
        PROVE  Single(key)'
    BY <1>2, <2>2, <2>3, NotifySingle, ReadsSingle, RecordsSingle, IdRefusedSingle
  <2>4. ASSUME NEW t \in Tasks,
               \/ \E name \in Names : Shows(t, name)
               \/ \E name \in Keys : Prompts(t, name)
               \/ Unreadable(t) \/ Listens(t) \/ Presses(t) \/ Handles(t) \/ UserCloses(t)
               \/ HearsClosed(t)
        PROVE  Single(key)'
    BY <1>2, <2>2, <2>4, OtherTasksSingle
  <2>5. CASE \/ \E id \in DOMAIN screen : Reaps(id)
             \/ Clears \/ Withdraws \/ Stops \/ UNCHANGED notificationVars
    BY <1>2, <2>2, <2>5, AroundSingle
  <2> QED BY <1>2, <2>3, <2>4, <2>5 DEF NotificationNext
<1> QED BY <1>1, <1>2

(***************************************************************************)
(* For any number of notifications sent at once, whatever the daemon       *)
(* refuses: a key whose id was recorded and kept has one toast at most.    *)
(***************************************************************************)
THEOREM ToastsDoNotStack == NotificationSpec => []NoStacking
<1>1. ASSUME ToastsOK, AllSingle, NEW key \in Keys \ slipped
      PROVE  Cardinality(Toasts(key)) <= 1
  <2>1. PICK id : Toasts(key) \subseteq {id}
    <3>1. CASE \A t \in Tasks : ~Holds(t, key)
      BY <1>1, <3>1 DEF AllSingle, Single
    <3>2. ASSUME NEW t \in Tasks, Holds(t, key)
          PROVE  Toasts(key) \subseteq {task[t].id}
      BY <1>1, <3>2 DEF AllSingle, Single
    <3> QED BY <3>1, <3>2
  <2>2. IsFiniteSet({id}) /\ Cardinality({id}) = 1
    BY FS_Singleton
  <2> QED BY <2>1, <2>2, FS_Subset
<1>2. ToastsOK /\ AllSingle => NoStacking
  BY <1>1 DEF NoStacking
<1> QED BY <1>2, ToastsTyped, SingleInductive, PTL DEF NotificationSpec

---------------------------------------------------------------------------
(* The session list *)

Entries == [status : Statuses \cup {"unset"}, known : BOOLEAN]
MaybeEntry == Entries \cup {NoEntry}
Tables == [Sessions -> MaybeEntry]

WorldOK ==
  /\ real \in [Sessions -> Statuses \cup {"unborn", "gone"}]
  /\ forwarded \subseteq Sessions
  /\ hearing \subseteq {"events", "changes"}

StreamsOK ==
  /\ events \in Seq({"created", "destroyed"} \X Sessions)
  /\ changes \in Seq(Sessions \X Statuses)

ScanStates == [at : {"idle", "begin", "reading"}, tries : Nat, todo : SUBSET Sessions,
               read : SUBSET Sessions, seen : Tables \cup {<<>>}]

ScanStateOK(y) ==
  /\ y \in ScanStates
  /\ IF y.at = "reading" THEN y.seen \in Tables ELSE y.todo = {} /\ y.read = {}

ScanOK == scan \in [Scanners -> ScanStates] /\ \A x \in Scanners : ScanStateOK(scan[x])

TrayOK ==
  /\ shown \in Tables
  /\ last \in [Sessions -> Statuses \cup {"none"}]
  /\ creating \in [Sessions -> Statuses \cup {"no", "begun", "forwarded", "unset"}]
  /\ filling \subseteq Sessions /\ fading \subseteq Sessions
  /\ inserting \subseteq Sessions /\ settled \subseteq Sessions

MirrorOK == WorldOK /\ StreamsOK /\ ScanOK /\ TrayOK

LEMMA ScanSteps ==
  ASSUME ScanOK, NEW x \in Scanners, NEW y, ScanStateOK(y), scan' = [scan EXCEPT ![x] = y]
  PROVE  ScanOK'
<1>1. y \in ScanStates
  BY DEF ScanStateOK
<1>2. scan' \in [Scanners -> ScanStates]
  BY <1>1 DEF ScanOK
<1>3. \A z \in Scanners : scan'[z] = IF z = x THEN y ELSE scan[z]
  BY DEF ScanOK
<1> QED BY <1>2, <1>3 DEF ScanOK

LEMMA IdleOK ==
  /\ Idle \in ScanStates /\ Idle.at = "idle" /\ Idle.todo = {} /\ Idle.read = {}
  /\ ScanStateOK(Idle)
<1>1. Idle \in ScanStates /\ Idle.at = "idle" /\ Idle.todo = {} /\ Idle.read = {}
  BY DEF Idle, ScanStates
<1> QED BY <1>1 DEF ScanStateOK

LEMMA MirrorBegins == MirrorInit => MirrorOK
<1> SUFFICES ASSUME MirrorInit PROVE MirrorOK
  OBVIOUS
<1>1. WorldOK
  BY DEF MirrorInit, WorldOK, Statuses
<1>2. StreamsOK
  BY DEF MirrorInit, StreamsOK
<1>3. ScanOK
  <2> DEFINE y == [Idle EXCEPT !.at = "begin"]
  <2>1. y \in ScanStates /\ y.at = "begin" /\ y.todo = {} /\ y.read = {}
    BY IdleOK DEF ScanStates
  <2>2. ScanStateOK(y)
    BY <2>1 DEF ScanStateOK
  <2>3. \A x \in Scanners : scan[x] = IF x = "startup" THEN y ELSE Idle
    BY DEF MirrorInit
  <2>4. scan = [x \in Scanners |-> IF x = "startup" THEN y ELSE Idle]
    BY DEF MirrorInit
  <2> HIDE DEF y
  <2>5. scan \in [Scanners -> ScanStates]
    BY <2>1, <2>4, IdleOK
  <2> QED BY <2>2, <2>3, <2>5, IdleOK DEF ScanOK
<1>4. TrayOK
  BY DEF MirrorInit, TrayOK, Tables, MaybeEntry
<1> QED BY <1>1, <1>2, <1>3, <1>4 DEF MirrorOK

\* One event is announced, or nobody listens.
LEMMA AnnounceOK ==
  ASSUME StreamsOK, NEW kind \in {"created", "destroyed"}, NEW s \in Sessions,
         Announce(kind, s), changes' = changes
  PROVE  StreamsOK'
<1> DEFINE Events == {"created", "destroyed"} \X Sessions
           event == <<kind, s>>
<1>1. event \in Events /\ events \in Seq(Events)
  BY DEF StreamsOK
<1>2. events' = events \/ events' = Append(events, event)
  BY DEF Announce
<1>3. events' \in Seq(Events)
  <2> HIDE DEF Events, event
  <2> QED BY <1>1, <1>2
<1> QED BY <1>3 DEF StreamsOK

\* One status is reported, once or twice.
LEMMA Appended ==
  ASSUME NEW S, NEW seq \in Seq(S), NEW m \in S, NEW copies \in {<<m>>, <<m, m>>},
         NEW longer, longer = seq \o copies
  PROVE  longer \in Seq(S)
<1>1. copies \in Seq(S)
  <2>1. CASE copies = <<m>>
    BY <2>1
  <2>2. CASE copies = <<m, m>>
    BY <2>2
  <2> QED BY <2>1, <2>2
<1> QED BY <1>1, ConcatProperties

LEMMA ReportOK ==
  ASSUME StreamsOK, NEW s \in Sessions, NEW status \in Statuses, Report(s, status),
         events' = events
  PROVE  StreamsOK'
<1> DEFINE Told == Sessions \X Statuses
           change == <<s, status>>
<1>1. change \in Told /\ changes \in Seq(Told)
  BY DEF StreamsOK
<1>2. changes' = changes \/ \E copies \in {<<change>>, <<change, change>>} :
                              changes' = changes \o copies
  BY DEF Report
<1>3. changes' \in Seq(Told)
  <2> HIDE DEF Told, change
  <2>1. ASSUME NEW copies \in {<<change>>, <<change, change>>}, changes' = changes \o copies
        PROVE  changes' \in Seq(Told)
    BY <1>1, <2>1, Appended
  <2> QED BY <1>1, <1>2, <2>1
<1> QED BY <1>3 DEF StreamsOK

\* The sessions' own steps.
LEMMA WorldTyped ==
  ASSUME MirrorOK, NEW s \in Sessions,
         Appears(s) \/ Disappears(s) \/ \E status \in Statuses : Moves(s, status)
  PROVE  MirrorOK'
<1>1. /\ real' \in [Sessions -> Statuses \cup {"unborn", "gone"}]
      /\ UNCHANGED <<forwarded, hearing, scan, shown, last, futures, settled>>
  BY DEF MirrorOK, WorldOK, Appears, Disappears, Moves, Statuses, Ongoing
<1>2. StreamsOK'
  <2>1. CASE Appears(s)
    <3>1. Announce("created", s) /\ changes' = changes
      BY <2>1 DEF Appears
    <3> QED BY <3>1, AnnounceOK DEF MirrorOK
  <2>2. CASE Disappears(s)
    <3>1. Announce("destroyed", s) /\ changes' = changes
      BY <2>2 DEF Disappears
    <3> QED BY <3>1, AnnounceOK DEF MirrorOK
  <2>3. ASSUME NEW status \in Statuses, Moves(s, status) PROVE StreamsOK'
    BY <2>3, ReportOK DEF MirrorOK, Moves
  <2> QED BY <2>1, <2>2, <2>3
<1>3. WorldOK' /\ ScanOK' /\ TrayOK'
  BY <1>1 DEF MirrorOK, WorldOK, ScanOK, TrayOK, futures
<1> QED BY <1>2, <1>3 DEF MirrorOK

\* A scan and its attempts.
LEMMA ScanTyped ==
  ASSUME MirrorOK, NEW x \in Scanners,
         ScanLists(x) \/ (\E s \in Sessions : ScanReads(x, s)) \/ ScanForwards(x)
         \/ ScanEnds(x) \/ ScanFails(x)
  PROVE  MirrorOK'
<1>1. /\ scan \in [Scanners -> ScanStates] /\ scan[x] \in ScanStates /\ ScanStateOK(scan[x])
  BY DEF MirrorOK, ScanOK
<1>2. CASE ScanLists(x)
  <2> DEFINE y == [scan[x] EXCEPT !.at = "reading", !.read = {},
                                  !.todo = {s \in Sessions : Exists(s)},
                                  !.seen = [s \in Sessions |-> NoEntry]]
  <2>1. [s \in Sessions |-> NoEntry] \in Tables
    BY DEF Tables, MaybeEntry
  <2>2. y \in ScanStates /\ y.at = "reading" /\ y.seen \in Tables
    BY <1>1, <2>1 DEF ScanStates
  <2>3. scan' = [scan EXCEPT ![x] = y]
    BY <1>1, <1>2 DEF ScanLists
  <2> HIDE DEF y
  <2>4. ScanOK'
    BY <2>2, <2>3, ScanSteps DEF MirrorOK, ScanStateOK
  <2> QED BY <1>2, <2>4 DEF MirrorOK, WorldOK, StreamsOK, TrayOK, ScanLists, openvpn3, streams,
                            futures
<1>3. ASSUME NEW s \in Sessions, ScanReads(x, s) PROVE MirrorOK'
  <2> DEFINE entry == Entry(IF Exists(s) THEN real[s] ELSE "unset", Exists(s))
             y == [scan[x] EXCEPT !.todo = @ \ {s}, !.read = {s},
                                  !.seen = [@ EXCEPT ![s] = entry]]
  <2>1. scan[x].at = "reading" /\ scan[x].seen \in Tables
    BY <1>1, <1>3 DEF ScanStateOK, ScanReads
  <2>2. entry \in Entries
    BY DEF Entry, Entries, Exists
  <2>3. [scan[x].seen EXCEPT ![s] = entry] \in Tables
    BY <2>1, <2>2 DEF Tables, MaybeEntry
  <2>4. scan' = [scan EXCEPT ![x] = y]
    BY <1>1, <1>3 DEF ScanReads
  <2> HIDE DEF entry
  <2>5. y \in ScanStates /\ y.at = "reading" /\ y.seen \in Tables
    BY <1>1, <2>1, <2>3 DEF ScanStates
  <2> HIDE DEF y
  <2>6. ScanOK'
    BY <2>4, <2>5, ScanSteps DEF MirrorOK, ScanStateOK
  <2> QED BY <1>3, <2>6 DEF MirrorOK, WorldOK, StreamsOK, TrayOK, ScanReads, openvpn3, streams,
                            futures
<1>4. CASE ScanForwards(x)
  <2> DEFINE y == [scan[x] EXCEPT !.read = {}]
  <2>1. scan[x].at = "reading" /\ scan[x].seen \in Tables
    BY <1>1, <1>4 DEF ScanStateOK, ScanForwards
  <2>2. y \in ScanStates /\ y.at = "reading" /\ y.seen \in Tables
    BY <1>1, <2>1 DEF ScanStates
  <2>3. scan' = [scan EXCEPT ![x] = y]
    BY <1>1, <1>4 DEF ScanForwards
  <2> HIDE DEF y
  <2>4. ScanOK'
    BY <2>2, <2>3, ScanSteps DEF MirrorOK, ScanStateOK
  <2>5. scan[x].read \subseteq Sessions
    BY <1>1 DEF ScanStates
  <2>6. WorldOK'
    BY <1>4, <2>5 DEF MirrorOK, WorldOK, ScanForwards, streams
  <2> QED BY <1>4, <2>4, <2>6 DEF MirrorOK, StreamsOK, TrayOK, ScanForwards, streams, futures
<1>5. CASE ScanEnds(x)
  <2>1. ScanOK'
    <3>1. scan' = [scan EXCEPT ![x] = Idle]
      BY <1>5 DEF ScanEnds
    <3> QED BY <3>1, IdleOK, ScanSteps DEF MirrorOK
  <2>2. shown' \in Tables /\ settled' = {}
    BY <1>1, <1>5 DEF ScanStateOK, ScanEnds
  <2> QED BY <1>5, <2>1, <2>2 DEF MirrorOK, WorldOK, StreamsOK, TrayOK, ScanEnds, openvpn3,
                                  streams, futures
<1>6. CASE ScanFails(x)
  <2> DEFINE y == IF scan[x].tries + 1 < MaxTries
                  THEN [Idle EXCEPT !.at = "begin", !.tries = scan[x].tries + 1]
                  ELSE Idle
  <2>1. scan[x].tries \in Nat
    BY <1>1 DEF ScanStates
  <2>2. ScanStateOK(y)
    <3>1. CASE scan[x].tries + 1 < MaxTries
      <4> DEFINE n == scan[x].tries + 1
      <4>1. y = [Idle EXCEPT !.at = "begin", !.tries = n] /\ n \in Nat
        BY <2>1, <3>1
      <4> HIDE DEF y, n
      <4>2. y \in ScanStates /\ y.at = "begin" /\ y.todo = {} /\ y.read = {}
        BY <4>1, IdleOK DEF ScanStates
      <4> QED BY <4>2 DEF ScanStateOK
    <3>2. CASE ~(scan[x].tries + 1 < MaxTries)
      BY <3>2, IdleOK
    <3> QED BY <3>1, <3>2
  <2>3. scan' = [scan EXCEPT ![x] = y]
    BY <1>6 DEF ScanFails
  <2> HIDE DEF y
  <2>4. ScanOK'
    BY <2>2, <2>3, ScanSteps DEF MirrorOK
  <2> QED BY <1>6, <2>4 DEF MirrorOK, WorldOK, StreamsOK, TrayOK, ScanFails, openvpn3, streams,
                            futures
<1> QED BY <1>2, <1>3, <1>4, <1>5, <1>6

\* The subscriptions and the watchers of the two services.
LEMMA WatchersTyped ==
  ASSUME MirrorOK, HearsEvents \/ HearsChanges \/ ConfigsBack \/ SessionsLost
  PROVE  MirrorOK'
<1>1. WorldOK'
  <2>1. real' \in [Sessions -> Statuses \cup {"unborn", "gone"}]
    BY DEF MirrorOK, WorldOK, HearsEvents, HearsChanges, ConfigsBack, SessionsLost, openvpn3
  <2> QED BY <2>1 DEF MirrorOK, WorldOK, HearsEvents, HearsChanges, ConfigsBack, SessionsLost,
                      openvpn3, streams
<1>2. StreamsOK'
  BY DEF MirrorOK, StreamsOK, HearsEvents, HearsChanges, ConfigsBack, SessionsLost, streams
<1>3. ScanOK'
  <2>1. CASE ConfigsBack
    <3> DEFINE y == [scan["watcher"] EXCEPT !.at = "begin"]
    <3>1. "watcher" \in Scanners /\ scan["watcher"].at = "idle"
      BY <2>1 DEF Scanners, ConfigsBack
    <3>2. ScanStateOK(scan["watcher"]) /\ scan["watcher"] \in ScanStates
      BY <3>1 DEF MirrorOK, ScanOK
    <3>3. y \in ScanStates /\ y.at = "begin" /\ y.todo = {} /\ y.read = {}
      BY <3>1, <3>2 DEF ScanStates, ScanStateOK
    <3>4. scan' = [scan EXCEPT !["watcher"] = y]
      BY <2>1, <3>1 DEF ConfigsBack, MirrorOK, ScanOK
    <3> HIDE DEF y
    <3>5. ScanStateOK(y)
      BY <3>3 DEF ScanStateOK
    <3> QED BY <3>1, <3>4, <3>5, ScanSteps DEF MirrorOK
  <2>2. CASE scan' = scan
    BY <2>2 DEF MirrorOK, ScanOK
  <2> QED BY <2>1, <2>2 DEF HearsEvents, HearsChanges, SessionsLost
<1>4. TrayOK'
  <2>1. [s \in Sessions |-> NoEntry] \in Tables
    BY DEF Tables, MaybeEntry
  <2>2. shown' \in Tables /\ settled' \subseteq Sessions
    BY <2>1 DEF MirrorOK, TrayOK, HearsEvents, HearsChanges, ConfigsBack, SessionsLost
  <2> QED BY <2>2 DEF MirrorOK, TrayOK, HearsEvents, HearsChanges, ConfigsBack, SessionsLost,
                      futures
<1> QED BY <1>1, <1>2, <1>3, <1>4 DEF MirrorOK

\* The head of a stream.
LEMMA Heard ==
  ASSUME NEW S, NEW seq \in Seq(S), seq # <<>>
  PROVE  /\ Head(seq) \in S /\ Tail(seq) \in Seq(S)
         /\ 1 \in DOMAIN seq /\ Head(seq) = seq[1]
         /\ Len(seq) \in Nat \ {0}
         /\ DOMAIN seq = 1..Len(seq) /\ DOMAIN Tail(seq) = 1..(Len(seq) - 1)
         /\ \A i \in 1..(Len(seq) - 1) : Tail(seq)[i] = seq[i + 1]
BY HeadTailProperties

LEMMA HearsTyped ==
  ASSUME MirrorOK, Hears
  PROVE  MirrorOK'
<1> DEFINE Events == {"created", "destroyed"} \X Sessions
           s == Head(events)[2]
<1>1. events \in Seq(Events) /\ events # <<>>
  BY DEF MirrorOK, StreamsOK, Hears
<1>2. Head(events) \in Events /\ Tail(events) \in Seq(Events)
  BY <1>1, Heard
<1>3. s \in Sessions
  BY <1>2
<1>4. StreamsOK'
  BY <1>2 DEF MirrorOK, StreamsOK, Hears
<1>5. TrayOK'
  <2>1. UNCHANGED <<shown, last, filling, inserting>>
    BY DEF Hears
  <2>2. CASE Head(events)[1] = "created"
    <3>1. /\ creating' = [creating EXCEPT ![s] = "begun"] /\ fading' = fading
          /\ settled' \subseteq settled \cup {s}
      BY <2>2 DEF Hears
    <3> HIDE DEF s
    <3> QED BY <1>3, <2>1, <3>1 DEF MirrorOK, TrayOK
  <2>3. CASE Head(events)[1] # "created"
    <3>1. fading' = fading \cup {s} /\ creating' = creating /\ settled' = settled
      BY <2>3 DEF Hears
    <3> HIDE DEF s
    <3> QED BY <1>3, <2>1, <3>1 DEF MirrorOK, TrayOK
  <2> QED BY <2>2, <2>3
<1>6. WorldOK' /\ ScanOK'
  BY DEF MirrorOK, WorldOK, ScanOK, Hears, openvpn3
<1> QED BY <1>4, <1>5, <1>6 DEF MirrorOK

\* handle_session_created, the backfill and the delayed removal.
LEMMA FuturesTyped ==
  ASSUME MirrorOK, NEW s \in Sessions,
         Forwards(s) \/ ReadsStatus(s) \/ Creates(s) \/ Fills(s) \/ Fades(s) \/ Inserts(s)
  PROVE  MirrorOK'
<1>1. WorldOK' /\ StreamsOK' /\ ScanOK'
  BY DEF MirrorOK, WorldOK, StreamsOK, ScanOK, Forwards, ReadsStatus, Creates, Fills, Fades,
         Inserts, openvpn3, streams
<1>2. CASE Forwards(s)
  BY <1>1, <1>2 DEF MirrorOK, TrayOK, Forwards
<1>3. CASE ReadsStatus(s)
  BY <1>1, <1>3 DEF MirrorOK, TrayOK, ReadsStatus, Exists
<1>4. ASSUME NEW entry \in MaybeEntry PROVE [shown EXCEPT ![s] = entry] \in Tables
  BY DEF MirrorOK, TrayOK, Tables
<1>5. shown[s] \in MaybeEntry
  BY DEF MirrorOK, TrayOK, Tables
<1>6. CASE Creates(s)
  <2> DEFINE known == creating[s] # "unset"
  <2>1. CASE shown[s] = NoEntry
    <3>1. Entry(creating[s], known) \in MaybeEntry
      BY <1>6 DEF Creates, Entry, MaybeEntry, Entries
    <3>2. shown' = [shown EXCEPT ![s] = Entry(creating[s], known)]
      BY <1>6, <2>1 DEF Creates
    <3>3. shown' \in Tables
      BY <1>4, <3>1, <3>2
    <3> QED BY <1>1, <1>6, <3>3 DEF MirrorOK, TrayOK, Creates
  <2>2. CASE shown[s] # NoEntry
    <3> DEFINE entry == [shown[s] EXCEPT !.known = @ \/ known]
    <3>1. shown[s] \in Entries
      BY <1>5, <2>2 DEF MaybeEntry
    <3>2. entry \in MaybeEntry
      BY <3>1 DEF Entries, MaybeEntry
    <3>3. shown' = [shown EXCEPT ![s] = entry]
      BY <1>6, <2>2 DEF Creates
    <3> HIDE DEF entry
    <3>4. shown' \in Tables
      BY <1>4, <3>2, <3>3
    <3> QED BY <1>1, <1>6, <3>4 DEF MirrorOK, TrayOK, Creates
  <2> QED BY <2>1, <2>2
<1>7. CASE Fills(s)
  <2>1. CASE shown[s] # NoEntry /\ Exists(s)
    <3> DEFINE entry == [shown[s] EXCEPT !.known = TRUE]
    <3>1. shown[s] \in Entries
      BY <1>5, <2>1 DEF MaybeEntry
    <3>2. entry \in MaybeEntry
      BY <3>1 DEF Entries, MaybeEntry
    <3>3. shown' = [shown EXCEPT ![s] = entry]
      BY <1>7, <2>1 DEF Fills
    <3> HIDE DEF entry
    <3>4. shown' \in Tables
      BY <1>4, <3>2, <3>3
    <3> QED BY <1>1, <1>7, <3>4 DEF MirrorOK, TrayOK, Fills
  <2>2. CASE ~(shown[s] # NoEntry /\ Exists(s))
    BY <1>1, <1>7, <2>2 DEF MirrorOK, TrayOK, Fills
  <2> QED BY <2>1, <2>2
<1>8. CASE Fades(s)
  <2>1. shown' \in Tables
    BY <1>4, <1>8 DEF Fades, MaybeEntry
  <2> QED BY <1>1, <1>8, <2>1 DEF MirrorOK, TrayOK, Fades
<1>9. CASE Inserts(s)
  <2>1. Entry("fresh", TRUE) \in MaybeEntry
    BY DEF Entry, Entries, MaybeEntry, Statuses, Ongoing
  <2>2. shown' \in Tables
    BY <1>4, <1>9, <2>1 DEF Inserts
  <2> QED BY <1>1, <1>9, <2>2 DEF MirrorOK, TrayOK, Inserts
<1> QED BY <1>1, <1>2, <1>3, <1>6, <1>7, <1>8, <1>9 DEF MirrorOK

LEMMA NoticesTyped ==
  ASSUME MirrorOK, Notices
  PROVE  MirrorOK'
<1> DEFINE Told == Sessions \X Statuses
           s == Head(changes)[1]
           status == Head(changes)[2]
           entry == IF shown[s] # NoEntry THEN [shown[s] EXCEPT !.status = status]
                    ELSE IF IsAuth(status) THEN NoEntry ELSE Entry(status, FALSE)
<1>1. changes \in Seq(Told) /\ changes # <<>>
  BY DEF MirrorOK, StreamsOK, Notices
<1>2. Head(changes) \in Told /\ Tail(changes) \in Seq(Told)
  BY <1>1, Heard
<1>3. s \in Sessions /\ status \in Statuses
  BY <1>2
<1>4. StreamsOK'
  BY <1>2 DEF MirrorOK, StreamsOK, Notices
<1>5. WorldOK' /\ ScanOK'
  BY DEF MirrorOK, WorldOK, ScanOK, Notices, openvpn3
<1>6. /\ UNCHANGED <<creating, inserting>>
      /\ \/ UNCHANGED <<last, shown, settled, filling, fading>>
         \/ /\ last' = [last EXCEPT ![s] = status]
            /\ shown' = [shown EXCEPT ![s] = entry]
            /\ settled' \subseteq settled \cup {s}
            /\ filling' \subseteq filling \cup {s}
            /\ fading' \subseteq fading \cup {s}
  BY DEF Notices
<1> HIDE DEF s, status
<1>7. entry \in MaybeEntry
  <2>1. shown[s] \in MaybeEntry
    BY <1>3 DEF MirrorOK, TrayOK, Tables
  <2>2. CASE shown[s] # NoEntry
    <3>1. shown[s] \in Entries
      BY <2>1, <2>2 DEF MaybeEntry
    <3>2. [shown[s] EXCEPT !.status = status] \in Entries
      BY <1>3, <3>1 DEF Entries
    <3> QED BY <2>2, <3>2 DEF MaybeEntry
  <2>3. CASE shown[s] = NoEntry
    BY <1>3, <2>3 DEF MaybeEntry, Entry, Entries
  <2> QED BY <2>2, <2>3
<1> HIDE DEF entry
<1>8. TrayOK'
  BY <1>3, <1>6, <1>7 DEF MirrorOK, TrayOK, Tables
<1> QED BY <1>4, <1>5, <1>8 DEF MirrorOK

LEMMA ConnectTyped ==
  ASSUME MirrorOK, NEW s \in Sessions, ConnectTo(s)
  PROVE  MirrorOK'
<1>1. real' = [real EXCEPT ![s] = "fresh"] /\ UNCHANGED <<forwarded, hearing, scan>>
  BY DEF ConnectTo
<1>2. WorldOK' /\ ScanOK'
  BY <1>1 DEF MirrorOK, WorldOK, ScanOK, Statuses, Ongoing
<1>3. StreamsOK'
  <2>1. Announce("created", s) /\ changes' = changes
    BY DEF ConnectTo
  <2> QED BY <2>1, AnnounceOK DEF MirrorOK
<1>4. TrayOK'
  <2> DEFINE stale == {r \in Sessions : ConfigOf[r] = ConfigOf[s] /\ shown[r] # NoEntry
                                         /\ shown[r].known}
  <2>1. /\ shown' = [r \in Sessions |-> IF r \in stale THEN NoEntry ELSE shown[r]]
        /\ settled' = settled \ stale /\ inserting' = inserting \cup {s}
        /\ UNCHANGED <<last, creating, filling, fading>>
    BY DEF ConnectTo
  <2> HIDE DEF stale
  <2> QED BY <2>1 DEF MirrorOK, TrayOK, Tables, MaybeEntry
<1> QED BY <1>2, <1>3, <1>4 DEF MirrorOK

LEMMA MirrorTyped ==
  /\ MirrorInit => MirrorOK
  /\ MirrorOK /\ [MirrorNext]_mirrorVars => MirrorOK'
<1>1. ASSUME MirrorOK, UNCHANGED mirrorVars PROVE MirrorOK'
  BY <1>1 DEF MirrorOK, WorldOK, StreamsOK, ScanOK, TrayOK, mirrorVars, openvpn3, streams,
              futures
<1>2. ASSUME MirrorOK, [MirrorNext]_mirrorVars PROVE MirrorOK'
  BY <1>1, <1>2, WorldTyped, ScanTyped, WatchersTyped, HearsTyped, FuturesTyped,
     NoticesTyped, ConnectTyped DEF MirrorNext
<1> QED BY <1>2, MirrorBegins

(***************************************************************************)
(* Sessions, signals, scans and entries of the tray have their types.      *)
(***************************************************************************)
THEOREM MirrorTypeCorrect == MirrorSpec => []MirrorTypeOK
<1>1. MirrorOK => MirrorTypeOK
  BY DEF MirrorOK, WorldOK, TrayOK, Tables, MaybeEntry, Entries, MirrorTypeOK
<1> QED BY <1>1, MirrorTyped, PTL DEF MirrorSpec

\* A session that exists does not become unborn, what is over does not begin
\* again, and what is gone stays so.
LEMMA LivesOn ==
  ASSUME MirrorOK, [MirrorNext]_mirrorVars, NEW s \in Sessions
  PROVE  /\ real[s] # "unborn" => real'[s] # "unborn"
         /\ real[s] = "gone" => real'[s] = "gone"
         /\ real[s] \in Over \cup {"gone"} => real'[s] \in Over \cup {"gone"}
<1>1. real \in [Sessions -> Statuses \cup {"unborn", "gone"}]
  BY DEF MirrorOK, WorldOK
<1>2. ASSUME NEW r \in Sessions, Appears(r) \/ ConnectTo(r)
      PROVE  /\ real[s] # "unborn" => real'[s] # "unborn"
             /\ real[s] = "gone" => real'[s] = "gone"
             /\ real[s] \in Over \cup {"gone"} => real'[s] \in Over \cup {"gone"}
  <2>1. real[r] = "unborn" /\ real' = [real EXCEPT ![r] = "fresh"]
    BY <1>2 DEF Appears, ConnectTo
  <2> QED BY <1>1, <2>1 DEF Over
<1>3. ASSUME NEW r \in Sessions, NEW status \in Statuses, Moves(r, status)
      PROVE  /\ real[s] # "unborn" => real'[s] # "unborn"
             /\ real[s] = "gone" => real'[s] = "gone"
             /\ real[s] \in Over \cup {"gone"} => real'[s] \in Over \cup {"gone"}
  <2>1. /\ real[r] \in Statuses /\ real' = [real EXCEPT ![r] = status]
        /\ real[r] \in Over => status = "done"
    BY <1>3 DEF Moves, Exists
  <2> QED BY <1>1, <2>1 DEF Over, Ongoing, Statuses
<1>4. ASSUME NEW r \in Sessions, Disappears(r)
      PROVE  /\ real[s] # "unborn" => real'[s] # "unborn"
             /\ real[s] = "gone" => real'[s] = "gone"
             /\ real[s] \in Over \cup {"gone"} => real'[s] \in Over \cup {"gone"}
  BY <1>1, <1>4 DEF Disappears
<1>5. ASSUME SessionsLost
      PROVE  /\ real[s] # "unborn" => real'[s] # "unborn"
             /\ real[s] = "gone" => real'[s] = "gone"
             /\ real[s] \in Over \cup {"gone"} => real'[s] \in Over \cup {"gone"}
  BY <1>1, <1>5 DEF SessionsLost
<1>6. \/ real' = real \/ SessionsLost
      \/ \E r \in Sessions : \/ Appears(r) \/ ConnectTo(r) \/ Disappears(r)
                             \/ \E status \in Statuses : Moves(r, status)
  BY DEF MirrorNext, mirrorVars, openvpn3, Forwards, ReadsStatus, Creates, Fills, Fades,
         Inserts, ScanLists, ScanReads, ScanForwards, ScanEnds, ScanFails, HearsEvents,
         HearsChanges, ConfigsBack, Hears, Notices
<1> QED BY <1>2, <1>3, <1>4, <1>5, <1>6

\* Every event on its way was there before or has just been announced.
LEMMA EventsFrom ==
  ASSUME MirrorOK, [MirrorNext]_mirrorVars, NEW i \in DOMAIN events'
  PROVE  \/ \E j \in DOMAIN events : events'[i] = events[j]
         \/ \E s \in Sessions : events'[i] = <<"created", s>> /\ real'[s] = "fresh"
         \/ \E s \in Sessions : events'[i] = <<"destroyed", s>> /\ real'[s] = "gone"
<1> DEFINE Events == {"created", "destroyed"} \X Sessions
<1>1. events \in Seq(Events) /\ real \in [Sessions -> Statuses \cup {"unborn", "gone"}]
  BY DEF MirrorOK, WorldOK, StreamsOK
<1>2. ASSUME NEW kind \in {"created", "destroyed"}, NEW s \in Sessions, Announce(kind, s)
      PROVE  (\E j \in DOMAIN events : events'[i] = events[j]) \/ events'[i] = <<kind, s>>
  <2>1. CASE events' = events
    BY <2>1
  <2>2. CASE events' = Append(events, <<kind, s>>)
    <3> DEFINE event == <<kind, s>>
    <3>1. event \in Events /\ events' = Append(events, event)
      BY <2>2
    <3> HIDE DEF Events, event
    <3>2. /\ Len(events') = Len(events) + 1 /\ Len(events) \in Nat
          /\ \A j \in 1..Len(events) : events'[j] = events[j]
          /\ events'[Len(events) + 1] = event
          /\ DOMAIN events' = 1..(Len(events) + 1) /\ DOMAIN events = 1..Len(events)
      BY <1>1, <3>1, AppendProperties
    <3>3. i \in 1..Len(events) \/ i = Len(events) + 1
      BY <3>2
    <3>4. (\E j \in DOMAIN events : events'[i] = events[j]) \/ events'[i] = event
      BY <3>2, <3>3
    <3> QED BY <3>4 DEF event
  <2> QED BY <1>2, <2>1, <2>2 DEF Announce
<1>3. ASSUME NEW s \in Sessions, Appears(s) \/ ConnectTo(s)
      PROVE  \/ \E j \in DOMAIN events : events'[i] = events[j]
             \/ events'[i] = <<"created", s>> /\ real'[s] = "fresh"
  <2>1. Announce("created", s) /\ real' = [real EXCEPT ![s] = "fresh"]
    BY <1>3 DEF Appears, ConnectTo
  <2>2. real'[s] = "fresh"
    BY <1>1, <2>1
  <2> QED BY <1>2, <2>1, <2>2
<1>4. ASSUME NEW s \in Sessions, Disappears(s)
      PROVE  \/ \E j \in DOMAIN events : events'[i] = events[j]
             \/ events'[i] = <<"destroyed", s>> /\ real'[s] = "gone"
  <2>1. Announce("destroyed", s) /\ real' = [real EXCEPT ![s] = "gone"]
    BY <1>4 DEF Disappears
  <2>2. real'[s] = "gone"
    BY <1>1, <2>1
  <2> QED BY <1>2, <2>1, <2>2
<1>5. CASE Hears
  <2>1. events # <<>> /\ events' = Tail(events)
    BY <1>5 DEF Hears
  <2> HIDE DEF Events
  <2>2. /\ DOMAIN events' = 1..(Len(events) - 1) /\ Len(events) \in Nat \ {0}
        /\ DOMAIN events = 1..Len(events)
        /\ \A k \in 1..(Len(events) - 1) : events'[k] = events[k + 1]
    BY <1>1, <2>1, Heard
  <2>3. i + 1 \in DOMAIN events /\ events'[i] = events[i + 1]
    BY <2>2
  <2> QED BY <2>3
<1>6. CASE events' = events
  BY <1>6
<1>7. \/ events' = events \/ Hears
      \/ \E s \in Sessions : Appears(s) \/ ConnectTo(s) \/ Disappears(s)
  BY DEF MirrorNext, mirrorVars, streams, Moves, Forwards, ReadsStatus, Creates, Fills, Fades,
         Inserts, ScanLists, ScanReads, ScanForwards, ScanEnds, ScanFails, HearsEvents,
         HearsChanges, ConfigsBack, SessionsLost, Notices
<1> QED BY <1>3, <1>4, <1>5, <1>6, <1>7

\* The queue of changes has grown by a status of a session, sent once or twice.
Lengthened(s, status) ==
  /\ Len(changes) \in Nat
  /\ \E n \in {Len(changes) + 1, Len(changes) + 2} :
       /\ DOMAIN changes = 1..Len(changes) /\ DOMAIN changes' = 1..n
       /\ \A i \in 1..n :
            changes'[i] = IF i <= Len(changes) THEN changes[i] ELSE <<s, status>>

LEMMA Reported ==
  ASSUME MirrorOK, NEW s \in Sessions, NEW status \in Statuses, Moves(s, status),
         s \in forwarded, "changes" \in hearing
  PROVE  Lengthened(s, status)
<1> DEFINE Told == Sessions \X Statuses
           change == <<s, status>>
<1>1. changes \in Seq(Told)
  BY DEF MirrorOK, StreamsOK
<1>2. \E copies \in {<<change>>, <<change, change>>} : changes' = changes \o copies
  BY DEF Moves, Report
<1>3. change \in Told
  OBVIOUS
<1> HIDE DEF change, Told
<1>4. ASSUME NEW copies \in {<<change>>, <<change, change>>}
      PROVE  LET longer == changes \o copies IN
             /\ longer \in Seq(Told) /\ Len(changes) \in Nat
             /\ Len(longer) \in {Len(changes) + 1, Len(changes) + 2}
             /\ \A i \in 1..Len(longer) :
                  longer[i] = IF i <= Len(changes) THEN changes[i] ELSE change
  <2> DEFINE longer == changes \o copies
  <2>1. longer = changes \o copies
    OBVIOUS
  <2> HIDE DEF longer
  <2>2. /\ copies \in Seq(Told) /\ (Len(copies) = 1 \/ Len(copies) = 2)
        /\ \A i \in 1..Len(copies) : copies[i] = change
    <3>1. CASE copies = <<change>>
      BY <1>3, <3>1
    <3>2. CASE copies = <<change, change>>
      BY <1>3, <3>2
    <3> QED BY <1>4, <3>1, <3>2
  <2>3. Len(changes) \in Nat
    BY <1>1
  <2>4. /\ longer \in Seq(Told)
        /\ Len(longer) = Len(changes) + Len(copies)
        /\ \A i \in 1..Len(changes) + Len(copies) :
             longer[i] = IF i <= Len(changes) THEN changes[i] ELSE copies[i - Len(changes)]
    BY <1>1, <2>1, <2>2, ConcatProperties
  <2>5. ASSUME NEW i \in 1..Len(longer)
        PROVE  longer[i] = IF i <= Len(changes) THEN changes[i] ELSE change
    <3>1. CASE i <= Len(changes)
      BY <2>2, <2>3, <2>4, <3>1
    <3>2. CASE ~(i <= Len(changes))
      <4>1. i - Len(changes) \in 1..Len(copies)
        BY <2>2, <2>3, <2>4, <3>2
      <4> QED BY <2>2, <2>3, <2>4, <3>2, <4>1
    <3> QED BY <3>1, <3>2
  <2>6. Len(longer) \in {Len(changes) + 1, Len(changes) + 2}
    BY <2>2, <2>3, <2>4
  <2> QED BY <2>3, <2>4, <2>5, <2>6 DEF longer
<1>5. /\ changes' \in Seq(Told) /\ Len(changes) \in Nat
      /\ Len(changes') \in {Len(changes) + 1, Len(changes) + 2}
      /\ \A i \in 1..Len(changes') :
           changes'[i] = IF i <= Len(changes) THEN changes[i] ELSE change
  BY <1>2, <1>4
<1>6. DOMAIN changes = 1..Len(changes) /\ DOMAIN changes' = 1..Len(changes')
  BY <1>1, <1>5
<1>7. \E n \in {Len(changes) + 1, Len(changes) + 2} :
        /\ DOMAIN changes = 1..Len(changes) /\ DOMAIN changes' = 1..n
        /\ \A i \in 1..n : changes'[i] = IF i <= Len(changes) THEN changes[i] ELSE change
  BY <1>5, <1>6
<1> QED BY <1>2, <1>5, <1>7 DEF change, Lengthened

\* A step of that queue is such a status, or the first change handled, or nothing.
LEMMA ChangesFrom ==
  ASSUME MirrorOK, [MirrorNext]_mirrorVars
  PROVE  \/ changes' = changes
         \/ Notices
         \/ \E s \in Sessions, status \in Statuses :
              /\ Moves(s, status) /\ s \in forwarded /\ "changes" \in hearing
              /\ real' = [real EXCEPT ![s] = status] /\ Lengthened(s, status)
<1>1. ASSUME NEW s \in Sessions, NEW status \in Statuses, Moves(s, status), changes' # changes
      PROVE  /\ s \in forwarded /\ "changes" \in hearing
             /\ real' = [real EXCEPT ![s] = status] /\ Lengthened(s, status)
  <2>1. s \in forwarded /\ "changes" \in hearing /\ real' = [real EXCEPT ![s] = status]
    BY <1>1 DEF Moves, Report
  <2> QED BY <1>1, <2>1, Reported
<1>2. \/ changes' = changes \/ Notices
      \/ \E s \in Sessions, status \in Statuses : Moves(s, status)
  BY DEF MirrorNext, mirrorVars, streams, Appears, Disappears, ConnectTo, Forwards,
         ReadsStatus, Creates, Fills, Fades, Inserts, ScanLists, ScanReads, ScanForwards,
         ScanEnds, ScanFails, HearsEvents, HearsChanges, ConfigsBack, SessionsLost, Hears
<1> QED BY <1>1, <1>2

\* Which steps can change what.
LEMMA WhoChanges ==
  ASSUME [MirrorNext]_mirrorVars
  PROVE  /\ forwarded' = forwarded \/ (\E s \in Sessions : Forwards(s))
              \/ (\E x \in Scanners : ScanForwards(x))
         /\ filling' = filling \/ Notices \/ (\E s \in Sessions : Fills(s))
         /\ fading' = fading \/ Notices \/ Hears \/ (\E s \in Sessions : Fades(s))
         /\ last' = last \/ Notices
         /\ hearing' = hearing \/ HearsEvents \/ HearsChanges \/ SessionsLost
         /\ creating' = creating \/ Hears
              \/ \E s \in Sessions : Forwards(s) \/ ReadsStatus(s) \/ Creates(s)
         /\ settled' = settled \/ Hears \/ Notices \/ settled' = {}
              \/ \E s \in Sessions : ConnectTo(s) \/ Inserts(s)
         /\ shown' = shown \/ Notices \/ ConfigsBack \/ SessionsLost
              \/ (\E x \in Scanners : ScanEnds(x))
              \/ \E s \in Sessions : Creates(s) \/ Fills(s) \/ Fades(s) \/ ConnectTo(s)
                                     \/ Inserts(s)
         /\ scan' = scan \/ ConfigsBack
              \/ \E x \in Scanners : ScanLists(x) \/ (\E s \in Sessions : ScanReads(x, s))
                                     \/ ScanForwards(x) \/ ScanEnds(x) \/ ScanFails(x)
<1> USE DEF MirrorNext, mirrorVars, openvpn3, streams, futures
<1>1. forwarded' = forwarded \/ (\E s \in Sessions : Forwards(s))
        \/ (\E x \in Scanners : ScanForwards(x))
  BY DEF Appears, Disappears, Moves, ReadsStatus, Creates, Fills, Fades, ConnectTo, Inserts,
         ScanLists, ScanReads, ScanEnds, ScanFails, HearsEvents, HearsChanges, ConfigsBack,
         SessionsLost, Hears, Notices
<1>2. filling' = filling \/ Notices \/ (\E s \in Sessions : Fills(s))
  BY DEF Appears, Disappears, Moves, Forwards, ReadsStatus, Creates, Fades, ConnectTo, Inserts,
         ScanLists, ScanReads, ScanForwards, ScanEnds, ScanFails, HearsEvents, HearsChanges,
         ConfigsBack, SessionsLost, Hears
<1>3. fading' = fading \/ Notices \/ Hears \/ (\E s \in Sessions : Fades(s))
  BY DEF Appears, Disappears, Moves, Forwards, ReadsStatus, Creates, Fills, ConnectTo, Inserts,
         ScanLists, ScanReads, ScanForwards, ScanEnds, ScanFails, HearsEvents, HearsChanges,
         ConfigsBack, SessionsLost
<1>4. last' = last \/ Notices
  BY DEF Appears, Disappears, Moves, Forwards, ReadsStatus, Creates, Fills, Fades, ConnectTo,
         Inserts, ScanLists, ScanReads, ScanForwards, ScanEnds, ScanFails, HearsEvents,
         HearsChanges, ConfigsBack, SessionsLost, Hears
<1>5. hearing' = hearing \/ HearsEvents \/ HearsChanges \/ SessionsLost
  BY DEF Appears, Disappears, Moves, Forwards, ReadsStatus, Creates, Fills, Fades, ConnectTo,
         Inserts, ScanLists, ScanReads, ScanForwards, ScanEnds, ScanFails, ConfigsBack, Hears,
         Notices
<1>6. creating' = creating \/ Hears
        \/ \E s \in Sessions : Forwards(s) \/ ReadsStatus(s) \/ Creates(s)
  BY DEF Appears, Disappears, Moves, Fills, Fades, ConnectTo, Inserts, ScanLists, ScanReads,
         ScanForwards, ScanEnds, ScanFails, HearsEvents, HearsChanges, ConfigsBack,
         SessionsLost, Notices
<1>7. settled' = settled \/ Hears \/ Notices \/ settled' = {}
        \/ \E s \in Sessions : ConnectTo(s) \/ Inserts(s)
  BY DEF Appears, Disappears, Moves, Forwards, ReadsStatus, Creates, Fills, Fades, ScanLists,
         ScanReads, ScanForwards, ScanEnds, ScanFails, HearsEvents, HearsChanges, ConfigsBack,
         SessionsLost
<1>8. shown' = shown \/ Notices \/ ConfigsBack \/ SessionsLost
        \/ (\E x \in Scanners : ScanEnds(x))
        \/ \E s \in Sessions : Creates(s) \/ Fills(s) \/ Fades(s) \/ ConnectTo(s) \/ Inserts(s)
  BY DEF Appears, Disappears, Moves, Forwards, ReadsStatus, ScanLists, ScanReads, ScanForwards,
         ScanFails, HearsEvents, HearsChanges, Hears
<1>9. scan' = scan \/ ConfigsBack
        \/ \E x \in Scanners : ScanLists(x) \/ (\E s \in Sessions : ScanReads(x, s))
                               \/ ScanForwards(x) \/ ScanEnds(x) \/ ScanFails(x)
  BY DEF Appears, Disappears, Moves, Forwards, ReadsStatus, Creates, Fills, Fades, ConnectTo,
         Inserts, HearsEvents, HearsChanges, SessionsLost, Hears, Notices
<1> QED BY <1>1, <1>2, <1>3, <1>4, <1>5, <1>6, <1>7, <1>8, <1>9

\* Nothing is known, said or awaited of a session before it begins.
Begun(s) == real[s] # "unborn"

QueuesBegun ==
  /\ \A i \in DOMAIN events : Begun(events[i][2])
  /\ \A i \in DOMAIN changes : Begun(changes[i][1])

FuturesBegun ==
  \A s \in Sessions :
    s \in forwarded \/ s \in filling \/ s \in settled \/ creating[s] # "no" => Begun(s)

ScansBegun == \A x \in Scanners : \A s \in scan[x].todo : Begun(s)

Born == QueuesBegun /\ FuturesBegun /\ ScansBegun

LEMMA QueuesBegunKept ==
  ASSUME MirrorOK, [MirrorNext]_mirrorVars, QueuesBegun
  PROVE  QueuesBegun'
<1> DEFINE Events == {"created", "destroyed"} \X Sessions
           Told == Sessions \X Statuses
<1>1. events \in Seq(Events) /\ changes \in Seq(Told)
  BY DEF MirrorOK, StreamsOK
<1>2. ASSUME NEW i \in DOMAIN events' PROVE real'[events'[i][2]] # "unborn"
  <2>1. ASSUME NEW j \in DOMAIN events, events'[i] = events[j]
        PROVE  real'[events'[i][2]] # "unborn"
    <3>1. events[j] \in Events
      BY <1>1
    <3>2. events[j][2] \in Sessions /\ real[events[j][2]] # "unborn"
      BY <3>1 DEF QueuesBegun, Begun
    <3> QED BY <2>1, <3>2, LivesOn
  <2>2. ASSUME NEW s \in Sessions, events'[i] = <<"created", s>> /\ real'[s] = "fresh"
        PROVE  real'[events'[i][2]] # "unborn"
    BY <2>2
  <2>3. ASSUME NEW s \in Sessions, events'[i] = <<"destroyed", s>> /\ real'[s] = "gone"
        PROVE  real'[events'[i][2]] # "unborn"
    BY <2>3
  <2> QED BY <2>1, <2>2, <2>3, EventsFrom
<1>3. ASSUME NEW j \in DOMAIN changes
      PROVE  changes[j][1] \in Sessions /\ real'[changes[j][1]] # "unborn"
  <2>1. changes[j] \in Told
    BY <1>1
  <2>2. changes[j][1] \in Sessions /\ real[changes[j][1]] # "unborn"
    BY <2>1 DEF QueuesBegun, Begun
  <2> QED BY <2>2, LivesOn
<1>4. ASSUME NEW i \in DOMAIN changes' PROVE real'[changes'[i][1]] # "unborn"
  <2>1. CASE changes' = changes
    BY <1>3, <2>1
  <2>2. CASE Notices
    <3>1. changes # <<>> /\ changes' = Tail(changes)
      BY <2>2 DEF Notices
    <3> HIDE DEF Told
    <3>2. /\ DOMAIN changes' = 1..(Len(changes) - 1) /\ Len(changes) \in Nat \ {0}
          /\ DOMAIN changes = 1..Len(changes)
          /\ \A k \in 1..(Len(changes) - 1) : changes'[k] = changes[k + 1]
      BY <1>1, <3>1, Heard
    <3>3. i + 1 \in DOMAIN changes /\ changes'[i] = changes[i + 1]
      BY <3>2
    <3> QED BY <1>3, <3>3
  <2>3. ASSUME NEW s \in Sessions, NEW status \in Statuses, Moves(s, status),
               Lengthened(s, status)
        PROVE  real'[changes'[i][1]] # "unborn"
    <3>1. CASE i <= Len(changes)
      BY <1>3, <2>3, <3>1 DEF Lengthened
    <3>2. CASE ~(i <= Len(changes))
      <4>1. changes'[i][1] = s
        BY <2>3, <3>2 DEF Lengthened
      <4>2. real[s] # "unborn"
        BY <2>3 DEF Moves, Exists, Statuses, Ongoing, Over
      <4> QED BY <4>1, <4>2, LivesOn
    <3> QED BY <3>1, <3>2
  <2> QED BY <2>1, <2>2, <2>3, ChangesFrom
<1> QED BY <1>2, <1>4 DEF QueuesBegun, Begun

\* Whoever a message is about has begun.
LEMMA HeadsBegun ==
  ASSUME MirrorOK, QueuesBegun
  PROVE  /\ events # <<>> => Head(events)[2] \in Sessions /\ Begun(Head(events)[2])
         /\ changes # <<>> => Head(changes)[1] \in Sessions /\ Begun(Head(changes)[1])
<1> DEFINE Events == {"created", "destroyed"} \X Sessions
           Told == Sessions \X Statuses
<1>1. events \in Seq(Events) /\ changes \in Seq(Told)
  BY DEF MirrorOK, StreamsOK
<1>2. ASSUME events # <<>>
      PROVE  Head(events)[2] \in Sessions /\ Begun(Head(events)[2])
  <2>1. Head(events) \in Events
    BY <1>1, <1>2
  <2> HIDE DEF Events
  <2>2. 1 \in DOMAIN events /\ Head(events) = events[1]
    BY <1>1, <1>2, Heard
  <2>3. Begun(events[1][2])
    BY <2>2 DEF QueuesBegun
  <2> QED BY <2>1, <2>2, <2>3 DEF Events
<1>3. ASSUME changes # <<>>
      PROVE  Head(changes)[1] \in Sessions /\ Begun(Head(changes)[1])
  <2>1. Head(changes) \in Told
    BY <1>1, <1>3
  <2> HIDE DEF Told
  <2>2. 1 \in DOMAIN changes /\ Head(changes) = changes[1]
    BY <1>1, <1>3, Heard
  <2>3. Begun(changes[1][1])
    BY <2>2 DEF QueuesBegun
  <2> QED BY <2>1, <2>2, <2>3 DEF Told
<1> QED BY <1>2, <1>3

LEMMA FuturesBegunKept ==
  ASSUME MirrorOK, [MirrorNext]_mirrorVars, QueuesBegun, FuturesBegun
  PROVE  FuturesBegun'
<1> SUFFICES ASSUME NEW s \in Sessions,
                    s \in forwarded' \/ s \in filling' \/ s \in settled' \/ creating'[s] # "no"
             PROVE  real'[s] # "unborn"
  BY DEF FuturesBegun, Begun
<1> SUFFICES ASSUME real[s] = "unborn" PROVE FALSE
  BY LivesOn
<1>1. s \notin forwarded /\ s \notin filling /\ s \notin settled /\ creating[s] = "no"
  BY DEF FuturesBegun, Begun
<1>2. ~Exists(s)
  BY DEF Exists, Statuses, Ongoing, Over
<1>3. s \notin forwarded'
  <2>1. ASSUME NEW x \in Scanners, ScanForwards(x) PROVE s \notin forwarded'
    BY <1>1, <1>2, <2>1 DEF ScanForwards
  <2>2. ASSUME NEW r \in Sessions, Forwards(r) PROVE s \notin forwarded'
    BY <1>1, <1>2, <2>2 DEF Forwards
  <2> QED BY <1>1, <2>1, <2>2, WhoChanges
<1>4. ASSUME Notices PROVE s \notin filling' /\ s \notin settled'
  <2>1. Head(changes)[1] # s
    BY <1>4, HeadsBegun DEF Notices, Begun
  <2> QED BY <1>1, <1>4, <2>1 DEF Notices
<1>5. ASSUME Hears PROVE s \notin settled' /\ creating'[s] = "no"
  <2>1. Head(events)[2] # s /\ Head(events)[2] \in Sessions
    BY <1>5, HeadsBegun DEF Hears, Begun
  <2> QED BY <1>1, <1>5, <2>1 DEF Hears, MirrorOK, TrayOK
<1>6. s \notin filling'
  <2>1. ASSUME NEW r \in Sessions, Fills(r) PROVE s \notin filling'
    BY <1>1, <2>1 DEF Fills
  <2> QED BY <1>1, <1>4, <2>1, WhoChanges
<1>7. s \notin settled'
  <2>1. ASSUME NEW r \in Sessions, ConnectTo(r) \/ Inserts(r) PROVE s \notin settled'
    BY <1>1, <2>1 DEF ConnectTo, Inserts
  <2> QED BY <1>1, <1>4, <1>5, <2>1, WhoChanges
<1>8. creating'[s] = "no"
  <2>1. ASSUME NEW r \in Sessions, Forwards(r) \/ ReadsStatus(r) \/ Creates(r)
        PROVE  creating'[s] = "no"
    <3>1. creating[r] # "no"
      BY <2>1 DEF Forwards, ReadsStatus, Creates, Statuses, Ongoing, Over
    <3>2. r # s
      BY <1>1, <3>1
    <3>3. creating \in [Sessions -> Statuses \cup {"no", "begun", "forwarded", "unset"}]
      BY DEF MirrorOK, TrayOK
    <3>4. creating'[s] = creating[s]
      BY <2>1, <3>2, <3>3 DEF Forwards, ReadsStatus, Creates
    <3> QED BY <1>1, <3>4
  <2> QED BY <1>1, <1>5, <2>1, WhoChanges
<1> QED BY <1>3, <1>6, <1>7, <1>8

\* What a step of a scan leaves it with.
LEMMA ScanFrom ==
  ASSUME MirrorOK, [MirrorNext]_mirrorVars, NEW x \in Scanners
  PROVE  \/ scan'[x] = scan[x]
         \/ scan'[x].at # "reading" /\ scan'[x].todo = {}
         \/ /\ scan'[x].todo = {s \in Sessions : Exists(s)} /\ real' = real
            /\ scan'[x].seen = [s \in Sessions |-> NoEntry]
         \/ /\ scan'[x].todo = scan[x].todo /\ scan'[x].seen = scan[x].seen /\ real' = real
            /\ scan'[x].at = scan[x].at
         \/ \E s \in scan[x].todo :
              /\ scan'[x].todo \subseteq scan[x].todo /\ real' = real
              /\ scan[x].at = "reading"
              /\ scan'[x].seen = [scan[x].seen EXCEPT ![s] =
                                    Entry(IF Exists(s) THEN real[s] ELSE "unset", Exists(s))]
<1>1. /\ scan \in [Scanners -> ScanStates] /\ scan[x] \in ScanStates
      /\ ScanStateOK(scan[x])
  BY DEF MirrorOK, ScanOK
<1>2. ASSUME NEW y \in Scanners, y # x,
             ScanLists(y) \/ (\E s \in Sessions : ScanReads(y, s)) \/ ScanForwards(y)
             \/ ScanEnds(y) \/ ScanFails(y)
      PROVE  scan'[x] = scan[x]
  BY <1>1, <1>2 DEF ScanLists, ScanReads, ScanForwards, ScanEnds, ScanFails
<1>3. CASE ScanLists(x)
  BY <1>1, <1>3 DEF ScanLists, ScanStates, openvpn3
<1>4. ASSUME NEW s \in Sessions, ScanReads(x, s)
      PROVE  /\ s \in scan[x].todo
             /\ scan'[x].todo \subseteq scan[x].todo /\ real' = real
             /\ scan[x].at = "reading"
             /\ scan'[x].seen = [scan[x].seen EXCEPT ![s] =
                                   Entry(IF Exists(s) THEN real[s] ELSE "unset", Exists(s))]
  BY <1>1, <1>4 DEF ScanReads, ScanStates, ScanStateOK, openvpn3
<1>5. CASE ScanForwards(x)
  BY <1>1, <1>5 DEF ScanForwards, ScanStates
<1>6. CASE ScanEnds(x) \/ ScanFails(x)
  <2> DEFINE n == scan[x].tries + 1
             again == [Idle EXCEPT !.at = "begin", !.tries = n]
  <2>1. scan'[x] = Idle \/ scan'[x] = again
    BY <1>1, <1>6 DEF ScanEnds, ScanFails
  <2> HIDE DEF n
  <2>2. again.at = "begin" /\ again.todo = {}
    BY IdleOK DEF ScanStates
  <2> HIDE DEF again
  <2>3. scan'[x].at # "reading" /\ scan'[x].todo = {}
    BY <2>1, <2>2, IdleOK
  <2> QED BY <2>3
<1>7. CASE ConfigsBack
  <2>1. CASE x = "watcher"
    <3>1. scan'[x].at = "begin" /\ scan'[x].todo = scan[x].todo /\ scan[x].at = "idle"
      BY <1>1, <1>7, <2>1 DEF ConfigsBack, ScanStates
    <3> QED BY <1>1, <3>1 DEF ScanStateOK
  <2>2. CASE x # "watcher"
    BY <1>1, <1>7, <2>2 DEF ConfigsBack
  <2> QED BY <2>1, <2>2
<1>8. CASE scan' = scan
  BY <1>8
<1> QED BY <1>2, <1>3, <1>4, <1>5, <1>6, <1>7, <1>8, WhoChanges

LEMMA ScansBegunKept ==
  ASSUME MirrorOK, [MirrorNext]_mirrorVars, ScansBegun
  PROVE  ScansBegun'
<1> SUFFICES ASSUME NEW x \in Scanners, NEW s \in scan'[x].todo PROVE real'[s] # "unborn"
  BY DEF ScansBegun, Begun
<1>1. scan[x].todo \subseteq Sessions
  BY DEF MirrorOK, ScanOK, ScanStates
<1>2. CASE s \in scan[x].todo
  BY <1>1, <1>2, LivesOn DEF ScansBegun, Begun
<1>3. CASE s \in Sessions /\ Exists(s) /\ real' = real
  BY <1>3 DEF Exists, Statuses, Ongoing, Over
<1> QED BY <1>2, <1>3, ScanFrom

LEMMA BornInductive ==
  /\ MirrorInit => Born
  /\ MirrorOK /\ Born /\ [MirrorNext]_mirrorVars => Born'
<1>1. ASSUME MirrorInit PROVE Born
  <2>1. QueuesBegun /\ FuturesBegun
    BY <1>1 DEF MirrorInit, QueuesBegun, FuturesBegun
  <2>2. ASSUME NEW x \in Scanners PROVE scan[x].todo = {}
    BY <1>1, <2>2 DEF MirrorInit, Idle
  <2> QED BY <2>1, <2>2 DEF Born, ScansBegun
<1> QED BY <1>1, QueuesBegunKept, FuturesBegunKept, ScansBegunKept DEF Born

\* An entry without a config has somebody who asks for it, or its session is
\* gone; so have a scan's, and an answer that openvpn3 did not give.
Unanswered(entry) == entry # NoEntry /\ entry.known = FALSE

ShownAnswered ==
  \A s \in Sessions : Unanswered(shown[s]) => s \in filling \/ real[s] = "gone"

SeenAnswered ==
  \A x \in Scanners, s \in Sessions :
    scan[x].at = "reading" /\ Unanswered(scan[x].seen[s]) => real[s] = "gone"

Answered == \A s \in Sessions : creating[s] = "unset" => real[s] = "gone"

Identified == ShownAnswered /\ SeenAnswered /\ Answered

LEMMA NotThere ==
  ASSUME MirrorOK, NEW s \in Sessions, Begun(s), ~Exists(s)
  PROVE  real[s] = "gone"
BY DEF MirrorOK, WorldOK, Begun, Exists

LEMMA SeenAnsweredKept ==
  ASSUME MirrorOK, [MirrorNext]_mirrorVars, Born, SeenAnswered
  PROVE  SeenAnswered'
<1> SUFFICES ASSUME NEW x \in Scanners, NEW s \in Sessions, scan'[x].at = "reading",
                    scan'[x].seen[s] # NoEntry, scan'[x].seen[s].known = FALSE
             PROVE  real'[s] = "gone"
  BY DEF SeenAnswered, Unanswered
<1>1. ScanStateOK(scan[x]) /\ scan[x] \in ScanStates
  BY DEF MirrorOK, ScanOK
<1>2. CASE scan'[x].seen = scan[x].seen /\ scan[x].at = "reading"
  <2>1. real[s] = "gone"
    BY <1>2 DEF SeenAnswered, Unanswered
  <2> QED BY <2>1, LivesOn
<1>3. CASE scan'[x].seen = [r \in Sessions |-> NoEntry]
  BY <1>3
<1>4. ASSUME NEW r \in scan[x].todo, real' = real, scan[x].at = "reading",
             scan'[x].seen = [scan[x].seen EXCEPT ![r] =
                                Entry(IF Exists(r) THEN real[r] ELSE "unset", Exists(r))]
      PROVE  real'[s] = "gone"
  <2>1. scan[x].seen \in Tables /\ r \in Sessions
    BY <1>1, <1>4 DEF ScanStateOK, ScanStates
  <2>2. CASE s = r
    <3>1. scan'[x].seen[s] = Entry(IF Exists(r) THEN real[r] ELSE "unset", Exists(r))
      BY <1>4, <2>1, <2>2 DEF Tables
    <3>2. scan'[x].seen[s].known = Exists(r)
      BY <3>1 DEF Entry
    <3>3. ~Exists(r) /\ Begun(r)
      BY <1>4, <3>2 DEF Born, ScansBegun
    <3> QED BY <1>4, <2>1, <2>2, <3>3, NotThere
  <2>3. CASE s # r
    <3>1. scan'[x].seen[s] = scan[x].seen[s]
      BY <1>4, <2>1, <2>3 DEF Tables
    <3>2. real[s] = "gone"
      BY <1>4, <3>1 DEF SeenAnswered, Unanswered
    <3> QED BY <1>4, <3>2
  <2> QED BY <2>2, <2>3
<1> QED BY <1>2, <1>3, <1>4, ScanFrom

LEMMA AnsweredKept ==
  ASSUME MirrorOK, [MirrorNext]_mirrorVars, Born, Answered
  PROVE  Answered'
<1> SUFFICES ASSUME NEW s \in Sessions, creating'[s] = "unset" PROVE real'[s] = "gone"
  BY DEF Answered
<1> USE DEF MirrorOK, TrayOK
<1>1. CASE creating[s] = "unset"
  BY <1>1, LivesOn DEF Answered
<1>2. CASE creating[s] # "unset"
  <2>1. CASE Hears
    BY <1>2, <2>1 DEF Hears
  <2>2. ASSUME NEW r \in Sessions, Forwards(r) \/ Creates(r) PROVE FALSE
    BY <1>2, <2>2 DEF Forwards, Creates
  <2>3. ASSUME NEW r \in Sessions, ReadsStatus(r) PROVE real'[s] = "gone"
    <3>1. r = s /\ creating[s] = "forwarded" /\ real' = real
      BY <1>2, <2>3 DEF ReadsStatus, openvpn3
    <3>2. ~Exists(s)
      BY <2>3, <3>1 DEF ReadsStatus, Exists, Statuses, Ongoing, Over
    <3>3. Begun(s)
      BY <3>1 DEF Born, FuturesBegun
    <3> QED BY <3>1, <3>2, <3>3, NotThere
  <2> QED BY <1>2, <2>1, <2>2, <2>3, WhoChanges
<1> QED BY <1>1, <1>2

LEMMA ShownAnsweredKept ==
  ASSUME MirrorOK, [MirrorNext]_mirrorVars, Born, Identified
  PROVE  ShownAnswered'
<1> SUFFICES ASSUME NEW s \in Sessions, shown'[s] # NoEntry, shown'[s].known = FALSE
             PROVE  s \in filling' \/ real'[s] = "gone"
  BY DEF ShownAnswered, Unanswered
<1>1. shown \in [Sessions -> MaybeEntry] /\ shown[s] \in MaybeEntry
  BY DEF MirrorOK, TrayOK, Tables
<1>2. CASE shown'[s] = shown[s] /\ (s \in filling => s \in filling')
  BY <1>2, LivesOn DEF Identified, ShownAnswered, Unanswered
<1>3. CASE Notices
  <2> DEFINE r == Head(changes)[1]
             status == Head(changes)[2]
             entry == IF shown[r] # NoEntry THEN [shown[r] EXCEPT !.status = status]
                      ELSE IF IsAuth(status) THEN NoEntry ELSE Entry(status, FALSE)
  <2>1. \/ UNCHANGED <<shown, filling>>
        \/ /\ shown' = [shown EXCEPT ![r] = entry]
           /\ filling' = IF ~IsAuth(status) /\ shown[r] = NoEntry
                         THEN filling \cup {r} ELSE filling
    BY <1>3 DEF Notices, NeedsIdentity
  <2>2. CASE UNCHANGED <<shown, filling>>
    BY <1>2, <2>2
  <2>3. CASE shown' = [shown EXCEPT ![r] = entry]
             /\ filling' = IF ~IsAuth(status) /\ shown[r] = NoEntry
                           THEN filling \cup {r} ELSE filling
    <3>1. CASE s # r
      <4> HIDE DEF r, entry
      <4>1. shown'[s] = shown[s] /\ (s \in filling => s \in filling')
        BY <1>1, <2>3, <3>1
      <4> QED BY <1>2, <4>1
    <3>2. CASE s = r /\ shown[s] # NoEntry
      <4>1. shown[s] \in Entries
        BY <1>1, <3>2 DEF MaybeEntry
      <4>2. entry = [shown[s] EXCEPT !.status = status]
        BY <3>2
      <4>3. entry.known = shown[s].known
        BY <4>1, <4>2 DEF Entries
      <4> HIDE DEF r, entry
      <4>4. shown'[s] = entry
        BY <1>1, <2>3, <3>2
      <4>5. shown[s].known = FALSE /\ (s \in filling => s \in filling')
        BY <2>3, <4>3, <4>4
      <4> QED BY <3>2, <4>5, LivesOn DEF Identified, ShownAnswered, Unanswered
    <3>3. CASE s = r /\ shown[s] = NoEntry
      <4>1. shown'[s] = entry
        BY <1>1, <2>3, <3>3
      <4>2. ~IsAuth(status)
        BY <3>3, <4>1
      <4> QED BY <2>3, <3>3, <4>2
    <3> QED BY <3>1, <3>2, <3>3
  <2> QED BY <2>1, <2>2, <2>3
<1>4. ASSUME NEW x \in Scanners, ScanEnds(x) PROVE s \in filling' \/ real'[s] = "gone"
  BY <1>4, LivesOn DEF ScanEnds, Identified, SeenAnswered, Unanswered
<1>5. CASE ConfigsBack \/ SessionsLost
  BY <1>5 DEF ConfigsBack, SessionsLost
<1>6. ASSUME NEW r \in Sessions, Creates(r) PROVE s \in filling' \/ real'[s] = "gone"
  <2>1. CASE r # s
    BY <1>1, <1>2, <1>6, <2>1 DEF Creates
  <2>2. CASE r = s /\ shown[s] = NoEntry
    <3>1. shown'[s] = Entry(creating[s], creating[s] # "unset")
      BY <1>1, <1>6, <2>2 DEF Creates
    <3>2. shown'[s].known = (creating[s] # "unset")
      BY <3>1 DEF Entry
    <3>3. creating[s] = "unset"
      BY <3>2
    <3> QED BY <3>3, LivesOn DEF Identified, Answered
  <2>3. CASE r = s /\ shown[s] # NoEntry
    <3> DEFINE known == creating[s] # "unset"
    <3>1. shown' = [shown EXCEPT ![s] = [shown[s] EXCEPT !.known = @ \/ known]]
      BY <1>1, <1>6, <2>3 DEF Creates
    <3>2. shown[s] \in Entries
      BY <1>1, <2>3 DEF MaybeEntry
    <3> HIDE DEF known
    <3>3. shown'[s].known = (shown[s].known \/ known)
      BY <1>1, <3>1, <3>2 DEF Entries
    <3>4. shown[s].known = FALSE
      BY <3>2, <3>3 DEF Entries
    <3>5. filling' = filling
      BY <1>6 DEF Creates
    <3> QED BY <2>3, <3>4, <3>5, LivesOn DEF Identified, ShownAnswered, Unanswered
  <2> QED BY <2>1, <2>2, <2>3
<1>7. ASSUME NEW r \in Sessions, Fills(r) PROVE s \in filling' \/ real'[s] = "gone"
  <2>1. CASE r # s
    BY <1>1, <1>2, <1>7, <2>1 DEF Fills
  <2>2. CASE r = s /\ ~(shown[s] # NoEntry /\ Exists(s))
    <3>1. shown' = shown /\ s \in filling /\ real' = real
      BY <1>7, <2>2 DEF Fills, openvpn3
    <3>2. ~Exists(s) /\ Begun(s)
      BY <2>2, <3>1 DEF Born, FuturesBegun
    <3> QED BY <3>1, <3>2, NotThere
  <2>3. CASE r = s /\ shown[s] # NoEntry /\ Exists(s)
    <3>1. shown' = [shown EXCEPT ![s] = [shown[s] EXCEPT !.known = TRUE]]
      BY <1>7, <2>3 DEF Fills
    <3>2. shown[s] \in Entries
      BY <1>1, <2>3 DEF MaybeEntry
    <3>3. shown'[s].known = TRUE
      BY <1>1, <3>1, <3>2 DEF Entries
    <3> QED BY <3>3
  <2> QED BY <2>1, <2>2, <2>3
<1>8. ASSUME NEW r \in Sessions, Fades(r) PROVE s \in filling' \/ real'[s] = "gone"
  <2>1. shown'[s] = shown[s] /\ filling' = filling
    BY <1>1, <1>8 DEF Fades
  <2> QED BY <1>2, <2>1
<1>9. ASSUME NEW r \in Sessions, ConnectTo(r) PROVE s \in filling' \/ real'[s] = "gone"
  <2>1. shown'[s] = shown[s] /\ filling' = filling
    BY <1>1, <1>9 DEF ConnectTo
  <2> QED BY <1>2, <2>1
<1>10. ASSUME NEW r \in Sessions, Inserts(r) PROVE s \in filling' \/ real'[s] = "gone"
  <2>1. CASE r = s
    <3>1. shown'[s] = Entry("fresh", TRUE)
      BY <1>1, <1>10, <2>1 DEF Inserts
    <3> QED BY <3>1 DEF Entry
  <2>2. CASE r # s
    BY <1>1, <1>2, <1>10, <2>2 DEF Inserts
  <2> QED BY <2>1, <2>2
<1>11. ASSUME shown' = shown, ~Notices, ~(\E r \in Sessions : Fills(r))
       PROVE  s \in filling' \/ real'[s] = "gone"
  BY <1>2, <1>11, WhoChanges
<1> QED BY <1>3, <1>4, <1>5, <1>6, <1>7, <1>8, <1>9, <1>10, <1>11, WhoChanges

LEMMA IdentifiedInductive ==
  /\ MirrorInit => Identified
  /\ MirrorOK /\ Born /\ Identified /\ [MirrorNext]_mirrorVars => Identified'
<1>1. ASSUME MirrorInit PROVE Identified
  <2>1. ShownAnswered /\ Answered
    BY <1>1 DEF MirrorInit, ShownAnswered, Answered, Unanswered
  <2>2. ASSUME NEW x \in Scanners PROVE scan[x].at # "reading"
    BY <1>1, <2>2 DEF MirrorInit, Idle
  <2> QED BY <2>1, <2>2 DEF Identified, SeenAnswered
<1> QED BY <1>1, ShownAnsweredKept, SeenAnsweredKept, AnsweredKept DEF Identified

(***************************************************************************)
(* A live session in the tray has its config: every entry without one has  *)
(* a backfill_session_identity under way until its session is gone.        *)
(***************************************************************************)
THEOREM SessionsIdentified == MirrorSpec => []IdentityKnown
<1>1. ASSUME MirrorOK, Identified PROVE IdentityKnown
  <2> SUFFICES ASSUME filling = {}, NEW s \in Sessions, real[s] \in Ongoing, shown[s] # NoEntry
               PROVE  shown[s].known
    BY DEF IdentityKnown, NothingPending
  <2>1. shown[s] \in Entries
    BY <1>1 DEF MirrorOK, TrayOK, Tables, MaybeEntry
  <2>2. shown[s].known # FALSE
    BY <1>1 DEF Identified, ShownAnswered, Unanswered, Ongoing
  <2> QED BY <2>1, <2>2 DEF Entries
<1> QED BY <1>1, MirrorTyped, BornInductive, IdentifiedInductive, PTL DEF MirrorSpec

\* Only what is over fades, is announced as destroyed, or has reported so.
FadingOver == \A s \in fading : real[s] \in Over \cup {"gone"}

DestroyedGone ==
  \A i \in DOMAIN events : events[i][1] = "destroyed" => real[events[i][2]] = "gone"

ReportedOver ==
  \A i \in DOMAIN changes :
    changes[i][2] \in Over => real[changes[i][1]] \in Over \cup {"gone"}

Ends == FadingOver /\ DestroyedGone /\ ReportedOver

\* The queue of changes, and what Notices makes of its head.
LEMMA Headed ==
  ASSUME MirrorOK, changes # <<>>
  PROVE  /\ Len(changes) \in Nat \ {0} /\ DOMAIN changes = 1..Len(changes)
         /\ 1 \in DOMAIN changes /\ Head(changes) = changes[1]
         /\ Head(changes)[1] \in Sessions /\ Head(changes)[2] \in Statuses
         /\ changes' = Tail(changes) =>
              /\ DOMAIN changes' = 1..(Len(changes) - 1)
              /\ \A k \in 1..(Len(changes) - 1) : changes'[k] = changes[k + 1]
<1> DEFINE Told == Sessions \X Statuses
<1>1. changes \in Seq(Told)
  BY DEF MirrorOK, StreamsOK
<1>2. Head(changes) \in Told
  BY <1>1
<1>3. Head(changes)[1] \in Sessions /\ Head(changes)[2] \in Statuses
  BY <1>2
<1> HIDE DEF Told
<1>4. /\ 1 \in DOMAIN changes /\ Head(changes) = changes[1] /\ Len(changes) \in Nat \ {0}
      /\ DOMAIN changes = 1..Len(changes) /\ DOMAIN Tail(changes) = 1..(Len(changes) - 1)
      /\ \A k \in 1..(Len(changes) - 1) : Tail(changes)[k] = changes[k + 1]
  BY <1>1, Heard
<1> QED BY <1>3, <1>4

LEMMA EndsKept ==
  ASSUME MirrorOK, [MirrorNext]_mirrorVars, Ends
  PROVE  Ends'
<1> DEFINE Events == {"created", "destroyed"} \X Sessions
           Told == Sessions \X Statuses
<1>1. events \in Seq(Events) /\ changes \in Seq(Told) /\ fading \subseteq Sessions
  BY DEF MirrorOK, StreamsOK, TrayOK
<1>2. ASSUME NEW s \in fading' PROVE real'[s] \in Over \cup {"gone"}
  <2>1. CASE s \in fading
    BY <1>1, <2>1, LivesOn DEF Ends, FadingOver
  <2>2. CASE Hears /\ s \notin fading
    <3>1. /\ events # <<>> /\ Head(events)[1] # "created" /\ s = Head(events)[2]
          /\ real' = real
      BY <2>2 DEF Hears, openvpn3
    <3>2. Head(events) \in Events
      BY <1>1, <3>1
    <3>3. Head(events)[1] = "destroyed"
      BY <3>1, <3>2
    <3> HIDE DEF Events
    <3>4. 1 \in DOMAIN events /\ Head(events) = events[1]
      BY <1>1, <3>1, Heard
    <3> QED BY <3>1, <3>3, <3>4 DEF Ends, DestroyedGone
  <2>3. CASE Notices /\ s \notin fading
    <3>1. /\ changes # <<>> /\ Head(changes)[2] \in Over /\ s = Head(changes)[1]
          /\ real' = real
      BY <2>3 DEF Notices, openvpn3
    <3> QED BY <3>1, Headed DEF Ends, ReportedOver
  <2>4. ASSUME NEW r \in Sessions, Fades(r) PROVE s \in fading
    BY <2>4 DEF Fades
  <2> QED BY <2>1, <2>2, <2>3, <2>4, WhoChanges
<1>3. ASSUME NEW i \in DOMAIN events', events'[i][1] = "destroyed"
      PROVE  real'[events'[i][2]] = "gone"
  <2>1. ASSUME NEW j \in DOMAIN events, events'[i] = events[j]
        PROVE  real'[events'[i][2]] = "gone"
    <3>1. events[j] \in Events
      BY <1>1
    <3>2. events[j][2] \in Sessions /\ real[events[j][2]] = "gone"
      BY <1>3, <2>1, <3>1 DEF Ends, DestroyedGone
    <3> QED BY <2>1, <3>2, LivesOn
  <2>2. ASSUME NEW s \in Sessions, events'[i] = <<"created", s>> PROVE FALSE
    BY <1>3, <2>2
  <2>3. ASSUME NEW s \in Sessions, events'[i] = <<"destroyed", s>> /\ real'[s] = "gone"
        PROVE  real'[events'[i][2]] = "gone"
    BY <2>3
  <2> QED BY <2>1, <2>2, <2>3, EventsFrom
<1>4. ASSUME NEW j \in DOMAIN changes, changes[j][2] \in Over
      PROVE  real'[changes[j][1]] \in Over \cup {"gone"}
  <2>1. changes[j] \in Told
    BY <1>1
  <2>2. changes[j][1] \in Sessions /\ real[changes[j][1]] \in Over \cup {"gone"}
    BY <1>4, <2>1 DEF Ends, ReportedOver
  <2> QED BY <2>2, LivesOn
<1>5. ASSUME NEW i \in DOMAIN changes', changes'[i][2] \in Over
      PROVE  real'[changes'[i][1]] \in Over \cup {"gone"}
  <2>1. CASE changes' = changes
    BY <1>4, <1>5, <2>1
  <2>2. CASE Notices
    <3>1. i + 1 \in DOMAIN changes /\ changes'[i] = changes[i + 1]
      BY <2>2, Headed DEF Notices
    <3> QED BY <1>4, <1>5, <3>1
  <2>3. ASSUME NEW s \in Sessions, NEW status \in Statuses,
               real' = [real EXCEPT ![s] = status], Lengthened(s, status)
        PROVE  real'[changes'[i][1]] \in Over \cup {"gone"}
    <3>1. CASE i <= Len(changes)
      BY <1>4, <1>5, <2>3, <3>1 DEF Lengthened
    <3>2. CASE ~(i <= Len(changes))
      <4>1. changes'[i] = <<s, status>>
        BY <2>3, <3>2 DEF Lengthened
      <4>2. real'[s] = status
        BY <2>3 DEF MirrorOK, WorldOK
      <4> QED BY <1>5, <4>1, <4>2
    <3> QED BY <3>1, <3>2
  <2> QED BY <2>1, <2>2, <2>3, ChangesFrom
<1> QED BY <1>2, <1>3, <1>5 DEF Ends, FadingOver, DestroyedGone, ReportedOver

\* StatusChanges come only from a subscription and with LogForward, and what a
\* session is doing is the last that they tell.
Subscribed ==
  changes # <<>> \/ settled # {} \/ (\E s \in Sessions : last[s] # "none")
    => "changes" \in hearing

OnlyForwarded ==
  \A s \in Sessions \ forwarded :
    last[s] = "none" /\ \A i \in DOMAIN changes : changes[i][1] # s

LatestTold(s) ==
  \/ last[s] \in {"none", real[s]} /\ \A i \in DOMAIN changes : changes[i][1] # s
  \/ \E i \in DOMAIN changes :
       changes[i] = <<s, real[s]>> /\ \A j \in DOMAIN changes : j > i => changes[j][1] # s

Informed == Subscribed /\ OnlyForwarded /\ \A s \in Sessions : Exists(s) => LatestTold(s)

\* Statuses and their reports move together.
LEMMA Telling ==
  ASSUME MirrorOK, [MirrorNext]_mirrorVars
  PROVE  \/ UNCHANGED <<real, changes, last>>
         \/ Notices \/ SessionsLost
         \/ \E s \in Sessions : Appears(s) \/ ConnectTo(s) \/ Disappears(s)
         \/ \E s \in Sessions, status \in Statuses :
              /\ Moves(s, status) /\ last' = last
              /\ \/ s \in forwarded /\ "changes" \in hearing /\ Lengthened(s, status)
                 \/ ~(s \in forwarded /\ "changes" \in hearing) /\ changes' = changes
<1>1. ASSUME NEW s \in Sessions, NEW status \in Statuses, Moves(s, status)
      PROVE  /\ last' = last
             /\ \/ s \in forwarded /\ "changes" \in hearing /\ Lengthened(s, status)
                \/ ~(s \in forwarded /\ "changes" \in hearing) /\ changes' = changes
  <2>1. CASE s \in forwarded /\ "changes" \in hearing
    BY <1>1, <2>1, Reported DEF Moves
  <2>2. CASE ~(s \in forwarded /\ "changes" \in hearing)
    BY <1>1, <2>2 DEF Moves, Report
  <2> QED BY <2>1, <2>2
<1>2. \/ UNCHANGED <<real, changes, last>>
      \/ Notices \/ SessionsLost
      \/ \E s \in Sessions : \/ Appears(s) \/ ConnectTo(s) \/ Disappears(s)
                             \/ \E status \in Statuses : Moves(s, status)
  BY DEF MirrorNext, mirrorVars, openvpn3, streams, Forwards, ReadsStatus, Creates, Fills,
         Fades, Inserts, ScanLists, ScanReads, ScanForwards, ScanEnds, ScanFails, HearsEvents,
         HearsChanges, ConfigsBack, Hears
<1> QED BY <1>1, <1>2

LEMMA SubscribedKept ==
  ASSUME MirrorOK, [MirrorNext]_mirrorVars, Subscribed
  PROVE  Subscribed'
<1>1. "changes" \in hearing => "changes" \in hearing'
  BY WhoChanges DEF HearsEvents, HearsChanges, SessionsLost
<1>2. CASE "changes" \in hearing
  BY <1>1, <1>2 DEF Subscribed
<1>3. CASE "changes" \notin hearing
  <2>1. changes = <<>> /\ settled = {} /\ \A s \in Sessions : last[s] = "none"
    BY <1>3 DEF Subscribed
  <2>2. ~Notices
    BY <2>1 DEF Notices
  <2>3. changes' = <<>>
    BY <1>3, <2>1, <2>2, ChangesFrom
  <2>4. \A s \in Sessions : last'[s] = "none"
    BY <2>1, <2>2, WhoChanges
  <2>5. settled' = {}
    <3>1. CASE Hears
      BY <1>3, <2>1, <3>1 DEF Hears
    <3>2. ASSUME NEW s \in Sessions, ConnectTo(s) \/ Inserts(s) PROVE settled' = {}
      BY <2>1, <3>2 DEF ConnectTo, Inserts
    <3> QED BY <2>1, <2>2, <3>1, <3>2, WhoChanges
  <2> QED BY <2>3, <2>4, <2>5 DEF Subscribed
<1> QED BY <1>2, <1>3

LEMMA OnlyForwardedKept ==
  ASSUME MirrorOK, [MirrorNext]_mirrorVars, OnlyForwarded
  PROVE  OnlyForwarded'
<1> SUFFICES ASSUME NEW s \in Sessions, s \notin forwarded'
             PROVE  last'[s] = "none" /\ \A i \in DOMAIN changes' : changes'[i][1] # s
  BY DEF OnlyForwarded
<1>1. s \notin forwarded
  <2>1. ASSUME NEW x \in Scanners, ScanForwards(x) PROVE s \notin forwarded
    BY <2>1 DEF ScanForwards
  <2>2. ASSUME NEW r \in Sessions, Forwards(r) PROVE s \notin forwarded
    BY <2>2 DEF Forwards
  <2> QED BY <2>1, <2>2, WhoChanges
<1>2. last[s] = "none" /\ \A i \in DOMAIN changes : changes[i][1] # s
  BY <1>1 DEF OnlyForwarded
<1>3. CASE Notices
  <2>1. changes # <<>> /\ changes' = Tail(changes)
    BY <1>3 DEF Notices
  <2>2. Head(changes)[1] # s
    BY <1>2, <2>1, Headed
  <2>3. last'[s] = "none"
    BY <1>2, <1>3, <2>2 DEF Notices, MirrorOK, TrayOK
  <2>4. ASSUME NEW i \in DOMAIN changes' PROVE changes'[i][1] # s
    <3>1. i + 1 \in DOMAIN changes /\ changes'[i] = changes[i + 1]
      BY <2>1, Headed
    <3> QED BY <1>2, <3>1
  <2> QED BY <2>3, <2>4
<1>4. CASE ~Notices
  <2>1. last' = last
    BY <1>4, WhoChanges
  <2>2. ASSUME NEW i \in DOMAIN changes' PROVE changes'[i][1] # s
    <3>1. CASE changes' = changes
      BY <1>2, <3>1
    <3>2. ASSUME NEW r \in Sessions, NEW status \in Statuses, r \in forwarded,
                 Lengthened(r, status)
          PROVE  changes'[i][1] # s
      <4>1. CASE i <= Len(changes)
        BY <1>2, <3>2, <4>1 DEF Lengthened
      <4>2. CASE ~(i <= Len(changes))
        <5>1. changes'[i] = <<r, status>>
          BY <3>2, <4>2 DEF Lengthened
        <5> QED BY <1>1, <3>2, <5>1
      <4> QED BY <4>1, <4>2
    <3> QED BY <1>4, <3>1, <3>2, ChangesFrom
  <2> QED BY <1>2, <2>1, <2>2
<1> QED BY <1>3, <1>4

\* The queue is longer: what it tells of a session is the new status, or what it was.
LEMMA LengthenedTells ==
  ASSUME MirrorOK, NEW s \in Sessions, NEW status \in Statuses, Lengthened(s, status),
         NEW r \in Sessions, real'[r] = IF r = s THEN status ELSE real[r], last' = last,
         r = s \/ LatestTold(r)
  PROVE  LatestTold(r)'
<1>1. PICK n \in {Len(changes) + 1, Len(changes) + 2} :
        /\ Len(changes) \in Nat
        /\ DOMAIN changes = 1..Len(changes) /\ DOMAIN changes' = 1..n
        /\ \A i \in 1..n : changes'[i] = IF i <= Len(changes) THEN changes[i] ELSE <<s, status>>
  BY DEF Lengthened
<1>2. CASE r = s
  <2>1. n \in DOMAIN changes' /\ changes'[n] = <<r, real'[r]>>
    BY <1>1, <1>2
  <2>2. \A j \in DOMAIN changes' : ~(j > n)
    BY <1>1
  <2> QED BY <2>1, <2>2 DEF LatestTold
<1>3. CASE r # s
  <2>1. ASSUME NEW i \in DOMAIN changes', changes'[i][1] = r
        PROVE  i \in DOMAIN changes /\ changes'[i] = changes[i]
    <3>1. CASE i <= Len(changes)
      BY <1>1, <3>1
    <3>2. CASE ~(i <= Len(changes))
      <4>1. changes'[i] = <<s, status>>
        BY <1>1, <3>2
      <4> QED BY <1>3, <2>1, <4>1
    <3> QED BY <3>1, <3>2
  <2>2. CASE last[r] \in {"none", real[r]} /\ \A i \in DOMAIN changes : changes[i][1] # r
    BY <1>3, <2>1, <2>2 DEF LatestTold
  <2>3. ASSUME NEW i \in DOMAIN changes, changes[i] = <<r, real[r]>>,
               \A j \in DOMAIN changes : j > i => changes[j][1] # r
        PROVE  LatestTold(r)'
    <3>1. i \in DOMAIN changes' /\ changes'[i] = <<r, real'[r]>>
      BY <1>1, <1>3, <2>3
    <3>2. ASSUME NEW j \in DOMAIN changes', j > i PROVE changes'[j][1] # r
      BY <2>1, <2>3, <3>2
    <3> QED BY <3>1, <3>2 DEF LatestTold
  <2> QED BY <1>3, <2>2, <2>3 DEF LatestTold
<1> QED BY <1>2, <1>3

\* The head of the queue is handled: it is the last signal now, unless it was already.
LEMMA NoticesTells ==
  ASSUME MirrorOK, Notices, NEW r \in Sessions, LatestTold(r)
  PROVE  LatestTold(r)'
<1>1. /\ changes # <<>> /\ changes' = Tail(changes) /\ real' = real
      /\ last \in [Sessions -> Statuses \cup {"none"}]
  BY DEF Notices, openvpn3, MirrorOK, TrayOK
<1>2. /\ Len(changes) \in Nat \ {0} /\ DOMAIN changes = 1..Len(changes)
      /\ Head(changes) = changes[1] /\ DOMAIN changes' = 1..(Len(changes) - 1)
      /\ \A k \in 1..(Len(changes) - 1) : changes'[k] = changes[k + 1]
  BY <1>1, Headed
<1>3. ASSUME NEW k \in DOMAIN changes'
      PROVE  k + 1 \in DOMAIN changes /\ changes'[k] = changes[k + 1]
  BY <1>2
<1>4. CASE last[r] \in {"none", real[r]} /\ \A i \in DOMAIN changes : changes[i][1] # r
  <2>1. Head(changes)[1] # r
    BY <1>2, <1>4
  <2>2. last'[r] = last[r]
    BY <1>1, <2>1 DEF Notices
  <2>3. \A k \in DOMAIN changes' : changes'[k][1] # r
    BY <1>3, <1>4
  <2> QED BY <1>1, <1>4, <2>2, <2>3 DEF LatestTold
<1>5. ASSUME NEW i \in DOMAIN changes, changes[i] = <<r, real[r]>>,
             \A j \in DOMAIN changes : j > i => changes[j][1] # r
      PROVE  LatestTold(r)'
  <2>1. CASE i = 1
    <3>1. Head(changes)[1] = r /\ Head(changes)[2] = real[r]
      BY <1>2, <1>5, <2>1
    <3>2. last'[r] = real[r]
      BY <1>1, <3>1 DEF Notices
    <3>3. ASSUME NEW k \in DOMAIN changes' PROVE changes'[k][1] # r
      <4>1. k + 1 > 1
        BY <1>2
      <4> QED BY <1>3, <1>5, <2>1, <4>1
    <3> QED BY <1>1, <3>2, <3>3 DEF LatestTold
  <2>2. CASE i # 1
    <3>1. i - 1 \in DOMAIN changes' /\ changes'[i - 1] = changes[i]
      BY <1>2, <2>2
    <3>2. ASSUME NEW k \in DOMAIN changes', k > i - 1 PROVE changes'[k][1] # r
      <4>1. k + 1 > i
        BY <1>2, <3>2
      <4> QED BY <1>3, <1>5, <4>1
    <3> QED BY <1>1, <1>5, <3>1, <3>2 DEF LatestTold
  <2> QED BY <2>1, <2>2
<1> QED BY <1>4, <1>5 DEF LatestTold

LEMMA InformedKept ==
  ASSUME MirrorOK, [MirrorNext]_mirrorVars, Born, Informed
  PROVE  Informed'
<1> SUFFICES ASSUME NEW r \in Sessions, real'[r] \in Statuses PROVE LatestTold(r)'
  BY SubscribedKept, OnlyForwardedKept DEF Informed, Exists
<1>1. real \in [Sessions -> Statuses \cup {"unborn", "gone"}]
  BY DEF MirrorOK, WorldOK
<1>2. real[r] \in Statuses => LatestTold(r)
  BY DEF Informed, Exists
<1>3. CASE UNCHANGED <<real, changes, last>>
  BY <1>2, <1>3 DEF LatestTold
<1>4. CASE Notices
  <2>1. real' = real
    BY <1>4 DEF Notices, openvpn3
  <2> QED BY <1>2, <1>4, <2>1, NoticesTells
<1>5. CASE SessionsLost
  <2>1. real'[r] = IF Exists(r) THEN "gone" ELSE real[r]
    BY <1>5 DEF SessionsLost
  <2> QED BY <2>1 DEF Exists, Statuses, Ongoing, Over
\* Nothing has been told of a session that begins.
<1>6. ASSUME NEW s \in Sessions, Appears(s) \/ ConnectTo(s) PROVE LatestTold(r)'
  <2>1. /\ real[s] = "unborn" /\ real' = [real EXCEPT ![s] = "fresh"]
        /\ changes' = changes /\ last' = last
    BY <1>6 DEF Appears, ConnectTo
  <2>2. CASE r = s
    <3>1. s \notin forwarded
      BY <2>1 DEF Born, FuturesBegun, Begun
    <3> QED BY <2>1, <2>2, <3>1 DEF Informed, OnlyForwarded, LatestTold
  <2>3. CASE r # s
    <3>1. real'[r] = real[r]
      BY <1>1, <2>1, <2>3
    <3> QED BY <1>2, <2>1, <3>1 DEF LatestTold
  <2> QED BY <2>2, <2>3
<1>7. ASSUME NEW s \in Sessions, Disappears(s) PROVE LatestTold(r)'
  <2>1. real' = [real EXCEPT ![s] = "gone"] /\ changes' = changes /\ last' = last
    BY <1>7 DEF Disappears
  <2>2. r # s
    BY <1>1, <2>1 DEF Statuses, Ongoing, Over
  <2>3. real'[r] = real[r]
    BY <1>1, <2>1, <2>2
  <2> QED BY <1>2, <2>1, <2>3 DEF LatestTold
<1>8. ASSUME NEW s \in Sessions, NEW status \in Statuses, Moves(s, status), last' = last,
             Lengthened(s, status)
      PROVE  LatestTold(r)'
  <2>1. real' = [real EXCEPT ![s] = status]
    BY <1>8 DEF Moves
  <2>2. real'[r] = IF r = s THEN status ELSE real[r]
    BY <1>1, <2>1
  <2> QED BY <1>2, <1>8, <2>2, LengthenedTells
<1>9. ASSUME NEW s \in Sessions, NEW status \in Statuses, Moves(s, status), last' = last,
             ~(s \in forwarded /\ "changes" \in hearing), changes' = changes
      PROVE  LatestTold(r)'
  <2>1. real' = [real EXCEPT ![s] = status]
    BY <1>9 DEF Moves
  <2>2. CASE r = s
    <3>1. last[s] = "none" /\ \A i \in DOMAIN changes : changes[i][1] # s
      <4>1. CASE s \notin forwarded
        BY <4>1 DEF Informed, OnlyForwarded
      <4>2. CASE "changes" \notin hearing
        <5>1. changes = <<>> /\ last[s] = "none"
          BY <4>2 DEF Informed, Subscribed
        <5> QED BY <5>1
      <4> QED BY <1>9, <4>1, <4>2
    <3> QED BY <1>9, <2>2, <3>1 DEF LatestTold
  <2>3. CASE r # s
    <3>1. real'[r] = real[r]
      BY <1>1, <2>1, <2>3
    <3> QED BY <1>2, <1>9, <3>1 DEF LatestTold
  <2> QED BY <2>2, <2>3
<1> QED BY <1>3, <1>4, <1>5, <1>6, <1>7, <1>8, <1>9, Telling

\* A settled session that exists: once all its reports are handled, its entry
\* shows what it does or SessCreated is about to write that; until it is
\* forwarded, SessCreated has both LogForward and the status ahead of it.
AllTold(s) == \A i \in DOMAIN changes : changes[i][1] = s => changes[i][2] = last[s]
Showing(s) == shown[s] # NoEntry /\ shown[s].status = real[s]
WillRead(s) == shown[s] = NoEntry /\ creating[s] \in {"begun", "forwarded", real[s]}

FaithfulAt(s) ==
  /\ s \notin forwarded => creating[s] = "begun" /\ shown[s] = NoEntry
  /\ real[s] \in Ongoing \ {"auth"} /\ AllTold(s) => Showing(s) \/ WillRead(s)

Faithful == \A s \in settled : Exists(s) => FaithfulAt(s)

LEMMA FaithfulSame ==
  ASSUME NEW s \in Sessions, FaithfulAt(s), s \in forwarded => s \in forwarded',
         real'[s] = real[s], shown'[s] = shown[s], creating'[s] = creating[s],
         AllTold(s)' => AllTold(s)
  PROVE  FaithfulAt(s)'
BY DEF FaithfulAt, Showing, WillRead

LEMMA AllToldSame ==
  ASSUME NEW s \in Sessions, changes' = changes, last'[s] = last[s]
  PROVE  AllTold(s)' <=> AllTold(s)
BY DEF AllTold

\* A session that changes is told of, unless it will be read.
LEMMA MovesFaithful ==
  ASSUME MirrorOK, [MirrorNext]_mirrorVars, Informed, Faithful,
         NEW r \in Sessions, NEW status \in Statuses, Moves(r, status), NEW s \in settled',
         real'[s] \in Statuses
  PROVE  FaithfulAt(s)'
<1>1. /\ UNCHANGED <<forwarded, shown, last, creating, settled>> /\ real[r] \in Statuses
      /\ real' = [real EXCEPT ![r] = status] /\ status # real[r]
      /\ real \in [Sessions -> Statuses \cup {"unborn", "gone"}] /\ s \in Sessions
  BY DEF Moves, Exists, futures, MirrorOK, WorldOK, TrayOK
<1>2. CASE s \in forwarded /\ s = r
  <2>1. settled # {}
    BY <1>1
  <2>2. "changes" \in hearing
    BY <2>1 DEF Informed, Subscribed
  <2>3. Lengthened(r, status)
    BY <1>2, <2>2, Reported
  <2>4. ASSUME AllTold(s)' PROVE FALSE
    <3>1. PICK n \in {Len(changes) + 1, Len(changes) + 2} :
            /\ Len(changes) \in Nat
            /\ DOMAIN changes = 1..Len(changes) /\ DOMAIN changes' = 1..n
            /\ \A i \in 1..n :
                 changes'[i] = IF i <= Len(changes) THEN changes[i] ELSE <<r, status>>
      BY <2>3 DEF Lengthened
    <3>2. n \in DOMAIN changes' /\ changes'[n] = <<r, status>>
      BY <3>1
    <3>3. last[s] = status
      BY <1>1, <1>2, <2>4, <3>2 DEF AllTold
    <3>4. ASSUME NEW i \in DOMAIN changes, changes[i] = <<s, real[s]>> PROVE FALSE
      <4>1. i \in DOMAIN changes' /\ changes'[i] = <<s, real[s]>>
        BY <3>1, <3>4
      <4>2. real[s] = last[s]
        BY <1>1, <2>4, <4>1 DEF AllTold
      <4> QED BY <1>1, <1>2, <3>3, <4>2
    <3>5. last[s] \in {"none", real[s]}
      BY <1>1, <1>2, <3>4 DEF Informed, Exists, LatestTold
    <3> QED BY <1>1, <1>2, <3>3, <3>5 DEF Statuses, Ongoing, Over
  <2> QED BY <1>1, <1>2, <2>4 DEF FaithfulAt
<1>3. CASE s \notin forwarded /\ s = r
  <2>1. creating[s] = "begun" /\ shown[s] = NoEntry
    BY <1>1, <1>3 DEF Faithful, FaithfulAt, Exists
  <2> QED BY <1>1, <2>1 DEF FaithfulAt, WillRead
<1>4. CASE s # r
  <2>1. real'[s] = real[s] /\ FaithfulAt(s)
    BY <1>1, <1>4 DEF Faithful, Exists
  <2>2. ASSUME AllTold(s)' PROVE AllTold(s)
    <3>1. CASE changes' = changes
      BY <1>1, <2>2, <3>1, AllToldSame
    <3>2. CASE Lengthened(r, status)
      <4>1. \A i \in DOMAIN changes : i \in DOMAIN changes' /\ changes'[i] = changes[i]
        BY <3>2 DEF Lengthened
      <4> QED BY <1>1, <2>2, <4>1 DEF AllTold
    <3> QED BY <3>1, <3>2, Reported DEF Moves, Report
  <2> QED BY <1>1, <2>1, <2>2, FaithfulSame
<1> QED BY <1>2, <1>3, <1>4

LEMMA WorldFaithful ==
  ASSUME MirrorOK, Born, Faithful, NEW r \in Sessions,
         Appears(r) \/ ConnectTo(r) \/ Disappears(r), NEW s \in settled', real'[s] \in Statuses
  PROVE  FaithfulAt(s)'
<1>1. /\ UNCHANGED <<forwarded, changes, last, creating>>
      /\ real \in [Sessions -> Statuses \cup {"unborn", "gone"}] /\ settled \subseteq Sessions
      /\ shown \in [Sessions -> MaybeEntry]
  BY DEF Appears, ConnectTo, Disappears, futures, MirrorOK, WorldOK, TrayOK, Tables
<1>2. s \in settled /\ shown'[s] = shown[s]
  BY <1>1 DEF Appears, ConnectTo, Disappears
<1>3. s \in Sessions /\ real[s] # "unborn"
  BY <1>1, <1>2 DEF Born, FuturesBegun, Begun
<1>4. r # s
  BY <1>1, <1>3 DEF Appears, ConnectTo, Disappears, Statuses, Ongoing, Over
<1>5. real'[s] = real[s]
  BY <1>1, <1>3, <1>4 DEF Appears, ConnectTo, Disappears
<1>6. FaithfulAt(s)
  BY <1>2, <1>5 DEF Faithful, Exists
<1>7. AllTold(s)' => AllTold(s)
  BY <1>1, <1>3, AllToldSame
<1> QED BY <1>1, <1>2, <1>3, <1>5, <1>6, <1>7, FaithfulSame

\* handle_session_created asks for the signals before it reads, and inserts
\* what it has read.
LEMMA FuturesFaithful ==
  ASSUME MirrorOK, Ends, Faithful, NEW r \in Sessions,
         Forwards(r) \/ ReadsStatus(r) \/ Creates(r) \/ Fills(r) \/ Fades(r) \/ Inserts(r),
         NEW s \in settled', real'[s] \in Statuses
  PROVE  FaithfulAt(s)'
<1>1. /\ UNCHANGED <<real, changes, last>>
      /\ settled \subseteq Sessions /\ shown \in [Sessions -> MaybeEntry]
      /\ creating \in [Sessions -> Statuses \cup {"no", "begun", "forwarded", "unset"}]
  BY DEF Forwards, ReadsStatus, Creates, Fills, Fades, Inserts, openvpn3, streams, MirrorOK,
         TrayOK, Tables
<1>2. s \in settled /\ s \in Sessions /\ (s \in forwarded => s \in forwarded')
  BY <1>1 DEF Forwards, ReadsStatus, Creates, Fills, Fades, Inserts, openvpn3
<1>3. real[s] \in Statuses /\ FaithfulAt(s) /\ shown[s] \in MaybeEntry
  BY <1>1, <1>2 DEF Faithful, Exists
<1>4. AllTold(s)' <=> AllTold(s)
  BY <1>1, <1>2, AllToldSame
<1>5. CASE shown'[s] = shown[s] /\ creating'[s] = creating[s]
  BY <1>1, <1>2, <1>3, <1>4, <1>5, FaithfulSame
<1>6. CASE r # s
  <2>1. shown'[s] = shown[s] /\ creating'[s] = creating[s]
    BY <1>1, <1>2, <1>6 DEF Forwards, ReadsStatus, Creates, Fills, Fades, Inserts
  <2> QED BY <1>5, <2>1
<1>7. CASE r = s /\ Forwards(s)
  <2>1. s \in forwarded' /\ shown' = shown /\ creating[s] = "begun" /\ creating'[s] = "forwarded"
    BY <1>1, <1>2, <1>3, <1>7 DEF Forwards, Exists
  <2> QED BY <1>1, <1>3, <1>4, <2>1 DEF FaithfulAt, Showing, WillRead
<1>8. CASE r = s /\ ReadsStatus(s)
  <2>1. /\ forwarded' = forwarded /\ shown' = shown /\ creating[s] = "forwarded"
        /\ creating'[s] = real[s]
    BY <1>1, <1>2, <1>3, <1>8 DEF ReadsStatus, Exists, openvpn3
  <2> QED BY <1>1, <1>3, <1>4, <2>1 DEF FaithfulAt, Showing, WillRead
<1>9. CASE r = s /\ Creates(s)
  <2>1. /\ forwarded' = forwarded /\ creating[s] \in Statuses \cup {"unset"}
        /\ creating[s] # "begun" /\ creating[s] # "forwarded"
    BY <1>9 DEF Creates, openvpn3, Statuses, Ongoing, Over
  <2>2. s \in forwarded
    BY <1>3, <2>1 DEF FaithfulAt
  <2>3. CASE shown[s] = NoEntry
    <3>1. shown'[s] = Entry(creating[s], creating[s] # "unset")
      BY <1>1, <1>2, <1>9, <2>3 DEF Creates
    <3>2. shown'[s].status = creating[s]
      BY <3>1 DEF Entry
    <3>3. Entry(creating[s], creating[s] # "unset") \in Entries
      BY <2>1 DEF Entry, Entries
    <3>4. shown'[s] # NoEntry
      BY <3>1, <3>3, MirrorAssumption DEF Entries
    <3> QED BY <1>1, <1>3, <1>4, <2>1, <2>2, <2>3, <3>2, <3>4 DEF FaithfulAt, Showing, WillRead
  <2>4. CASE shown[s] # NoEntry
    <3> DEFINE known == creating[s] # "unset"
               entry == [shown[s] EXCEPT !.known = @ \/ known]
    <3>1. shown[s] \in Entries
      BY <1>3, <2>4 DEF MaybeEntry
    <3>2. shown' = [shown EXCEPT ![s] = entry]
      BY <1>9, <2>4 DEF Creates
    <3> HIDE DEF known
    <3>3. entry.status = shown[s].status
      BY <3>1 DEF Entries
    <3>4. entry \in [status : Statuses \cup {"unset"}, known : BOOLEAN]
      BY <3>1 DEF Entries
    <3> HIDE DEF entry
    <3>5. shown'[s] = entry /\ entry # NoEntry
      BY <1>1, <1>2, <3>2, <3>4, MirrorAssumption
    <3> QED BY <1>1, <1>3, <1>4, <2>1, <2>2, <2>4, <3>3, <3>5 DEF FaithfulAt, Showing, WillRead
  <2> QED BY <2>3, <2>4
<1>10. CASE r = s /\ Fills(s)
  <2>1. forwarded' = forwarded /\ creating' = creating
    BY <1>10 DEF Fills, openvpn3
  <2>2. CASE shown[s] # NoEntry
    <3> DEFINE entry == [shown[s] EXCEPT !.known = TRUE]
    <3>1. shown[s] \in Entries
      BY <1>3, <2>2 DEF MaybeEntry
    <3>2. shown' = [shown EXCEPT ![s] = entry]
      BY <1>1, <1>2, <1>3, <1>10, <2>2 DEF Fills, Exists
    <3>3. entry.status = shown[s].status
      BY <3>1 DEF Entries
    <3>4. entry \in [status : Statuses \cup {"unset"}, known : BOOLEAN]
      BY <3>1 DEF Entries
    <3> HIDE DEF entry
    <3>5. shown'[s] = entry /\ entry # NoEntry
      BY <1>1, <1>2, <3>2, <3>4, MirrorAssumption
    <3> QED BY <1>1, <1>3, <1>4, <2>1, <2>2, <3>3, <3>5 DEF FaithfulAt, Showing, WillRead
  <2>3. CASE shown[s] = NoEntry
    <3>1. shown' = shown
      BY <1>10, <2>3 DEF Fills
    <3> QED BY <1>5, <2>1, <3>1
  <2> QED BY <2>2, <2>3
\* What fades is over, and SessCreated has nothing more to write about it.
<1>11. CASE r = s /\ Fades(s)
  <2>1. /\ s \in fading /\ creating[s] = "no" /\ forwarded' = forwarded
    BY <1>11 DEF Fades, openvpn3
  <2>2. real[s] \notin Ongoing
    BY <2>1 DEF Ends, FadingOver, Ongoing, Over
  <2>3. s \in forwarded
    BY <1>3, <2>1 DEF FaithfulAt
  <2> QED BY <1>1, <2>1, <2>2, <2>3 DEF FaithfulAt
<1>12. CASE r = s /\ Inserts(s)
  BY <1>12 DEF Inserts
<1> QED BY <1>6, <1>7, <1>8, <1>9, <1>10, <1>11, <1>12

LEMMA HearsFaithful ==
  ASSUME MirrorOK, Faithful, Hears, NEW s \in settled', real'[s] \in Statuses
  PROVE  FaithfulAt(s)'
<1> DEFINE r == Head(events)[2]
<1>1. /\ UNCHANGED <<real, forwarded, changes, last, shown>> /\ settled \subseteq Sessions
      /\ creating \in [Sessions -> Statuses \cup {"no", "begun", "forwarded", "unset"}]
  BY DEF Hears, openvpn3, MirrorOK, TrayOK
<1>2. r \in Sessions
  <2> DEFINE Events == {"created", "destroyed"} \X Sessions
  <2>1. Head(events) \in Events
    BY DEF Hears, MirrorOK, StreamsOK
  <2> QED BY <2>1
<1>3. \/ UNCHANGED <<creating, settled>>
      \/ /\ creating' = [creating EXCEPT ![r] = "begun"]
         /\ settled' = settled \cup (IF "changes" \in hearing /\ shown[r] = NoEntry
                                    THEN {r} \ inserting ELSE {})
  BY DEF Hears
<1> HIDE DEF r
<1>4. CASE UNCHANGED <<creating, settled>>
  <2>1. FaithfulAt(s) /\ s \in Sessions
    BY <1>1, <1>4 DEF Faithful, Exists
  <2> QED BY <1>1, <1>4, <2>1, AllToldSame, FaithfulSame
<1>5. CASE s \in settled /\ creating' = [creating EXCEPT ![r] = "begun"]
  <2>1. FaithfulAt(s) /\ s \in Sessions
    BY <1>1, <1>5 DEF Faithful, Exists
  <2>2. CASE s # r
    BY <1>1, <1>5, <2>1, <2>2, AllToldSame, FaithfulSame
  <2>3. CASE s = r
    <3>1. creating'[s] = "begun"
      BY <1>1, <1>2, <1>5, <2>3
    <3>2. AllTold(s)' <=> AllTold(s)
      BY <1>1, <2>1, AllToldSame
    <3> QED BY <1>1, <2>1, <3>1, <3>2 DEF FaithfulAt, Showing, WillRead
  <2> QED BY <2>2, <2>3
<1>6. CASE s \notin settled
  <2>1. s = r /\ shown[s] = NoEntry /\ creating'[s] = "begun"
    BY <1>1, <1>2, <1>3, <1>6
  <2> QED BY <1>1, <2>1 DEF FaithfulAt, WillRead
<1> QED BY <1>3, <1>4, <1>5, <1>6

\* What is written is the last that is told, hence what the session does.
LEMMA NoticesFaithful ==
  ASSUME MirrorOK, [MirrorNext]_mirrorVars, Born, Informed, Faithful, Notices,
         NEW s \in settled', real'[s] \in Statuses
  PROVE  FaithfulAt(s)'
<1> DEFINE r == Head(changes)[1]
           status == Head(changes)[2]
           entry == IF shown[r] # NoEntry THEN [shown[r] EXCEPT !.status = status]
                    ELSE IF IsAuth(status) THEN NoEntry ELSE Entry(status, FALSE)
<1>1. /\ UNCHANGED <<real, forwarded, creating>> /\ settled \subseteq Sessions
      /\ shown \in [Sessions -> MaybeEntry] /\ last \in [Sessions -> Statuses \cup {"none"}]
      /\ changes # <<>> /\ changes' = Tail(changes)
  BY DEF Notices, openvpn3, MirrorOK, TrayOK, Tables
<1>2. /\ r \in Sessions /\ status \in Statuses /\ Len(changes) \in Nat \ {0}
      /\ DOMAIN changes = 1..Len(changes) /\ 1 \in DOMAIN changes
      /\ changes[1][1] = r /\ changes[1][2] = status
      /\ DOMAIN changes' = 1..(Len(changes) - 1)
      /\ \A k \in 1..(Len(changes) - 1) : changes'[k] = changes[k + 1]
  BY <1>1, Headed
<1>3. \/ UNCHANGED <<last, shown, settled>> /\ last[r] = status
      \/ /\ last' = [last EXCEPT ![r] = status] /\ shown' = [shown EXCEPT ![r] = entry]
         /\ settled' = IF entry = NoEntry THEN settled ELSE settled \cup {r}
  BY DEF Notices
<1>4. entry # NoEntry => entry.status = status
  <2>1. CASE shown[r] # NoEntry
    <3>1. shown[r] \in Entries
      BY <1>1, <1>2, <2>1 DEF MaybeEntry
    <3>2. entry = [shown[r] EXCEPT !.status = status]
      BY <2>1
    <3> QED BY <3>1, <3>2 DEF Entries
  <2>2. CASE shown[r] = NoEntry
    BY <2>2 DEF Entry
  <2> QED BY <2>1, <2>2
<1>5. entry = NoEntry => status = "auth"
  <2>1. CASE shown[r] # NoEntry
    <3> DEFINE e == [shown[r] EXCEPT !.status = status]
    <3>1. shown[r] \in Entries
      BY <1>1, <1>2, <2>1 DEF MaybeEntry
    <3>2. e \in [status : Statuses \cup {"unset"}, known : BOOLEAN]
      BY <1>2, <3>1 DEF Entries
    <3>3. entry = e
      BY <2>1
    <3> HIDE DEF e, entry
    <3> QED BY <3>2, <3>3, MirrorAssumption
  <2>2. CASE shown[r] = NoEntry
    <3>1. Entry(status, FALSE) \in [status : Statuses \cup {"unset"}, known : BOOLEAN]
      BY <1>2 DEF Entry
    <3> QED BY <2>2, <3>1, MirrorAssumption DEF IsAuth
  <2> QED BY <2>1, <2>2
<1> HIDE DEF r, status, entry
<1>6. s \in Sessions /\ real[s] \in Statuses
  BY <1>1, <1>2, <1>3
<1>7. ASSUME NEW i \in DOMAIN changes, i # 1
      PROVE  i - 1 \in DOMAIN changes' /\ changes'[i - 1] = changes[i]
  BY <1>2, <1>7
\* Another session, or a signal already handled.
<1>8. CASE last'[s] = last[s] /\ shown'[s] = shown[s] /\ s \in settled
           /\ (s = r => last[s] = status)
  <2>1. FaithfulAt(s)
    BY <1>6, <1>8 DEF Faithful, Exists
  <2>2. ASSUME AllTold(s)' PROVE AllTold(s)
    <3> SUFFICES ASSUME NEW i \in DOMAIN changes, changes[i][1] = s
                 PROVE  changes[i][2] = last[s]
      BY DEF AllTold
    <3>1. CASE i = 1
      BY <1>2, <1>8, <3>1
    <3>2. CASE i # 1
      BY <1>7, <1>8, <2>2, <3>2 DEF AllTold
    <3> QED BY <3>1, <3>2
  <2> QED BY <1>1, <1>6, <1>8, <2>1, <2>2, FaithfulSame
<1>9. CASE s = r /\ last'[s] = status /\ shown'[s] = entry
  <2>1. s \in forwarded
    BY <1>2, <1>6, <1>9 DEF Informed, OnlyForwarded
  <2>2. ASSUME AllTold(s)', real[s] \in Ongoing \ {"auth"} PROVE Showing(s)'
    <3>1. LatestTold(s)
      BY <1>6 DEF Informed, Exists
    <3>2. real[s] = status
      <4>1. CASE \A i \in DOMAIN changes : changes[i][1] # s
        BY <1>2, <1>9, <4>1
      <4>2. ASSUME NEW i \in DOMAIN changes, changes[i] = <<s, real[s]>>
            PROVE  real[s] = status
        <5>1. CASE i = 1
          BY <1>2, <1>9, <4>2, <5>1
        <5>2. CASE i # 1
          <6>1. i - 1 \in DOMAIN changes' /\ changes'[i - 1] = <<s, real[s]>>
            BY <1>7, <4>2, <5>2
          <6> QED BY <1>9, <2>2, <6>1 DEF AllTold
        <5> QED BY <5>1, <5>2
      <4> QED BY <3>1, <4>1, <4>2 DEF LatestTold
    <3>3. entry # NoEntry /\ entry.status = real[s]
      BY <1>4, <1>5, <2>2, <3>2
    <3> QED BY <1>1, <1>9, <3>3 DEF Showing
  <2> QED BY <1>1, <2>1, <2>2 DEF FaithfulAt
<1> QED BY <1>1, <1>2, <1>3, <1>6, <1>8, <1>9

LEMMA FaithfulInductive ==
  /\ MirrorInit => Ends /\ Informed /\ Faithful
  /\ MirrorOK /\ Born /\ Ends /\ Informed /\ Faithful /\ [MirrorNext]_mirrorVars
       => Ends' /\ Informed' /\ Faithful'
<1>1. ASSUME MirrorInit PROVE Ends /\ Informed /\ Faithful
  <2>1. Ends /\ Faithful
    BY <1>1 DEF MirrorInit, Ends, FadingOver, DestroyedGone, ReportedOver, Faithful
  <2>2. Subscribed /\ OnlyForwarded
    BY <1>1 DEF MirrorInit, Subscribed, OnlyForwarded
  <2>3. ASSUME NEW s \in Sessions PROVE LatestTold(s)
    BY <1>1 DEF MirrorInit, LatestTold
  <2> QED BY <2>1, <2>2, <2>3 DEF Informed
<1>2. ASSUME MirrorOK, Born, Ends, Informed, Faithful, [MirrorNext]_mirrorVars,
             NEW s \in settled', real'[s] \in Statuses
      PROVE  FaithfulAt(s)'
  <2>1. CASE \/ Notices \/ Hears
             \/ \E r \in Sessions :
                  \/ Appears(r) \/ ConnectTo(r) \/ Disappears(r) \/ Forwards(r)
                  \/ ReadsStatus(r) \/ Creates(r) \/ Fills(r) \/ Fades(r) \/ Inserts(r)
                  \/ \E status \in Statuses : Moves(r, status)
    BY <1>2, <2>1, NoticesFaithful, HearsFaithful, WorldFaithful, FuturesFaithful,
       MovesFaithful
  <2>2. CASE settled' = {}
    BY <1>2, <2>2
  <2>3. CASE /\ UNCHANGED <<real, changes, shown, last, creating, settled>>
             /\ forwarded \subseteq forwarded'
    <3>1. FaithfulAt(s) /\ s \in Sessions
      BY <1>2, <2>3 DEF Faithful, Exists, MirrorOK, TrayOK
    <3> QED BY <1>2, <2>3, <3>1, AllToldSame, FaithfulSame
  <2>4. CASE \/ HearsEvents \/ HearsChanges \/ UNCHANGED mirrorVars
             \/ \E x \in Scanners : ScanLists(x) \/ (\E r \in Sessions : ScanReads(x, r))
                                    \/ ScanForwards(x) \/ ScanFails(x)
    BY <2>3, <2>4 DEF HearsEvents, HearsChanges, ScanLists, ScanReads, ScanForwards, ScanFails,
                      mirrorVars, openvpn3, streams, futures
  <2>5. CASE ConfigsBack \/ SessionsLost \/ \E x \in Scanners : ScanEnds(x)
    BY <2>2, <2>5 DEF ConfigsBack, SessionsLost, ScanEnds
  <2> QED BY <1>2, <2>1, <2>4, <2>5 DEF MirrorNext
<1>3. ASSUME MirrorOK, Born, Ends, Informed, Faithful, [MirrorNext]_mirrorVars PROVE Faithful'
  BY <1>2, <1>3 DEF Faithful, Exists
<1> QED BY <1>1, <1>3, EndsKept, InformedKept

(***************************************************************************)
(* Once a signal has written a session's entry, the tray follows the       *)
(* session: between LogForward, the read and the insertion no StatusChange *)
(* is lost, in whatever order signals and answers come.                    *)
(***************************************************************************)
THEOREM TrayFollows == MirrorSpec => []MirrorFollows
<1>1. ASSUME MirrorOK, Faithful PROVE MirrorFollows
  <2> SUFFICES ASSUME NothingPending, NEW s \in settled, real[s] \in Ongoing \ {"auth"}
               PROVE  shown[s] # NoEntry /\ shown[s].status = real[s]
    BY DEF MirrorFollows
  <2>1. changes = <<>> /\ creating[s] = "no"
    BY <1>1 DEF NothingPending, MirrorOK, TrayOK
  <2>2. AllTold(s)
    BY <2>1 DEF AllTold
  <2>3. FaithfulAt(s)
    BY <1>1 DEF Faithful, Exists, Statuses
  <2>4. ~WillRead(s)
    BY <2>1 DEF WillRead, Ongoing
  <2> QED BY <2>2, <2>3, <2>4 DEF FaithfulAt, Showing
<1> QED BY <1>1, MirrorTyped, BornInductive, FaithfulInductive, PTL DEF MirrorSpec

---------------------------------------------------------------------------
(* The log viewer *)

\* The numbers of a finite set have the ranks from 1 to its size.
LEMMA Ranks ==
  ASSUME NEW S \in SUBSET Nat, IsFiniteSet(S), NEW k \in 1..Cardinality(S)
  PROVE  \E n \in S : Cardinality({m \in S : m <= n}) = k
<1> DEFINE upTo(n) == {m \in S : m <= n}
           rank == [n \in S |-> Cardinality(upTo(n))]
           size == Cardinality(S)
<1>1. size \in Nat
  BY FS_CardinalityType
<1>2. ASSUME NEW n \in S PROVE IsFiniteSet(upTo(n)) /\ Cardinality(upTo(n)) \in 1..size
  <2>1. IsFiniteSet(upTo(n)) /\ Cardinality(upTo(n)) <= size
    <3>1. upTo(n) \in SUBSET S
      OBVIOUS
    <3> HIDE DEF upTo
    <3> QED BY <3>1, FS_Subset
  <2>2. n \in upTo(n)
    OBVIOUS
  <2> HIDE DEF upTo
  <2>3. Cardinality(upTo(n)) \in Nat /\ Cardinality(upTo(n)) # 0
    BY <2>1, <2>2, FS_CardinalityType, FS_EmptySet
  <2> QED BY <1>1, <2>1, <2>3
<1>3. ASSUME NEW a \in S, NEW b \in S, a < b PROVE Cardinality(upTo(a)) # Cardinality(upTo(b))
  <2>1. upTo(a) \in SUBSET upTo(b) /\ b \in upTo(b) /\ b \notin upTo(a)
    <3>1. b <= b /\ ~(b <= a) /\ \A m \in S : m <= a => m <= b
      BY <1>3
    <3> QED BY <3>1, Zenon
  <2>2. IsFiniteSet(upTo(b))
    BY <1>2
  <2> HIDE DEF upTo
  <2> QED BY <2>1, <2>2, FS_Subset
<1>4. rank \in [S -> 1..size]
  BY <1>2
<1>5. ASSUME NEW a \in S, NEW b \in S, rank[a] = rank[b] PROVE a = b
  <2>1. a \in Nat /\ b \in Nat /\ Cardinality(upTo(a)) = Cardinality(upTo(b))
    BY <1>5
  <2> HIDE DEF upTo
  <2>2. ~(a < b) /\ ~(b < a)
    BY <1>3, <2>1
  <2> QED BY <2>1, <2>2
<1>6. rank \in Injection(S, 1..size)
  BY <1>4, <1>5, Zenon DEF Injection, IsInjective
<1>7. IsFiniteSet(1..size) /\ Cardinality(1..size) = size
  BY <1>1, FS_Interval
<1>8. rank \in Surjection(S, 1..size)
  <2> HIDE DEF rank, size
  <2>1. Cardinality(S) = Cardinality(1..size)
    BY <1>7 DEF size
  <2> QED BY <1>6, <1>7, <2>1, FS_Injection
<1>9. \E n \in S : rank[n] = k
  BY <1>8, Zenon DEF Surjection
<1> QED BY <1>9

LEMMA AscendingIs ==
  ASSUME NEW S \in SUBSET Nat, IsFiniteSet(S)
  PROVE  /\ Cardinality(S) \in Nat
         /\ Ascending(S) \in Seq(S) /\ Len(Ascending(S)) = Cardinality(S)
         /\ \A k \in 1..Cardinality(S) :
              Cardinality({m \in S : m <= Ascending(S)[k]}) = k
<1> DEFINE size == Cardinality(S)
           nth(k) == CHOOSE n \in S : Cardinality({m \in S : m <= n}) = k
<1>1. size \in Nat
  BY FS_CardinalityType
<1>2. ASSUME NEW k \in 1..size
      PROVE  nth(k) \in S /\ Cardinality({m \in S : m <= nth(k)}) = k
  BY Ranks
<1>3. Ascending(S) = [k \in 1..size |-> nth(k)]
  BY DEF Ascending
<1> HIDE DEF size, nth
<1>4. Ascending(S) \in [1..size -> S]
  BY <1>2, <1>3
<1>5. Ascending(S) \in Seq(S) /\ Len(Ascending(S)) = size
  BY <1>1, <1>4, SeqDef
<1>6. \A k \in 1..size : Cardinality({m \in S : m <= Ascending(S)[k]}) = k
  BY <1>2, <1>3
<1> QED BY <1>1, <1>5, <1>6 DEF size

\* All numbers up to n are in order as they are.
LEMMA AscendingAll ==
  ASSUME NEW n \in Nat
  PROVE  Ascending(1..n) = [k \in 1..n |-> k]
<1>1. IsFiniteSet(1..n) /\ Cardinality(1..n) = n
  BY FS_Interval
<1>2. ASSUME NEW k \in 1..n
      PROVE  (CHOOSE i \in 1..n : Cardinality({m \in 1..n : m <= i}) = k) = k
  <2>1. ASSUME NEW i \in 1..n PROVE Cardinality({m \in 1..n : m <= i}) = i
    <3>1. {m \in 1..n : m <= i} = 1..i
      OBVIOUS
    <3>2. i \in Int /\ 1 \in Int /\ ~(1 > i) /\ i - 1 + 1 = i
      OBVIOUS
    <3>3. Cardinality(1..i) = i
      BY <3>2, FS_Interval
    <3> QED BY <3>1, <3>3
  <2>2. \E i \in 1..n : Cardinality({m \in 1..n : m <= i}) = k
    BY <2>1
  <2> QED BY <2>1, <2>2
<1> QED BY <1>1, <1>2 DEF Ascending

\* A number above all others goes to the end.
LEMMA AscendingMore ==
  ASSUME NEW n \in Nat, NEW S \in SUBSET (1..n)
  PROVE  Ascending(S \cup {n + 1}) = Append(Ascending(S), n + 1)
<1> DEFINE T == S \cup {n + 1}
           size == Cardinality(S)
<1>1. IsFiniteSet(S) /\ size \in Nat /\ S \in SUBSET Nat
  <2>1. IsFiniteSet(1..n)
    BY FS_Interval
  <2>2. IsFiniteSet(S)
    BY <2>1, FS_Subset
  <2>3. S \in SUBSET Nat
    OBVIOUS
  <2> QED BY <2>2, <2>3, FS_CardinalityType
<1>2. IsFiniteSet(T) /\ Cardinality(T) = size + 1 /\ T \in SUBSET Nat
  BY <1>1, FS_AddElement
<1>3. /\ Ascending(S) \in Seq(S) /\ Len(Ascending(S)) = size
      /\ Ascending(T) \in Seq(T) /\ Len(Ascending(T)) = size + 1
  <2> HIDE DEF T
  <2> QED BY <1>1, <1>2, AscendingIs
<1>4. ASSUME NEW k \in 1..size PROVE Ascending(T)[k] = Ascending(S)[k]
  <2>1. ASSUME NEW i \in S PROVE {m \in T : m <= i} = {m \in S : m <= i}
    OBVIOUS
  <2>2. {m \in T : m <= n + 1} = T
    <3>1. \A m \in T : m <= n + 1
      OBVIOUS
    <3> QED BY <3>1
  <2>3. k \in 1..size + 1 /\ k # size + 1
    BY <1>1
  <2>4. {i \in T : Cardinality({m \in T : m <= i}) = k} = {i \in S : Cardinality({m \in S : m <= i}) = k}
    <3>1. ASSUME NEW i \in T, Cardinality({m \in T : m <= i}) = k
          PROVE  i \in S /\ Cardinality({m \in S : m <= i}) = k
      <4>1. i # n + 1
        BY <1>2, <2>2, <2>3, <3>1
      <4> QED BY <2>1, <3>1, <4>1
    <3>2. ASSUME NEW i \in S, Cardinality({m \in S : m <= i}) = k
          PROVE  Cardinality({m \in T : m <= i}) = k
      BY <2>1, <3>2
    <3> QED BY <3>1, <3>2
  <2>5. (CHOOSE i \in T : Cardinality({m \in T : m <= i}) = k)
          = (CHOOSE i \in S : Cardinality({m \in S : m <= i}) = k)
    <3>1. \A i : (i \in T /\ Cardinality({m \in T : m <= i}) = k)
                   <=> (i \in S /\ Cardinality({m \in S : m <= i}) = k)
      BY <2>4
    <3> HIDE DEF T
    <3> QED BY <3>1
  <2> DEFINE inT == CHOOSE i \in T : Cardinality({m \in T : m <= i}) = k
             inS == CHOOSE i \in S : Cardinality({m \in S : m <= i}) = k
  <2>6. Ascending(T)[k] = inT
    <3> HIDE DEF T
    <3> QED BY <1>2, <2>3 DEF Ascending
  <2>7. Ascending(S)[k] = inS
    BY DEF Ascending
  <2> QED BY <2>5, <2>6, <2>7
<1>5. Ascending(T)[size + 1] = n + 1
  <2> DEFINE top == Ascending(T)[size + 1]
  <2>1. top \in T /\ Cardinality({m \in T : m <= top}) = size + 1
    <3> HIDE DEF T
    <3> QED BY <1>1, <1>2, <1>3, AscendingIs
  <2> HIDE DEF top
  <2>2. CASE top \in S
    <3>1. {m \in T : m <= top} \in SUBSET S
      <4>1. top \in Nat /\ top <= n /\ ~(n + 1 <= top)
        BY <2>2
      <4> QED BY <4>1
    <3>2. Cardinality({m \in T : m <= top}) <= size
      BY <1>1, <3>1, FS_Subset
    <3> QED BY <1>1, <2>1, <3>2
  <2> QED BY <2>1, <2>2 DEF top
<1>6. /\ Append(Ascending(S), n + 1) \in Seq(T) /\ Len(Append(Ascending(S), n + 1)) = size + 1
      /\ \A k \in 1..size : Append(Ascending(S), n + 1)[k] = Ascending(S)[k]
      /\ Append(Ascending(S), n + 1)[size + 1] = n + 1
  BY <1>1, <1>3
<1> HIDE DEF T, size
<1>7. \A k \in 1..size + 1 : Ascending(T)[k] = Append(Ascending(S), n + 1)[k]
  BY <1>1, <1>4, <1>5, <1>6
<1> QED BY <1>3, <1>6, <1>7, SeqEqual DEF T

\* What a filter lets through, however the lines were entered.
Kept(held, onlyHigh) == {i \in DOMAIN held : Passes(onlyHigh, held[i])}

LEMMA KeptIs ==
  ASSUME NEW T, NEW held \in Seq(T), NEW onlyHigh
  PROVE  /\ Len(held) \in Nat /\ DOMAIN held = 1..Len(held)
         /\ Kept(held, onlyHigh) \in SUBSET (1..Len(held))
         /\ Kept(held, onlyHigh) \in SUBSET Nat /\ IsFiniteSet(Kept(held, onlyHigh))
<1>1. Len(held) \in Nat /\ DOMAIN held = 1..Len(held)
  OBVIOUS
<1>2. Kept(held, onlyHigh) \in SUBSET (1..Len(held))
  BY <1>1 DEF Kept
<1>3. IsFiniteSet(1..Len(held)) /\ 1..Len(held) \subseteq Nat
  BY <1>1, FS_Interval
<1> QED BY <1>1, <1>2, <1>3, FS_Subset

LEMMA FilteredIs ==
  ASSUME NEW T, NEW held \in Seq(T), NEW onlyHigh
  PROVE  /\ Filtered(held, onlyHigh) \in Seq(T)
         /\ Len(Filtered(held, onlyHigh)) = Cardinality(Kept(held, onlyHigh))
         /\ \A k \in 1..Cardinality(Kept(held, onlyHigh)) :
              /\ Ascending(Kept(held, onlyHigh))[k] \in DOMAIN held
              /\ Filtered(held, onlyHigh)[k] = held[Ascending(Kept(held, onlyHigh))[k]]
<1> DEFINE K == Kept(held, onlyHigh)
           place == Ascending(K)
           size == Cardinality(K)
<1>1. K \in SUBSET Nat /\ IsFiniteSet(K) /\ K \subseteq DOMAIN held
  BY KeptIs
<1>2. Filtered(held, onlyHigh) = [k \in DOMAIN place |-> held[place[k]]]
  BY DEF Filtered, Kept
<1> HIDE DEF K
<1>3. size \in Nat /\ place \in Seq(K) /\ Len(place) = size
  BY <1>1, AscendingIs
<1> HIDE DEF place, size
<1>4. DOMAIN place = 1..size /\ \A k \in 1..size : place[k] \in DOMAIN held
  <2>1. place \in [1..size -> K]
    BY <1>3, LenProperties
  <2> QED BY <1>1, <2>1
<1>5. \A k \in DOMAIN held : held[k] \in T
  OBVIOUS
<1>6. Filtered(held, onlyHigh) \in [1..size -> T]
  BY <1>2, <1>4, <1>5
<1>7. Filtered(held, onlyHigh) \in Seq(T) /\ Len(Filtered(held, onlyHigh)) = size
  BY <1>3, <1>6, SeqDef
<1> QED BY <1>2, <1>4, <1>7 DEF place, size, K

LEMMA FilteredAll ==
  ASSUME NEW T, NEW held \in Seq(T), NEW onlyHigh, onlyHigh = FALSE
  PROVE  Filtered(held, onlyHigh) = held
<1>1. Kept(held, onlyHigh) = 1..Len(held)
  BY KeptIs DEF Kept, Passes
<1>2. Len(held) \in Nat
  OBVIOUS
<1>3. Cardinality(Kept(held, onlyHigh)) = Len(held)
  <2>1. \A n \in Nat : Cardinality(1..n) = n
    BY FS_Interval
  <2> QED BY <1>1, <1>2, <2>1
<1>4. \A k \in 1..Len(held) : Ascending(Kept(held, onlyHigh))[k] = k
  BY <1>1, <1>2, AscendingAll
<1>5. /\ Filtered(held, onlyHigh) \in Seq(T) /\ Len(Filtered(held, onlyHigh)) = Len(held)
      /\ \A k \in 1..Len(held) : Filtered(held, onlyHigh)[k] = held[k]
  <2> DEFINE K == Kept(held, onlyHigh)
  <2>1. /\ Filtered(held, onlyHigh) \in Seq(T) /\ Len(Filtered(held, onlyHigh)) = Cardinality(K)
        /\ \A k \in 1..Cardinality(K) : Filtered(held, onlyHigh)[k] = held[Ascending(K)[k]]
    BY FilteredIs
  <2>2. Cardinality(K) = Len(held) /\ \A k \in 1..Len(held) : Ascending(K)[k] = k
    BY <1>3, <1>4
  <2> HIDE DEF K
  <2> QED BY <2>1, <2>2
<1> QED BY <1>5, SeqEqual

LEMMA FilteredMore ==
  ASSUME NEW T, NEW held \in Seq(T), NEW line \in T, NEW onlyHigh
  PROVE  Filtered(Append(held, line), onlyHigh) =
           IF Passes(onlyHigh, line) THEN Append(Filtered(held, onlyHigh), line)
           ELSE Filtered(held, onlyHigh)
<1> DEFINE more == Append(held, line)
           n == Len(held)
           K == Kept(held, onlyHigh)
           size == Cardinality(K)
<1>1. /\ more \in Seq(T) /\ Len(more) = n + 1 /\ n \in Nat
      /\ DOMAIN more = 1..n + 1 /\ DOMAIN held = 1..n
      /\ \A i \in 1..n : more[i] = held[i]
      /\ more[n + 1] = line
  OBVIOUS
<1>2. K \in SUBSET (1..n) /\ K \in SUBSET Nat /\ IsFiniteSet(K) /\ size \in Nat
  BY KeptIs, FS_CardinalityType
<1>3. CASE Passes(onlyHigh, line)
  <2>1. Kept(more, onlyHigh) = K \cup {n + 1}
    BY <1>1, <1>3 DEF Kept
  <2>2. Ascending(Kept(more, onlyHigh)) = Append(Ascending(K), n + 1)
    <3> HIDE DEF K
    <3> QED BY <1>1, <1>2, <2>1, AscendingMore
  <2>3. Cardinality(Kept(more, onlyHigh)) = size + 1
    <3>1. n + 1 \notin K
      BY <1>1, <1>2
    <3> HIDE DEF K
    <3> QED BY <1>2, <2>1, <3>1, FS_AddElement
  <2>4. Ascending(K) \in Seq(K) /\ Len(Ascending(K)) = size
    <3> HIDE DEF K
    <3> QED BY <1>2, AscendingIs
  <2>5. /\ Filtered(held, onlyHigh) \in Seq(T) /\ Len(Filtered(held, onlyHigh)) = size
        /\ \A k \in 1..size : /\ Ascending(K)[k] \in 1..n
                              /\ Filtered(held, onlyHigh)[k] = held[Ascending(K)[k]]
    BY <1>1, FilteredIs
  <2>6. /\ Filtered(more, onlyHigh) \in Seq(T) /\ Len(Filtered(more, onlyHigh)) = size + 1
        /\ \A k \in 1..size + 1 :
             Filtered(more, onlyHigh)[k] = more[Append(Ascending(K), n + 1)[k]]
    <3> DEFINE M == Kept(more, onlyHigh)
    <3>1. more \in Seq(T)
      BY <1>1
    <3> HIDE DEF more
    <3>2. /\ Filtered(more, onlyHigh) \in Seq(T) /\ Len(Filtered(more, onlyHigh)) = Cardinality(M)
          /\ \A k \in 1..Cardinality(M) : Filtered(more, onlyHigh)[k] = more[Ascending(M)[k]]
      BY <3>1, FilteredIs
    <3>3. Cardinality(M) = size + 1 /\ Ascending(M) = Append(Ascending(K), n + 1)
      BY <2>2, <2>3
    <3> HIDE DEF M, K, size
    <3> QED BY <3>2, <3>3
  <2> DEFINE old == Filtered(held, onlyHigh)
             new == Filtered(more, onlyHigh)
             order == Ascending(K)
  <2> HIDE DEF more, K, old, new, order, size
  <2>7. /\ \A k \in 1..size : Append(order, n + 1)[k] = order[k]
        /\ Append(order, n + 1)[size + 1] = n + 1
    BY <1>2, <2>4 DEF order
  <2>8. /\ Append(old, line) \in Seq(T) /\ Len(Append(old, line)) = size + 1
        /\ \A k \in 1..size : Append(old, line)[k] = old[k]
        /\ Append(old, line)[size + 1] = line
    BY <1>2, <2>5 DEF old
  <2>9. ASSUME NEW k \in 1..size + 1 PROVE new[k] = Append(old, line)[k]
    <3>1. CASE k \in 1..size
      <4>1. new[k] = more[order[k]] /\ order[k] \in 1..n /\ old[k] = held[order[k]]
        BY <2>5, <2>6, <2>7, <3>1 DEF old, new, order
      <4>2. Append(old, line)[k] = old[k]
        BY <2>8, <3>1
      <4> QED BY <1>1, <4>1, <4>2 DEF more
    <3>2. CASE k = size + 1
      BY <1>1, <2>6, <2>7, <2>8, <3>2 DEF new, order
    <3>3. k \in 1..size \/ k = size + 1
      <4>1. size \in Nat
        BY <1>2 DEF size, K
      <4> QED BY <4>1
    <3> QED BY <3>1, <3>2, <3>3
  <2>10. new = Append(old, line)
    BY <2>6, <2>8, <2>9, SeqEqual DEF new
  <2> QED BY <1>3, <2>10 DEF new, old, more
<1>4. CASE ~Passes(onlyHigh, line)
  <2>1. Kept(more, onlyHigh) = K
    BY <1>1, <1>4 DEF Kept
  <2>2. /\ Filtered(more, onlyHigh) \in Seq(T) /\ Len(Filtered(more, onlyHigh)) = size
        /\ \A k \in 1..size : Filtered(more, onlyHigh)[k] = more[Ascending(K)[k]]
    <3> HIDE DEF more
    <3> QED BY <1>1, <2>1, FilteredIs
  <2>3. /\ Filtered(held, onlyHigh) \in Seq(T) /\ Len(Filtered(held, onlyHigh)) = size
        /\ \A k \in 1..size : /\ Ascending(K)[k] \in 1..n
                              /\ Filtered(held, onlyHigh)[k] = held[Ascending(K)[k]]
    BY <1>1, FilteredIs
  <2> DEFINE old == Filtered(held, onlyHigh)
             new == Filtered(more, onlyHigh)
  <2>4. \A k \in 1..size : new[k] = old[k]
    BY <1>1, <2>2, <2>3
  <2> HIDE DEF old, new, more, K, size
  <2>5. new = old
    BY <2>2, <2>3, <2>4, SeqEqual DEF new, old
  <2> QED BY <1>4, <2>5 DEF new, old, more
<1> QED BY <1>3, <1>4

\* Something is shown exactly if something is kept.
LEMMA FilteredEmpty ==
  ASSUME NEW T, NEW held \in Seq(T), NEW onlyHigh
  PROVE  Filtered(held, onlyHigh) = <<>> <=> \A i \in DOMAIN held : ~Passes(onlyHigh, held[i])
<1> DEFINE K == Kept(held, onlyHigh)
           result == Filtered(held, onlyHigh)
<1>1. IsFiniteSet(K) /\ result \in Seq(T) /\ Len(result) = Cardinality(K)
  BY KeptIs, FilteredIs
<1>2. K = {} <=> \A i \in DOMAIN held : ~Passes(onlyHigh, held[i])
  BY DEF Kept
<1> HIDE DEF K, result
<1>3. Cardinality(K) = 0 <=> K = {}
  BY <1>1, FS_EmptySet
<1>4. result = <<>> <=> Len(result) = 0
  BY <1>1
<1> QED BY <1>1, <1>2, <1>3, <1>4 DEF result

LEMMA DropFirstIs ==
  ASSUME NEW T, NEW s \in Seq(T), NEW n \in Nat, n <= Len(s)
  PROVE  /\ DropFirst(s, n) \in Seq(T) /\ Len(DropFirst(s, n)) = Len(s) - n
         /\ \A i \in 1..Len(s) - n : DropFirst(s, n)[i] = s[i + n]
<1>1. Len(s) \in Nat /\ Len(s) - n \in Nat
  OBVIOUS
<1>2. DropFirst(s, n) = SubSeq(s, n + 1, Len(s))
  BY DEF DropFirst
<1>3. /\ SubSeq(s, n + 1, Len(s)) \in Seq(T) /\ Len(SubSeq(s, n + 1, Len(s))) = Len(s) - n
      /\ \A i \in 1..Len(s) - n : SubSeq(s, n + 1, Len(s))[i] = s[i + n]
  BY <1>1
<1> QED BY <1>2, <1>3

TabType == [entries : Seq(Lines), text : Seq(Lines), onlyHigh : BOOLEAN, export : BOOLEAN]

\* A tab of lines that were sent, and the two halves of ViewAgrees.
TabOK(tab) ==
  /\ tab \in TabType /\ Len(tab.entries) <= MaxTab + MaxLog
  /\ tab.text = Filtered(tab.entries, tab.onlyHigh)
  /\ tab.text # <<>> => tab.export

LogInv == LogTypeOK /\ \A n \in DOMAIN tabs : TabOK(tabs[n])

LEMMA NamesInTray ==
  ASSUME NEW p \in LogPaths
  PROVE  ProfileOf[p] \in Named /\ Fallback \in Named /\ NameInTray(p) \in Named
BY LogAssumption DEF Named, NameInTray, Range

LEMMA LineFields ==
  ASSUME LogTypeOK, NEW line \in Lines
  PROVE  sent[line].path \in LogPaths /\ sent[line].high \in BOOLEAN
<1>1. line \in 1..Len(sent) /\ sent \in Seq([path : LogPaths, high : BOOLEAN])
  BY DEF LogTypeOK, Lines
<1>2. sent[line] \in [path : LogPaths, high : BOOLEAN]
  BY <1>1, ElementOfSeq
<1> QED BY <1>2

LEMMA BufferFields ==
  ASSUME LogTypeOK
  PROVE  /\ Len(logBuffer) \in Nat /\ DOMAIN logBuffer = 1..Len(logBuffer)
         /\ \A i \in DOMAIN logBuffer :
              /\ logBuffer[i].line \in Lines /\ logBuffer[i].name \in Named
              /\ PathOf(logBuffer[i]) \in LogPaths
<1>1. logBuffer \in Seq([line : Lines, name : Named])
  BY DEF LogTypeOK
<1>2. Len(logBuffer) \in Nat /\ DOMAIN logBuffer = 1..Len(logBuffer)
  BY <1>1
<1>3. ASSUME NEW i \in DOMAIN logBuffer
      PROVE  logBuffer[i].line \in Lines /\ logBuffer[i].name \in Named
  <2>1. logBuffer[i] \in [line : Lines, name : Named]
    BY <1>1, <1>2, ElementOfSeq
  <2> QED BY <2>1
<1> QED BY <1>2, <1>3, LineFields DEF PathOf

\* The newest entry of a path that the buffer has.
LEMMA NamesInBuffer ==
  ASSUME LogTypeOK, NEW p \in BufferedPaths
  PROVE  p \in LogPaths /\ BufferedName(p) \in Named
<1> DEFINE ofPath == {i \in DOMAIN logBuffer : PathOf(logBuffer[i]) = p}
<1>1. ofPath \in SUBSET Nat /\ IsFiniteSet(ofPath) /\ ofPath # {}
  <2>1. IsFiniteSet(DOMAIN logBuffer) /\ DOMAIN logBuffer \subseteq Nat
    BY BufferFields, FS_Interval
  <2>2. ofPath \in SUBSET DOMAIN logBuffer
    OBVIOUS
  <2>3. ofPath # {}
    BY DEF BufferedPaths
  <2> HIDE DEF ofPath
  <2> QED BY <2>1, <2>2, <2>3, FS_Subset
<1>2. \E i \in ofPath : \A j \in ofPath : j <= i
  <2> HIDE DEF ofPath
  <2>1. Cardinality(ofPath) \in 1..Cardinality(ofPath)
    BY <1>1, FS_CardinalityType, FS_EmptySet
  <2>2. PICK i \in ofPath : Cardinality({m \in ofPath : m <= i}) = Cardinality(ofPath)
    BY <1>1, <2>1, Ranks
  <2>3. {m \in ofPath : m <= i} = ofPath
    <3> DEFINE below == {m \in ofPath : m <= i}
    <3>1. below \in SUBSET ofPath /\ Cardinality(ofPath) = Cardinality(below)
      BY <2>2
    <3> HIDE DEF below
    <3>2. ofPath = below
      BY <1>1, <3>1, FS_Subset
    <3> QED BY <3>2 DEF below
  <2> QED BY <2>3
<1>3. \E i \in DOMAIN logBuffer :
        /\ PathOf(logBuffer[i]) = p
        /\ \A j \in DOMAIN logBuffer : PathOf(logBuffer[j]) = p => j <= i
  BY <1>2
<1>4. BufferedName(p) \in {logBuffer[i].name : i \in DOMAIN logBuffer}
  BY <1>3 DEF BufferedName
<1>5. p \in LogPaths
  BY <1>1, BufferFields
<1> QED BY <1>4, <1>5, BufferFields

LEMMA NewTabOK ==
  ASSUME LogTypeOK, NEW name
  PROVE  TabOK(NewTab(name))
<1> DEFINE paths == {p \in BufferedPaths : BufferedName(p) = name}
           taken == {j \in DOMAIN logBuffer : PathOf(logBuffer[j]) \in paths}
           lines == {logBuffer[i].line : i \in taken}
           held == Ascending(lines)
<1>1. NewTab(name) = [entries |-> held, text |-> held, onlyHigh |-> FALSE,
                      export |-> held # <<>>]
  BY DEF NewTab
<1>2. IsFiniteSet(taken) /\ Cardinality(taken) <= Len(logBuffer) /\ Len(logBuffer) \in Nat
  <2>1. IsFiniteSet(1..Len(logBuffer)) /\ Cardinality(1..Len(logBuffer)) = Len(logBuffer)
    <3>1. \A n \in Nat : IsFiniteSet(1..n) /\ Cardinality(1..n) = n
      BY FS_Interval
    <3> QED BY <3>1, BufferFields
  <2>2. taken \in SUBSET (1..Len(logBuffer))
    BY BufferFields
  <2> HIDE DEF taken
  <2>3. IsFiniteSet(taken) /\ Cardinality(taken) <= Cardinality(1..Len(logBuffer))
    BY <2>1, <2>2, FS_Subset
  <2> QED BY <2>1, <2>3, BufferFields
<1>3. IsFiniteSet(lines) /\ Cardinality(lines) <= Cardinality(taken)
  <2> DEFINE f == [i \in taken |-> logBuffer[i].line]
  <2>1. f \in [taken -> lines] /\ \A n \in lines : \E i \in taken : f[i] = n
    BY Zenon
  <2> HIDE DEF taken, f, lines
  <2>2. f \in Surjection(taken, lines)
    BY <2>1, Zenon DEF Surjection
  <2> QED BY <1>2, <2>2, FS_Surjection
<1>4. lines \in SUBSET Lines /\ Lines \subseteq Nat
  BY BufferFields DEF Lines
<1> HIDE DEF lines
<1>5. /\ held \in Seq(lines) /\ Len(held) = Cardinality(lines) /\ Cardinality(lines) \in Nat
  BY <1>3, <1>4, AscendingIs
<1>6. held \in Seq(Lines)
  BY <1>4, <1>5, SeqMonotonic
<1>7. Len(held) <= MaxTab + MaxLog
  <2>1. Cardinality(taken) \in Nat
    BY <1>2, FS_CardinalityType
  <2>2. Len(logBuffer) <= MaxLog
    BY DEF LogTypeOK
  <2> HIDE DEF held, taken
  <2> QED BY <1>2, <1>3, <1>5, <2>1, <2>2, LogAssumption
<1> HIDE DEF held
<1>8. PICK all : all = FALSE
  OBVIOUS
<1>9. held = Filtered(held, all)
  BY <1>6, <1>8, FilteredAll
<1> DEFINE tab == NewTab(name)
<1>10. /\ tab.entries = held /\ tab.text = held /\ tab.onlyHigh = FALSE
       /\ tab.export = (held # <<>>) /\ tab \in TabType
  BY <1>1, <1>6 DEF TabType
<1>11. tab.onlyHigh = all
  BY <1>8, <1>10
<1> HIDE DEF tab
<1>12. tab.text = Filtered(tab.entries, tab.onlyHigh)
  BY <1>9, <1>10, <1>11
<1>13. tab.text # <<>> => tab.export
  BY <1>10
<1> QED BY <1>7, <1>10, <1>12, <1>13 DEF TabOK, tab

LEMMA ExtendedOK ==
  ASSUME LogTypeOK, NEW tab, TabOK(tab), NEW line \in Lines
  PROVE  TabOK(Extended(tab, line))
<1> DEFINE pushed == Append(tab.entries, line)
           n == Len(tab.entries)
           held == IF Len(pushed) > MaxTab THEN DropFirst(pushed, Tenth) ELSE pushed
           view == Renders(tab, held, line)
           high == tab.onlyHigh
<1> USE LogAssumption
<1>1. /\ tab.entries \in Seq(Lines) /\ tab.text \in Seq(Lines) /\ high \in BOOLEAN
      /\ tab.export \in BOOLEAN /\ n \in Nat /\ n <= MaxTab + MaxLog
      /\ tab.text = Filtered(tab.entries, high) /\ (tab.text # <<>> => tab.export)
  BY DEF TabOK, TabType
<1>2. /\ pushed \in Seq(Lines) /\ Len(pushed) = n + 1
      /\ DOMAIN pushed = 1..n + 1 /\ DOMAIN tab.entries = 1..n
      /\ \A i \in 1..n : pushed[i] = tab.entries[i]
      /\ pushed[n + 1] = line
  BY <1>1
<1>3. Extended(tab, line) =
        [tab EXCEPT !.entries = held, !.text = view, !.export = @ \/ Passes(high, line)]
  BY DEF Extended
<1>4. Passes(high, line) \in BOOLEAN
  BY <1>1, LineFields DEF Passes
<1>5. /\ held \in Seq(Lines) /\ Len(held) <= MaxTab + MaxLog
      /\ view = Filtered(held, high) /\ view \in Seq(Lines)
      /\ (view # <<>> => tab.export \/ Passes(high, line))
  <2>1. CASE n + 1 > MaxTab
    <3>1. held = DropFirst(pushed, Tenth)
      BY <1>2, <2>1
    <3> HIDE DEF held, pushed
    <3>2. /\ held \in Seq(Lines) /\ Len(held) = n + 1 - Tenth
          /\ \A i \in 1..n + 1 - Tenth : held[i] = pushed[i + Tenth]
      <4>1. pushed \in Seq(Lines) /\ Len(pushed) = n + 1 /\ Tenth \in Nat /\ Tenth <= Len(pushed)
        BY <1>1, <1>2, <2>1
      <4> QED BY <3>1, <4>1, DropFirstIs
    <3>3. view = Filtered(held, high) /\ view \in Seq(Lines)
      <4>1. view = Filtered(held, high)
        BY <2>1 DEF Renders
      <4> QED BY <3>2, <4>1, FilteredIs
    <3>4. ASSUME view # <<>>, ~Passes(high, line) PROVE tab.export
      <4>1. PICK i \in DOMAIN held : Passes(high, held[i])
        BY <3>2, <3>3, <3>4, FilteredEmpty
      <4>2. i \in 1..n + 1 - Tenth /\ held[i] = pushed[i + Tenth]
        BY <3>2, <4>1
      <4>3. i + Tenth \in 1..n
        <5>1. i + Tenth # n + 1
          BY <1>2, <3>4, <4>1, <4>2
        <5> QED BY <1>1, <4>2, <5>1
      <4>4. Passes(high, tab.entries[i + Tenth])
        BY <1>2, <4>1, <4>2, <4>3
      <4>5. tab.text # <<>>
        BY <1>1, <1>2, <4>3, <4>4, FilteredEmpty
      <4> QED BY <1>1, <4>5
    <3>5. Len(held) <= MaxTab + MaxLog
      BY <1>1, <3>2
    <3> QED BY <3>2, <3>3, <3>4, <3>5
  <2>2. CASE ~(n + 1 > MaxTab)
    <3>1. held = pushed
      BY <1>2, <2>2
    <3>2. view = IF Passes(high, line) THEN Append(tab.text, line) ELSE tab.text
      BY <2>2 DEF Renders
    <3>3. Filtered(pushed, high) =
            IF Passes(high, line) THEN Append(Filtered(tab.entries, high), line)
            ELSE Filtered(tab.entries, high)
      BY <1>1, FilteredMore
    <3>4. view = Filtered(held, high)
      BY <1>1, <3>1, <3>2, <3>3
    <3>5. view \in Seq(Lines)
      <4>1. Append(tab.text, line) \in Seq(Lines)
        BY <1>1
      <4> QED BY <1>1, <3>2, <4>1
    <3>6. Len(held) <= MaxTab + MaxLog
      BY <1>1, <1>2, <2>2, <3>1
    <3>7. view # <<>> => tab.export \/ Passes(high, line)
      BY <1>1, <3>2
    <3> QED BY <1>2, <3>1, <3>4, <3>5, <3>6, <3>7
  <2> QED BY <2>1, <2>2
<1> DEFINE export == tab.export \/ Passes(high, line)
<1>6. /\ Extended(tab, line) \in TabType
      /\ Extended(tab, line).entries = held /\ Extended(tab, line).text = view
      /\ Extended(tab, line).onlyHigh = high /\ Extended(tab, line).export = export
  <2>1. export \in BOOLEAN
    BY <1>1, <1>4
  <2>2. tab \in TabType
    BY DEF TabOK
  <2> HIDE DEF held, view, export
  <2> QED BY <1>1, <1>3, <1>5, <2>1, <2>2 DEF TabType, export
<1> HIDE DEF held, view
<1> QED BY <1>5, <1>6 DEF TabOK

\* A tab stays right when another line is sent.
LEMMA TabStays ==
  ASSUME LogTypeOK, NEW tab, TabOK(tab),
         sent' = sent \/ \E x \in [path : LogPaths, high : BOOLEAN] : sent' = Append(sent, x)
  PROVE  /\ tab \in TabType' /\ Len(tab.entries) <= MaxTab + MaxLog
         /\ tab.text = Filtered(tab.entries, tab.onlyHigh)'
         /\ tab.text # <<>> => tab.export
<1>1. Lines \subseteq Lines' /\ \A line \in Lines : sent'[line] = sent[line]
  <2>1. sent \in Seq([path : LogPaths, high : BOOLEAN]) /\ Len(sent) \in Nat
    BY DEF LogTypeOK
  <2>2. ASSUME NEW x \in [path : LogPaths, high : BOOLEAN], sent' = Append(sent, x)
        PROVE  Len(sent') = Len(sent) + 1 /\ \A line \in 1..Len(sent) : sent'[line] = sent[line]
    BY <2>1, <2>2
  <2> QED BY <2>1, <2>2 DEF Lines
<1>2. /\ tab \in TabType /\ tab.entries \in Seq(Lines) /\ tab.text \in Seq(Lines)
  BY DEF TabOK, TabType
<1>3. tab \in TabType'
  <2>1. Seq(Lines) \subseteq Seq(Lines')
    BY <1>1, SeqMonotonic
  <2> QED BY <1>2, <2>1 DEF TabType
<1>4. \A i \in DOMAIN tab.entries : Passes(tab.onlyHigh, tab.entries[i])
                                      <=> Passes(tab.onlyHigh, tab.entries[i])'
  <2> SUFFICES ASSUME NEW i \in DOMAIN tab.entries
               PROVE  sent[tab.entries[i]].high <=> sent'[tab.entries[i]].high
    BY DEF Passes
  <2>1. tab.entries[i] \in Lines
    BY <1>2, ElementOfSeq
  <2> QED BY <1>1, <2>1
<1>5. {i \in DOMAIN tab.entries : Passes(tab.onlyHigh, tab.entries[i])}
        = {i \in DOMAIN tab.entries : Passes(tab.onlyHigh, tab.entries[i])'}
  BY <1>4
<1>6. Filtered(tab.entries, tab.onlyHigh) = Filtered(tab.entries, tab.onlyHigh)'
  BY <1>5 DEF Filtered
<1> QED BY <1>3, <1>6 DEF TabOK

\* What the rest of LogInv asks of a step.
LEMMA TabsStay ==
  ASSUME LogTypeOK, LogTypeOK',
         sent' = sent \/ \E x \in [path : LogPaths, high : BOOLEAN] : sent' = Append(sent, x),
         \A n \in DOMAIN tabs' : TabOK(tabs'[n])
  PROVE  LogInv'
<1>1. ASSUME NEW n \in DOMAIN tabs' PROVE TabOK(tabs[n])'
  <2>1. PICK tab : tab = tabs'[n] /\ TabOK(tab)
    BY <1>1
  <2>2. /\ tab \in TabType' /\ Len(tab.entries) <= MaxTab + MaxLog
        /\ tab.text = Filtered(tab.entries, tab.onlyHigh)'
        /\ tab.text # <<>> => tab.export
    BY <2>1, TabStays
  <2>3. (tabs[n] \in TabType /\ Len(tabs[n].entries) <= MaxTab + MaxLog
          /\ (tabs[n].text # <<>> => tabs[n].export))'
    BY <2>1, <2>2
  <2>4. (tabs[n].text = Filtered(tabs[n].entries, tabs[n].onlyHigh))'
    BY <2>1, <2>2, Zenon DEF Filtered, Passes
  <2> QED BY <2>3, <2>4 DEF TabOK
<1> QED BY <1>1 DEF LogInv

LEMMA SendsKeep ==
  ASSUME LogInv, NEW p \in LogPaths, NEW high \in BOOLEAN, SendsLine(p, high)
  PROVE  LogInv'
<1> DEFINE x == [path |-> p, high |-> high]
<1>1. x \in [path : LogPaths, high : BOOLEAN] /\ sent' = Append(sent, x)
  BY DEF SendsLine
<1>2. /\ sent \in Seq([path : LogPaths, high : BOOLEAN]) /\ Len(sent) \in Nat
      /\ sent' \in Seq([path : LogPaths, high : BOOLEAN]) /\ Len(sent') = Len(sent) + 1
  BY <1>1 DEF LogInv, LogTypeOK
<1>3. Lines \subseteq Lines'
  BY <1>2 DEF Lines
<1>4. logBuffer' \in Seq([line : Lines', name : Named])
  <2>1. [line : Lines, name : Named] \subseteq [line : Lines', name : Named]
    BY <1>3
  <2>2. logBuffer' \in Seq([line : Lines, name : Named])
    BY DEF SendsLine, LogInv, LogTypeOK
  <2> QED BY <2>1, <2>2, SeqMonotonic
<1>5. LogTypeOK'
  BY <1>2, <1>4 DEF SendsLine, LogInv, LogTypeOK, Named
<1>6. \A n \in DOMAIN tabs' : TabOK(tabs'[n])
  BY DEF SendsLine, LogInv
<1> QED BY <1>1, <1>5, <1>6, TabsStay DEF LogInv

LEMMA CapturesKeep ==
  ASSUME LogInv, Captures
  PROVE  LogInv'
<1> DEFINE line == captured + 1
           room == MakeRoom(logBuffer)
           entry == [line |-> line, name |-> NameInTray(sent[line].path)]
<1> USE LogAssumption
<1>1. LogTypeOK /\ UNCHANGED <<sent, inTray, viewer, tailed, pathNames, tabs>>
  BY DEF Captures, LogInv
<1>2. line \in Lines /\ captured' = line /\ captured' \in 0..Len(sent)
  BY <1>1 DEF Captures, LogTypeOK, Lines
<1>3. entry \in [line : Lines, name : Named]
  BY <1>1, <1>2, LineFields, NamesInTray
<1>4. /\ logBuffer \in Seq([line : Lines, name : Named])
      /\ Len(logBuffer) \in Nat /\ Len(logBuffer) <= MaxLog
  BY <1>1 DEF LogTypeOK
<1>5. room \in Seq([line : Lines, name : Named]) /\ Len(room) \in Nat /\ Len(room) < MaxLog
  <2>1. CASE Len(logBuffer) >= MaxLog
    <3>1. Tenth \in Nat /\ Tenth <= Len(logBuffer) /\ Len(logBuffer) = MaxLog /\ Tenth # 0
      BY <1>4, <2>1
    <3>2. room = DropFirst(logBuffer, Tenth)
      BY <2>1 DEF MakeRoom
    <3>3. room \in Seq([line : Lines, name : Named]) /\ Len(room) = Len(logBuffer) - Tenth
      BY <1>4, <3>1, <3>2, DropFirstIs
    <3> QED BY <1>4, <3>1, <3>3
  <2>2. CASE ~(Len(logBuffer) >= MaxLog)
    BY <1>4, <2>2 DEF MakeRoom
  <2> QED BY <2>1, <2>2
<1>6. logBuffer' = Append(room, entry)
  BY DEF Captures
<1> HIDE DEF room, entry
<1>7. logBuffer' \in Seq([line : Lines, name : Named]) /\ Len(logBuffer') <= MaxLog
  BY <1>3, <1>5, <1>6
<1>8. LogTypeOK'
  BY <1>1, <1>2, <1>7 DEF LogTypeOK, Lines, Named
<1> QED BY <1>1, <1>8, TabsStay DEF LogInv

LEMMA OpensKeep ==
  ASSUME LogInv, Opens
  PROVE  LogInv'
<1>1. LogTypeOK /\ UNCHANGED <<sent, inTray, captured, logBuffer, tailed>> /\ viewer' = "subscribing"
  BY DEF Opens, LogInv
<1>2. DOMAIN pathNames' \subseteq LogPaths /\ Range(pathNames') \subseteq Named
  <2>1. /\ DOMAIN pathNames' = inTray \cup BufferedPaths
        /\ \A p \in inTray \cup BufferedPaths :
             pathNames'[p] = IF p \in BufferedPaths THEN BufferedName(p) ELSE ProfileOf[p]
    BY DEF Opens
  <2>2. inTray \subseteq LogPaths
    BY <1>1 DEF LogTypeOK
  <2>3. \A p \in DOMAIN pathNames' : p \in LogPaths /\ pathNames'[p] \in Named
    BY <1>1, <2>1, <2>2, NamesInBuffer, NamesInTray
  <2> QED BY <2>3 DEF Range
<1> DEFINE names == {ProfileOf[p] : p \in inTray} \cup {BufferedName(p) : p \in BufferedPaths}
<1>3. tabs' = [n \in names |-> NewTab(n)]
  BY DEF Opens
<1>4. names \subseteq Named
  BY <1>1, NamesInBuffer, NamesInTray DEF LogTypeOK
<1> HIDE DEF names
<1>5. \A n \in DOMAIN tabs' : TabOK(tabs'[n])
  BY <1>1, <1>3, NewTabOK
<1>6. \A n \in DOMAIN tabs' : Len(tabs'[n].entries) <= MaxTab + MaxLog
  BY <1>5 DEF TabOK
<1>7. LogTypeOK'
  BY <1>1, <1>2, <1>3, <1>4, <1>6 DEF LogTypeOK, Lines, Named
<1> QED BY <1>1, <1>5, <1>7, TabsStay

LEMMA TailsKeep ==
  ASSUME LogInv, Tails
  PROVE  LogInv'
<1> DEFINE line == tailed + 1
           path == sent[line].path
           name == IF path \in DOMAIN pathNames THEN pathNames[path] ELSE NameInTray(path)
           tab == IF name \in DOMAIN tabs THEN tabs[name] ELSE NewTab(name)
<1>1. LogTypeOK /\ UNCHANGED <<sent, inTray, captured, logBuffer, viewer>>
  BY DEF Tails, LogInv
<1>2. line \in Lines /\ tailed' = line /\ tailed' \in 0..Len(sent)
  BY <1>1 DEF Tails, LogTypeOK, Lines
<1>3. path \in LogPaths
  BY <1>1, <1>2, LineFields
<1>4. name \in Named
  BY <1>1, <1>3, NamesInTray DEF LogTypeOK, Range
<1>5. /\ pathNames' = [p \in DOMAIN pathNames \cup {path} |-> IF p = path THEN name ELSE pathNames[p]]
      /\ tabs' = [n \in DOMAIN tabs \cup {name} |-> IF n = name THEN Extended(tab, line) ELSE tabs[n]]
  BY DEF Tails
<1>6. TabOK(tab)
  BY <1>1, NewTabOK DEF LogInv
<1> HIDE DEF line, path, name, tab
<1>7. TabOK(Extended(tab, line))
  BY <1>1, <1>2, <1>6, ExtendedOK
<1>8. DOMAIN pathNames' \subseteq LogPaths /\ Range(pathNames') \subseteq Named
  BY <1>1, <1>3, <1>4, <1>5 DEF LogTypeOK, Range
<1>9. DOMAIN tabs' \subseteq Named /\ \A n \in DOMAIN tabs' : TabOK(tabs'[n])
  BY <1>1, <1>4, <1>5, <1>7 DEF LogInv, LogTypeOK
<1>10. \A n \in DOMAIN tabs' : Len(tabs'[n].entries) <= MaxTab + MaxLog
  BY <1>9 DEF TabOK
<1>11. LogTypeOK'
  BY <1>1, <1>2, <1>8, <1>9, <1>10 DEF LogTypeOK, Lines, Named
<1> QED BY <1>1, <1>9, <1>11, TabsStay

LEMMA FiltersKeep ==
  ASSUME LogInv, NEW name \in DOMAIN tabs, Filters(name)
  PROVE  LogInv'
<1> DEFINE tab == tabs[name]
           view == Filtered(tab.entries, ~tab.onlyHigh)
           new == [tab EXCEPT !.onlyHigh = ~@, !.text = view, !.export = view # <<>>]
<1>1. LogTypeOK /\ TabOK(tab)
      /\ UNCHANGED <<sent, inTray, captured, logBuffer, viewer, tailed, pathNames>>
  BY DEF Filters, LogInv
<1>2. tabs' = [tabs EXCEPT ![name] = new]
  BY DEF Filters
<1>3. TabOK(new)
  <2>1. PICK high : high = ~tab.onlyHigh
    OBVIOUS
  <2>2. /\ tab \in TabType /\ tab.entries \in Seq(Lines) /\ tab.onlyHigh \in BOOLEAN
        /\ Len(tab.entries) <= MaxTab + MaxLog
    BY <1>1 DEF TabOK, TabType
  <2>3. view = Filtered(tab.entries, high) /\ view \in Seq(Lines)
    BY <2>1, <2>2, FilteredIs
  <2> HIDE DEF view, tab
  <2>4. /\ new \in TabType /\ new.entries = tab.entries /\ new.text = view
        /\ new.onlyHigh = high /\ new.export = (view # <<>>)
    BY <2>1, <2>2, <2>3 DEF TabType
  <2> HIDE DEF new
  <2> QED BY <2>2, <2>3, <2>4 DEF TabOK
<1> HIDE DEF new, tab
<1>4. DOMAIN tabs' = DOMAIN tabs /\ \A n \in DOMAIN tabs' : TabOK(tabs'[n])
  BY <1>2, <1>3 DEF LogInv
<1>5. \A n \in DOMAIN tabs' : Len(tabs'[n].entries) <= MaxTab + MaxLog
  BY <1>4 DEF TabOK
<1>6. LogTypeOK'
  BY <1>1, <1>4, <1>5 DEF LogTypeOK, Lines, Named
<1> QED BY <1>1, <1>4, <1>6, TabsStay

LEMMA LogInductive == (LogInit => LogInv) /\ (LogInv /\ [LogNext]_logVars => LogInv')
<1>1. ASSUME LogInit PROVE LogInv
  <2>1. /\ sent = <<>> /\ inTray = {} /\ captured = 0 /\ logBuffer = <<>> /\ viewer = "closed"
        /\ pathNames = <<>> /\ tabs = <<>> /\ tailed = 0
    BY <1>1 DEF LogInit
  <2>2. DOMAIN pathNames = {} /\ DOMAIN tabs = {} /\ Range(pathNames) = {}
    BY <2>1 DEF Range
  <2> QED BY <2>1, <2>2, LogAssumption DEF LogInv, LogTypeOK
<1>2. ASSUME LogInv, [LogNext]_logVars PROVE LogInv'
  <2>1. ASSUME NEW p \in LogPaths, TrayChanges(p) PROVE LogInv'
    <3>1. LogTypeOK'
      BY <1>2, <2>1 DEF TrayChanges, LogInv, LogTypeOK, Lines, Named
    <3> QED BY <1>2, <2>1, <3>1, TabsStay DEF TrayChanges, LogInv
  <2>2. CASE Subscribes
    <3>1. LogTypeOK'
      BY <1>2, <2>2 DEF Subscribes, LogInv, LogTypeOK, Lines, Named
    <3> QED BY <1>2, <2>2, <3>1, TabsStay DEF Subscribes, LogInv
  <2>3. CASE Closes
    <3>1. DOMAIN pathNames' = {} /\ DOMAIN tabs' = {} /\ Range(pathNames') = {}
      BY <2>3 DEF Closes, Closed, Range
    <3>2. LogTypeOK'
      BY <1>2, <2>3, <3>1 DEF Closes, Closed, LogInv, LogTypeOK, Lines, Named
    <3> QED BY <1>2, <2>3, <3>1, <3>2, TabsStay DEF Closes, LogInv
  <2>4. CASE UNCHANGED logVars
    <3>1. LogTypeOK'
      BY <1>2, <2>4 DEF logVars, LogInv, LogTypeOK, Lines, Named
    <3> QED BY <1>2, <2>4, <3>1, TabsStay DEF logVars, LogInv
  <2> QED BY <1>2, <2>1, <2>2, <2>3, <2>4, SendsKeep, CapturesKeep, OpensKeep, TailsKeep,
             FiltersKeep DEF LogNext
<1> QED BY <1>1, <1>2

(***************************************************************************)
(* Type correctness of the log buffer and of the viewer: every line was    *)
(* sent, every tab has a profile's name, and neither outgrows its bound.   *)
(***************************************************************************)
THEOREM LogTypeCorrect == LogSpec => []LogTypeOK
<1>1. LogInv => LogTypeOK
  BY DEF LogInv
<1> QED BY <1>1, LogInductive, PTL DEF LogSpec

(***************************************************************************)
(* For any lines, bounds and filters, a tab shows the entries it holds     *)
(* that pass its filter, in order: what is appended as lines arrive is     *)
(* what rendering all of them anew would give.                             *)
(***************************************************************************)
THEOREM TabsShowTheirEntries == LogSpec => []ViewAgrees
<1>1. LogInv => ViewAgrees
  BY DEF LogInv, TabOK, ViewAgrees
<1> QED BY <1>1, LogInductive, PTL DEF LogSpec
=============================================================================
