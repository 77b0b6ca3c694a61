---------------------------- MODULE MCGuiParts ----------------------------
(***************************************************************************)
(* Parts of the GUI that share no state here, checked together: in a       *)
(* behaviour one of them runs and the others stay as they began.           *)
(***************************************************************************)
EXTENDS StatsPoller, TimeoutWatcher, AuthBudget, KeyringStore, BypassEditor,
        SessionMirror, Notifications, LogStream, TLC

CONSTANTS p1, p2, home, t1, t2, k1, k2, shared, e1, e2, s1, n1, n2, help, q1, q2, fallback

\* Two tunnels of one config for the poller, one for the session list, two
\* for the viewer; two configs of the same name for the keyring.
OnePath == [p \in Paths |-> home]
OneConfig == [s \in Sessions |-> home]
OneProfile == [p \in LogPaths |-> home]
SameName == [p \in ConfigPaths |-> shared]

Bits(a, b, c) == <<a = 1, b = 1, c = 1>>

\* Both of the first two become the second half when their host bits are cut.
SomeTexts == {<<Bits(1, 0, 0), 1>>, <<Bits(1, 0, 1), 1>>, <<Bits(0, 1, 0), 2>>}
SomeReserved == {Bits(0, 0, 0), Bits(0, 1, 1), Bits(1, 1, 1)}

VARIABLE part

clockVars == <<vars, watchVars, budgetVars>>
windowVars == <<editorVars, mirrorVars, notificationVars, logVars>>
partVars == <<part, clockVars, keyringVars, windowVars>>

PartsInit ==
  /\ part \in {"poller", "watchers", "budget", "keyring", "editor", "mirror", "toasts", "logs"}
  /\ Init /\ WatchInit /\ BudgetInit /\ KeyringInit
  /\ EditorInit /\ MirrorInit /\ NotificationInit /\ LogInit
  \* One beginning of a part that does not run is enough.
  /\ part # "keyring" => Stored(AllKeys) = {}
  /\ part # "mirror" => \A s \in Sessions : real[s] = "unborn"

Clocks ==
  /\ \/ part = "poller" /\ Next /\ UNCHANGED <<watchVars, budgetVars>>
     \/ part = "watchers" /\ WatchNext /\ UNCHANGED <<vars, budgetVars>>
     \/ part = "budget" /\ BudgetNext /\ UNCHANGED <<vars, watchVars>>
  /\ UNCHANGED <<keyringVars, windowVars>>

Keyring == part = "keyring" /\ KeyringNext /\ UNCHANGED <<clockVars, windowVars>>

Windows ==
  /\ \/ /\ part = "editor" /\ EditorNext
        /\ UNCHANGED <<mirrorVars, notificationVars, logVars>>
     \/ /\ part = "mirror" /\ MirrorNext
        /\ UNCHANGED <<editorVars, notificationVars, logVars>>
     \/ /\ part = "toasts" /\ NotificationNext
        /\ UNCHANGED <<editorVars, mirrorVars, logVars>>
     \/ /\ part = "logs" /\ LogNext
        /\ UNCHANGED <<editorVars, mirrorVars, notificationVars>>
  /\ UNCHANGED <<clockVars, keyringVars>>

PartsNext == (Clocks \/ Keyring \/ Windows) /\ UNCHANGED part

PartsSpec == PartsInit /\ [][PartsNext]_partVars

PartSymmetry == Permutations({n1, n2})

\* Type correctness of the parts.
PartsTypeOK ==
  CASE part = "poller" -> TypeOK
    [] part = "watchers" -> WatchTypeOK
    [] part = "budget" -> BudgetTypeOK
    [] part = "keyring" -> KeyringTypeOK
    [] part = "editor" -> EditorTypeOK
    [] part = "mirror" -> MirrorTypeOK
    [] part = "toasts" -> NotificationTypeOK
    [] part = "logs" -> LogTypeOK
=============================================================================
