-------------------------- MODULE CredentialFlow --------------------------
(***************************************************************************)
(* From a session that waits for input to its answer: the dispatch of the  *)
(* StatusChange signals (gui/src/app/auth_handlers.rs, auth_dispatch.rs),  *)
(* the request that reads the slots and opens the dialog, one window for a *)
(* session (credential_handler, dialogs/credentials.rs, singleton.rs), the *)
(* submission, and the new tunnel that follows a refusal.                  *)
(*                                                                         *)
(* All tunnels here are of one config.  A session asks in rounds: first    *)
(* for name and password, then perhaps for a one-time code.  A session     *)
(* that the GUI starts is asked about twice, by connect_to_config and by   *)
(* the signal; a session that somebody else starts by the signal alone.    *)
(*                                                                         *)
(* Every call to a session may fail.  What fails is not tried again, and   *)
(* the window's own close button neither submits nor cancels: the session  *)
(* waits on, and nothing asks about it until its next signal.              *)
(***************************************************************************)
EXTENDS Naturals, FiniteSets, Sequences

CONSTANTS
  Tunnels,      \* session paths
  Ours,         \* those that the GUI itself creates
  Inputs,       \* slots of the input queue, by their labels
  Rounds,       \* the slots of each round
  Category,     \* which standard field a label belongs to
  MaxRetries,   \* MAX_CREDENTIAL_ATTEMPTS
  Workers,      \* places for spawned futures (bound)
  Nobody

StandardFields == {"Username", "Password", "One-Time Code"}

ASSUME TunnelAssumption ==
  Ours \subseteq Tunnels /\ Nobody \notin Tunnels /\ MaxRetries \in Nat \ {0}
ASSUME SlotAssumption ==
  /\ Rounds \in Seq(SUBSET Inputs) /\ Rounds # <<>>
  /\ Category \in [Inputs -> StandardFields]

VARIABLES
  phase,    \* each session as openvpn3 has it
  round,    \* the round it is in
  given,    \* slots that were answered
  signals,  \* StatusChange signals on their way
  dialog,   \* the slots of the window of each session, or Nobody
  future,   \* the future in each place
  attempt,  \* CREDENTIAL_ATTEMPTS of the config
  forsaken  \* history: sessions that waited when a call failed or a window was closed

session == <<phase, round, given, signals>>
credentialVars == <<session, dialog, future, attempt, forsaken>>

Asked(s) == Rounds[round[s]] \ given[s]

\* Slots of this round and of earlier ones: openvpn3 keeps them in its queue.
Queue(s) == UNION {Rounds[i] : i \in 1..round[s]}

\* What a future does, for which session, with which slots; of a submission
\* also the fields that were filled and what is left to provide.
FutureOf(kind, step, s, slots) ==
  [kind |-> kind, step |-> step, session |-> s, slots |-> slots,
   filled |-> {}, todo |-> {}]

Vacant == FutureOf("none", "", Nobody, {})

Start(new) == \E f \in Workers : future[f] = Vacant /\ future' = [future EXCEPT ![f] = new]
Stop(f)    == future' = [future EXCEPT ![f] = Vacant]
Turn(f, step) == future' = [future EXCEPT ![f].step = step]
Is(f, kind, step) == future[f].kind = kind /\ future[f].step = step

\* The GUI is done with a session that waits.
Forsakes(s) == forsaken' = forsaken \cup {t \in Tunnels : t = s /\ phase[t] = "asking"}

\* A call fails and the future ends, with no more than a line in the log or a
\* notification.
Fails(f) == Stop(f) /\ Forsakes(future[f].session)

CredentialInit ==
  /\ phase = [s \in Tunnels |-> "unborn"]
  /\ round = [s \in Tunnels |-> 1]
  /\ given = [s \in Tunnels |-> {}]
  /\ signals = [s \in Tunnels |-> {}]
  /\ dialog = [s \in Tunnels |-> Nobody]
  /\ future = [f \in Workers |-> Vacant]
  /\ attempt = 0
  /\ forsaken = {}

---------------------------------------------------------------------------
(* openvpn3 *)

\* Bound: one session is started, by the user or by somebody else; further
\* ones follow from it.
Untouched ==
  /\ \A s \in Tunnels : phase[s] = "unborn"
  /\ \A f \in Workers : future[f] = Vacant

\* Somebody else starts a session.
StartedOutside(s) ==
  /\ Untouched /\ s \notin Ours
  /\ phase' = [phase EXCEPT ![s] = "asking"]
  /\ signals' = [signals EXCEPT ![s] = @ \cup {"input"}]
  /\ UNCHANGED <<round, given, dialog, future, attempt, forsaken>>

\* The server takes the credentials,
Accepted(s) ==
  /\ phase[s] = "verifying"
  /\ phase' = [phase EXCEPT ![s] = "up"]
  /\ signals' = [signals EXCEPT ![s] = @ \cup {"connected"}]
  /\ UNCHANGED <<round, given, dialog, future, attempt, forsaken>>

\* asks for more: whatever became of the last round,
Challenged(s) ==
  /\ phase[s] = "verifying" /\ round[s] < Len(Rounds)
  /\ phase' = [phase EXCEPT ![s] = "asking"]
  /\ round' = [round EXCEPT ![s] = @ + 1]
  /\ signals' = [signals EXCEPT ![s] = @ \cup {"input"}]
  /\ forsaken' = forsaken \ {s}
  /\ UNCHANGED <<given, dialog, future, attempt>>

\* or refuses them.
Refused(s) ==
  /\ phase[s] = "verifying"
  /\ phase' = [phase EXCEPT ![s] = "refused"]
  /\ signals' = [signals EXCEPT ![s] = @ \cup {"refused"}]
  /\ UNCHANGED <<round, given, dialog, future, attempt, forsaken>>

---------------------------------------------------------------------------
(* The StatusChange loop, as far as it is about credentials *)

Take(s, what) ==
  /\ what \in signals[s]
  /\ signals' = [signals EXCEPT ![s] = @ \ {what}]
  /\ UNCHANGED <<phase, round, given, dialog, forsaken>>

\* try_handle_auth: the general signal looks at the queue first, the one for
\* credentials or a challenge does not.
OnInput(s) ==
  /\ Take(s, "input")
  /\ \E step \in {"dispatch", "fetch"} : Start(FutureOf("request", step, s, {}))
  /\ UNCHANGED attempt

OnConnected(s) ==
  /\ Take(s, "connected")
  /\ attempt' = 0
  /\ UNCHANGED future

\* A mutant: one retry too many.
OnRefusedOnceMore(s) ==
  /\ Take(s, "refused")
  /\ IF attempt < MaxRetries
       THEN attempt' = attempt + 1 /\ Start(FutureOf("retry", "disconnect", s, {}))
       ELSE attempt' = 0 /\ Start(FutureOf("drop", "disconnect", s, {}))

\* handle_auth_failed: record, then retry or give up.
OnRefused(s) ==
  /\ Take(s, "refused")
  /\ IF attempt + 1 < MaxRetries
       THEN attempt' = attempt + 1 /\ Start(FutureOf("retry", "disconnect", s, {}))
       ELSE attempt' = 0 /\ Start(FutureOf("drop", "disconnect", s, {}))

---------------------------------------------------------------------------
(* request_credentials *)

\* dispatch_for_session: no slots, no request, and none if the query fails.
Dispatch(f) ==
  LET s == future[f].session IN
  /\ Is(f, "request", "dispatch")
  /\ \/ /\ IF phase[s] = "asking" /\ Asked(s) # {} THEN Turn(f, "fetch") ELSE Stop(f)
        /\ UNCHANGED forsaken
     \/ Fails(f)
  /\ UNCHANGED <<session, dialog, attempt>>

\* The slots of this moment, perhaps none.
Unanswered(s) == IF phase[s] = "asking" THEN Asked(s) ELSE {}

\* collect_credential_slots: those that can be read, whatever becomes of the rest.
Fetch(f) ==
  LET s == future[f].session IN
  /\ Is(f, "request", "fetch")
  /\ \/ \E slots \in SUBSET Unanswered(s) :
          /\ phase[s] # "gone"
          /\ future' = [future EXCEPT ![f].step = "keyring", ![f].slots = slots]
          /\ IF slots # Unanswered(s) THEN Forsakes(s) ELSE UNCHANGED forsaken
     \/ \* no proxy, or no groups
        Fails(f)
  /\ UNCHANGED <<session, dialog, attempt>>

\* present_keyed_system: a window that is open is raised, as it is.
Present(s, slots) ==
  dialog' = [dialog EXCEPT ![s] = IF @ = Nobody THEN slots ELSE @]

\* The keyring may ask the user first; then the dialog is shown.
Show(f) ==
  /\ Is(f, "request", "keyring")
  /\ Present(future[f].session, future[f].slots)
  /\ Stop(f)
  /\ UNCHANGED <<session, attempt, forsaken>>

---------------------------------------------------------------------------
(* The dialog.  It has one field for each standard label: the label of a   *)
(* slot of that category, if there is one.                                 *)

InCategory(c, slots) == {i \in slots : Category[i] = c}

FieldFor(c, slots) ==
  IF InCategory(c, slots) = {} THEN c ELSE CHOOSE i \in InCategory(c, slots) : TRUE

FieldsFor(slots) == {FieldFor(c, slots) : c \in StandardFields}

\* ConnectSession.  The user fills any of the fields; those that no slot asks for
\* make no difference.
Submit(s, filled) ==
  /\ dialog[s] # Nobody
  /\ filled \subseteq FieldsFor(dialog[s]) \cap dialog[s]
  /\ dialog' = [dialog EXCEPT ![s] = Nobody]
  /\ Start([FutureOf("submit", "check", s, dialog[s]) EXCEPT !.filled = filled])
  /\ UNCHANGED <<session, attempt, forsaken>>

\* Cancel: the session is disconnected.
Cancel(s) ==
  /\ dialog[s] # Nobody
  /\ dialog' = [dialog EXCEPT ![s] = Nobody]
  /\ Start(FutureOf("drop", "disconnect", s, {}))
  /\ UNCHANGED <<session, attempt, forsaken>>

\* The window's close button: the window goes, and that is all.
CloseWindow(s) ==
  /\ dialog[s] # Nobody
  /\ dialog' = [dialog EXCEPT ![s] = Nobody]
  /\ Forsakes(s)
  /\ UNCHANGED <<session, future, attempt>>

---------------------------------------------------------------------------
(* submit_credentials and handle_submit_outcome *)

\* any_required_field_empty
SomeEmpty(f) == future[f].slots \ future[f].filled # {}

\* A mutant: with an empty field nothing is sent, and that is all.
CheckSilently(f) ==
  /\ Is(f, "submit", "check")
  /\ IF SomeEmpty(f)
       THEN Stop(f)
       ELSE future' = [future EXCEPT ![f].step = "provide", ![f].todo = future[f].slots]
  /\ UNCHANGED <<session, dialog, attempt, forsaken>>

\* With an empty field nothing is sent: the dialog comes back.
Check(f) ==
  /\ Is(f, "submit", "check")
  /\ \/ /\ SomeEmpty(f)
        /\ Present(future[f].session, future[f].slots) /\ Stop(f)
        /\ UNCHANGED forsaken
     \/ /\ ~SomeEmpty(f)
        /\ future' = [future EXCEPT ![f].step = "provide", ![f].todo = future[f].slots]
        /\ UNCHANGED <<dialog, forsaken>>
     \/ \* no proxy
        Fails(f) /\ UNCHANGED dialog
  /\ UNCHANGED <<session, attempt>>

\* UserInputProvide of the next slot.
Provide(f, i) ==
  LET s == future[f].session
      next == [future EXCEPT ![f].todo = @ \ {i}] IN
  /\ Is(f, "submit", "provide")
  /\ i \in future[f].todo
  /\ \/ /\ phase[s] = "asking" /\ i \in Asked(s)
        /\ given' = [given EXCEPT ![s] = @ \cup {i}]
        /\ future' = next
        /\ UNCHANGED forsaken
     \/ \* already-provided
        /\ phase[s] = "asking" /\ i \in given[s]
        /\ future' = next
        /\ UNCHANGED <<given, forsaken>>
     \/ \* User input not required: the slots are asked for again
        /\ phase[s] \in {"verifying", "up", "refused"}
        /\ future' = [future EXCEPT ![f] = FutureOf("request", "fetch", s, {})]
        /\ UNCHANGED <<given, forsaken>>
     \/ \* any other error, of whatever session, ends it
        Fails(f) /\ UNCHANGED given
  /\ UNCHANGED <<phase, round, signals, dialog, attempt>>

\* Ready: with input still missing it fails, and more input is waited for; so
\* it is after any other failure.  What follows, in the keyring, is in module
\* KeyringStore.
Ready(f) ==
  LET s == future[f].session IN
  /\ Is(f, "submit", "provide")
  /\ future[f].todo = {}
  /\ \/ /\ IF phase[s] = "asking" /\ Asked(s) = {} THEN Turn(f, "connect") ELSE Stop(f)
        /\ UNCHANGED forsaken
     \/ Asked(s) = {} /\ Fails(f)
  /\ UNCHANGED <<session, dialog, attempt>>

ConnectSession(f) ==
  LET s == future[f].session IN
  /\ Is(f, "submit", "connect")
  /\ \/ /\ phase' = IF phase[s] = "asking" THEN [phase EXCEPT ![s] = "verifying"] ELSE phase
        /\ Stop(f)
        /\ UNCHANGED forsaken
     \/ Fails(f) /\ UNCHANGED phase
  /\ UNCHANGED <<round, given, signals, dialog, attempt>>

---------------------------------------------------------------------------
(* Session operations *)

\* session_action("disconnect"), whose failure is logged; a retry goes on to the
\* new tunnel.
EndSession(f) ==
  LET s == future[f].session IN
  /\ future[f].step = "disconnect"
  /\ \/ phase' = [phase EXCEPT ![s] = "gone"] /\ UNCHANGED forsaken
     \/ UNCHANGED phase /\ Forsakes(s)
  /\ IF future[f].kind = "retry" THEN Turn(f, "tunnel") ELSE Stop(f)
  /\ UNCHANGED <<round, given, signals, dialog, attempt>>

\* The user connects the config from the tray.
UserConnects ==
  /\ Untouched
  /\ Start(FutureOf("connect", "tunnel", Nobody, {}))
  /\ UNCHANGED <<session, dialog, attempt, forsaken>>

\* connect_to_config: NewTunnel returns; Ready fails for want of input, so
\* the same future goes on as a request.
NewTunnel(f, s) ==
  /\ future[f].step = "tunnel"
  /\ phase[s] = "unborn" /\ s \in Ours
  /\ phase' = [phase EXCEPT ![s] = "asking"]
  /\ signals' = [signals EXCEPT ![s] = @ \cup {"input"}]
  /\ future' = [future EXCEPT ![f] = FutureOf("request", "fetch", s, {})]
  /\ UNCHANGED <<round, given, dialog, attempt, forsaken>>

\* NewTunnel fails for good.
TunnelFails(f) ==
  /\ future[f].step = "tunnel"
  /\ Stop(f)
  /\ UNCHANGED <<session, dialog, attempt, forsaken>>

Work(f) ==
  \/ Dispatch(f) \/ Fetch(f) \/ Show(f)
  \/ Check(f) \/ (\E i \in Inputs : Provide(f, i)) \/ Ready(f) \/ ConnectSession(f)
  \/ EndSession(f) \/ (\E s \in Tunnels : NewTunnel(f, s)) \/ TunnelFails(f)

OnSignal(s) == OnInput(s) \/ OnConnected(s) \/ OnRefused(s)

SubmitSome(s) ==
  \E filled \in SUBSET Inputs : Submit(s, filled)

CredentialNext ==
  \/ UserConnects
  \/ \E s \in Tunnels :
       \/ StartedOutside(s) \/ Accepted(s) \/ Challenged(s) \/ Refused(s)
       \/ OnSignal(s) \/ SubmitSome(s) \/ Cancel(s) \/ CloseWindow(s)
  \/ \E f \in Workers : Work(f)

\* The user fills every field of the window.
SubmitsAll(s) ==
  /\ dialog[s] # Nobody
  /\ Submit(s, FieldsFor(dialog[s]) \cap dialog[s])

\* Signals are delivered, futures go on, and a user who is asked again and
\* again at last fills every field.
CredentialFairness ==
  /\ \A s \in Tunnels :
       /\ WF_credentialVars(OnSignal(s))
       /\ SF_credentialVars(SubmitsAll(s))
  /\ \A f \in Workers : WF_credentialVars(Work(f))

CredentialSpec ==
  CredentialInit /\ [][CredentialNext]_credentialVars /\ CredentialFairness

---------------------------------------------------------------------------
(* Properties *)

FutureType ==
  [kind : {"none", "request", "submit", "retry", "drop", "connect"},
   step : {"", "dispatch", "fetch", "keyring", "check", "provide", "connect",
           "disconnect", "tunnel"},
   session : Tunnels \cup {Nobody},
   slots : SUBSET Inputs, filled : SUBSET Inputs, todo : SUBSET Inputs]

\* Nothing is asked of the user or given to openvpn3 that the session has not
\* asked for in one of its rounds.
CredentialTypeOK ==
  /\ phase \in [Tunnels -> {"unborn", "asking", "verifying", "up", "refused", "gone"}]
  /\ round \in [Tunnels -> 1..Len(Rounds)]
  /\ given \in [Tunnels -> SUBSET Inputs]
  /\ signals \in [Tunnels -> SUBSET {"input", "connected", "refused"}]
  /\ dialog \in [Tunnels -> (SUBSET Inputs) \cup {Nobody}]
  /\ \A s \in Tunnels :
       given[s] \subseteq Queue(s) /\ (dialog[s] # Nobody => dialog[s] \subseteq Queue(s))
  /\ future \in [Workers -> FutureType]
  /\ \A f \in Workers :
       /\ future[f].todo \subseteq IF future[f].kind = "submit" THEN future[f].slots ELSE {}
       /\ future[f].kind \in {"none", "connect"} \/ future[f].session \in Tunnels
  /\ \A f \in Workers, s \in Tunnels :
       future[f].session = s => future[f].slots \subseteq Queue(s)
  /\ attempt \in 0..MaxRetries - 1
  /\ forsaken \subseteq Tunnels

(***************************************************************************)
(* A session that waits for input does not wait for ever if the user fills *)
(* what the dialogs ask: it is asked about again after every challenge, as *)
(* submit.rs leaves it to the StatusChange handler.  True of sessions that *)
(* somebody else started, which are asked about once for each signal, and  *)
(* unless, in this round, a call to the session failed, a slot could not   *)
(* be read, or the window was closed without an answer.                    *)
(***************************************************************************)
WaitingEnds ==
  \A s \in Tunnels \ Ours :
    phase[s] = "asking" ~> phase[s] # "asking" \/ s \in forsaken
=============================================================================
