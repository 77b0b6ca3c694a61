---------------------------- MODULE AuthBudget ----------------------------
(***************************************************************************)
(* CREDENTIAL_ATTEMPTS (gui/src/app/credential_handler/retry.rs): how many *)
(* refusals of credentials are answered by a new tunnel before the GUI     *)
(* gives up.  A config has its own budget within a window that moves with  *)
(* its last failure, and all configs together have one, so that a daemon   *)
(* that names another config each time does not get retries without end.   *)
(***************************************************************************)
EXTENDS Naturals, Sequences, FiniteSets

CONSTANTS
  Profiles,      \* config paths
  MaxPerConfig,  \* MAX_CREDENTIAL_ATTEMPTS
  MaxGlobal,     \* MAX_GLOBAL_AUTH_ATTEMPTS
  AuthWindow,    \* AUTH_RETRY_WINDOW_SECS, in ticks
  LastTick       \* how long the clock runs (bound)

ASSUME BudgetAssumption ==
  /\ IsFiniteSet(Profiles)
  /\ MaxPerConfig \in Nat \ {0} /\ MaxGlobal \in Nat \ {0}
  /\ AuthWindow \in Nat /\ LastTick \in Nat

VARIABLES
  clock,
  budget,  \* count and time of the last failure of each config
  granted  \* history: times of the retries of a config that neither a
           \* connection nor a surrender has settled

budgetVars == <<clock, budget, granted>>

\* No entry and an entry with count 0 are the same.
Fresh == [count |-> 0, last |-> 0]

BudgetInit ==
  /\ clock = 0
  /\ budget = [c \in Profiles |-> Fresh]
  /\ granted = [c \in Profiles |-> <<>>]

BudgetTick ==
  /\ clock < LastTick
  /\ clock' = clock + 1
  /\ UNCHANGED <<budget, granted>>

\* A mutant: the window ends a moment early.
StaleAtOnce(c) == clock - budget[c].last >= AuthWindow

Stale(c) == clock - budget[c].last > AuthWindow

\* next_attempt
NextAttempt(c) == [count |-> (IF Stale(c) THEN 0 ELSE budget[c].count) + 1, last |-> clock]

\* A sum over configs, as the size of a disjoint union.
Together(S(_), configs) == Cardinality(UNION {{c} \X S(c) : c \in configs})

Attempts(b, configs) == Together(LAMBDA c : 1..b[c].count, configs)

\* A mutant: what a config was granted a whole window ago is not counted.
ActiveTotalEarly(b) == Attempts(b, {c \in Profiles : clock - b[c].last < AuthWindow})

\* active_attempt_total
ActiveTotal(b) == Attempts(b, {c \in Profiles : clock - b[c].last <= AuthWindow})

\* handle_auth_failed: record_auth_attempt and the decision that follows it,
\* for a session whose config is known.
BudgetFailure(c) ==
  LET b == [budget EXCEPT ![c] = NextAttempt(c)] IN
  IF b[c].count < MaxPerConfig /\ ActiveTotal(b) < MaxGlobal
    THEN /\ budget' = b
         /\ granted' = [granted EXCEPT ![c] = Append(@, clock)]
         /\ UNCHANGED clock
    ELSE /\ budget' = [budget EXCEPT ![c] = Fresh]
         /\ granted' = [granted EXCEPT ![c] = <<>>]
         /\ UNCHANGED clock

\* clear_credential_attempts_on_connect
BudgetConnected(c) ==
  /\ budget' = [budget EXCEPT ![c] = Fresh]
  /\ granted' = [granted EXCEPT ![c] = <<>>]
  /\ UNCHANGED clock

BudgetNext == BudgetTick \/ \E c \in Profiles : BudgetFailure(c) \/ BudgetConnected(c)

BudgetSpec == BudgetInit /\ [][BudgetNext]_budgetVars

---------------------------------------------------------------------------
(* Properties *)

BudgetTypeOK ==
  /\ clock \in 0..LastTick
  /\ budget \in [Profiles -> [count : 0..MaxPerConfig - 1, last : 0..LastTick]]
  /\ granted \in [Profiles -> Seq(0..LastTick)]

\* The retries of a config that were granted within the window that ends now.
Recent(c) == {i \in DOMAIN granted[c] : clock - granted[c][i] <= AuthWindow}

(***************************************************************************)
(* Wherever the failures fall, a config gets fewer than                    *)
(* MAX_CREDENTIAL_ATTEMPTS retries within any window that ends now, as the *)
(* comment on this constant promises.  A surrender or a connection settles *)
(* what came before: after a lockout the budget starts anew, within the    *)
(* same window, too.                                                       *)
(***************************************************************************)
ConfigBounded == \A c \in Profiles : Cardinality(Recent(c)) < MaxPerConfig

(***************************************************************************)
(* All configs together get fewer than MAX_GLOBAL_AUTH_ATTEMPTS, however   *)
(* many the daemon names.  Again a config that gave up or connected starts *)
(* anew, and its retries of before no longer count.                        *)
(***************************************************************************)
AllBounded == Together(Recent, Profiles) < MaxGlobal
=============================================================================
