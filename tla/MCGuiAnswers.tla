---------------------------- MODULE MCGuiAnswers ----------------------------
(***************************************************************************)
(* The GUI where no tunnel drops by itself, with fairness, in two parts    *)
(* that share no state: the kill-switch over two configs and the user's    *)
(* own doings (connects, disconnects, pauses, failed attempts, the         *)
(* preference), and a session that waits for input.  In a behaviour one of *)
(* them runs; the fairness of the other is not asked.                      *)
(***************************************************************************)
EXTENDS GuiKillSwitch, CredentialFlow

CONSTANTS a1, b1, home, work, t1, t2, f1, f2

TwoConfigs == [s \in Sessions |-> IF s = b1 THEN work ELSE home]

\* Name and password, then a code.
TwoRounds == <<{"user", "pass"}, {"otp"}>>
Categories ==
  [i \in Inputs |-> CASE i = "user" -> "Username" [] i = "pass" -> "Password"
                      [] i = "otp" -> "One-Time Code"]

VARIABLE part

answerVars == <<part, vars, credentialVars>>

InKillSwitch(A) == part = "kill-switch" /\ A /\ UNCHANGED <<part, credentialVars>>
InCredentials(A) == part = "credentials" /\ A /\ UNCHANGED <<part, vars>>

AnswersInit ==
  /\ part \in {"kill-switch", "credentials"}
  /\ Init /\ CredentialInit
  /\ part = "credentials" =>
       (\A s \in Sessions : live[s] = "unborn") /\ job[f1] = NoFuture

AnswersNext == InKillSwitch(Next) \/ InCredentials(CredentialNext)

\* FairSpec of GuiKillSwitch and CredentialFairness, each while its part runs.
AnswersFairness ==
  /\ \A f \in Slots : WF_answerVars(InKillSwitch(Run(f)))
  /\ \A s \in Sessions :
       /\ WF_answerVars(InKillSwitch(SessCreated(s)))
       /\ SF_answerVars(InKillSwitch(SessDestroyed(s)))
  /\ \A f \in Workers : WF_answerVars(InCredentials(Work(f)))
  /\ \A s \in Tunnels :
       /\ WF_answerVars(InCredentials(OnSignal(s)))
       /\ SF_answerVars(InCredentials(SubmitsAll(s)))

AnswersSpec == AnswersInit /\ [][AnswersNext]_answerVars /\ AnswersFairness
=============================================================================
