------------------------------- MODULE MCGui -------------------------------
(***************************************************************************)
(* GuiKillSwitch on two tunnels of one config:                             *)
(*   gui_drops    they run one after the other or side by side, drop by    *)
(*                themselves, are refused, retry, pause; Dismiss; a        *)
(*                RemoveRules may fail;                                    *)
(*   gui_outside  what others do: tunnels started outside the GUI, killed  *)
(*                or lost, AddRules, RemoveRules and NewTunnel failing,    *)
(*                auto-reconnect, and the preference, switched while       *)
(*                applies and retries are under way.                       *)
(* MCGuiAnswers has two configs and the user's own doings.                 *)
(***************************************************************************)
EXTENDS GuiKillSwitch, TLC

\* The sessions shared out among the configs, so that none is without one.
SharedOut ==
  CHOOSE of \in [Sessions -> Configs] : \A c \in Configs : \E s \in Sessions : of[s] = c

SlotSymmetry == Permutations(Slots)
=============================================================================
