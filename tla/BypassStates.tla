----------------------------- MODULE BypassStates -----------------------------
(***************************************************************************)
(* BypassState of the tray (gui/src/tray/indicator.rs): what the menu says *)
(* of split tunnelling.  Drifted keeps the counts of the Active state it   *)
(* came from.                                                              *)
(***************************************************************************)
EXTENDS Naturals

State(kind, applied, failed, missing, extra) ==
  [kind |-> kind, applied |-> applied, failed |-> failed, missing |-> missing, extra |-> extra]

Off    == State("Off", 0, 0, 0, 0)
Failed == State("Failed", 0, 0, 0, 0)
Active(applied, failed) == State("Active", applied, failed, 0, 0)
Drifted(applied, failed, missing, extra) == State("Drifted", applied, failed, missing, extra)

\* bypass_is_live
Live(state) == state.kind \in {"Active", "Drifted"}
=============================================================================
