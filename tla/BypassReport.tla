----------------------------- MODULE BypassReport -----------------------------
(***************************************************************************)
(* What the GUI promises the user about split tunnelling, whatever goes on *)
(* behind it (the comments on BypassState in tray/indicator.rs and on the  *)
(* functions of stats_poller/drift.rs): the tray shows the outcome of the  *)
(* last apply until a release; a drift of the nft sets is shown on top of  *)
(* that outcome and announced whenever it changes, a recovery gives back   *)
(* that same outcome, and neither brings back what was released or failed. *)
(***************************************************************************)
EXTENDS BypassStates

CONSTANTS
  Most,     \* the longest list
  NoCounts  \* nothing is applied

VARIABLES
  state,   \* what the tray shows
  told,    \* the last notification, Off once the tray has said so
  counts   \* outcome of the last apply, or NoCounts

reportVars == <<state, told, counts>>

Shows(new) == state' = new /\ told' = new

ReportInit == state = Off /\ told = Off /\ counts = NoCounts

Applies(applied, failed) ==
  Shows(Active(applied, failed)) /\ counts' = <<applied, failed>>

ApplyFails == Shows(Failed) /\ counts' = NoCounts

Releases == Shows(Off) /\ counts' = NoCounts

\* A drift of the same extent is not announced again: it is no step.
Drifts(missing, extra) ==
  /\ Live(state) /\ missing + extra > 0
  /\ Shows(Drifted(counts[1], counts[2], missing, extra))
  /\ UNCHANGED counts

Recovers ==
  /\ state.kind = "Drifted"
  /\ Shows(Active(counts[1], counts[2]))
  /\ UNCHANGED counts

ReportNext ==
  \/ \E applied, failed \in 0..Most : Applies(applied, failed)
  \/ ApplyFails \/ Releases
  \/ \E missing, extra \in 0..Most : Drifts(missing, extra)
  \/ Recovers

ReportSpec == ReportInit /\ [][ReportNext]_reportVars

\* The tray and the notification say the same, with the counts that apply.
Honest ==
  /\ told = state
  /\ Live(state) => counts = <<state.applied, state.failed>>
  /\ ~Live(state) => counts = NoCounts
=============================================================================
