---------------------------- MODULE BypassEditor ----------------------------
(***************************************************************************)
(* The list of bypassed networks under the user's hands: the Routing tab   *)
(* of Preferences (dialogs/preferences/routing_tab.rs) and the helper's    *)
(* validation behind it (helper/src/validation.rs).                        *)
(*                                                                         *)
(* Add and Update send the whole prospective list to the helper and take   *)
(* its canonical form when the answer comes; the user goes on meanwhile.   *)
(* An address is its bits, Width of them instead of 32 or 128.             *)
(***************************************************************************)
EXTENDS Naturals, Sequences, FiniteSets, SequencesExt

CONSTANTS
  Width,       \* bits of an address
  Reserved,    \* loopback, multicast, link-local and the unspecified address
  Texts,       \* what the user types: address and prefix length
  MaxCount,    \* bypass-cidrs-max-count
  MaxBypass,   \* MAX_BYPASS_CIDRS of the helper
  Checks,      \* places for validations under way (bound)
  NoText, Refused

Addresses == [1..Width -> BOOLEAN]
Networks == Addresses \X (0..Width)

ASSUME WidthAssumption ==
  /\ Width \in Nat /\ MaxCount \in Nat /\ MaxBypass \in Nat
  /\ Reserved \subseteq Addresses /\ Texts \subseteq Networks

VARIABLES
  entries,    \* the list as shown
  unchecked,  \* entries whose box is not ticked
  editing,    \* the row whose text is in the entry field, 0 if none
  text,       \* the entry field
  sensitive,  \* the Add/Update button
  check,      \* the list sent in each validation, or Refused for a free place
  gone        \* history: networks deleted with no validation under way, and
              \* not sent since

editorVars == <<entries, unchecked, editing, text, sensitive, check, gone>>

---------------------------------------------------------------------------
(* validation.rs *)

\* The host bits are cut off.
Masked(net) == <<[bit \in 1..Width |-> bit <= net[2] /\ net[1][bit]], net[2]>>

\* canonicalize_cidr: the checks are of the address as it was given.
Accepts(net) == net[2] > 0 /\ net[1] \notin Reserved

Canonical(nets) == [i \in DOMAIN nets |-> Masked(nets[i])]

\* validate_bypass_cidrs
Valid(nets) ==
  /\ Len(nets) <= MaxBypass
  /\ \A i \in DOMAIN nets : Accepts(nets[i])
  /\ IsInjective(Canonical(nets))

---------------------------------------------------------------------------
(* The tab *)

\* The entry field changes: check_syntax, then the capacity when adding.
Changes(new, edited) ==
  /\ text' = new
  /\ sensitive' = /\ new # NoText
                  /\ new[2] > 0
                  /\ edited # 0 \/ Len(entries) < MaxCount

\* Clearing an entry field that is empty is no change.
ToAdding ==
  /\ editing' = 0 /\ text' = NoText
  /\ sensitive' = (sensitive /\ text = NoText)

EditorInit ==
  /\ entries = <<>> /\ unchecked = {}
  /\ editing = 0 /\ text = NoText /\ sensitive = FALSE
  /\ check = [k \in Checks |-> Refused]
  /\ gone = {}

\* text is empty or well-formed; other input only makes the button insensitive.
Types(new) ==
  /\ Changes(new, editing)
  /\ UNCHANGED <<entries, unchecked, editing, check, gone>>

\* A row is activated: its text is loaded before the edit begins.
Loads(i) ==
  /\ Changes(entries[i], editing)
  /\ editing' = i
  /\ UNCHANGED <<entries, unchecked, check, gone>>

CancelsEdit ==
  /\ editing # 0
  /\ ToAdding
  /\ UNCHANGED <<entries, unchecked, check, gone>>

Ticks(i) ==
  /\ unchecked' = IF entries[i] \in unchecked THEN unchecked \ {entries[i]}
                                              ELSE unchecked \cup {entries[i]}
  /\ UNCHANGED <<entries, editing, text, sensitive, check, gone>>

\* A mutant: the box of another row goes.
DeletesNext(i) ==
  /\ entries' = RemoveAt(entries, IF i < Len(entries) THEN i + 1 ELSE i)
  /\ unchecked' = unchecked \ {entries[i]}
  /\ IF editing = i THEN ToAdding ELSE UNCHANGED <<editing, text, sensitive>>
  /\ gone' = IF \A k \in Checks : check[k] = Refused THEN gone \cup {entries[i]} ELSE gone
  /\ UNCHANGED check

\* An edit of a row further down keeps its number.
Deletes(i) ==
  /\ entries' = RemoveAt(entries, i)
  /\ unchecked' = unchecked \ {entries[i]}
  /\ IF editing = i THEN ToAdding ELSE UNCHANGED <<editing, text, sensitive>>
  /\ gone' = IF \A k \in Checks : check[k] = Refused THEN gone \cup {entries[i]} ELSE gone
  /\ UNCHANGED check

Prospective ==
  IF editing \in DOMAIN entries THEN [entries EXCEPT ![editing] = text]
                                ELSE Append(entries, text)

\* Add or Update.
Clicks(k) ==
  /\ sensitive /\ text # NoText /\ check[k] = Refused
  /\ check' = [check EXCEPT ![k] = Prospective]
  /\ sensitive' = FALSE
  /\ gone' = gone \ {Masked(text)}
  /\ UNCHANGED <<entries, unchecked, editing, text>>

\* ValidateBypassCidrs answers: the canonical list replaces the one shown.
Accepted(k) ==
  /\ check[k] # Refused /\ Valid(check[k])
  /\ entries' = Canonical(check[k])
  /\ ToAdding
  /\ check' = [check EXCEPT ![k] = Refused]
  /\ UNCHANGED <<unchecked, gone>>

\* It refuses, or there is no helper: the user may try again.
Rejected(k) ==
  /\ check[k] # Refused
  /\ sensitive' = TRUE
  /\ check' = [check EXCEPT ![k] = Refused]
  /\ UNCHANGED <<entries, unchecked, editing, text, gone>>

EditorNext ==
  \/ \E new \in Texts \cup {NoText} : Types(new)
  \/ \E i \in DOMAIN entries : Loads(i) \/ Ticks(i) \/ Deletes(i)
  \/ CancelsEdit
  \/ \E k \in Checks : Clicks(k) \/ Accepted(k) \/ Rejected(k)

EditorSpec == EditorInit /\ [][EditorNext]_editorVars

---------------------------------------------------------------------------
(* Properties *)

EditorTypeOK ==
  /\ entries \in Seq(Networks)
  /\ unchecked \subseteq Networks
  /\ editing \in Nat
  /\ text \in Networks \cup {NoText}
  /\ sensitive \in BOOLEAN

(***************************************************************************)
(* A network that was deleted does not come back by itself, unless a       *)
(* validation was under way at that moment.                                *)
(***************************************************************************)
DeletedStaysDeleted == ToSet(entries) \cap gone = {}
=============================================================================
