------------------------------ MODULE LogStream ------------------------------
(***************************************************************************)
(* From openvpn3's Log signals to the lines on the screen: the buffer that *)
(* runs from start-up (app/log_buffer.rs) and the tabbed viewer, which     *)
(* shows the buffered history and then follows the signals itself          *)
(* (dialogs/logs).  The two hear every signal on streams of their own and  *)
(* handle it when their task is next polled.                               *)
(*                                                                         *)
(* A line is its number in the order of sending; all lines are of one day, *)
(* so that sorting by the time of day is sorting by number.  The hint that *)
(* an empty tab shows above its first lines is left out.                   *)
(***************************************************************************)
EXTENDS Naturals, Sequences, FiniteSets, Functions

CONSTANTS
  LogPaths,   \* session paths
  ProfileOf,  \* their config names
  Fallback,   \* FALLBACK_NAME
  MaxLines,   \* lines that openvpn3 sends (bound)
  MaxLog,     \* MAX_LOG_ENTRIES
  MaxTab,     \* MAX_TAB_ENTRIES
  Tenth       \* a tenth of either

ASSUME LogAssumption ==
  /\ DOMAIN ProfileOf = LogPaths
  /\ \A p \in LogPaths : ProfileOf[p] # Fallback
  /\ MaxLines \in Nat
  /\ Tenth \in Nat \ {0} /\ MaxLog \in Nat /\ MaxTab \in Nat
  /\ Tenth <= MaxLog /\ Tenth <= MaxTab

VARIABLES
  sent,      \* openvpn3: the lines sent, [path, high]
  inTray,    \* paths that tray.sessions has
  captured,  \* how many of them the buffer's task has handled
  logBuffer, \* LOG_BUFFER: [line, name] each
  viewer,    \* the window and its task
  tailed,    \* the last line its stream is past
  pathNames, \* path_to_name
  tabs       \* TabState of each name that has a tab

logVars == <<sent, inTray, captured, logBuffer, viewer, tailed, pathNames, tabs>>

Closed == viewer' = "closed" /\ pathNames' = <<>> /\ tabs' = <<>> /\ tailed' = 0

LogInit ==
  /\ sent = <<>> /\ inTray = {}
  /\ captured = 0 /\ logBuffer = <<>>
  /\ viewer = "closed" /\ pathNames = <<>> /\ tabs = <<>> /\ tailed = 0

\* session_config_name
NameInTray(p) == IF p \in inTray THEN ProfileOf[p] ELSE Fallback

DropFirst(s, n) == SubSeq(s, n + 1, Len(s))

---------------------------------------------------------------------------
(* openvpn3 and the tray *)

SendsLine(p, high) ==
  /\ Len(sent) < MaxLines
  /\ sent' = Append(sent, [path |-> p, high |-> high])
  /\ UNCHANGED <<inTray, captured, logBuffer, viewer, tailed, pathNames, tabs>>

\* The rest of the GUI enters the session, or removes it.
TrayChanges(p) ==
  /\ inTray' = IF p \in inTray THEN inTray \ {p} ELSE inTray \cup {p}
  /\ UNCHANGED <<sent, captured, logBuffer, viewer, tailed, pathNames, tabs>>

---------------------------------------------------------------------------
(* log_buffer.rs *)

\* A mutant: room is made one line late.
MakeRoomLate(buf) == IF Len(buf) > MaxLog THEN DropFirst(buf, Tenth) ELSE buf

\* push_entry, before the push
MakeRoom(buf) == IF Len(buf) >= MaxLog THEN DropFirst(buf, Tenth) ELSE buf

\* subscribe: the body of its loop
Captures ==
  /\ captured < Len(sent)
  /\ captured' = captured + 1
  /\ LET line == captured + 1 IN
     logBuffer' = Append(MakeRoom(logBuffer),
                         [line |-> line, name |-> NameInTray(sent[line].path)])
  /\ UNCHANGED <<sent, inTray, viewer, tailed, pathNames, tabs>>

PathOf(entry) == sent[entry.line].path
BufferedPaths == {PathOf(logBuffer[i]) : i \in DOMAIN logBuffer}

\* sessions_with_logs: the name in the newest entry of the path
BufferedName(p) ==
  logBuffer[CHOOSE i \in DOMAIN logBuffer :
              /\ PathOf(logBuffer[i]) = p
              /\ \A j \in DOMAIN logBuffer : PathOf(logBuffer[j]) = p => j <= i].name

---------------------------------------------------------------------------
(* dialogs/logs/mod.rs *)

\* filter.rs: passes_filter; the search and the level as one condition that
\* some lines meet.
Passes(onlyHigh, line) == onlyHigh => sent[line].high

\* A set of numbers as a sequence, in order.
Ascending(S) ==
  [k \in 1..Cardinality(S) |-> CHOOSE n \in S : Cardinality({m \in S : m <= n}) = k]

\* filtered_text: the lines of those entries that pass.
Filtered(entries, onlyHigh) ==
  LET kept == Ascending({i \in DOMAIN entries : Passes(onlyHigh, entries[i])})
  IN [k \in DOMAIN kept |-> entries[kept[k]]]

\* create_tab_for_config: the lines, sorted, of every path that now goes by
\* the name.
NewTab(name) ==
  LET paths == {p \in BufferedPaths : BufferedName(p) = name}
      lines == {logBuffer[i].line : i \in {j \in DOMAIN logBuffer : PathOf(logBuffer[j]) \in paths}}
      entries == Ascending(lines)
  IN [entries |-> entries, text |-> entries, onlyHigh |-> FALSE, export |-> entries # <<>>]

\* build_log_viewer up to its task; merge_config_names, build_path_map
Opens ==
  /\ viewer = "closed"
  /\ viewer' = "subscribing"
  /\ pathNames' = [p \in inTray \cup BufferedPaths |->
                  IF p \in BufferedPaths THEN BufferedName(p) ELSE ProfileOf[p]]
  /\ tabs' = [n \in {ProfileOf[p] : p \in inTray} \cup {BufferedName(p) : p \in BufferedPaths}
                |-> NewTab(n)]
  /\ UNCHANGED <<sent, inTray, captured, logBuffer, tailed>>

\* AddMatch returns: the stream hears what is sent from now on, or the task
\* ends and leaves the window as it is.
Subscribes ==
  /\ viewer = "subscribing"
  /\ viewer' \in {"tailing", "deaf"}
  /\ tailed' = Len(sent)
  /\ UNCHANGED <<sent, inTray, captured, logBuffer, pathNames, tabs>>

\* A mutant: eviction leaves the text alone.
RendersAppended(tab, entries, line) ==
  IF Passes(tab.onlyHigh, line) THEN Append(tab.text, line) ELSE tab.text

\* The text after an append: rendered anew when lines were evicted.
Renders(tab, entries, line) ==
  IF Len(tab.entries) + 1 > MaxTab
    THEN Filtered(entries, tab.onlyHigh)
    ELSE IF Passes(tab.onlyHigh, line) THEN Append(tab.text, line) ELSE tab.text

\* drain_count_for, the push before it and what is shown after it
Extended(tab, line) ==
  LET pushed == Append(tab.entries, line)
      entries == IF Len(pushed) > MaxTab THEN DropFirst(pushed, Tenth) ELSE pushed
  IN [tab EXCEPT !.entries = entries,
                 !.text = Renders(tab, entries, line),
                 !.export = @ \/ Passes(tab.onlyHigh, line)]

\* The body of the viewer's loop
Tails ==
  /\ viewer = "tailing" /\ tailed < Len(sent)
  /\ tailed' = tailed + 1
  /\ LET line == tailed + 1
         path == sent[line].path
         name == IF path \in DOMAIN pathNames THEN pathNames[path] ELSE NameInTray(path)
         tab == IF name \in DOMAIN tabs THEN tabs[name] ELSE NewTab(name)
     IN /\ pathNames' = [p \in DOMAIN pathNames \cup {path} |-> IF p = path THEN name ELSE pathNames[p]]
        /\ tabs' = [n \in DOMAIN tabs \cup {name} |->
                      IF n = name THEN Extended(tab, line) ELSE tabs[n]]
  /\ UNCHANGED <<sent, inTray, captured, logBuffer, viewer>>

\* connect_changed of the search, connect_selected_notify of the level
Filters(name) ==
  /\ name \in DOMAIN tabs
  /\ LET tab == tabs[name]
         text == Filtered(tab.entries, ~tab.onlyHigh)
     IN tabs' = [tabs EXCEPT ![name] =
                   [tab EXCEPT !.onlyHigh = ~@, !.text = text, !.export = text # <<>>]]
  /\ UNCHANGED <<sent, inTray, captured, logBuffer, viewer, tailed, pathNames>>

\* The window is closed: its task is cancelled.
Closes ==
  /\ viewer # "closed"
  /\ Closed
  /\ UNCHANGED <<sent, inTray, captured, logBuffer>>

LogNext ==
  \/ \E p \in LogPaths, high \in BOOLEAN : SendsLine(p, high)
  \/ \E p \in LogPaths : TrayChanges(p)
  \/ Captures
  \/ Opens \/ Subscribes \/ Tails \/ Closes
  \/ \E name \in DOMAIN tabs : Filters(name)

LogSpec == LogInit /\ [][LogNext]_logVars

---------------------------------------------------------------------------
(* Properties *)

Named == Range(ProfileOf) \cup {Fallback}
Lines == 1..Len(sent)

LogTypeOK ==
  /\ sent \in Seq([path : LogPaths, high : BOOLEAN])
  /\ inTray \subseteq LogPaths
  /\ captured \in 0..Len(sent) /\ tailed \in 0..Len(sent)
  /\ logBuffer \in Seq([line : Lines, name : Named]) /\ Len(logBuffer) <= MaxLog
  /\ viewer \in {"closed", "subscribing", "tailing", "deaf"}
  /\ DOMAIN pathNames \subseteq LogPaths /\ Range(pathNames) \subseteq Named
  /\ DOMAIN tabs \subseteq Named
  /\ \A n \in DOMAIN tabs : Len(tabs[n].entries) <= MaxTab + MaxLog

(***************************************************************************)
(* What a tab shows, and what Copy takes, are the entries it holds that    *)
(* pass its filter, in order, after any mixture of live lines, evictions   *)
(* and changes of the filter; and whenever a line is shown Export is there.*)
(***************************************************************************)
ViewAgrees ==
  \A n \in DOMAIN tabs :
    LET tab == tabs[n] IN
    /\ tab.text = Filtered(tab.entries, tab.onlyHigh)
    /\ tab.text # <<>> => tab.export
=============================================================================
