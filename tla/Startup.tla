------------------------------- MODULE Startup -------------------------------
(***************************************************************************)
(* The life of the program from one start to the next: main.cpp and the      *)
(* startup dialog, the settings that readConfig() takes from QSettings and   *)
(* closeEvent() puts back, the preferences dialog, and the pass-phrase       *)
(* prompts of Open and Open Default.  The settings live in five places: the  *)
(* window's members, PwordEditDlg's and Clipboard's statics, the check marks *)
(* of the menu, the enabled state of Open Default, and the stored file.      *)
(*                                                                         *)
(* What becomes of the safe is MyPasswordSafe's subject: here it is a path   *)
(* and a mark.  Idle time, user name and password length, which go the way   *)
(* of `tries' without its cap, are left out.                                *)
(***************************************************************************)
EXTENDS Integers

CONSTANTS
  Files,       \* files the user can name, on the command line or in a dialog
  Generates,   \* check marks that repeat a static flag: show, fetch, on_new
  Switches,    \* check marks that are the setting: clear on exit, lock
  Tries, TimeOuts,   \* what the user picks from the spin boxes
  FoundTries   \* what an installed settings file may say of the tries

NoPath == "no path"
NoSafe == [path |-> NoPath, changed |-> FALSE, null |-> TRUE]
DefaultTimeOut == 60

ASSUME SpinBoxes == Tries \subseteq 0..10 /\ TimeOuts \subseteq 0..99
ASSUME FoundAssumption == FoundTries \subseteq Nat
ASSUME NamesAssumption == NoPath \notin Files

VARIABLES
  phase,    \* "off", "dialog", "window", or "asking" for a pass-phrase
  stored,   \* the values of the settings file, or their defaults
  live,     \* the values the process works with; the timeout in milliseconds
  marks,    \* which generate marks the menu shows
  openDefaultOn,
  dialog,   \* the startup dialog
  safe,
  prompt,   \* fileOpen: the file, and the wrong pass-phrases so far
  kept      \* history: what the user saw when a session last ended in order

procVars == <<live, marks, openDefaultOn, dialog, safe, prompt>>
vars == <<phase, stored, procVars, kept>>

Paths == Files \cup {NoPath}

\* The values of keys that are not stored.
Defaults(tries) ==
  [default |-> NoPath, tries |-> tries, timeout |-> DefaultTimeOut,
   generates |-> Generates, switches |-> Switches]

\* What the statics and members hold as the process starts.
Statics == [Defaults(0) EXCEPT !.timeout = @ * 1000]
NoDialog == [action |-> "default", filename |-> NoPath, page |-> "open"]
NoPrompt == [file |-> NoPath, wrong |-> 0]

Settings ==
  [default : Paths, tries : Nat, timeout : Nat,
   generates : SUBSET Generates, switches : SUBSET Switches]

TypeOK ==
  /\ phase \in {"off", "dialog", "window", "asking"}
  /\ stored \in Settings /\ live \in Settings /\ kept \in Settings
  /\ marks \subseteq Generates /\ openDefaultOn \in BOOLEAN
  /\ dialog \in [action : {"default", "browse", "new"}, filename : Paths, page : {"open", "new"}]
  /\ safe \in [path : Paths, changed : BOOLEAN, null : BOOLEAN]
  /\ prompt \in [file : Paths, wrong : Nat]

\* No process runs.
Gone ==
  /\ live' = Statics /\ marks' = {} /\ openDefaultOn' = TRUE
  /\ dialog' = NoDialog /\ safe' = NoSafe /\ prompt' = NoPrompt

\* What the preferences dialog and the menu show of the settings.
Capped(c) == [c EXCEPT !.tries = IF @ > 10 THEN 10 ELSE @]
clearTimeOut(l) == l.timeout \div 1000
Shown == [live EXCEPT !.timeout = clearTimeOut(live), !.generates = marks]

Init ==
  /\ phase = "off"
  /\ stored \in {Defaults(n) : n \in FoundTries}
  /\ live = Statics /\ marks = {} /\ openDefaultOn = TRUE
  /\ dialog = NoDialog /\ safe = NoSafe /\ prompt = NoPrompt
  /\ kept = Capped(stored)

-----------------------------------------------------------------------------
\* readConfig(), and writeConfig() below: Clipboard counts in milliseconds.
readConfig(c) == [Capped(c) EXCEPT !.timeout = @ * 1000]

writeConfig == [live EXCEPT !.timeout = clearTimeOut(live)]

\* Mutant of MarksOf: the marks are set before the settings are read.
MarksOf_Early(l) == Statics.generates

\* init(): the marks follow the flags (and announce it to the flags, toggled()).
MarksOf(l) == l.generates

\* StartupDlg::setAction, that is, actionChanged(action, false) for the action
\* that doStartupDialog picks.
Offered(arg, default) ==
  IF arg # NoPath
  THEN [action |-> "browse", filename |-> arg, page |-> "open"]
  ELSE IF default # NoPath
  THEN [action |-> "default", filename |-> default, page |-> "open"]
  ELSE [action |-> "new", filename |-> NoPath, page |-> "new"]

\* The program starts, with or without a file on its command line.
Start(arg) ==
  /\ phase = "off"
  /\ live' = readConfig(stored)
  /\ marks' = MarksOf(live')
  /\ openDefaultOn' = (live'.default # NoPath)
  /\ dialog' = Offered(arg, live'.default)
  /\ phase' = "dialog"
  /\ UNCHANGED <<stored, safe, prompt, kept>>

-----------------------------------------------------------------------------
\* The user picks `action' from the box, and `file' (or cancels) where that
\* opens a file dialog.  A cancelled Browse leaves the page as it is; Open
\* Default without a default browses, and makes the dialog's file, picked now or
\* left from before, the default.
Browsed(action, file) ==
  IF file = NoPath THEN [dialog EXCEPT !.action = action]
  ELSE [action |-> action, filename |-> file, page |-> "open"]

ChooseNew ==
  /\ dialog' = [dialog EXCEPT !.action = "new", !.page = "new"]
  /\ UNCHANGED live

ChooseBrowse(file) ==
  /\ dialog' = Browsed("browse", file)
  /\ UNCHANGED live

ChooseDefault(file) ==
  IF live.default # NoPath
  THEN /\ dialog' = [action |-> "default", filename |-> live.default, page |-> "open"]
       /\ UNCHANGED live
  ELSE /\ dialog' = [Browsed("default", file) EXCEPT !.page = "open"]
       /\ live' = [live EXCEPT !.default = dialog'.filename]

ActionChanged ==
  /\ phase = "dialog"
  /\ ChooseNew \/ \E f \in Paths : ChooseBrowse(f) \/ ChooseDefault(f)
  /\ UNCHANGED <<phase, stored, marks, openDefaultOn, safe, prompt, kept>>

Opened(p) == [path |-> p, changed |-> FALSE, null |-> FALSE]

\* okClicked: the safe opens, or the two lines agree.  Otherwise the dialog
\* stays as it is.
OkClicked ==
  /\ phase = "dialog"
  /\ \/ dialog.action = "new" /\ safe' = Opened(NoPath)
     \/ dialog.action # "new" /\ dialog.filename # NoPath /\ safe' = Opened(dialog.filename)
  /\ phase' = "window" /\ dialog' = NoDialog
  /\ UNCHANGED <<stored, live, marks, openDefaultOn, prompt, kept>>

\* Quit in the startup dialog: main() returns, nothing is written.
QuitClicked == phase = "dialog" /\ phase' = "off" /\ Gone /\ UNCHANGED <<stored, kept>>

-----------------------------------------------------------------------------
\* The safes that saveAs() and save() may leave: as it was, saved, or not saved
\* but with another path.
SaveAs(s) ==
  {s} \cup {[s EXCEPT !.path = f] : f \in Files}
      \cup {[s EXCEPT !.path = f, !.changed = FALSE] : f \in Files}
Saves(s) ==
  IF s.path # NoPath THEN {s, [s EXCEPT !.changed = FALSE]} ELSE SaveAs(s)

\* closeSafe(): what the user and save() leave, NoSafe when it answers true.
closeSafe ==
  IF safe.changed THEN {NoSafe, safe} \cup {s \in Saves(safe) : s.changed}
  ELSE {NoSafe}

\* The safe of the window after `s' was to replace it: closeSafe may refuse, and
\* a load may fail when the old safe is gone.
Replaced(s) == {c \in closeSafe : ~c.null} \cup {s}
Loaded(p)   == Replaced(Opened(p)) \cup {NoSafe}

\* Slots of a window that is up: they leave the startup dialog and the file alone.
AtWork == phase = "window" /\ UNCHANGED <<stored, dialog, kept>>
Safely == UNCHANGED <<phase, live, marks, openDefaultOn, prompt>>

NewSafe == AtWork /\ Safely /\ safe' \in Replaced(Opened(NoPath))

Edit == AtWork /\ Safely /\ ~safe.null /\ safe' = [safe EXCEPT !.changed = TRUE]

\* Save and Save As, which are both grey for a new safe without changes.
Save ==
  /\ AtWork /\ Safely
  /\ safe.changed \/ safe.path # NoPath
  /\ safe' \in Saves(safe) \cup SaveAs(safe)

OpenDefault ==
  /\ AtWork /\ Safely /\ openDefaultOn /\ live.default # NoPath
  /\ safe' \in Loaded(live.default)

\* fileOpen with no tries at all opens the file with an empty pass-phrase.
Open(f) ==
  /\ AtWork /\ UNCHANGED <<live, marks, openDefaultOn>>
  /\ IF live.tries = 0
     THEN safe' \in Loaded(f) /\ UNCHANGED <<phase, prompt>>
     ELSE phase' = "asking" /\ prompt' = [file |-> f, wrong |-> 0] /\ UNCHANGED safe

\* Answers to a prompt: Cancel, the right pass-phrase, and a wrong one, after
\* the last of which open() refuses.
Answer ==
  /\ phase = "asking"
  /\ \/ phase' = "window" /\ prompt' = NoPrompt /\ safe' \in {safe} \cup Loaded(prompt.file)
     \/ /\ prompt.wrong + 1 < live.tries
        /\ prompt' = [prompt EXCEPT !.wrong = @ + 1]
        /\ UNCHANGED <<phase, safe>>
  /\ UNCHANGED <<stored, live, marks, openDefaultOn, dialog, kept>>

\* fileMakeDefault; without a safe it takes the process along.
MakeDefault ==
  /\ AtWork /\ ~safe.null
  /\ safe' \in IF safe.changed THEN Saves(safe) ELSE {safe}
  /\ IF safe'.changed THEN UNCHANGED <<live, openDefaultOn>>
     ELSE live' = [live EXCEPT !.default = safe'.path] /\ openDefaultOn' = TRUE
  /\ UNCHANGED <<phase, marks, prompt>>

\* filePreferences, accepted.
Preferences(p, n, t) ==
  /\ AtWork
  /\ live' = [live EXCEPT !.default = p, !.tries = n, !.timeout = t * 1000]
  /\ openDefaultOn' = (p # NoPath)
  /\ UNCHANGED <<phase, marks, safe, prompt>>

Flipped(set, x) == IF x \in set THEN set \ {x} ELSE set \cup {x}

\* The generate marks announce themselves to their flags; the others are read
\* where they are needed.
ToggleGenerate(g) ==
  /\ AtWork
  /\ marks' = Flipped(marks, g)
  /\ live' = [live EXCEPT !.generates = IF g \in marks' THEN @ \cup {g} ELSE @ \ {g}]
  /\ UNCHANGED <<phase, openDefaultOn, safe, prompt>>

ToggleSwitch(w) ==
  /\ AtWork
  /\ live' = [live EXCEPT !.switches = Flipped(@, w)]
  /\ UNCHANGED <<phase, marks, openDefaultOn, safe, prompt>>

\* closeEvent: the window closes whatever closeSafe answers, but the settings are
\* written only if it answers true.
Close ==
  /\ phase = "window"
  /\ \/ stored' = writeConfig /\ kept' = Shown
     \/ safe.changed /\ UNCHANGED <<stored, kept>>
  /\ phase' = "off" /\ Gone

\* The process is killed, or dies of Make Default without a safe.
Crash == phase # "off" /\ phase' = "off" /\ Gone /\ UNCHANGED <<stored, kept>>

Next ==
  \/ \E arg \in Paths : Start(arg)
  \/ ActionChanged \/ OkClicked \/ QuitClicked
  \/ NewSafe \/ Edit \/ Save \/ OpenDefault \/ MakeDefault
  \/ \E f \in Files : Open(f)
  \/ Answer
  \/ \E p \in Paths, n \in Tries, t \in TimeOuts : Preferences(p, n, t)
  \/ \E g \in Generates : ToggleGenerate(g)
  \/ \E w \in Switches : ToggleSwitch(w)
  \/ Close \/ Crash

Spec == Init /\ [][Next]_vars

-----------------------------------------------------------------------------
\* A session starts with the settings the user saw when a session last ended in
\* order, whatever was changed in sessions that were killed, quit from the startup
\* dialog or closed with Cancel since; and the flags agree with their marks.
SettingsSurvive ==
  [][phase = "off" /\ phase' = "dialog" =>
       Shown' = kept /\ live'.generates = marks']_vars
=============================================================================
