--------------------------- MODULE MyPasswordSafe ---------------------------
(***************************************************************************)
(* The main window: the safe it has open, what of it is on disk, the        *)
(* enabled state of Save and Save As, and the non-modal edit dialogs.       *)
(* Every action is one slot of mypasswordsafe.cpp or pwordeditdlg.cpp; the  *)
(* message boxes and file dialogs inside a slot are modal, so the answers   *)
(* are choices made within the action.                                      *)
(*                                                                         *)
(* A save is the one step SafeStore promises: it puts the content into the  *)
(* file or fails and keeps what was there (SafeFile shows how far that      *)
(* holds).  The content of a safe maps each item to a version, 0 for an     *)
(* item that is not there; the pass-phrase is one of the items.  Nobody     *)
(* saves in the version 1 format here, which would drop the groups.         *)
(***************************************************************************)
EXTENDS Integers, Sequences, FiniteSets

CONSTANTS
  Entries, Groups,
  Home,         \* entry -> the group it is added to, or Root
  Paths,
  MaxVersion,   \* bound: how often an item can be edited
  MaxDialogs,   \* bound: how many edit dialogs are open at a time
  SavesFail,    \* may serializer->save fail?
  LoadsFail     \* may a load fail although the pass-phrase was right?

Root   == "root"
Pass   == "passphrase"
NoPath == "no path"

ASSUME HomeAssumption == Home \in [Entries -> Groups \cup {Root}]
ASSUME BoundsAssumption ==
  /\ MaxVersion \in Nat \ {0} /\ MaxDialogs \in Nat
  /\ SavesFail \in BOOLEAN /\ LoadsFail \in BOOLEAN
ASSUME NamesAssumption ==
  /\ Root \notin Groups /\ NoPath \notin Paths
  /\ Pass \notin Entries \cup Groups /\ Entries \cap Groups = {}

Items == Entries \cup Groups
Names == Items \cup {Pass}

Contents == [Names -> 0..MaxVersion]
NoFile   == [n \in Names |-> -1]

\* A new safe: no items, and the pass-phrase the user chose.
Fresh == [n \in Names |-> IF n = Pass THEN 1 ELSE 0]

VARIABLES
  window,     \* "startup", "up", "quit", or "hung" or "crashed"
  m_safe,     \* is there a safe, or is the pointer NULL?
  items,      \* the content of that safe
  changed,    \* Safe::m_changed
  path,       \* Safe::m_path
  connected,  \* is Safe::changed() connected to savingEnabled()?
  saveOn, saveAsOn,
  m_children, \* the open edit dialogs
  file,       \* path -> the content of the file
  slot        \* history: what the last slot did: was the safe "closed", and what
              \* the user answered to its message boxes

docVars == <<m_safe, items, changed, path, connected>>
vars == <<window, docVars, saveOn, saveAsOn, m_children, file, slot>>

Dialogs == [item : Entries, new : BOOLEAN, live : BOOLEAN]

TypeOK ==
  /\ window \in {"startup", "up", "quit", "hung", "crashed"}
  /\ items \in Contents
  /\ {m_safe, changed, connected, saveOn, saveAsOn} \subseteq BOOLEAN
  /\ path \in Paths \cup {NoPath}
  /\ m_children \in Seq(Dialogs) /\ Len(m_children) <= MaxDialogs
  /\ file \in [Paths -> Contents \cup {NoFile}]
  /\ slot \subseteq {"closed", "Yes", "No", "Cancel"}
  /\ window = "startup" => ~m_safe /\ m_children = <<>>

Init ==
  /\ window = "startup"
  /\ m_safe = FALSE /\ items = Fresh /\ changed = FALSE /\ path = NoPath
  /\ connected = FALSE /\ saveOn = FALSE /\ saveAsOn = TRUE
  /\ m_children = <<>>
  /\ file = [p \in Paths |-> NoFile]
  /\ slot = {}

Up == window = "up"

\* Every dialog points into the safe that is gone.
Orphaned == [i \in DOMAIN m_children |-> [m_children[i] EXCEPT !.live = FALSE]]

\* s without its i-th dialog.
Without(s, i) == [j \in 1..(Len(s) - 1) |-> IF j < i THEN s[j] ELSE s[j + 1]]

-----------------------------------------------------------------------------
\* What gets into a file: all of the safe, as XML, or what the version 2 and the
\* text formats write, the entries, each with the name of its group.
FilledGroups == {g \in Groups : \E e \in Entries : Home[e] = g /\ items[e] > 0}
Serialized ==
  {items, [n \in Names |-> IF n \in Groups \ FilledGroups THEN 0 ELSE items[n]]}

\* What save and saveAs may do to the safe and to the files.  A failed save
\* has already replaced the path; a cancelled dialog touches nothing.
Unsaved == [ok |-> FALSE, path |-> path, file |-> file, changed |-> changed]

SaveTo(p) ==
  {[ok |-> TRUE, path |-> p, file |-> [file EXCEPT ![p] = c], changed |-> FALSE] :
     c \in Serialized}
    \cup IF SavesFail THEN {[Unsaved EXCEPT !.path = p]} ELSE {}

saveAs == {Unsaved} \cup UNION {SaveTo(p) : p \in Paths}

save == IF path = NoPath THEN saveAs ELSE SaveTo(path)

\* Mutant of closeSafe: the result of save() is not looked at.
closeSafe_IgnoresSave ==
  IF ~m_safe \/ ~changed
  THEN {[saved |-> Unsaved, ok |-> TRUE, answer |-> {}]}
  ELSE {[saved |-> r, ok |-> TRUE, answer |-> {"Yes"}] : r \in save}
         \cup {[saved |-> Unsaved, ok |-> TRUE, answer |-> {"No"}],
               [saved |-> Unsaved, ok |-> FALSE, answer |-> {"Cancel"}]}

\* The ways out of closeSafe: `saved' says what happened to the files, `ok' is
\* its result.
closeSafe ==
  IF ~m_safe \/ ~changed
  THEN {[saved |-> Unsaved, ok |-> TRUE, answer |-> {}]}
  ELSE {[saved |-> r, ok |-> r.ok, answer |-> {"Yes"}] : r \in save}
         \cup {[saved |-> Unsaved, ok |-> TRUE, answer |-> {"No"}],
               [saved |-> Unsaved, ok |-> FALSE, answer |-> {"Cancel"}]}

\* savingEnabled(value)
savingEnabled(value) ==
  /\ saveOn' = value
  /\ saveAsOn' = (saveAsOn \/ value)

\* Mutant of Saved: Save is greyed whether or not the save succeeded.
Saved_GreyedAnyway(r) ==
  /\ path' = r.path /\ file' = r.file /\ changed' = r.changed
  /\ saveOn' = FALSE
  /\ saveAsOn' = (saveAsOn \/ (r.ok /\ connected))

\* A save that was attempted: the file, the path, the mark; and on success
\* Save is greyed again, after setChanged(false) has announced itself through
\* changed(), which enables Save As.
Saved(r) ==
  /\ path' = r.path /\ file' = r.file /\ changed' = r.changed
  /\ saveOn' = (saveOn /\ ~r.ok)
  /\ saveAsOn' = (saveAsOn \/ (r.ok /\ connected))

-----------------------------------------------------------------------------
\* createNewSafe: the old safe is closed first; changed() of the new one is
\* not connected to anything.
New ==
  /\ window \in {"startup", "up"}
  /\ \E r \in closeSafe :
       /\ slot' = r.answer \cup (IF r.ok THEN {"closed"} ELSE {})
       /\ IF r.ok
          THEN /\ m_safe' = TRUE /\ items' = Fresh
               /\ changed' = FALSE /\ path' = NoPath /\ connected' = FALSE
               /\ saveOn' = FALSE /\ saveAsOn' = FALSE
               /\ m_children' = Orphaned
               /\ file' = r.saved.file
          ELSE Saved(r.saved) /\ UNCHANGED <<m_safe, items, connected, m_children>>
  /\ window' = "up"

\* What a load with pass-phrase k makes of a file: its content, or, when the
\* file has another pass-phrase by now, none of it: the version 1 serializer
\* decrypts noise (checkPassword is not asked again).
LoadOf(f, k) == IF f[Pass] = k THEN f
                ELSE [n \in Names |-> IF n = Pass THEN k ELSE 0]

\* open, with the pass-phrase the file has (any other one stops at
\* checkPassword and changes nothing): the old safe is closed, and only then
\* the new one is loaded.
Open(p) ==
  /\ window \in {"startup", "up"}
  /\ file[p] # NoFile
  /\ \E r \in closeSafe :
       /\ slot' = r.answer \cup (IF r.ok THEN {"closed"} ELSE {})
       /\ \/ /\ ~r.ok
             /\ Saved(r.saved)
             /\ UNCHANGED <<window, m_safe, items, connected, m_children>>
          \/ /\ r.ok
             /\ window' = "up"
             /\ m_safe' = TRUE /\ items' = LoadOf(r.saved.file[p], file[p][Pass])
             /\ changed' = FALSE /\ path' = p /\ connected' = TRUE
             /\ saveOn' = FALSE /\ saveAsOn' = TRUE
             /\ m_children' = Orphaned
             /\ file' = r.saved.file
          \/ /\ r.ok /\ LoadsFail
             /\ m_safe' = FALSE /\ items' = Fresh
             /\ changed' = FALSE /\ path' = NoPath /\ connected' = FALSE
             /\ saveOn' = FALSE
             /\ m_children' = Orphaned
             /\ file' = r.saved.file
             /\ UNCHANGED <<window, saveAsOn>>

\* Mutant of Ended: the safe and the dialogs are still there when the start-up
\* dialog is shown.
Ended_KeepsSafe(how) ==
  window' = how /\ UNCHANGED <<docVars, saveOn, saveAsOn, m_children>>

\* The program ends, by itself or by being killed, and is started again.
Ended(how) ==
  /\ window' = how
  /\ m_safe' = FALSE /\ items' = Fresh /\ changed' = FALSE /\ path' = NoPath
  /\ connected' = FALSE /\ saveOn' = FALSE /\ saveAsOn' = TRUE
  /\ m_children' = <<>>

Crashed == Ended("crashed") /\ UNCHANGED file /\ slot' = {}

Start ==
  /\ window \in {"quit", "hung", "crashed"}
  /\ Ended("startup") /\ UNCHANGED file /\ slot' = {}

\* The start-up dialog is cancelled: main returns.
StartupCancelled ==
  /\ window = "startup"
  /\ Ended("quit") /\ UNCHANGED file /\ slot' = {}

\* closeEvent: the event is accepted unless it is ignored, and it never is, so
\* the last window closes, the application quits and destroy() deletes the
\* safe whatever closeSafe answered.
CloseEvent ==
  /\ Up
  /\ \E r \in closeSafe : file' = r.saved.file /\ slot' = r.answer
  /\ Ended("quit")

-----------------------------------------------------------------------------
SaveAction ==
  /\ Up /\ saveOn /\ m_safe
  /\ \E r \in save : Saved(r)
  /\ slot' = {}
  /\ UNCHANGED <<window, m_safe, items, connected, m_children>>

SaveAsAction ==
  /\ Up /\ saveAsOn /\ m_safe
  /\ \E r \in saveAs : Saved(r)
  /\ slot' = {}
  /\ UNCHANGED <<window, m_safe, items, connected, m_children>>

\* fileMakeDefault saves a changed safe; the default path is not modelled.
MakeDefault ==
  /\ Up /\ m_safe /\ changed
  /\ \E r \in save : Saved(r)
  /\ slot' = {}
  /\ UNCHANGED <<window, m_safe, items, connected, m_children>>

\* These slots use m_safe without looking whether there is one.
UseNullSafe == Up /\ ~m_safe /\ Crashed

\* Mutant of Change: Save is enabled, but the safe is not marked.
Change_Unmarked(n, v) ==
  /\ items' = [items EXCEPT ![n] = v]
  /\ UNCHANGED changed
  /\ savingEnabled(TRUE)

\* A slot that gives item n version v and marks the safe.
Change(n, v) ==
  /\ items' = [items EXCEPT ![n] = v]
  /\ changed' = TRUE
  /\ savingEnabled(TRUE)

ChangePassPhrase ==
  /\ Up /\ m_safe
  /\ items[Pass] < MaxVersion
  /\ Change(Pass, items[Pass] + 1)
  /\ slot' = {}
  /\ UNCHANGED <<window, m_safe, path, connected, m_children, file>>

CreateGroup(g) ==
  /\ Up /\ m_safe
  /\ items[g] = 0
  /\ Change(g, 1)
  /\ slot' = {}
  /\ UNCHANGED <<window, m_safe, path, connected, m_children, file>>

\* What a deletion takes with it.
Gone(x) == {x} \cup (IF x \in Groups THEN {e \in Entries : Home[e] = x} ELSE {})

\* A dialog's pointer dies with its entry, a new entry's with the group it is
\* to be added to.
Dangles(d, x) == IF d.new THEN Home[d.item] = x ELSE d.item \in Gone(x)

\* deleteItem removes the row through the model, which deletes the item and
\* all that is in it; nothing calls setChanged.
Delete(x) ==
  /\ Up /\ m_safe
  /\ items[x] > 0
  /\ items' = [n \in Names |-> IF n \in Gone(x) THEN 0 ELSE items[n]]
  /\ m_children' = [i \in DOMAIN m_children |->
                      [m_children[i] EXCEPT !.live = @ /\ ~Dangles(m_children[i], x)]]
  /\ savingEnabled(TRUE)
  /\ slot' = {}
  /\ UNCHANGED <<window, m_safe, changed, path, connected, file>>

-----------------------------------------------------------------------------
Opened(d) == m_children' = Append(m_children, d)

\* pwordAdd: createEditDialog(NULL) skips the scan of the open dialogs.
AddDialog(e) ==
  /\ Up /\ m_safe
  /\ Len(m_children) < MaxDialogs
  /\ items[e] = 0
  /\ Home[e] \in Groups => items[Home[e]] > 0
  /\ \A i \in DOMAIN m_children : m_children[i].item # e
  /\ Opened([item |-> e, new |-> TRUE, live |-> TRUE])
  /\ slot' = {}
  /\ UNCHANGED <<window, docVars, saveOn, saveAsOn, file>>

\* Mutant of EditDialog: the open dialogs are not scanned.
EditDialog_NoScan(e) ==
  /\ Up /\ m_safe
  /\ items[e] > 0
  /\ Len(m_children) < MaxDialogs
  /\ Opened([item |-> e, new |-> FALSE, live |-> TRUE])
  /\ slot' = {}
  /\ UNCHANGED <<window, docVars, saveOn, saveAsOn, file>>

\* pwordEdit: `iter = iter++' leaves the iterator where it is, so the scan only
\* ever looks at the first dialog: it raises that one, which changes nothing
\* here, or never ends.
EditDialog(e) ==
  /\ Up /\ m_safe
  /\ items[e] > 0
  /\ \/ /\ m_children = <<>>
        /\ MaxDialogs > 0
        /\ Opened([item |-> e, new |-> FALSE, live |-> TRUE])
        /\ slot' = {}
        /\ UNCHANGED <<window, docVars, saveOn, saveAsOn, file>>
     \/ /\ m_children # <<>>
        /\ ~(m_children[1].item = e /\ ~m_children[1].new /\ m_children[1].live)
        /\ Ended("hung") /\ UNCHANGED file /\ slot' = {}

\* PwordEditDlg::accept and editDialogAccepted.  A pointer that dangles is used
\* all the same: the process dies, or nothing comes of it.
AcceptDialog(i) ==
  LET d == m_children[i]
      e == d.item
  IN  /\ Up
      /\ \/ /\ d.live
            /\ IF d.new THEN Change(e, 1)
               ELSE \E v \in {items[e], items[e] + 1} \cap 1..MaxVersion : Change(e, v)
            /\ m_children' = Without(m_children, i)
            /\ slot' = {}
            /\ UNCHANGED <<window, m_safe, path, connected, file>>
         \/ ~d.live /\ Crashed
         \/ /\ ~d.live
            /\ m_children' = Without(m_children, i)
            /\ savingEnabled(TRUE)
            /\ slot' = {}
            /\ UNCHANGED <<window, docVars, file>>

\* PwordEditDlg::reject and editDialogRejected.
RejectDialog(i) ==
  /\ Up
  /\ m_children' = Without(m_children, i)
  /\ IF m_children[i].new THEN UNCHANGED <<saveOn, saveAsOn>>
     ELSE savingEnabled(TRUE)
  /\ slot' = {}
  /\ UNCHANGED <<window, docVars, file>>

Next ==
  \/ New \/ CloseEvent \/ Start \/ StartupCancelled
  \/ \E p \in Paths : Open(p)
  \/ SaveAction \/ SaveAsAction \/ MakeDefault \/ UseNullSafe \/ ChangePassPhrase
  \/ \E g \in Groups : CreateGroup(g)
  \/ \E x \in Items : Delete(x)
  \/ \E e \in Entries : AddDialog(e) \/ EditDialog(e)
  \/ \E i \in DOMAIN m_children : AcceptDialog(i) \/ RejectDialog(i)

Spec == Init /\ [][Next]_vars

-----------------------------------------------------------------------------
\* The safe has no entries, or some file in f holds every one of them as it is,
\* in its group, under the pass-phrase of the safe.
HeldBy(f) ==
  \/ \A e \in Entries : items[e] = 0
  \/ \E p \in Paths : \A n \in Entries \cup FilledGroups \cup {Pass} :
       items[n] > 0 => f[p][n] = items[n]

\* What hasChanged() answers is all that closeSafe looks at: when it is false,
\* every entry of the safe is in some file, whatever failed before.  (It may be
\* that entries are gone from the safe that the file still has: deletions are
\* not marked.  And empty groups need not be in a file.)
CleanHidesOnlyDeletions == Up /\ m_safe /\ ~changed => HeldBy(file)

\* A safe with changes can always be saved: as long as hasChanged() holds,
\* after failed saves, cancelled closes and rejected dialogs too, Save and
\* Save As are both enabled.
SaveEnabledWhenChanged == Up /\ m_safe /\ changed => saveOn /\ saveAsOn

\* createEditDialog's "return false if we're already editing this item": no
\* two dialogs are ever editing one entry, so neither can overwrite what the
\* other one set.
OneDialogPerEntry ==
  \A i, j \in DOMAIN m_children :
    LET c == m_children[i]
        d == m_children[j]
    IN  i # j /\ c.live /\ d.live /\ ~c.new /\ ~d.new => c.item # d.item

\* A new or opened safe takes the place of the one that is open only if the
\* user gave that one up, or some file has all that was in it.
DiscardNeedsNo ==
  [][Up /\ window' = "up" /\ m_safe /\ "closed" \in slot'
       => "No" \in slot' \/ HeldBy(file')]_vars

\* mypasswordsafe.cpp, closeEvent: "ask to save file if needed": the program
\* quits with a changed safe only if it was saved or the user gave it up.
QuitKeepsChanges ==
  [][Up /\ window' = "quit" /\ changed => "No" \in slot' \/ HeldBy(file')]_vars

=============================================================================
