------------------------ MODULE MyPasswordSafe_proofs ------------------------
(***************************************************************************)
(* Proofs about MyPasswordSafe, for any entries, groups, paths and bounds:  *)
(* a changed safe can be saved, and no entry is edited in two dialogs.      *)
(***************************************************************************)
EXTENDS MyPasswordSafe, TLAPS

\* While the start-up dialog is shown there is no safe to lose.
NoSafeAtStartup == window = "startup" => ~m_safe

SaveInv == SaveEnabledWhenChanged /\ NoSafeAtStartup

\* A save that leaves the mark on found it on, and failed.
KeepsMark(r) == r.changed => changed /\ ~r.ok

LEMMA SaveToKeepsMark ==
  ASSUME NEW p, NEW r \in SaveTo(p)
  PROVE  KeepsMark(r)
BY DEF SaveTo, Unsaved, KeepsMark

LEMMA SaveAsKeepsMark ==
  ASSUME NEW r \in saveAs
  PROVE  KeepsMark(r)
<1>1. KeepsMark(Unsaved)
  BY DEF Unsaved, KeepsMark
<1> QED
  BY <1>1, SaveToKeepsMark DEF saveAs

LEMMA SaveKeepsMark ==
  ASSUME NEW r \in save
  PROVE  KeepsMark(r)
BY SaveAsKeepsMark, SaveToKeepsMark DEF save

LEMMA CloseSafeKeepsMark ==
  ASSUME NEW r \in closeSafe
  PROVE  KeepsMark(r.saved)
<1>1. KeepsMark(Unsaved)
  BY DEF Unsaved, KeepsMark
<1>2. r.saved = Unsaved \/ r.saved \in save
  BY DEF closeSafe
<1> QED
  BY <1>1, <1>2, SaveKeepsMark

\* After an attempt to save, Save is enabled if the mark is still there.
LEMMA SavedKeepsEnabled ==
  ASSUME NEW r, KeepsMark(r), Saved(r), Up, m_safe, SaveInv
  PROVE  changed' => saveOn' /\ saveAsOn'
BY Zenon DEF Saved, KeepsMark, SaveInv, SaveEnabledWhenChanged

LEMMA InitSaveInv == Init => SaveInv
BY DEF Init, SaveInv, SaveEnabledWhenChanged, NoSafeAtStartup, Up

\* The slots that give an item a new version enable Save.
LEMMA ChangeEnables ==
  ASSUME NEW n, NEW v, Change(n, v)
  PROVE  saveOn' /\ saveAsOn'
BY Zenon DEF Change, savingEnabled

LEMMA EndedInv ==
  ASSUME NEW how \in {"startup", "quit", "hung", "crashed"}, Ended(how)
  PROVE  SaveInv'
BY DEF Ended, SaveInv, SaveEnabledWhenChanged, NoSafeAtStartup, Up

LEMMA NewInv == SaveInv /\ New => SaveInv'
<1> SUFFICES ASSUME SaveInv, New PROVE SaveInv'
  OBVIOUS
<1>1. window' = "up"
  BY DEF New
<1>2. PICK r \in closeSafe :
        IF r.ok
        THEN changed' = FALSE
        ELSE Saved(r.saved) /\ UNCHANGED m_safe
  BY DEF New
<1>3. CASE r.ok
  BY <1>1, <1>2, <1>3 DEF SaveInv, SaveEnabledWhenChanged, NoSafeAtStartup
<1>4. CASE ~r.ok
  <2>1. Up /\ m_safe
    BY <1>4 DEF New, closeSafe, SaveInv, NoSafeAtStartup, Up
  <2>2. changed' => saveOn' /\ saveAsOn'
    BY <1>2, <1>4, <2>1, CloseSafeKeepsMark, SavedKeepsEnabled
  <2> QED
    BY <1>1, <2>2 DEF SaveInv, SaveEnabledWhenChanged, NoSafeAtStartup
<1> QED
  BY <1>3, <1>4

LEMMA OpenInv == ASSUME NEW p, SaveInv, Open(p) PROVE SaveInv'
<1>1. PICK r \in closeSafe :
        \/ ~r.ok /\ Saved(r.saved) /\ UNCHANGED <<window, m_safe>>
        \/ window' = "up" /\ changed' = FALSE
        \/ m_safe' = FALSE
  BY DEF Open
<1>2. CASE ~r.ok /\ Saved(r.saved) /\ UNCHANGED <<window, m_safe>>
  <2>1. Up /\ m_safe
    BY <1>2 DEF Open, closeSafe, SaveInv, NoSafeAtStartup, Up
  <2>2. changed' => saveOn' /\ saveAsOn'
    BY <1>2, <2>1, CloseSafeKeepsMark, SavedKeepsEnabled
  <2> QED
    BY <1>2, <2>1, <2>2 DEF SaveInv, SaveEnabledWhenChanged, NoSafeAtStartup, Up
<1>3. CASE window' = "up" /\ changed' = FALSE
  BY <1>3 DEF SaveInv, SaveEnabledWhenChanged, NoSafeAtStartup
<1>4. CASE m_safe' = FALSE
  BY <1>4 DEF SaveInv, SaveEnabledWhenChanged, NoSafeAtStartup
<1> QED
  BY <1>1, <1>2, <1>3, <1>4

LEMMA StepSaveInv == SaveInv /\ [Next]_vars => SaveInv'
<1> SUFFICES ASSUME SaveInv, [Next]_vars PROVE SaveInv'
  OBVIOUS
<1> USE DEF SaveEnabledWhenChanged, NoSafeAtStartup
<1>1. CASE New
  BY <1>1, NewInv
<1>2. CASE \E p \in Paths : Open(p)
  BY <1>2, OpenInv
<1>3. CASE CloseEvent \/ Start \/ StartupCancelled \/ UseNullSafe
  BY <1>3, EndedInv DEF CloseEvent, Start, StartupCancelled, UseNullSafe, Crashed
<1>4. CASE SaveAction \/ MakeDefault
  <2>1. PICK r \in save : Saved(r)
    BY <1>4 DEF SaveAction, MakeDefault
  <2>2. Up /\ m_safe /\ UNCHANGED <<window, m_safe>>
    BY <1>4 DEF SaveAction, MakeDefault
  <2> QED
    BY <2>1, <2>2, SaveKeepsMark, SavedKeepsEnabled DEF SaveInv, Up
<1>5. CASE SaveAsAction
  <2>1. PICK r \in saveAs : Saved(r)
    BY <1>5 DEF SaveAsAction
  <2>2. Up /\ m_safe /\ UNCHANGED <<window, m_safe>>
    BY <1>5 DEF SaveAsAction
  <2> QED
    BY <2>1, <2>2, SaveAsKeepsMark, SavedKeepsEnabled DEF SaveInv, Up
<1>6. CASE ChangePassPhrase \/ \E g \in Groups : CreateGroup(g)
  <2>1. saveOn' /\ saveAsOn'
    BY <1>6, ChangeEnables DEF ChangePassPhrase, CreateGroup
  <2>2. Up /\ UNCHANGED window
    BY <1>6 DEF ChangePassPhrase, CreateGroup
  <2> QED
    BY <2>1, <2>2 DEF SaveInv, Up
<1>7. CASE \E x \in Items : Delete(x)
  <2>1. saveOn' /\ saveAsOn' /\ Up /\ UNCHANGED window
    BY <1>7, Zenon DEF Delete, savingEnabled
  <2> QED
    BY <2>1 DEF SaveInv, Up
<1>8. CASE \E e \in Entries : AddDialog(e) \/ EditDialog(e)
  <2>1. \/ UNCHANGED <<window, m_safe, changed, saveOn, saveAsOn>>
        \/ Ended("hung")
    BY <1>8 DEF AddDialog, EditDialog, docVars
  <2> QED
    BY <2>1, EndedInv DEF SaveInv, Up
<1>9. CASE \E i \in DOMAIN m_children : AcceptDialog(i)
  <2>1. \/ \E n, v : Change(n, v) /\ UNCHANGED window
        \/ Crashed
        \/ savingEnabled(TRUE) /\ UNCHANGED window
    BY <1>9 DEF AcceptDialog
  <2>2. \/ saveOn' /\ saveAsOn' /\ UNCHANGED window
        \/ Ended("crashed")
    BY <2>1, ChangeEnables, Zenon DEF Crashed, savingEnabled
  <2>3. Up
    BY <1>9 DEF AcceptDialog
  <2> QED
    BY <2>2, <2>3, EndedInv DEF SaveInv, Up
<1>10. CASE \E i \in DOMAIN m_children : RejectDialog(i)
  <2>1. \/ UNCHANGED <<saveOn, saveAsOn>>
        \/ saveOn' /\ saveAsOn'
    BY <1>10, Zenon DEF RejectDialog, savingEnabled
  <2>2. Up /\ UNCHANGED <<window, m_safe, changed>>
    BY <1>10 DEF RejectDialog, docVars
  <2> QED
    BY <2>1, <2>2 DEF SaveInv, Up
<1>11. CASE UNCHANGED vars
  BY <1>11 DEF vars, docVars, SaveInv, Up
<1> QED
  BY <1>1, <1>2, <1>3, <1>4, <1>5, <1>6, <1>7, <1>8, <1>9, <1>10, <1>11 DEF Next

\* As long as hasChanged() holds, Save and Save As are enabled, after any
\* sequence of slots and of saves that fail (savingEnabled and its callers).
THEOREM ChangesCanBeSaved == Spec => []SaveEnabledWhenChanged
<1>1. SaveInv => SaveEnabledWhenChanged
  BY DEF SaveInv
<1> QED
  BY <1>1, InitSaveInv, StepSaveInv, PTL DEF Spec
-----------------------------------------------------------------------------
\* The broken scan has one good side: a dialog for an entry that is there opens
\* only when no other dialog is open, so there is never more than one of them.
OneEdits(s) == \A i, j \in DOMAIN s : i # j => s[i].new \/ s[j].new

DialogInv == m_children \in Seq(Dialogs) /\ OneEdits(m_children)

LEMMA EmptyDialogs == <<>> \in Seq(Dialogs) /\ OneEdits(<<>>)
BY DEF OneEdits

\* A dialog goes: the ones that stay are still one at most.
LEMMA WithoutDialogs ==
  ASSUME DialogInv, NEW i \in DOMAIN m_children
  PROVE  Without(m_children, i) \in Seq(Dialogs) /\ OneEdits(Without(m_children, i))
<1> DEFINE n == Len(m_children)
           t == Without(m_children, i)
<1>1. n \in Nat /\ DOMAIN m_children = 1..n /\ i \in 1..n
  BY DEF DialogInv
<1>2. \A j \in 1..(n - 1) : t[j] = IF j < i THEN m_children[j] ELSE m_children[j + 1]
  BY DEF Without
<1>3. \A j \in 1..(n - 1) : t[j] \in Dialogs
  BY <1>1, <1>2 DEF DialogInv
<1>4. n - 1 \in Nat /\ t = [j \in 1..(n - 1) |-> t[j]] /\ DOMAIN t = 1..(n - 1)
  BY <1>1 DEF Without
<1>5. t \in Seq(Dialogs)
  BY <1>3, <1>4
<1>6. OneEdits(t)
  <2> SUFFICES ASSUME NEW j \in 1..(n - 1), NEW k \in 1..(n - 1), j # k
               PROVE  t[j].new \/ t[k].new
    BY <1>4 DEF OneEdits
  <2> DEFINE old(x) == IF x < i THEN x ELSE x + 1
  <2>1. old(j) \in 1..n /\ old(k) \in 1..n /\ old(j) # old(k)
    BY <1>1
  <2>2. t[j] = m_children[old(j)] /\ t[k] = m_children[old(k)]
    BY <1>2
  <2> QED
    BY <1>1, <2>1, <2>2 DEF DialogInv, OneEdits
<1> QED
  BY <1>5, <1>6

\* Pointers of dialogs die: the dialogs stay what they were for.
LEMMA MarkedDialogs ==
  ASSUME DialogInv,
         NEW L \in [DOMAIN m_children -> BOOLEAN],
         m_children' = [i \in DOMAIN m_children |-> [m_children[i] EXCEPT !.live = L[i]]]
  PROVE  DialogInv'
<1> DEFINE n == Len(m_children)
<1>1. n \in Nat /\ DOMAIN m_children = 1..n /\ DOMAIN m_children' = 1..n
  BY DEF DialogInv
<1>2. \A i \in 1..n : m_children[i] \in Dialogs
  BY <1>1 DEF DialogInv
<1>3. \A i \in 1..n : m_children'[i] \in Dialogs /\ m_children'[i].new = m_children[i].new
  BY <1>1, <1>2 DEF Dialogs
<1>4. m_children' \in Seq(Dialogs)
  BY <1>1, <1>3
<1>5. OneEdits(m_children')
  BY <1>1, <1>3 DEF OneEdits, DialogInv
<1> QED
  BY <1>4, <1>5 DEF DialogInv

LEMMA InitDialogInv == Init => DialogInv
BY EmptyDialogs DEF Init, DialogInv

LEMMA StepDialogInv == DialogInv /\ [Next]_vars => DialogInv'
<1> SUFFICES ASSUME DialogInv, [Next]_vars PROVE DialogInv'
  OBVIOUS
<1>1. CASE UNCHANGED m_children
  BY <1>1 DEF DialogInv
<1>2. CASE m_children' = <<>>
  BY <1>2, EmptyDialogs DEF DialogInv
<1>3. CASE m_children' = Orphaned
  <2> DEFINE L == [i \in DOMAIN m_children |-> FALSE]
  <2>1. L \in [DOMAIN m_children -> BOOLEAN]
    OBVIOUS
  <2>2. m_children' = [i \in DOMAIN m_children |-> [m_children[i] EXCEPT !.live = L[i]]]
    BY <1>3 DEF Orphaned
  <2> QED
    BY <2>1, <2>2, MarkedDialogs
<1>4. CASE \E x \in Items : Delete(x)
  <2>1. PICK x \in Items : Delete(x)
    BY <1>4
  <2> DEFINE L == [i \in DOMAIN m_children |-> m_children[i].live
                                               /\ ~Dangles(m_children[i], x)]
  <2>2. L \in [DOMAIN m_children -> BOOLEAN]
    OBVIOUS
  <2>3. m_children' = [i \in DOMAIN m_children |-> [m_children[i] EXCEPT !.live = L[i]]]
    BY <2>1 DEF Delete
  <2> QED
    BY <2>2, <2>3, MarkedDialogs
<1>5. CASE \E i \in DOMAIN m_children : m_children' = Without(m_children, i)
  BY <1>5, WithoutDialogs DEF DialogInv
<1>6. CASE \E e \in Entries : AddDialog(e)
  <2>1. PICK e \in Entries :
          m_children' = Append(m_children, [item |-> e, new |-> TRUE, live |-> TRUE])
    BY <1>6 DEF AddDialog, Opened
  <2> QED
    BY <2>1 DEF DialogInv, Dialogs, OneEdits
<1>7. CASE \E e \in Entries : /\ m_children = <<>>
                               /\ Opened([item |-> e, new |-> FALSE, live |-> TRUE])
  BY <1>7 DEF Opened, DialogInv, Dialogs, OneEdits
<1>8. \/ UNCHANGED m_children \/ m_children' = <<>> \/ m_children' = Orphaned
      \/ \E x \in Items : Delete(x)
      \/ \E i \in DOMAIN m_children : m_children' = Without(m_children, i)
      \/ \E e \in Entries : AddDialog(e)
      \/ \E e \in Entries : /\ m_children = <<>>
                            /\ Opened([item |-> e, new |-> FALSE, live |-> TRUE])
  BY DEF Next, vars, New, CloseEvent, Start, StartupCancelled, Open, SaveAction,
         SaveAsAction, MakeDefault, UseNullSafe, ChangePassPhrase, CreateGroup,
         EditDialog, AcceptDialog, RejectDialog, Ended, Crashed
<1> QED
  BY <1>1, <1>2, <1>3, <1>4, <1>5, <1>6, <1>7, <1>8

\* No two dialogs edit one entry (createEditDialog, editDialogAccepted).
THEOREM EntriesHaveOneDialog == Spec => []OneDialogPerEntry
<1>1. DialogInv => OneDialogPerEntry
  BY DEF DialogInv, OneEdits, OneDialogPerEntry
<1> QED
  BY <1>1, InitDialogInv, StepDialogInv, PTL DEF Spec
-----------------------------------------------------------------------------
\* Contents stay contents, and files stay files of contents or none.
DataOK == items \in Contents /\ file \in [Paths -> Contents \cup {NoFile}]

\* path is a path or none: a save goes to a path.
PathOK == path \in Paths \cup {NoPath}

\* A clean safe hides only deletions, in every window.
HeldInv == DataOK /\ PathOK /\ (m_safe /\ ~changed => HeldBy(file))

LEMMA VersionFacts == MaxVersion \in Nat /\ 0 \in 0..MaxVersion /\ 1 \in 0..MaxVersion
BY BoundsAssumption

LEMMA NameFacts ==
  /\ \A e \in Entries : e \in Names /\ e # Pass /\ e \notin Groups
  /\ \A g \in Groups : g \in Names /\ g # Pass
  /\ Pass \in Names
BY NamesAssumption DEF Names, Items

LEMMA FreshContents == Fresh \in Contents /\ \A e \in Entries : Fresh[e] = 0
BY VersionFacts, NameFacts DEF Fresh, Contents

\* What a serializer writes holds all that HeldBy asks for.
LEMMA SerializedHolds ==
  ASSUME DataOK, NEW c \in Serialized
  PROVE  /\ c \in Contents
         /\ \A n \in Entries \cup FilledGroups \cup {Pass} : c[n] = items[n]
<1>1. CASE c = items
  BY <1>1 DEF DataOK
<1>2. CASE c = [n \in Names |-> IF n \in Groups \ FilledGroups THEN 0 ELSE items[n]]
  <2>1. \A n \in Names : items[n] \in 0..MaxVersion
    BY DEF DataOK, Contents
  <2>2. c \in Contents
    BY <1>2, <2>1, VersionFacts DEF Contents
  <2>3. \A n \in Entries \cup FilledGroups \cup {Pass} : n \in Names /\ n \notin Groups \ FilledGroups
    BY NameFacts DEF FilledGroups
  <2> QED
    BY <1>2, <2>2, <2>3
<1> QED
  BY <1>1, <1>2 DEF Serialized

\* A save fails and leaves files and mark alone, or some file holds the safe.
SavedOrKept(r) ==
  /\ r.path \in Paths \cup {NoPath}
  /\ r.file \in [Paths -> Contents \cup {NoFile}]
  /\ \A p \in Paths : file[p] \in Contents => r.file[p] \in Contents
  /\ \/ ~r.ok /\ r.file = file /\ r.changed = changed
     \/ r.ok /\ ~r.changed /\ HeldBy(r.file)

LEMMA UnsavedKept == DataOK /\ PathOK => SavedOrKept(Unsaved)
BY DEF SavedOrKept, Unsaved, DataOK, PathOK

LEMMA SaveToHolds ==
  ASSUME DataOK, NEW p \in Paths, NEW r \in SaveTo(p)
  PROVE  SavedOrKept(r)
<1>1. CASE r = [Unsaved EXCEPT !.path = p]
  BY <1>1 DEF Unsaved, SavedOrKept, DataOK
<1>2. CASE r \in {[ok |-> TRUE, path |-> p, file |-> [file EXCEPT ![p] = c], changed |-> FALSE] :
                    c \in Serialized}
  <2>1. PICK c \in Serialized :
          r = [ok |-> TRUE, path |-> p, file |-> [file EXCEPT ![p] = c], changed |-> FALSE]
    BY <1>2
  <2>2. r.ok /\ ~r.changed /\ r.path = p /\ r.file = [file EXCEPT ![p] = c]
    BY <2>1
  <2>3. r.file \in [Paths -> Contents \cup {NoFile}] /\ r.file[p] = c
    BY <2>2, SerializedHolds DEF DataOK
  <2>4. HeldBy(r.file)
    BY <2>3, SerializedHolds DEF HeldBy
  <2>5. \A q \in Paths : file[q] \in Contents => r.file[q] \in Contents
    BY <2>2, SerializedHolds DEF DataOK
  <2> QED
    BY <2>2, <2>3, <2>4, <2>5 DEF SavedOrKept
<1> QED
  BY <1>1, <1>2 DEF SaveTo

LEMMA SaveHolds ==
  ASSUME DataOK, PathOK, NEW r \in save \cup saveAs
  PROVE  SavedOrKept(r)
<1>1. ASSUME r \in saveAs PROVE SavedOrKept(r)
  BY <1>1, UnsavedKept, SaveToHolds DEF saveAs
<1>2. CASE path = NoPath
  BY <1>1, <1>2 DEF save
<1>3. CASE path # NoPath
  BY <1>1, <1>3, SaveToHolds DEF save, PathOK
<1> QED
  BY <1>2, <1>3

\* closeSafe lets a safe go only when it is clean, saved, or given up.
LEMMA CloseHolds ==
  ASSUME HeldInv, NEW r \in closeSafe
  PROVE  /\ SavedOrKept(r.saved)
         /\ r.ok /\ m_safe => "No" \in r.answer \/ HeldBy(r.saved.file)
<1>1. CASE ~m_safe \/ ~changed
  <2>1. r = [saved |-> Unsaved, ok |-> TRUE, answer |-> {}]
    BY <1>1 DEF closeSafe
  <2>2. r.saved = Unsaved /\ r.saved.file = file
    BY <2>1 DEF Unsaved
  <2> QED
    BY <1>1, <2>2, UnsavedKept DEF HeldInv
<1>2. CASE m_safe /\ changed
  <2>1. CASE r \in {[saved |-> q, ok |-> q.ok, answer |-> {"Yes"}] : q \in save}
    <3>1. PICK q \in save : r = [saved |-> q, ok |-> q.ok, answer |-> {"Yes"}]
      BY <2>1
    <3>2. r.saved = q /\ r.ok = q.ok
      BY <3>1
    <3>3. SavedOrKept(q)
      BY SaveHolds DEF HeldInv
    <3>4. q.ok => HeldBy(q.file)
      BY <3>3 DEF SavedOrKept
    <3> QED
      BY <3>2, <3>3, <3>4
  <2>2. CASE r = [saved |-> Unsaved, ok |-> TRUE, answer |-> {"No"}]
    BY <2>2, UnsavedKept DEF HeldInv
  <2>3. CASE r = [saved |-> Unsaved, ok |-> FALSE, answer |-> {"Cancel"}]
    BY <2>3, UnsavedKept DEF HeldInv
  <2> QED
    BY <1>2, <2>1, <2>2, <2>3 DEF closeSafe
<1> QED
  BY <1>1, <1>2

\* An attempt to save, with the items as they were.
LEMMA SavedHolds ==
  ASSUME HeldInv, NEW r, SavedOrKept(r), Saved(r), UNCHANGED <<m_safe, items>>
  PROVE  HeldInv'
<1>1. file' = r.file /\ changed' = r.changed /\ path' = r.path
  BY DEF Saved
<1>2. DataOK' /\ PathOK'
  BY <1>1 DEF SavedOrKept, HeldInv, DataOK, PathOK
<1> QED
  BY <1>1, <1>2 DEF SavedOrKept, HeldInv, HeldBy, FilledGroups

\* A version that an item may have.
LEMMA ChangeHolds ==
  ASSUME HeldInv, NEW n, NEW v \in 0..MaxVersion, Change(n, v), UNCHANGED <<path, file>>
  PROVE  HeldInv'
<1>1. items' \in Contents
  BY DEF Change, HeldInv, DataOK, Contents
<1> QED
  BY <1>1 DEF Change, HeldInv, DataOK, PathOK

\* No safe, no item to lose.
LEMMA NoSafeHolds ==
  ASSUME HeldInv, NEW how, Ended(how), UNCHANGED file
  PROVE  HeldInv'
BY FreshContents DEF Ended, HeldInv, DataOK, PathOK

\* An item that is there has the version it had.
LEMMA FewerItemsHold ==
  ASSUME DataOK, HeldBy(file), UNCHANGED file,
         \A n \in Names : items'[n] = 0 \/ items'[n] = items[n]
  PROVE  HeldBy(file)'
<1>1. \A n \in Names : items'[n] > 0 => items'[n] = items[n]
  OBVIOUS
<1>2. FilledGroups' \subseteq FilledGroups
  BY <1>1, NameFacts DEF FilledGroups
<1>3. CASE \A e \in Entries : items[e] = 0
  BY <1>3, NameFacts DEF HeldBy
<1>4. ASSUME NEW p \in Paths,
             \A n \in Entries \cup FilledGroups \cup {Pass} : items[n] > 0 => file[p][n] = items[n]
      PROVE  HeldBy(file)'
  <2>1. \A n \in Entries \cup FilledGroups' \cup {Pass} : n \in Names
    BY NameFacts DEF FilledGroups
  <2>2. \A n \in Entries \cup FilledGroups' \cup {Pass} : items'[n] > 0 => file[p][n] = items'[n]
    BY <1>1, <1>2, <1>4, <2>1
  <2> QED
    BY <2>2 DEF HeldBy
<1> QED
  BY <1>3, <1>4 DEF HeldBy

\* The opened safe is what its file holds, or has nothing in it.
LEMMA LoadHolds ==
  ASSUME NEW f \in [Paths -> Contents \cup {NoFile}], NEW p \in Paths, f[p] \in Contents,
         NEW k \in 0..MaxVersion, items' = LoadOf(f[p], k), file' = f
  PROVE  items' \in Contents /\ HeldBy(file)'
<1>1. CASE f[p][Pass] = k
  BY <1>1 DEF LoadOf, HeldBy
<1>2. CASE f[p][Pass] # k
  <2>1. items' = [n \in Names |-> IF n = Pass THEN k ELSE 0]
    BY <1>2 DEF LoadOf
  <2>2. items' \in Contents
    BY <2>1, VersionFacts DEF Contents
  <2>3. \A e \in Entries : items'[e] = 0
    BY <2>1, NameFacts
  <2> QED
    BY <2>2, <2>3 DEF HeldBy
<1> QED
  BY <1>1, <1>2

LEMMA InitHeldInv == Init => HeldInv
BY FreshContents DEF Init, HeldInv, DataOK, PathOK

LEMMA NewHolds == HeldInv /\ New => HeldInv'
<1> SUFFICES ASSUME HeldInv, New PROVE HeldInv'
  OBVIOUS
<1>1. PICK r \in closeSafe :
        IF r.ok
        THEN items' = Fresh /\ path' = NoPath /\ file' = r.saved.file
        ELSE Saved(r.saved) /\ UNCHANGED <<m_safe, items>>
  BY DEF New
<1>2. SavedOrKept(r.saved)
  BY CloseHolds
<1>3. CASE r.ok
  <2>1. HeldBy(file)'
    BY <1>1, <1>3, FreshContents DEF HeldBy
  <2> QED
    BY <1>1, <1>2, <1>3, <2>1, FreshContents DEF HeldInv, DataOK, PathOK, SavedOrKept
<1>4. CASE ~r.ok
  BY <1>1, <1>2, <1>4, SavedHolds
<1> QED
  BY <1>3, <1>4

LEMMA OpenHolds == ASSUME NEW p \in Paths, HeldInv, Open(p) PROVE HeldInv'
<1>1. PICK r \in closeSafe :
        \/ Saved(r.saved) /\ UNCHANGED <<m_safe, items>>
        \/ /\ items' = LoadOf(r.saved.file[p], file[p][Pass])
           /\ path' = p /\ file' = r.saved.file
        \/ m_safe' = FALSE /\ items' = Fresh /\ path' = NoPath /\ file' = r.saved.file
  BY DEF Open
<1>2. SavedOrKept(r.saved)
  BY CloseHolds
<1>3. CASE Saved(r.saved) /\ UNCHANGED <<m_safe, items>>
  BY <1>2, <1>3, SavedHolds
<1>4. CASE /\ items' = LoadOf(r.saved.file[p], file[p][Pass])
           /\ path' = p /\ file' = r.saved.file
  <2>1. file[p] \in Contents /\ file[p][Pass] \in 0..MaxVersion
    BY NameFacts DEF Open, HeldInv, DataOK, Contents
  <2>2. r.saved.file[p] \in Contents
    BY <1>2, <2>1 DEF SavedOrKept
  <2>3. items' \in Contents /\ HeldBy(file)'
    BY <1>2, <1>4, <2>1, <2>2, LoadHolds DEF SavedOrKept
  <2> QED
    BY <1>2, <1>4, <2>3 DEF HeldInv, DataOK, PathOK, SavedOrKept
<1>5. CASE m_safe' = FALSE /\ items' = Fresh /\ path' = NoPath /\ file' = r.saved.file
  BY <1>2, <1>5, FreshContents DEF HeldInv, DataOK, PathOK, SavedOrKept
<1> QED
  BY <1>1, <1>3, <1>4, <1>5

\* Closing a dialog of an entry.
LEMMA AcceptHolds == ASSUME NEW i \in DOMAIN m_children, HeldInv, DialogInv, AcceptDialog(i) PROVE HeldInv'
<1>1. m_children[i] \in Dialogs
  BY DEF DialogInv
<1>2. m_children[i].item \in Names
  BY <1>1, NameFacts DEF Dialogs
<1>3. \/ \E n \in Names, v \in 0..MaxVersion : Change(n, v) /\ UNCHANGED <<path, file>>
      \/ Ended("crashed") /\ UNCHANGED file
      \/ UNCHANGED <<docVars, file>>
  <2>1. \A v \in 1..MaxVersion : v \in 0..MaxVersion
    BY VersionFacts
  <2> QED
    BY <1>2, <2>1, VersionFacts DEF AcceptDialog, Crashed
<1> QED
  BY <1>3, ChangeHolds, NoSafeHolds DEF docVars, HeldInv, DataOK, PathOK, HeldBy, FilledGroups

LEMMA StepHeldInv == HeldInv /\ DialogInv /\ [Next]_vars => HeldInv'
<1> SUFFICES ASSUME HeldInv, DialogInv, [Next]_vars PROVE HeldInv'
  OBVIOUS
<1>1. CASE New
  BY <1>1, NewHolds
<1>2. CASE \E p \in Paths : Open(p)
  BY <1>2, OpenHolds
<1>3. CASE CloseEvent
  <2>1. PICK r \in closeSafe : file' = r.saved.file
    BY <1>3 DEF CloseEvent
  <2>2. SavedOrKept(r.saved)
    BY CloseHolds
  <2>3. Ended("quit")
    BY <1>3 DEF CloseEvent
  <2> QED
    BY <2>1, <2>2, <2>3, FreshContents DEF SavedOrKept, Ended, HeldInv, DataOK, PathOK
<1>4. CASE Start \/ StartupCancelled \/ UseNullSafe
  BY <1>4, NoSafeHolds DEF Start, StartupCancelled, UseNullSafe, Crashed
<1>5. CASE SaveAction \/ SaveAsAction \/ MakeDefault
  <2>1. PICK r \in save \cup saveAs : Saved(r)
    BY <1>5 DEF SaveAction, SaveAsAction, MakeDefault
  <2>2. UNCHANGED <<m_safe, items>>
    BY <1>5 DEF SaveAction, SaveAsAction, MakeDefault
  <2>3. SavedOrKept(r)
    BY SaveHolds DEF HeldInv
  <2> QED
    BY <2>1, <2>2, <2>3, SavedHolds
<1>6. CASE ChangePassPhrase
  <2>1. items[Pass] + 1 \in 0..MaxVersion
    BY <1>6, NameFacts, VersionFacts DEF ChangePassPhrase, HeldInv, DataOK, Contents
  <2> QED
    BY <1>6, <2>1, ChangeHolds DEF ChangePassPhrase
<1>7. CASE \E g \in Groups : CreateGroup(g)
  BY <1>7, VersionFacts, ChangeHolds DEF CreateGroup
<1>8. ASSUME NEW x \in Items, Delete(x) PROVE HeldInv'
  <2>1. items' = [n \in Names |-> IF n \in Gone(x) THEN 0 ELSE items[n]]
    BY <1>8 DEF Delete
  <2>2. items' \in Contents
    BY <2>1, VersionFacts DEF HeldInv, DataOK, Contents
  <2>3. \A n \in Names : items'[n] = 0 \/ items'[n] = items[n]
    BY <2>1
  <2>4. UNCHANGED <<m_safe, changed, path, file>>
    BY <1>8 DEF Delete
  <2>5. m_safe' /\ ~changed' => HeldBy(file)'
    BY <2>3, <2>4, FewerItemsHold DEF HeldInv
  <2> QED
    BY <2>2, <2>4, <2>5 DEF HeldInv, DataOK, PathOK
<1>9. CASE \E e \in Entries : AddDialog(e) \/ EditDialog(e)
  <2>1. \/ UNCHANGED <<docVars, file>>
        \/ Ended("hung") /\ UNCHANGED file
    BY <1>9 DEF AddDialog, EditDialog
  <2> QED
    BY <2>1, NoSafeHolds DEF docVars, HeldInv, DataOK, PathOK, HeldBy, FilledGroups
<1>10. CASE \E i \in DOMAIN m_children : AcceptDialog(i)
  BY <1>10, AcceptHolds
<1>11. CASE \E i \in DOMAIN m_children : RejectDialog(i)
  BY <1>11 DEF RejectDialog, docVars, HeldInv, DataOK, PathOK, HeldBy, FilledGroups
<1>12. CASE UNCHANGED vars
  BY <1>12 DEF vars, docVars, HeldInv, DataOK, PathOK, HeldBy, FilledGroups
<1> QED
  BY <1>1, <1>2, <1>3, <1>4, <1>5, <1>6, <1>7, <1>8, <1>9, <1>10, <1>11, <1>12 DEF Next

\* When hasChanged() is false, every entry of the safe is in some file, whatever
\* saves, loads and closes failed before (save, saveAs, closeSafe, open).
THEOREM CleanIsHeld == Spec => []CleanHidesOnlyDeletions
<1>1. HeldInv => CleanHidesOnlyDeletions
  BY DEF HeldInv, CleanHidesOnlyDeletions
<1> QED
  BY <1>1, InitHeldInv, StepHeldInv, InitDialogInv, StepDialogInv, PTL DEF Spec

\* Only createNewSafe and open close a safe and leave the window up.
LEMMA ClosedByClose ==
  ASSUME Next, Up, window' = "up", "closed" \in slot'
  PROVE  New \/ \E p \in Paths : Open(p)
<1>1. ~(CloseEvent \/ Start \/ StartupCancelled \/ UseNullSafe)
  BY DEF CloseEvent, Start, StartupCancelled, UseNullSafe, Crashed, Ended, Up
<1>2. ~(SaveAction \/ SaveAsAction \/ MakeDefault \/ ChangePassPhrase)
  BY DEF SaveAction, SaveAsAction, MakeDefault, ChangePassPhrase
<1>3. \A x : ~(CreateGroup(x) \/ Delete(x) \/ AddDialog(x) \/ EditDialog(x))
  BY DEF CreateGroup, Delete, AddDialog, EditDialog
<1>4. \A i : ~(AcceptDialog(i) \/ RejectDialog(i))
  BY DEF AcceptDialog, RejectDialog, Crashed
<1> QED
  BY <1>1, <1>2, <1>3, <1>4 DEF Next

LEMMA ReplacedIsHeld ==
  ASSUME HeldInv, New \/ \E p \in Paths : Open(p), m_safe, "closed" \in slot'
  PROVE  "No" \in slot' \/ HeldBy(file')
<1>1. PICK r \in closeSafe :
        /\ slot' = r.answer \cup (IF r.ok THEN {"closed"} ELSE {})
        /\ r.ok => file' = r.saved.file
  BY DEF New, Open
<1>2. r.ok => "No" \in r.answer \/ HeldBy(r.saved.file)
  BY CloseHolds
<1>3. r.ok
  <2>1. "closed" \notin r.answer
    BY DEF closeSafe
  <2> QED
    BY <1>1, <2>1
<1> QED
  BY <1>1, <1>2, <1>3

\* A safe is replaced only if the user gave it up or a file holds it (the calls of
\* closeSafe in createNewSafe and open).
THEOREM ReplacedOnlyIfHeld == Spec => DiscardNeedsNo
<1>1. HeldInv /\ [Next]_vars =>
        [Up /\ window' = "up" /\ m_safe /\ "closed" \in slot'
           => "No" \in slot' \/ HeldBy(file')]_vars
  BY ClosedByClose, ReplacedIsHeld
<1> QED
  BY <1>1, InitHeldInv, StepHeldInv, InitDialogInv, StepDialogInv, PTL DEF Spec, DiscardNeedsNo

=============================================================================
