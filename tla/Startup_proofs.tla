---------------------------- MODULE Startup_proofs ----------------------------
(***************************************************************************)
(* The settings of a session are those of the last session that ended in     *)
(* order, for any files, marks, switches and spin boxes.                     *)
(***************************************************************************)
EXTENDS Startup, TLAPS

\* What is stored is what was seen last, up to the cap that the next start puts
\* on it; and a running process keeps the tries under the cap and every flag with
\* its mark, or closing would store something else than the user saw.
StoredAsSeen == kept = Capped(stored)
MarksAgree == phase # "off" => live.tries <= 10 /\ marks = live.generates
IInv == TypeOK /\ StoredAsSeen /\ MarksAgree

-----------------------------------------------------------------------------
\* The cap keeps the fields and their types.
LEMMA CappedSettings ==
  ASSUME NEW c \in Settings
  PROVE  Capped(c) \in Settings /\ Capped(c).tries <= 10
  BY DEF Capped, Settings

\* What readConfig makes of a second is shown as that second.
LEMMA ReadShown ==
  ASSUME NEW c \in Settings
  PROVE  /\ readConfig(c) \in Settings
         /\ readConfig(c).tries <= 10
         /\ readConfig(c).generates = c.generates
         /\ [readConfig(c) EXCEPT !.timeout = clearTimeOut(readConfig(c))] = Capped(c)
<1>1. PICK d \in Settings : d = Capped(c)
  BY CappedSettings
<1>2. d.tries <= 10 /\ d.generates = c.generates /\ d.timeout \in Nat
  BY <1>1, CappedSettings DEF Capped, Settings
<1>3. PICK ms \in Nat : ms = d.timeout * 1000 /\ ms \div 1000 = d.timeout
  BY <1>2
<1>4. readConfig(c) = [d EXCEPT !.timeout = ms]
  BY <1>1, <1>3 DEF readConfig
<1>5. PICK r \in Settings : r = [d EXCEPT !.timeout = ms]
  BY DEF Settings
<1>6. r.tries = d.tries /\ r.generates = d.generates /\ r.timeout = ms
  BY <1>5 DEF Settings
<1>7. [r EXCEPT !.timeout = d.timeout] = d
  BY <1>5 DEF Settings
<1>8. clearTimeOut(r) = d.timeout
  BY <1>3, <1>6 DEF clearTimeOut
<1> QED  BY <1>1, <1>2, <1>4, <1>5, <1>6, <1>7, <1>8

\* The startup dialog's fields.
StartupDialogs ==
  [action : {"default", "browse", "new"}, filename : Paths, page : {"open", "new"}]

\* The safes of the window keep their fields.
Safes == [path : Paths, changed : BOOLEAN, null : BOOLEAN]
LEMMA SafesSafe ==
  ASSUME NEW s \in Safes, NEW p \in Paths, safe \in Safes
  PROVE  /\ NoSafe \in Safes /\ Opened(p) \in Safes
         /\ SaveAs(s) \subseteq Safes /\ Saves(s) \subseteq Safes
         /\ Replaced(s) \subseteq Safes /\ Loaded(p) \subseteq Safes
<1>1. NoSafe \in Safes /\ Opened(p) \in Safes
  BY DEF Safes, NoSafe, Opened, Paths
<1>2. ASSUME NEW t \in Safes PROVE SaveAs(t) \subseteq Safes
  <2>1. \A f \in Files : /\ [t EXCEPT !.path = f] \in Safes
                         /\ [t EXCEPT !.path = f, !.changed = FALSE] \in Safes
    BY DEF Safes, Paths
  <2> QED  BY <2>1 DEF SaveAs
<1>3. \A t \in Safes : Saves(t) \subseteq Safes
  BY <1>2 DEF Safes, Saves, Paths
<1>4. closeSafe \subseteq Safes
  BY <1>1, <1>3 DEF closeSafe
<1>5. \A t \in Safes : Replaced(t) \subseteq Safes
  BY <1>4 DEF Replaced
<1> QED  BY <1>1, <1>2, <1>3, <1>5 DEF Loaded

\* The state without a process.
LEMMA GoneTyped ==
  ASSUME Gone
  PROVE  /\ live' \in Settings /\ marks' \subseteq Generates /\ openDefaultOn' \in BOOLEAN
         /\ dialog' \in StartupDialogs
         /\ safe' \in Safes
         /\ prompt' \in [file : Paths, wrong : Nat]
  BY DEF Gone, Statics, Defaults, DefaultTimeOut, Settings, NoDialog, NoSafe, NoPrompt, Safes, Paths, StartupDialogs

LEMMA InitIInv == Init => IInv
<1> SUFFICES ASSUME Init PROVE IInv OBVIOUS
<1>1. stored \in Settings
  BY FoundAssumption DEF Init, Defaults, DefaultTimeOut, Settings, Paths
<1>2. kept \in Settings
  BY <1>1, CappedSettings DEF Init
<1>3. live \in Settings
  BY DEF Init, Statics, Defaults, DefaultTimeOut, Settings, Paths
<1>4. TypeOK
  BY <1>1, <1>2, <1>3 DEF Init, TypeOK, NoDialog, NoSafe, NoPrompt, Paths, StartupDialogs
<1> QED  BY <1>4 DEF IInv, StoredAsSeen, MarksAgree, Init

\* A slot that touches none of the settings keeps what is said about them.
LEMMA SettingsUntouched ==
  ASSUME IInv, TypeOK', UNCHANGED <<stored, kept, live, marks>>, phase' # "off" => phase # "off"
  PROVE  IInv'
  BY DEF IInv, StoredAsSeen, MarksAgree, Capped

LEMMA NextIInv == IInv /\ [Next]_vars => IInv'
<1> SUFFICES ASSUME IInv, [Next]_vars PROVE IInv' OBVIOUS
<1> USE DEF IInv
<1>a. TypeOK /\ StoredAsSeen /\ MarksAgree OBVIOUS
<1>b. safe \in Safes BY DEF TypeOK, Safes, StartupDialogs
<1>c. NoPath \in Paths /\ \A f \in Files : f \in Paths BY DEF Paths
<1>1. ASSUME NEW arg \in Paths, Start(arg) PROVE IInv'
  <2>1. live' \in Settings /\ live'.tries <= 10 /\ live'.generates = stored.generates
    BY <1>1, ReadShown DEF Start, TypeOK, StartupDialogs
  <2>2. marks' = live'.generates
    BY <1>1 DEF Start, MarksOf
  <2>3. dialog' \in StartupDialogs
    BY <1>1, <1>c, <2>1 DEF Start, Offered, Settings, StartupDialogs
  <2>4. TypeOK'
    BY <1>1, <2>1, <2>2, <2>3 DEF TypeOK, Start, Settings, StartupDialogs
  <2> QED  BY <1>1, <2>1, <2>2, <2>4 DEF Start, StoredAsSeen, MarksAgree, Capped
<1>2. CASE ActionChanged
  <2>1. /\ dialog' \in StartupDialogs
        /\ live' \in Settings /\ live'.tries = live.tries /\ live'.generates = live.generates
    <3>1. CASE ChooseNew
      BY <3>1 DEF ChooseNew, TypeOK, StartupDialogs
    <3>2. ASSUME NEW f \in Paths, ChooseBrowse(f)
          PROVE /\ dialog' \in StartupDialogs
                /\ live' \in Settings /\ live'.tries = live.tries
                /\ live'.generates = live.generates
      BY <3>2 DEF ChooseBrowse, Browsed, TypeOK, StartupDialogs
    <3>3. ASSUME NEW f \in Paths, ChooseDefault(f)
          PROVE /\ dialog' \in StartupDialogs
                /\ live' \in Settings /\ live'.tries = live.tries
                /\ live'.generates = live.generates
      <4>1. dialog' \in StartupDialogs
        BY <3>3 DEF ChooseDefault, Browsed, TypeOK, Settings, StartupDialogs
      <4> QED  BY <3>3, <4>1 DEF ChooseDefault, TypeOK, Settings, StartupDialogs
    <3> QED  BY <1>2, <3>1, <3>2, <3>3 DEF ActionChanged
  <2>2. TypeOK'
    BY <1>2, <2>1 DEF ActionChanged, TypeOK, StartupDialogs
  <2> QED  BY <1>2, <2>1, <2>2 DEF ActionChanged, StoredAsSeen, MarksAgree, Capped
<1>3. CASE OkClicked
  <2>1. safe' \in Safes
    BY <1>3, <1>b, <1>c, SafesSafe DEF OkClicked, TypeOK, StartupDialogs
  <2>2. TypeOK'
    BY <1>3, <2>1, <1>c DEF OkClicked, TypeOK, Safes, NoDialog, StartupDialogs
  <2> QED  BY <1>3, <2>2, SettingsUntouched DEF OkClicked
<1>4. CASE QuitClicked \/ Crash
  <2>1. TypeOK'
    BY <1>4, GoneTyped DEF QuitClicked, Crash, TypeOK, Safes, StartupDialogs
  <2> QED  BY <1>4, <2>1 DEF QuitClicked, Crash, StoredAsSeen, MarksAgree, Capped
<1>5. CASE NewSafe \/ Edit \/ Save \/ OpenDefault
  <2>1. safe' \in Safes
    <3>1. CASE NewSafe
      BY <3>1, <1>b, <1>c, SafesSafe DEF NewSafe
    <3>2. CASE Edit
      BY <3>2, <1>b DEF Edit, Safes
    <3>3. CASE Save
      BY <3>3, <1>b, <1>c, SafesSafe DEF Save
    <3>4. CASE OpenDefault
      BY <3>4, <1>b, SafesSafe DEF OpenDefault, TypeOK, Settings, StartupDialogs
    <3> QED  BY <1>5, <3>1, <3>2, <3>3, <3>4
  <2>2. UNCHANGED <<phase, stored, live, marks, openDefaultOn, dialog, prompt, kept>>
    BY <1>5 DEF NewSafe, Edit, Save, OpenDefault, AtWork, Safely
  <2>3. TypeOK'
    BY <2>1, <2>2 DEF TypeOK, Safes, StartupDialogs
  <2> QED  BY <2>2, <2>3, SettingsUntouched
<1>6. CASE MakeDefault
  <2>1. safe' \in Safes
    BY <1>6, <1>b, <1>c, SafesSafe DEF MakeDefault
  <2>2. live' \in Settings /\ live'.tries = live.tries /\ live'.generates = live.generates
    BY <1>6, <2>1 DEF MakeDefault, TypeOK, Safes, Settings, StartupDialogs
  <2>3. TypeOK'
    BY <1>6, <2>1, <2>2 DEF MakeDefault, AtWork, TypeOK, Safes, StartupDialogs
  <2> QED  BY <1>6, <2>2, <2>3 DEF MakeDefault, AtWork, StoredAsSeen, MarksAgree, Capped
<1>7. ASSUME NEW f \in Files, Open(f) PROVE IInv'
  <2>1. safe' \in Safes
    BY <1>7, <1>b, <1>c, SafesSafe DEF Open
  <2>2. TypeOK'
    BY <1>7, <2>1, <1>c DEF Open, AtWork, TypeOK, Safes, StartupDialogs
  <2> QED  BY <1>7, <2>2, SettingsUntouched DEF Open, AtWork
<1>8. CASE Answer
  <2>1. prompt.file \in Paths
    BY DEF TypeOK, StartupDialogs
  <2>2. safe' \in Safes
    BY <1>8, <1>b, <2>1, SafesSafe DEF Answer
  <2>3. TypeOK'
    BY <1>8, <2>2, <1>c DEF Answer, TypeOK, Safes, NoPrompt, StartupDialogs
  <2> QED  BY <1>8, <2>3, SettingsUntouched DEF Answer
<1>9. ASSUME NEW p \in Paths, NEW n \in Tries, NEW t \in TimeOuts, Preferences(p, n, t)
      PROVE  IInv'
  <2>1. n \in Nat /\ n <= 10 /\ t * 1000 \in Nat
    BY SpinBoxes
  <2>2. live' \in Settings /\ live'.tries = n /\ live'.generates = live.generates
    <3>1. PICK ms \in Nat : ms = t * 1000 BY <2>1
    <3>2. live' = [live EXCEPT !.default = p, !.tries = n, !.timeout = ms]
      BY <1>9, <3>1 DEF Preferences
    <3> HIDE <3>1
    <3> QED  BY <3>2, <2>1 DEF TypeOK, Settings
  <2>3. TypeOK'
    BY <1>9, <2>2 DEF Preferences, AtWork, TypeOK, StartupDialogs
  <2> QED  BY <1>9, <2>1, <2>2, <2>3 DEF Preferences, AtWork, StoredAsSeen, MarksAgree, Capped
<1>10. ASSUME NEW g \in Generates, ToggleGenerate(g) PROVE IInv'
  <2>1. marks' \subseteq Generates
    BY <1>10 DEF ToggleGenerate, Flipped, TypeOK, StartupDialogs
  <2>2. live' \in Settings /\ live'.tries = live.tries
    BY <1>10 DEF ToggleGenerate, TypeOK, Settings, StartupDialogs
  <2>3. marks = live.generates
    BY <1>10 DEF ToggleGenerate, AtWork, MarksAgree
  <2>4. live'.generates = marks'
    BY <1>10, <2>3 DEF ToggleGenerate, Flipped, TypeOK, Settings, StartupDialogs
  <2>5. TypeOK'
    BY <1>10, <2>1, <2>2 DEF ToggleGenerate, AtWork, TypeOK, StartupDialogs
  <2> QED  BY <1>10, <2>2, <2>4, <2>5 DEF ToggleGenerate, AtWork, StoredAsSeen, MarksAgree, Capped
<1>11. ASSUME NEW w \in Switches, ToggleSwitch(w) PROVE IInv'
  <2>1. live' \in Settings /\ live'.tries = live.tries /\ live'.generates = live.generates
    BY <1>11 DEF ToggleSwitch, Flipped, TypeOK, Settings, StartupDialogs
  <2>2. TypeOK'
    BY <1>11, <2>1 DEF ToggleSwitch, AtWork, TypeOK, StartupDialogs
  <2> QED  BY <1>11, <2>1, <2>2 DEF ToggleSwitch, AtWork, StoredAsSeen, MarksAgree, Capped
<1>12. CASE Close
  <2>1. stored' \in Settings /\ kept' = Capped(stored')
    <3>1. CASE stored' = writeConfig /\ kept' = Shown
      <4>1. writeConfig \in Settings /\ writeConfig.tries <= 10
        BY <1>12 DEF Close, MarksAgree, writeConfig, clearTimeOut, TypeOK, Settings, StartupDialogs
      <4>2. Capped(writeConfig) = writeConfig
        BY <4>1 DEF Capped, Settings
      <4>3. Shown = writeConfig
        BY <1>12 DEF Close, MarksAgree, Shown, writeConfig, TypeOK, Settings, StartupDialogs
      <4> QED  BY <3>1, <4>1, <4>2, <4>3
    <3>2. CASE UNCHANGED <<stored, kept>>
      BY <3>2 DEF StoredAsSeen, TypeOK, StartupDialogs
    <3> QED  BY <1>12, <3>1, <3>2 DEF Close
  <2>2. kept' \in Settings
    BY <2>1, CappedSettings
  <2>3. TypeOK'
    BY <1>12, <2>1, <2>2, GoneTyped DEF Close, TypeOK, Safes, StartupDialogs
  <2> QED  BY <1>12, <2>1, <2>3 DEF Close, StoredAsSeen, MarksAgree, Capped
<1>13. CASE UNCHANGED vars
  <2>1. TypeOK'
    BY <1>13 DEF vars, procVars, TypeOK, StartupDialogs
  <2> QED  BY <1>13, <2>1, SettingsUntouched DEF vars, procVars
<1> QED
  BY <1>1, <1>2, <1>3, <1>4, <1>5, <1>6, <1>7, <1>8, <1>9, <1>10, <1>11, <1>12, <1>13 DEF Next

\* A start shows what is stored.
LEMMA StartShows ==
  ASSUME IInv, [Next]_vars, phase = "off", phase' = "dialog"
  PROVE  Shown' = kept /\ live'.generates = marks'
<1>1. PICK arg \in Paths : Start(arg)
  <2>1. ~(ActionChanged \/ OkClicked \/ QuitClicked \/ Answer \/ Close \/ Crash)
    BY DEF ActionChanged, OkClicked, QuitClicked, Answer, Close, Crash
  <2>2. ~(NewSafe \/ Edit \/ Save \/ OpenDefault \/ MakeDefault)
    BY DEF NewSafe, Edit, Save, OpenDefault, MakeDefault, AtWork
  <2>3. \A f : ~Open(f)
    BY DEF Open, AtWork
  <2>4. \A p, n, t : ~Preferences(p, n, t)
    BY DEF Preferences, AtWork
  <2>5. \A x : ~ToggleGenerate(x) /\ ~ToggleSwitch(x)
    BY DEF ToggleGenerate, ToggleSwitch, AtWork
  <2>6. ~UNCHANGED vars
    BY DEF vars
  <2> QED  BY <2>1, <2>2, <2>3, <2>4, <2>5, <2>6 DEF Next
<1>2. stored \in Settings /\ kept = Capped(stored)
  BY DEF IInv, TypeOK, StoredAsSeen, StartupDialogs
<1>3. live' = readConfig(stored) /\ marks' = live'.generates
  BY <1>1 DEF Start, MarksOf
<1>4. live' \in Settings /\ [live' EXCEPT !.timeout = clearTimeOut(live')] = kept
  BY <1>2, <1>3, ReadShown
<1>5. Shown' = [live' EXCEPT !.timeout = clearTimeOut(live')]
  <2>1. \A l \in Settings : \A k : [l EXCEPT !.timeout = k, !.generates = l.generates] =
                                [l EXCEPT !.timeout = k]
    BY DEF Settings
  <2>2. Shown' = [live' EXCEPT !.timeout = clearTimeOut(live'), !.generates = live'.generates]
    BY <1>3 DEF Shown, clearTimeOut
  <2> QED  BY <1>4, <2>1, <2>2, Zenon
<1> QED  BY <1>3, <1>4, <1>5

\* Whatever the sessions did, the files and the boxes: the next one starts with
\* what the user saw when a session last ended in order.
THEOREM SessionsKeepSettings == Spec => SettingsSurvive
<1>1. IInv /\ [Next]_vars => [phase = "off" /\ phase' = "dialog" =>
         Shown' = kept /\ live'.generates = marks']_vars
  BY StartShows
<1> QED  BY <1>1, InitIInv, NextIInv, PTL DEF Spec, SettingsSurvive

\* Type correctness.
THEOREM StartupTypeCorrect == Spec => []TypeOK
<1>1. IInv => TypeOK BY DEF IInv, StartupDialogs
<1> QED  BY <1>1, InitIInv, NextIInv, PTL DEF Spec
=============================================================================
