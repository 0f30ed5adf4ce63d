-------------------------------- MODULE Desk --------------------------------
(***************************************************************************)
(* The main window's lock and the clipboard together: lock() clears the     *)
(* clipboard between hiding the windows and asking for the pass-phrase      *)
(* (mypasswordsafe.cpp), and the clipboard's timer runs in the event loop   *)
(* that lock() nests, but not in a process that hangs or is gone.           *)
(*                                                                         *)
(* A step of the window is a step of Lock, a step of the clipboard one of   *)
(* Clipboard; where lock() is entered they are one.                         *)
(***************************************************************************)
EXTENDS Lock

CONSTANTS Secrets, MaxTimeOut, HasSelection, ClearOnExit

VARIABLES cb, last_copy, m_time_out, clear_timer, due

\* The process of Clipboard runs as long as the window's has not crashed.
C == INSTANCE Clipboard WITH running <- state # "crashed"

clipboard == <<cb, last_copy, m_time_out, clear_timer, due>>

ASSUME ClipboardAssumption ==
  /\ Secrets \cap {C!Empty, C!Other} = {}
  /\ MaxTimeOut \in Nat
  /\ {HasSelection, ClearOnExit} \subseteq BOOLEAN

DeskInit == Init /\ C!Init

\* Events that may enter lock(): a window that ends up hidden has done so.
EntersLock ==
  /\ Restore \/ SecondsIdle \/ LockAction \/ Unlock
  /\ ~visible' /\ state' = "running"

\* Mutant of LockClears: lock() does not clear the clipboard.
LockClears_Forgotten == EntersLock /\ UNCHANGED clipboard

\* lock(): m_clipboard->clear().
LockClears == EntersLock /\ C!Clear

\* lock() never gets from hideChildren to the clipboard.
LockHangs ==
  /\ Restore \/ SecondsIdle \/ LockAction \/ Unlock
  /\ state' = "hung"
  /\ UNCHANGED clipboard

\* A window that is shown without being locked.
Shown ==
  /\ Restore \/ Unlock
  /\ visible'
  /\ UNCHANGED clipboard

\* A process that crashes takes its timer along, but not the clipboard.
Crashes ==
  /\ UnlockCrashes
  /\ clear_timer' = C!Off
  /\ UNCHANGED <<cb, last_copy, m_time_out, due>>

WindowAlone ==
  /\ \/ Minimize \/ CheckMinimization
     \/ ToggleLockOnMinimize \/ ToggleDialogs \/ ToggleSafe \/ ToggleIdle
  /\ UNCHANGED clipboard

-----------------------------------------------------------------------------
\* pwordFetch, pwordFetchUser, and the dialog that fetches what it generates:
\* from a window the user can see, of a safe.
Fetch(x) == AtWork /\ safe /\ UNCHANGED vars /\ C!Fetch(x)

\* The menu's Clear clipboard, and the preferences.
ClearAction   == AtWork /\ UNCHANGED vars /\ C!Clear
SetTimeOut(t) == AtWork /\ UNCHANGED vars /\ C!SetTimeOut(t)

TimerFired == Running /\ UNCHANGED vars /\ C!TimerFired

Foreign(m, x) == UNCHANGED vars /\ C!Foreign(m, x)

\* Time that a process without an event loop does not notice.
LostTick ==
  /\ ~Running
  /\ UNCHANGED vars
  /\ due' = CASE due > 0 -> due - 1 [] due = 0 -> C!Late [] OTHER -> due
  /\ UNCHANGED <<cb, last_copy, m_time_out, clear_timer>>

Tick == \/ Running /\ UNCHANGED vars /\ C!Tick
        \/ LostTick

DeskNext ==
  \/ LockClears \/ LockHangs \/ Shown \/ Crashes \/ WindowAlone
  \/ ClearAction \/ TimerFired \/ Tick
  \/ \E x \in Secrets : Fetch(x)
  \/ \E t \in 0..MaxTimeOut : SetTimeOut(t)
  \/ \E m \in C!Modes, x \in C!Texts \ {C!Empty} : Foreign(m, x)

deskVars == <<vars, clipboard>>

\* Unlock is one of three of the actions above.  The user answers in the end
\* (as in Lock), and the event loop serves its timers.
Answered == Unlock /\ (LockClears \/ LockHangs \/ Shown)

DeskSpec ==
  /\ DeskInit /\ [][DeskNext]_deskVars
  /\ WF_deskVars(Answered) /\ WF_deskVars(Crashes)
  /\ WF_deskVars(Tick) /\ WF_deskVars(TimerFired)

-----------------------------------------------------------------------------
\* While a lock() waits for the pass-phrase, no text fetched from the safe is
\* still owed to the clipboard's timer: however lock() was entered, a second
\* time out of its own showNormal() included, it cleared the clipboard first,
\* and nothing can be fetched before the pass-phrase is given.
LockedIsForgotten == waiting > 0 => due = C!Nothing
=============================================================================
