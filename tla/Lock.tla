-------------------------------- MODULE Lock --------------------------------
(***************************************************************************)
(* Locking the main window: by hand, when the user has been idle, and when  *)
(* the window is restored after it was minimized for a while                *)
(* (mypasswordsafe.cpp: lock, hideEvent, showEvent, checkMinimization,      *)
(* slotSecondsIdle).                                                        *)
(*                                                                         *)
(* lock() waits in a nested event loop, so every event may arrive while it  *)
(* waits, and showNormal() delivers showEvent before lock() is through.     *)
(* A single-shot timer of five seconds may fire at any later time here.     *)
(***************************************************************************)
EXTENDS Integers

CONSTANTS
  IdleLock,   \* m_idle_timeout > 0
  MaxShots,   \* bound: single-shot timers counted; more count as this many
  MaxLocks    \* bound on nested calls of lock()

ASSUME SettingsAssumption == IdleLock \in BOOLEAN
ASSUME BoundsAssumption   == MaxShots \in Nat \ {0} /\ MaxLocks \in Nat \ {0}

VARIABLES
  x11,            \* is isMinimized() the window manager's answer, which is
                  \* false for a hidden window, or Qt's remembered state?
  state,          \* "running", "hung" or "crashed"
  visible,        \* isVisible(): also true for a minimized window
  minimized,      \* the window state
  lockOnMinimize, \* the user's setting
  m_do_lock,
  shots,          \* single-shot timers that will call checkMinimization
  waiting,        \* calls of lock() that wait for the pass-phrase
  dialogs,        \* is an edit dialog open?
  safe,           \* is m_safe not NULL?
  idle,           \* has the user been idle for the timeout?
  seen            \* history: has a check found the window minimized, in this
                  \* minimization?

vars == <<x11, state, visible, minimized, lockOnMinimize, m_do_lock, shots, waiting,
          dialogs, safe, idle, seen>>

TypeOK ==
  /\ state \in {"running", "hung", "crashed"}
  /\ x11 \in BOOLEAN /\ visible \in BOOLEAN /\ minimized \in BOOLEAN
  /\ lockOnMinimize \in BOOLEAN /\ m_do_lock \in BOOLEAN
  /\ dialogs \in BOOLEAN /\ safe \in BOOLEAN /\ idle \in BOOLEAN /\ seen \in BOOLEAN
  /\ shots \in 0..MaxShots
  /\ waiting \in 0..MaxLocks

Init ==
  /\ x11 \in BOOLEAN
  /\ state = "running" /\ visible = TRUE /\ minimized = FALSE
  /\ lockOnMinimize \in BOOLEAN /\ m_do_lock = FALSE
  /\ shots = 0 /\ waiting = 0 /\ dialogs = FALSE
  /\ safe \in BOOLEAN
  /\ idle = FALSE /\ seen = FALSE

Running == state = "running"
AtWork  == Running /\ visible /\ ~minimized

\* hideEvent: starts a timer.
Hidden == shots' = IF lockOnMinimize /\ shots < MaxShots THEN shots + 1 ELSE shots

\* lock() up to the point where it waits, with w calls waiting already.
\* hideChildren goes round `iter = iter++' forever if there is a dialog.
Locks(w) ==
  /\ visible' = FALSE
  /\ Hidden
  /\ w < MaxLocks
  /\ IF dialogs THEN state' = "hung" /\ waiting' = w
     ELSE waiting' = w + 1 /\ UNCHANGED state

\* Mutant of showEvent: m_do_lock stays set.
showEvent_KeepsMark(w) ==
  IF m_do_lock /\ lockOnMinimize
  THEN UNCHANGED m_do_lock /\ Locks(w)
  ELSE visible' = TRUE /\ waiting' = w /\ UNCHANGED <<m_do_lock, shots, state>>

\* showEvent.
showEvent(w) ==
  IF m_do_lock /\ lockOnMinimize
  THEN m_do_lock' = FALSE /\ Locks(w)
  ELSE visible' = TRUE /\ waiting' = w /\ UNCHANGED <<m_do_lock, shots, state>>

-----------------------------------------------------------------------------
Minimize ==
  /\ AtWork
  /\ minimized' = TRUE /\ seen' = FALSE
  /\ Hidden
  /\ UNCHANGED <<x11, state, visible, lockOnMinimize, m_do_lock, waiting, dialogs, safe,
                 idle>>

Restore ==
  /\ Running /\ visible /\ minimized
  /\ minimized' = FALSE /\ seen' = FALSE
  /\ showEvent(waiting)
  /\ UNCHANGED <<x11, lockOnMinimize, dialogs, safe, idle>>

isMinimized == minimized /\ (visible \/ ~x11)

\* Mutant of CheckMinimization: a second timer takes the mark back.
CheckMinimization_Toggles ==
  /\ Running /\ shots > 0
  /\ shots' = shots - 1
  /\ m_do_lock' = IF lockOnMinimize THEN isMinimized /\ ~m_do_lock ELSE m_do_lock
  /\ seen' = (seen \/ (lockOnMinimize /\ visible /\ minimized))
  /\ UNCHANGED <<x11, state, visible, minimized, lockOnMinimize, waiting, dialogs, safe, idle>>

\* checkMinimization, whichever event started its timer.
CheckMinimization ==
  /\ Running /\ shots > 0
  /\ shots' = shots - 1
  /\ m_do_lock' = IF lockOnMinimize THEN isMinimized ELSE m_do_lock
  /\ seen' = (seen \/ (lockOnMinimize /\ visible /\ minimized))
  /\ UNCHANGED <<x11, state, visible, minimized, lockOnMinimize, waiting, dialogs, safe, idle>>

\* Mutant of SecondsIdle: it is not asked whether the window is visible.
SecondsIdle_Unasked ==
  /\ Running /\ IdleLock /\ idle
  /\ Locks(waiting)
  /\ UNCHANGED <<x11, minimized, lockOnMinimize, m_do_lock, dialogs, safe, idle, seen>>

\* slotSecondsIdle, once a second.
SecondsIdle ==
  /\ Running /\ IdleLock /\ idle
  /\ visible
  /\ Locks(waiting)
  /\ UNCHANGED <<x11, minimized, lockOnMinimize, m_do_lock, dialogs, safe, idle, seen>>

\* The menu's Lock.
LockAction ==
  /\ AtWork
  /\ Locks(waiting)
  /\ UNCHANGED <<x11, minimized, lockOnMinimize, m_do_lock, dialogs, safe, idle, seen>>

\* The right pass-phrase ends the loop of the innermost lock(), which calls
\* showNormal() (and showChildren(), with no dialogs to show).
Unlock ==
  /\ Running /\ waiting > 0 /\ safe
  /\ minimized' = FALSE /\ seen' = FALSE /\ idle' = FALSE
  /\ showEvent(waiting - 1)
  /\ UNCHANGED <<x11, lockOnMinimize, dialogs, safe>>

\* Without a safe the comparison dereferences NULL.
UnlockCrashes ==
  /\ Running /\ waiting > 0 /\ ~safe
  /\ state' = "crashed" /\ waiting' = 0
  /\ UNCHANGED <<x11, visible, minimized, lockOnMinimize, m_do_lock, shots, dialogs, safe,
                 idle, seen>>

-----------------------------------------------------------------------------
\* What the user does elsewhere in the window, and the time that passes.
ToggleLockOnMinimize ==
  /\ AtWork
  /\ lockOnMinimize' = ~lockOnMinimize
  /\ UNCHANGED <<x11, state, visible, minimized, m_do_lock, shots, waiting, dialogs, safe,
                 idle, seen>>

ToggleDialogs ==
  /\ AtWork
  /\ dialogs' = ~dialogs
  /\ UNCHANGED <<x11, state, visible, minimized, lockOnMinimize, m_do_lock, shots, waiting,
                 safe, idle, seen>>

ToggleSafe ==
  /\ AtWork
  /\ safe' = ~safe
  /\ UNCHANGED <<x11, state, visible, minimized, lockOnMinimize, m_do_lock, shots, waiting,
                 dialogs, idle, seen>>

ToggleIdle ==
  /\ Running
  /\ idle' = ~idle
  /\ UNCHANGED <<x11, state, visible, minimized, lockOnMinimize, m_do_lock, shots, waiting,
                 dialogs, safe, seen>>

Next ==
  \/ Minimize \/ Restore \/ CheckMinimization \/ SecondsIdle \/ LockAction
  \/ Unlock \/ UnlockCrashes
  \/ ToggleLockOnMinimize \/ ToggleDialogs \/ ToggleSafe \/ ToggleIdle

\* The user who is asked for the pass-phrase gives it in the end.
Spec == Init /\ [][Next]_vars /\ WF_vars(Unlock) /\ WF_vars(UnlockCrashes)

-----------------------------------------------------------------------------
\* At most one lock() waits for the pass-phrase at any time, whatever timers
\* fire while it waits: m_do_lock is reset before lock() is entered, and an
\* idle user cannot lock a window that is hidden.
OneLockWaits == waiting <= 1

\* A restored window asks for the pass-phrase if, and only if, a check found it
\* minimized before ("Fire a timer to see if we need to lock due to a
\* minimization after 5 seconds"): timers left over from earlier minimizations
\* and from hide() neither lose the lock nor cause one.
RestoreLocks ==
  [][Running /\ minimized /\ visible /\ ~minimized' /\ state' # "crashed"
       => (visible' <=> ~(seen /\ lockOnMinimize))]_vars

\* A lock ends: the right pass-phrase brings the window back, if need be after
\* it was asked for again.
LockEnds == waiting > 0 ~> waiting = 0
=============================================================================
