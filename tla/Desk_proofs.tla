----------------------------- MODULE Desk_proofs -----------------------------
(***************************************************************************)
(* Lock and Clipboard, each alone and together, for any secrets and bounds. *)
(* Alone: one lock() waits at a time, and a restored window asks for the    *)
(* pass-phrase exactly if a check found it minimized; a fetched text is     *)
(* gone in time.  Together: the window behaves as it does alone, and        *)
(* nothing fetched outlives a lock().                                       *)
(***************************************************************************)
EXTENDS Desk, TLAPS

-----------------------------------------------------------------------------
\* The window alone.

\* A lock() that waits has hidden the window.
WaitingIsHidden == waiting <= 1 /\ (waiting > 0 => ~visible)

\* The mark is only on a minimized window, and on one that can be restored it
\* says what the checks found.
MarkIsCurrent ==
  /\ m_do_lock => minimized /\ lockOnMinimize
  /\ visible /\ minimized => (m_do_lock <=> (seen /\ lockOnMinimize))

IInv == TypeOK /\ WaitingIsHidden /\ MarkIsCurrent

LEMMA InitInv == Init => IInv
<1> SUFFICES ASSUME Init PROVE IInv
  OBVIOUS
<1>1. TypeOK
  <2>1. shots \in 0..MaxShots /\ waiting \in 0..MaxLocks
    BY BoundsAssumption DEF Init
  <2> QED
    BY <2>1, Zenon DEF Init, TypeOK
<1>2. WaitingIsHidden
  BY DEF Init, WaitingIsHidden
<1>3. MarkIsCurrent
  BY Zenon DEF Init, MarkIsCurrent
<1> QED
  BY <1>1, <1>2, <1>3 DEF IInv

\* What showEvent leaves behind when no other lock() waits: the window is shown,
\* or it is hidden and the one lock() it called waits.
LEMMA ShowEventInv ==
  ASSUME IInv, Running, showEvent(0)
  PROVE  /\ shots' \in 0..MaxShots
         /\ state' \in {"running", "hung", "crashed"}
         /\ waiting' \in 0..MaxLocks
         /\ visible' \in BOOLEAN
         /\ waiting' <= 1 /\ (waiting' > 0 => ~visible')
         /\ m_do_lock' = FALSE
         /\ visible' <=> ~m_do_lock
<1>1. CASE m_do_lock
  <2>1. m_do_lock /\ lockOnMinimize
    BY <1>1 DEF IInv, MarkIsCurrent
  <2>2. m_do_lock' = FALSE /\ visible' = FALSE
    BY <2>1, Zenon DEF showEvent, Locks
  <2>3. /\ shots' \in 0..MaxShots /\ waiting' \in 0..MaxLocks /\ waiting' <= 1
        /\ state' \in {"running", "hung", "crashed"}
    BY <2>1, BoundsAssumption DEF IInv, TypeOK, showEvent, Locks, Hidden, Running
  <2> QED
    BY <1>1, <2>2, <2>3
<1>2. CASE ~m_do_lock
  <2>1. /\ visible' = TRUE /\ waiting' = 0
        /\ UNCHANGED <<m_do_lock, shots, state>>
    BY <1>2, Zenon DEF showEvent
  <2>2. m_do_lock' = FALSE
    BY <1>2, <2>1, Zenon DEF IInv, TypeOK
  <2> QED
    BY <1>2, <2>1, <2>2, BoundsAssumption DEF IInv, TypeOK
<1> QED
  BY <1>1, <1>2

\* lock() is entered only when the window is visible.
LEMMA LocksInv ==
  ASSUME IInv, Running, visible, Locks(waiting)
  PROVE  /\ shots' \in 0..MaxShots
         /\ state' \in {"running", "hung", "crashed"}
         /\ waiting' \in 0..MaxLocks
         /\ visible' = FALSE
         /\ waiting' <= 1
BY BoundsAssumption
DEF IInv, TypeOK, WaitingIsHidden, Locks, Hidden, Running

LEMMA StepInv == IInv /\ [Next]_vars => IInv'
<1> SUFFICES ASSUME IInv, [Next]_vars PROVE IInv'
  OBVIOUS
<1> USE BoundsAssumption DEF TypeOK, WaitingIsHidden, MarkIsCurrent
<1>1. CASE Minimize
  <2>1. ~m_do_lock
    BY <1>1 DEF IInv, Minimize, AtWork
  <2>2. shots' \in 0..MaxShots
    BY <1>1 DEF IInv, Minimize, Hidden
  <2>3. minimized' = TRUE /\ seen' = FALSE
    BY <1>1 DEF Minimize
  <2>4. UNCHANGED <<x11, state, visible, lockOnMinimize, m_do_lock, waiting, dialogs,
                    safe, idle>>
    BY <1>1 DEF Minimize
  <2>5. minimized' \in BOOLEAN /\ seen' \in BOOLEAN
    BY <2>3, Zenon
  <2> QED
    BY <2>1, <2>2, <2>3, <2>4, <2>5 DEF IInv
<1>2. CASE Restore
  <2>1. waiting = 0
    BY <1>2 DEF IInv, Restore
  <2>2. showEvent(0) /\ Running
    BY <1>2, <2>1 DEF Restore
  <2> QED
    BY <1>2, <2>2, ShowEventInv DEF IInv, Restore
<1>3. CASE CheckMinimization
  BY <1>3 DEF IInv, CheckMinimization, isMinimized, Running
<1>4. CASE SecondsIdle
  BY <1>4, LocksInv DEF IInv, SecondsIdle
<1>5. CASE LockAction
  BY <1>5, LocksInv DEF IInv, LockAction, AtWork
<1>6. CASE Unlock
  <2>1. waiting - 1 = 0
    BY <1>6 DEF IInv, Unlock
  <2>2. showEvent(0) /\ Running
    BY <1>6, <2>1 DEF Unlock
  <2> QED
    BY <1>6, <2>2, ShowEventInv DEF IInv, Unlock
<1>7. CASE UnlockCrashes
  BY <1>7 DEF IInv, UnlockCrashes
<1>8. CASE ToggleLockOnMinimize
  BY <1>8 DEF IInv, ToggleLockOnMinimize, AtWork
<1>9. CASE ToggleDialogs
  BY <1>9 DEF IInv, ToggleDialogs
<1>10. CASE ToggleSafe
  BY <1>10 DEF IInv, ToggleSafe
<1>11. CASE ToggleIdle
  BY <1>11 DEF IInv, ToggleIdle
<1>12. CASE UNCHANGED vars
  BY <1>12 DEF IInv, vars
<1> QED
  BY <1>1, <1>2, <1>3, <1>4, <1>5, <1>6, <1>7, <1>8, <1>9, <1>10, <1>11, <1>12 DEF Next

LEMMA Invariance == Spec => []IInv
BY InitInv, StepInv, PTL DEF Spec

\* The state keeps its types, for any bounds and settings.
THEOREM LockTypeCorrect == Spec => []TypeOK
BY Invariance, PTL DEF IInv

\* At most one lock() waits for the pass-phrase, although lock() is entered
\* from three places and waits in an event loop (mypasswordsafe.cpp: lock).
THEOREM OneLock == Spec => []OneLockWaits
<1>1. IInv => OneLockWaits
  BY DEF IInv, WaitingIsHidden, OneLockWaits
<1> QED
  BY <1>1, Invariance, PTL

\* A restored window asks for the pass-phrase if, and only if, a check found it
\* minimized (mypasswordsafe.cpp: hideEvent, checkMinimization, showEvent).
THEOREM RestoreAsks == Spec => RestoreLocks
<1> DEFINE Asks == Running /\ minimized /\ visible /\ ~minimized' /\ state' # "crashed"
                     => (visible' <=> ~(seen /\ lockOnMinimize))
<1>1. IInv /\ [Next]_vars => [Asks]_vars
  <2> SUFFICES ASSUME IInv, Next, Running, minimized, visible, ~minimized'
               PROVE  visible' <=> ~(seen /\ lockOnMinimize)
    OBVIOUS
  <2>1. waiting = 0
    BY DEF IInv, TypeOK, WaitingIsHidden
  <2>2. Restore
    <3>1. ~Unlock /\ ~UnlockCrashes
      BY <2>1 DEF Unlock, UnlockCrashes
    <3>2. ~Minimize
      BY DEF Minimize, AtWork
    <3>3. ~CheckMinimization /\ ~SecondsIdle /\ ~LockAction
      BY DEF CheckMinimization, SecondsIdle, LockAction
    <3>4. ~ToggleLockOnMinimize /\ ~ToggleDialogs /\ ~ToggleSafe /\ ~ToggleIdle
      BY DEF ToggleLockOnMinimize, ToggleDialogs, ToggleSafe, ToggleIdle
    <3> QED
      BY <3>1, <3>2, <3>3, <3>4 DEF Next
  <2>3. showEvent(0)
    BY <2>1, <2>2 DEF Restore
  <2> QED
    <3>1. visible' <=> ~m_do_lock
      BY <2>3, ShowEventInv
    <3>2. m_do_lock <=> (seen /\ lockOnMinimize)
      BY DEF IInv, MarkIsCurrent
    <3> QED
      BY <3>1, <3>2
<1> QED
  BY <1>1, Invariance, PTL DEF Spec, RestoreLocks

-----------------------------------------------------------------------------
\* The clipboard alone, in a process that starts and exits by itself.
VARIABLE running

Clip == INSTANCE Clipboard

\* What is owed is what the timer has left: while something is due the timer
\* runs, with as many ticks left, and the text is where it was put.
ClipOwed ==
  due >= 0 => /\ clear_timer.active
              /\ clear_timer.left = due
              /\ cb["Clipboard"] = last_copy

ClipInv == Clip!TypeOK /\ Clip!HeldInTime /\ ClipOwed

\* A stopped timer is a timer.
LEMMA ClipOff ==
  /\ Clip!Off \in [active : BOOLEAN, left : 0..MaxTimeOut, interval : 0..MaxTimeOut]
  /\ ~Clip!Off.active /\ Clip!Off.left = 0 /\ Clip!Off.interval = 0
BY ClipboardAssumption DEF Clip!Off

LEMMA ClipInit == Clip!Init => ClipInv
BY ClipboardAssumption
   DEF Clip!Init, ClipInv, Clip!TypeOK, Clip!HeldInTime, ClipOwed, Clip!Off, Clip!Nothing,
       Clip!Late, Clip!Replaced, Clip!Modes, Clip!Texts

LEMMA ClipNext == ClipInv /\ [Clip!Next]_(Clip!vars) => ClipInv'
<1> SUFFICES ASSUME ClipInv, [Clip!Next]_(Clip!vars) PROVE ClipInv'
  OBVIOUS
<1> USE ClipboardAssumption
    DEF ClipInv, Clip!TypeOK, Clip!HeldInTime, ClipOwed, Clip!Nothing,
        Clip!Late, Clip!Replaced, Clip!Modes, Clip!Texts
<1>1. ASSUME NEW x \in Secrets, Clip!Fetch(x) PROVE ClipInv'
  <2>1. cb' \in [Clip!Modes -> Clip!Texts] /\ cb'["Clipboard"] = x
    BY <1>1 DEF Clip!Fetch, Clip!Copied
  <2> QED BY <1>1, <2>1 DEF Clip!Fetch, Clip!start
<1>2. CASE Clip!Clear
  BY <1>2, ClipOff DEF Clip!Clear, Clip!Cleared, Clip!stop
<1>3. CASE Clip!TimerFired
  <2>1. CASE \E m \in Clip!Modes : cb[m] = last_copy
    <3>1. /\ cb' = [cb EXCEPT !["Clipboard"] = Clip!Empty]
          /\ clear_timer' = Clip!Off /\ due' = -1
          /\ UNCHANGED <<running, last_copy, m_time_out>>
      BY <1>3, <2>1 DEF Clip!TimerFired, Clip!Cleared, Clip!stop
    <3> QED BY <3>1, ClipOff
  <2>2. CASE ~ \E m \in Clip!Modes : cb[m] = last_copy
    <3>1. /\ clear_timer' = [clear_timer EXCEPT !.left = clear_timer.interval]
          /\ due < 0
          /\ UNCHANGED <<running, last_copy, m_time_out, cb, due>>
      BY <1>3, <2>2 DEF Clip!TimerFired, Clip!TimerDue
    <3> QED BY <3>1
  <2> QED BY <2>1, <2>2
<1>4. CASE Clip!Exit
  <2>1. cb' \in [Clip!Modes -> Clip!Texts]
    BY <1>4 DEF Clip!Exit, Clip!Copied
  <2>2. /\ running' = FALSE /\ last_copy' = Clip!Empty /\ due' = -1
        /\ clear_timer' = Clip!Off /\ UNCHANGED m_time_out
    BY <1>4 DEF Clip!Exit, Clip!stop
  <2>3. clear_timer'.active => running'
    BY <2>2, ClipOff
  <2>4. /\ clear_timer' \in [active : BOOLEAN, left : 0..MaxTimeOut, interval : 0..MaxTimeOut]
        /\ clear_timer'.left <= clear_timer'.interval
    BY <2>2, ClipOff
  <2>5. Clip!TypeOK'
    BY <2>1, <2>2, <2>3, <2>4
  <2>6. Clip!HeldInTime' /\ ClipOwed'
    BY <2>2
  <2> QED BY <2>5, <2>6
<1>5. CASE Clip!Start
  BY <1>5 DEF Clip!Start
<1>6. CASE Clip!Tick
  BY <1>6 DEF Clip!Tick, Clip!TimerDue
<1>7. ASSUME NEW t \in 0..MaxTimeOut, Clip!SetTimeOut(t) PROVE ClipInv'
  BY <1>7, ClipOff DEF Clip!SetTimeOut, Clip!stop
<1>8. ASSUME NEW m \in Clip!Modes, NEW x \in Clip!Texts \ {Clip!Empty}, Clip!Foreign(m, x)
      PROVE  ClipInv'
  BY <1>8 DEF Clip!Foreign
<1>9. CASE UNCHANGED Clip!vars
  BY <1>9 DEF Clip!vars
<1> QED
  BY <1>1, <1>2, <1>3, <1>4, <1>5, <1>6, <1>7, <1>8, <1>9 DEF Clip!Next

\* A fetched text is out of the clipboard when its timeout is over (clipboard.cpp:
\* setTimeOut, timerFired).
THEOREM ClearedInTime == Clip!Spec => []Clip!HeldInTime
<1>1. ClipInv => Clip!HeldInTime
  BY DEF ClipInv
<1> QED
  BY <1>1, ClipInit, ClipNext, PTL DEF Clip!Spec

\* The state of Clipboard keeps its types.
THEOREM ClipboardTypeCorrect == Clip!Spec => []Clip!TypeOK
<1>1. ClipInv => Clip!TypeOK
  BY DEF ClipInv
<1> QED
  BY <1>1, ClipInit, ClipNext, PTL DEF Clip!Spec

-----------------------------------------------------------------------------
\* To the window every step of the two is one of its own, or none.
LEMMA DeskStep == [DeskNext]_deskVars => [Next]_vars
<1> SUFFICES ASSUME [DeskNext]_deskVars PROVE [Next]_vars
  OBVIOUS
<1>1. CASE LockClears \/ LockHangs \/ Shown \/ Crashes \/ WindowAlone
  BY <1>1 DEF LockClears, EntersLock, LockHangs, Shown, Crashes, WindowAlone, Next
<1>2. CASE ClearAction \/ TimerFired \/ Tick
  <2>1. UNCHANGED vars
    BY <1>2 DEF ClearAction, TimerFired, Tick, LostTick
  <2> QED BY <2>1
<1>3. CASE \/ \E x \in Secrets : Fetch(x)
           \/ \E t \in 0..MaxTimeOut : SetTimeOut(t)
           \/ \E m \in C!Modes, x \in C!Texts \ {C!Empty} : Foreign(m, x)
  <2>1. UNCHANGED vars
    BY <1>3 DEF Fetch, SetTimeOut, Foreign
  <2> QED BY <2>1
<1>4. CASE UNCHANGED deskVars
  BY <1>4 DEF deskVars
<1> QED BY <1>1, <1>2, <1>3, <1>4 DEF DeskNext

LEMMA DeskLocks == DeskSpec => []IInv
<1>1. DeskInit => IInv
  BY InitInv DEF DeskInit
<1> QED BY <1>1, DeskStep, StepInv, PTL DEF DeskSpec

-----------------------------------------------------------------------------
\* Who enters lock() leaves the clipboard cleared, or hangs before it is one
\* more that waits; nobody fetches from a hidden window.
LEMMA ForgottenNext ==
  IInv /\ LockedIsForgotten /\ [DeskNext]_deskVars => LockedIsForgotten'
<1> SUFFICES ASSUME IInv, LockedIsForgotten, [DeskNext]_deskVars, waiting' > 0
             PROVE  due' = C!Nothing
  BY DEF LockedIsForgotten
<1>1. waiting \in Nat /\ (waiting > 0 => ~visible)
  BY BoundsAssumption DEF IInv, TypeOK, WaitingIsHidden
<1>2. CASE LockClears
  BY <1>2 DEF LockClears, C!Clear, C!Cleared
<1>3. CASE LockHangs \/ Shown
  <2>1. due' = due
    BY <1>3 DEF LockHangs, Shown, clipboard
  <2>2. ASSUME NEW w \in {waiting, waiting - 1}, Running, Locks(w), LockHangs \/ Shown
        PROVE  waiting' = w
    <3>1. ~visible'
      BY <2>2 DEF Locks
    <3>2. state' = "hung"
      BY <2>2, <3>1 DEF LockHangs, Shown
    <3> QED
      BY <2>2, <3>2 DEF Locks, Running
  <2>3. ASSUME NEW w \in {waiting, waiting - 1}, Running, showEvent(w), LockHangs \/ Shown
        PROVE  waiting' = w
    BY <2>2, <2>3 DEF showEvent
  <2>4. ASSUME Restore \/ Unlock PROVE waiting' \in {waiting, waiting - 1}
    BY <1>3, <2>3, <2>4 DEF Restore, Unlock
  <2>5. ASSUME SecondsIdle \/ LockAction PROVE waiting' \in {waiting, waiting - 1}
    BY <1>3, <2>2, <2>5 DEF SecondsIdle, LockAction, AtWork
  <2>6. waiting' \in {waiting, waiting - 1}
    BY <1>3, <2>4, <2>5 DEF LockHangs, Shown
  <2> QED BY <1>1, <2>1, <2>6 DEF LockedIsForgotten
<1>4. CASE Crashes
  BY <1>4 DEF Crashes, UnlockCrashes
<1>5. CASE WindowAlone
  <2>1. waiting' = waiting /\ due' = due
    BY <1>5 DEF WindowAlone, Minimize, CheckMinimization, ToggleLockOnMinimize, ToggleDialogs,
                ToggleSafe, ToggleIdle, clipboard
  <2> QED BY <2>1 DEF LockedIsForgotten
<1>6. CASE ClearAction
  BY <1>6 DEF ClearAction, C!Clear, C!Cleared
<1>7. CASE TimerFired \/ Tick \/ \E m \in C!Modes, x \in C!Texts \ {C!Empty} : Foreign(m, x)
  <2>1. waiting' = waiting
    BY <1>7 DEF TimerFired, Tick, LostTick, Foreign, vars
  <2>2. due = C!Nothing
    BY <2>1 DEF LockedIsForgotten
  <2> QED
    BY <1>7, <2>2 DEF TimerFired, C!TimerFired, C!Cleared, Tick, LostTick, C!Tick, Foreign,
                      C!Foreign, C!Nothing
<1>8. CASE (\E x \in Secrets : Fetch(x)) \/ (\E t \in 0..MaxTimeOut : SetTimeOut(t))
  <2>1. visible /\ waiting' = waiting
    BY <1>8 DEF Fetch, SetTimeOut, AtWork, vars
  <2> QED BY <1>1, <2>1
<1>9. CASE UNCHANGED deskVars
  BY <1>9 DEF deskVars, vars, clipboard, LockedIsForgotten
<1> QED BY <1>2, <1>3, <1>4, <1>5, <1>6, <1>7, <1>8, <1>9 DEF DeskNext

\* While a lock() waits for the pass-phrase no fetched text is left to the timer,
\* however lock() was entered (mypasswordsafe.cpp: lock, showEvent).
THEOREM LockForgets == DeskSpec => []LockedIsForgotten
<1>1. DeskInit => LockedIsForgotten
  BY DEF DeskInit, Init, LockedIsForgotten
<1> QED BY <1>1, DeskLocks, ForgottenNext, PTL DEF DeskSpec
=============================================================================
