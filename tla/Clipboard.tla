----------------------------- MODULE Clipboard -----------------------------
(***************************************************************************)
(* The clipboard a password is fetched to, and the timer that clears it:    *)
(* clipboard.cpp.  The clipboard and, on X11, the selection are shared with *)
(* every other program, which may overwrite either at any time or, as       *)
(* clipboard managers do, put an earlier text back.                         *)
(*                                                                         *)
(* Time passes in ticks; a timer that is due fires before time goes on.     *)
(***************************************************************************)
EXTENDS Integers

CONSTANTS
  Secrets,       \* passwords and user names (not empty)
  MaxTimeOut,    \* bound on the timeout the user can set, in ticks
  HasSelection,  \* supportsSelection()
  ClearOnExit    \* the user's setting

Empty == "empty"
Other == "other"  \* any text of another program
Texts == Secrets \cup {Empty, Other}

ASSUME SecretsAssumption == Secrets \cap {Empty, Other} = {}
ASSUME TimeAssumption    == MaxTimeOut \in Nat
ASSUME SettingAssumption == {HasSelection, ClearOnExit} \subseteq BOOLEAN

VARIABLES
  running,
  cb,         \* mode -> text; without a selection its text is empty
  last_copy,
  m_time_out,
  clear_timer, \* the QTimer: is it active, the ticks left, the interval
  due         \* history: what is owed to the user for the last fetch

vars == <<running, cb, last_copy, m_time_out, clear_timer, due>>

Modes == {"Clipboard", "Selection"}
Off   == [active |-> FALSE, left |-> 0, interval |-> 0]

\* A number: the ticks left, of the timeout in force at the fetch, until the
\* text must be gone.  Late: it was not.  Replaced: another program's text took
\* its place before.  Nothing: it was cleared, or the user switched the timer
\* off or left.
Nothing  == -1
Replaced == -2
Late     == -3

TypeOK ==
  /\ running \in BOOLEAN
  /\ cb \in [Modes -> Texts]
  /\ last_copy \in Secrets \cup {Empty}
  /\ m_time_out \in 0..MaxTimeOut
  /\ clear_timer \in [active : BOOLEAN, left : 0..MaxTimeOut, interval : 0..MaxTimeOut]
  /\ clear_timer.left <= clear_timer.interval
  /\ due \in {Nothing, Replaced, Late} \cup 0..MaxTimeOut
  /\ clear_timer.active => running

Init ==
  /\ running = TRUE
  /\ cb = [m \in Modes |-> Empty]
  /\ last_copy = Empty
  /\ m_time_out \in 0..MaxTimeOut
  /\ clear_timer = Off
  /\ due = Nothing

start(t) == clear_timer' = [active |-> TRUE, left |-> t, interval |-> t]
stop     == clear_timer' = Off

\* What copy puts where.
Copied(x) == [m \in Modes |-> IF m = "Clipboard" \/ HasSelection THEN x ELSE cb[m]]

\* copy(x, true), the only way a password or a user name gets copied.
Fetch(x) ==
  /\ running
  /\ last_copy' = x
  /\ cb' = Copied(x)
  /\ start(m_time_out)
  /\ due' = m_time_out
  /\ UNCHANGED <<running, m_time_out>>

\* clear(): QClipboard::clear() is about the clipboard, not the selection.
Cleared ==
  /\ cb' = [cb EXCEPT !["Clipboard"] = Empty]
  /\ stop
  /\ due' = Nothing

\* The menu's Clear clipboard, and lock().
Clear ==
  /\ running
  /\ Cleared
  /\ UNCHANGED <<running, last_copy, m_time_out>>

\* Mutant of SetTimeOut: the timer is restarted with the new timeout.
SetTimeOut_Restarts(t) ==
  /\ running
  /\ m_time_out' = t
  /\ IF t = 0 THEN stop /\ due' = Nothing
     ELSE IF clear_timer.active THEN start(t) /\ UNCHANGED due
     ELSE UNCHANGED <<clear_timer, due>>
  /\ UNCHANGED <<running, cb, last_copy>>

\* setTimeOut: a timer that runs keeps its interval, unless it is switched off.
SetTimeOut(t) ==
  /\ running
  /\ m_time_out' = t
  /\ IF t = 0 THEN stop /\ due' = Nothing ELSE UNCHANGED <<clear_timer, due>>
  /\ UNCHANGED <<running, cb, last_copy>>

TimerDue == clear_timer.active /\ clear_timer.left = 0

\* Mutant of TimerFired: the timer is a single shot.
TimerFired_Once ==
  /\ TimerDue
  /\ IF \E m \in Modes : cb[m] = last_copy
     THEN Cleared
     ELSE /\ stop
          /\ UNCHANGED <<cb, due>>
  /\ UNCHANGED <<running, last_copy, m_time_out>>

\* timerFired: the timer is periodic, so what it does not find now it looks for
\* again after another interval.
TimerFired ==
  /\ TimerDue
  /\ IF \E m \in Modes : cb[m] = last_copy
     THEN Cleared
     ELSE /\ clear_timer' = [clear_timer EXCEPT !.left = clear_timer.interval]
          /\ UNCHANGED <<cb, due>>
  /\ UNCHANGED <<running, last_copy, m_time_out>>

\* Another program owns mode m now.
Foreign(m, x) ==
  /\ m = "Selection" => HasSelection
  /\ cb' = [cb EXCEPT ![m] = x]
  /\ due' = IF m = "Clipboard" /\ due # Nothing THEN Replaced ELSE due
  /\ UNCHANGED <<running, last_copy, m_time_out, clear_timer>>

\* destroy(): copy("", false) if the user wants that.
Exit ==
  /\ running
  /\ running' = FALSE
  /\ cb' = IF ClearOnExit THEN Copied(Empty) ELSE cb
  /\ last_copy' = Empty
  /\ stop
  /\ due' = Nothing
  /\ UNCHANGED m_time_out

Start ==
  /\ ~running
  /\ running' = TRUE
  /\ UNCHANGED <<cb, last_copy, m_time_out, clear_timer, due>>

\* A timer with interval 0 leaves no time to anyone until it stops.
Tick ==
  /\ ~TimerDue
  /\ clear_timer' = IF clear_timer.active
                    THEN [clear_timer EXCEPT !.left = @ - 1] ELSE clear_timer
  /\ due' = CASE due > 0 -> due - 1 [] due = 0 -> Late [] OTHER -> due
  /\ UNCHANGED <<running, cb, last_copy, m_time_out>>

Next ==
  \/ \E x \in Secrets : Fetch(x)
  \/ Clear \/ TimerFired \/ Exit \/ Start \/ Tick
  \/ \E t \in 0..MaxTimeOut : SetTimeOut(t)
  \/ \E m \in Modes, x \in Texts \ {Empty} : Foreign(m, x)

Spec == Init /\ [][Next]_vars /\ WF_vars(Tick) /\ WF_vars(TimerFired)

-----------------------------------------------------------------------------
\* A fetched text is out of the clipboard when the timeout that was in force at
\* the fetch is over, whatever is done to the timeout and whatever is fetched
\* in between: setTimeOut does not touch a running timer, copy restarts it.
HeldInTime == due # Late

\* As long as the timer has not cleared the clipboard, the text it waits for is
\* cleared also when another program had replaced it and then puts it back for
\* good (timerFired of a periodic timer).
PutBackIsCleared ==
  LET PutBack == due = Replaced /\ cb["Clipboard"] = last_copy
  IN  PutBack ~> ~PutBack
=============================================================================
