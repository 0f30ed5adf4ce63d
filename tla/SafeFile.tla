------------------------------ MODULE SafeFile ------------------------------
(***************************************************************************)
(* One Safe object and the files it is loaded from and saved to: Safe::load,*)
(* Safe::save and Safe::makeBackup of safe.cpp, together with the way the  *)
(* serializers open, truncate and fill a file.  A save is one action per    *)
(* call that touches the disk, and the process may die between any two.     *)
(*                                                                         *)
(* The pass-phrase is left out: load is only called after checkPassword    *)
(* said Success, and one pass-phrase is used throughout.  A revision is one *)
(* of the entries with their names, passwords and notes: only XML writes    *)
(* empty groups, and the version 1 format no groups and times at all.       *)
(***************************************************************************)
EXTENDS Serializers

CONSTANTS
  Stems,   \* file names without their extension
  Exts,    \* the extensions in use
  MaxRev,  \* bound: how many distinct contents the safe goes through
  Faults   \* what the environment may do to the program

AllFaults ==
  {"open",      \* the file cannot be opened for writing
   "entry",     \* no byte of an entry, or of the header, can be written
   "write",     \* some bytes of the last entry can be written and some not
   "flush",     \* the last buffer cannot be written, when fclose tries
   "bakread",   \* the file to back up cannot be opened for reading
   "bakopen",   \* the backup cannot be opened for writing
   "bakwrite",  \* the backup is cut short
   "uuid",      \* the UUID library throws
   "crash",     \* the process dies
   "reuse",     \* the user opens, or saves over, a file left incomplete
   "wrongtype"} \* the user picks a filter that is not the file's format

ASSUME StemsAssumption  == "" \notin Stems
ASSUME ExtsAssumption   == Exts \subseteq AllExts
ASSUME MaxRevAssumption == MaxRev \in Nat \ {0}
ASSUME FaultsAssumption == Faults \subseteq AllFaults

Paths  == Stems \X Exts
NoPath == <<"", "">>
NotOpening == [path |-> NoPath, ser |-> NULL]
Formats == {t \in Types : extension[t] \in Exts}

\* full_path: the serializer's extension is appended to a name without one.
FullPath(p, s) == IF p[2] = "" THEN <<p[1], extension[s]>> ELSE p

Contents == [rev : 0..MaxRev, intact : BOOLEAN]
Files    == [fmt : Types, rev : 0..MaxRev, intact : BOOLEAN, part : Torn \cup {"whole"}]
              \cup {Absent}

VARIABLES
  disk,       \* path -> the file
  bak,        \* path -> its backup, path~
  pc,         \* where the program is
  m_path, m_type, m_changed,
  doc,        \* the items of the safe
  opening,    \* the file being loaded and the serializer tried on it
  lastRev,    \* the last revision handed out
  ret,        \* what a load or save just returned, "" once that is dealt with
  before      \* history: the file at m_path when the running save began

vars == <<disk, bak, pc, m_path, m_type, m_changed, doc, opening, lastRev, ret,
          before>>

safeVars == <<m_path, m_type, m_changed, doc>>

\* "down": no process; "none": no safe is open; "idle": a safe is open.
Saving  == {"bk_open", "bk_copy", "wr_open", "wr_body"}
HasSafe == pc \in Saving \cup {"idle"}

Stored(f)  == [rev |-> f.rev, intact |-> f.intact]
Exists(f)  == f.part # "absent"
IsTorn(f)  == f.part \in Torn
Usable(p)  == IsTorn(disk[p]) => "reuse" \in Faults
Written(q) == [fmt |-> m_type, rev |-> doc.rev, intact |-> doc.intact, part |-> q]

TypeOK ==
  /\ disk \in [Paths -> Files]
  /\ bak \in [Paths -> Files]
  /\ pc \in Saving \cup {"down", "none", "loading", "idle", "hung"}
  /\ m_path \in Paths \cup {NoPath}
  /\ m_type \in Types \cup {""}
  /\ m_changed \in BOOLEAN
  /\ doc \in Contents
  /\ opening \in [path : Paths, ser : Types] \cup {NotOpening}
  /\ pc = "loading" => opening # NotOpening
  /\ lastRev \in 0..MaxRev
  /\ ret \in Errors \cup {""}
  /\ before \in Files
  /\ pc \in Saving => m_path # NoPath /\ m_type # ""

Init ==
  /\ disk \in [Paths -> {Absent} \cup
                 [fmt : Formats, rev : {1}, intact : {TRUE}, part : {"whole"}]]
  /\ \A p \in Paths : Exists(disk[p]) => extension[disk[p].fmt] = p[2]
  /\ bak = [p \in Paths |-> Absent]
  /\ pc = "none"
  /\ m_path = NoPath /\ m_type = "" /\ m_changed = FALSE
  /\ doc = [rev |-> 0, intact |-> TRUE]
  /\ opening = NotOpening
  /\ lastRev = 1
  /\ ret = ""
  /\ before = Absent

-----------------------------------------------------------------------------
\* MyPasswordSafe::createNewSafe: a new safe, marked unchanged.
New ==
  /\ pc = "none"
  /\ pc' = "idle"
  /\ m_path' = NoPath /\ m_type' = "" /\ m_changed' = FALSE
  /\ doc' = [rev |-> 0, intact |-> TRUE]
  /\ ret' = ""
  /\ UNCHANGED <<disk, bak, opening, lastRev, before>>

\* Any operation that changes the items and calls setChanged(true).
Edit ==
  /\ pc = "idle"
  /\ lastRev < MaxRev
  /\ lastRev' = lastRev + 1
  /\ doc' = [doc EXCEPT !.rev = lastRev + 1]
  /\ m_changed' = TRUE
  /\ UNCHANGED <<disk, bak, pc, m_path, m_type, opening, before>>
  /\ ret' = ""

\* The safe is deleted; whether its changes are saved first is the caller's
\* business.
Close ==
  /\ pc = "idle"
  /\ pc' = "none"
  /\ UNCHANGED <<disk, bak, safeVars, opening, lastRev, before>>
  /\ ret' = ""

-----------------------------------------------------------------------------
\* The filters a user opens p with: "" (all safes), the format of the file,
\* and any other one when "wrongtype" says so.
OpenTypes(p) == {""} \cup (IF Exists(disk[p]) THEN {disk[p].fmt} ELSE {}) \cup
                (IF "wrongtype" \in Faults THEN Formats \cup {AllFiles} ELSE {})

\* MyPasswordSafe::open: checkPassword picks the serializer load picks, and
\* only its Success leads to load.  (checkPassword never says BadFormat here,
\* so its loop over getNextExt is not entered twice.)
LoadBegin(p, t) ==
  LET s == createSerializer(p[2], t)
      check == IF ~Exists(disk[p]) THEN "BadFile"
               ELSE IF s = NULL THEN "BadFormat"
               ELSE checkPassword(s, disk[p])
  IN  /\ pc = "none"
      /\ Usable(p)
      /\ IF check = "Success"
         THEN pc' = "loading" /\ ret' = "" /\ opening' = [path |-> p, ser |-> s]
         ELSE ret' = check /\ UNCHANGED <<pc, opening>>
      /\ UNCHANGED <<disk, bak, safeVars, lastRev, before>>

\* Mutant of LoadTry: on BadFormat the loop goes round with the same serializer.
LoadTry_SameSerializer ==
  /\ pc = "loading"
  /\ \E e \in loadErrors(opening.ser, disk[opening.path]) :
       IF e = "Success"
       THEN /\ pc' = "idle" /\ ret' = "Success"
            /\ m_path' = opening.path /\ m_type' = opening.ser /\ m_changed' = FALSE
            /\ doc' = Loaded(opening.ser, disk[opening.path])
            /\ opening' = NotOpening
       ELSE UNCHANGED <<pc, ret, opening, safeVars>>
  /\ UNCHANGED <<disk, bak, lastRev, before>>

\* One round of load's loop with the current serializer.
LoadTry ==
  LET p == opening.path
      s == opening.ser
  IN  /\ pc = "loading"
      /\ \E e \in loadErrors(s, disk[p]) :
           \/ /\ e = "Success"
              /\ pc' = "idle" /\ ret' = "Success"
              /\ m_path' = p /\ m_type' = s /\ m_changed' = FALSE
              /\ doc' = Loaded(s, disk[p])
              /\ opening' = NotOpening
           \/ /\ e = "BadFormat" /\ getNextExt(s) # NULL
              /\ opening' = [opening EXCEPT !.ser = getNextExt(s)]
              /\ UNCHANGED <<pc, ret, safeVars>>
           \/ /\ e = "BadFormat" => getNextExt(s) = NULL
              /\ e \in Errors \ {"Success"}
              /\ pc' = "none" /\ ret' = e
              /\ opening' = NotOpening
              /\ UNCHANGED safeVars
           \/ /\ e = "hang"
              /\ pc' = "hung"
              /\ UNCHANGED <<opening, ret, safeVars>>
      /\ UNCHANGED <<disk, bak, lastRev, before>>

\* The catch clause of load.
LoadThrows ==
  /\ pc = "loading"
  /\ "uuid" \in Faults
  /\ pc' = "none" /\ ret' = "UUIDError"
  /\ opening' = NotOpening
  /\ UNCHANGED <<disk, bak, safeVars, lastRev, before>>

-----------------------------------------------------------------------------
\* Mutant of SaveBegin: the type asked for is kept, not the serializer's name.
SaveBegin_TypeAsGiven(p, t) ==
  LET s == createSerializer(p[2], t)
  IN  /\ pc = "idle" /\ s # NULL
      /\ FullPath(p, s) \in Paths /\ Usable(FullPath(p, s))
      /\ m_path' = FullPath(p, s) /\ m_type' = t
      /\ pc' = "bk_open" /\ ret' = ""
      /\ before' = disk[FullPath(p, s)]
      /\ UNCHANGED <<disk, bak, m_changed, doc, lastRev, opening>>

\* save(path, type) up to makeBackup: the path and the type of the safe are
\* replaced before anything is written.
SaveBegin(p, t) ==
  LET s == createSerializer(p[2], t)
      full == FullPath(p, s)
  IN  /\ pc = "idle"
      /\ IF s = NULL
         THEN ret' = "BadFormat" /\ UNCHANGED <<pc, m_path, m_type, before>>
         ELSE /\ full \in Paths
              /\ Usable(full)
              /\ m_path' = full /\ m_type' = s
              /\ pc' = "bk_open"
              /\ before' = disk[full]
              /\ ret' = ""
      /\ UNCHANGED <<disk, bak, m_changed, doc, lastRev, opening>>

\* save(def_user): to where the safe came from, nothing without a path.
Save ==
  IF m_path # NoPath THEN SaveBegin(m_path, m_type)
  ELSE /\ pc = "idle"
       /\ ret' = "Failed"
       /\ UNCHANGED <<disk, bak, pc, safeVars, lastRev, opening, before>>

\* The names and filters a user can give to Save As.
SaveAs ==
  \E n \in Stems, e \in Exts \cup {""}, t \in Formats \cup {"", AllFiles} :
    SaveBegin(<<n, e>>, t)

\* Mutant of BackupSkip: save does not insist on a backup.
BackupSkip_Always ==
  /\ pc = "bk_open"
  /\ pc' = "wr_open"
  /\ UNCHANGED <<disk, bak, safeVars, lastRev, ret, opening, before>>

\* makeBackup: no file (or one that cannot be read) means no backup;
\* otherwise path~ is truncated.  When it cannot be opened the FILE pointer is
\* used without a check and the process dies.
BackupSkip ==
  /\ pc = "bk_open"
  /\ ~Exists(disk[m_path]) \/ "bakread" \in Faults
  /\ pc' = "wr_open"
  /\ UNCHANGED <<disk, bak, safeVars, lastRev, ret, opening, before>>

BackupOpen ==
  /\ pc = "bk_open"
  /\ Exists(disk[m_path])
  /\ bak' = [bak EXCEPT ![m_path] = [disk[m_path] EXCEPT !.part = "none"]]
  /\ pc' = "bk_copy"
  /\ UNCHANGED <<disk, safeVars, lastRev, ret, opening, before>>

Die == /\ pc' = "down"
       /\ m_path' = NoPath /\ m_type' = "" /\ m_changed' = FALSE
       /\ doc' = [rev |-> 0, intact |-> TRUE]
       /\ opening' = NotOpening
       /\ before' = Absent
       /\ ret' = ""
       /\ UNCHANGED lastRev

BackupOpenFails ==
  /\ pc = "bk_open"
  /\ "bakopen" \in Faults
  /\ Exists(disk[m_path])
  /\ Die
  /\ UNCHANGED <<disk, bak>>

\* Mutant of BackupCopy: the loop stops after the first buffer.
BackupCopy_OneBuffer ==
  /\ pc = "bk_copy"
  /\ bak' = [bak EXCEPT ![m_path].part = "mid"]
  /\ pc' = "wr_open"
  /\ UNCHANGED <<disk, safeVars, lastRev, ret, opening, before>>

\* The copy loop: fwrite's result is dropped, so a short copy passes too.
BackupCopy ==
  /\ pc = "bk_copy"
  /\ \/ bak' = [bak EXCEPT ![m_path] = disk[m_path]]
     \/ /\ "bakwrite" \in Faults
        /\ UNCHANGED bak
  /\ pc' = "wr_open"
  /\ UNCHANGED <<disk, safeVars, lastRev, ret, opening, before>>

\* serializer->save opens the file "wb", which empties it.
WriteOpen ==
  /\ pc = "wr_open"
  /\ disk' = [disk EXCEPT ![m_path] = Written("none")]
  /\ pc' = "wr_body"
  /\ UNCHANGED <<bak, safeVars, lastRev, ret, opening, before>>

\* Mutant of SaveFails: setChanged(false) whatever the serializer answered.
SaveFails_MarksUnchanged(e) ==
  /\ pc' = "idle" /\ ret' = e /\ m_changed' = FALSE
  /\ before' = Absent
  /\ UNCHANGED <<disk, bak, m_path, m_type, doc, lastRev, opening>>

SaveFails(e) ==
  /\ pc' = "idle" /\ ret' = e
  /\ before' = Absent
  /\ UNCHANGED <<disk, bak, safeVars, lastRev, opening>>

WriteOpenFails ==
  pc = "wr_open" /\ "open" \in Faults /\ SaveFails("BadFile")

\* The file grows as the stdio buffers reach the disk.
WriteSome ==
  /\ pc = "wr_body"
  /\ \E q \in Torn : /\ Rank[q] > Rank[disk[m_path].part]
                     /\ disk' = [disk EXCEPT ![m_path] = Written(q)]
  /\ UNCHANGED <<bak, pc, safeVars, lastRev, ret, opening, before>>

\* writeEntry adds up what its writes report, and saveGroup of the Blowfish
\* formats answers IOError only when the sum is zero.
WriteFails ==
  /\ pc = "wr_body" /\ "entry" \in Faults
  /\ m_type \in {Blowfish, Blowfish2}
  /\ SaveFails("IOError")

SaveSucceeds ==
  /\ pc' = "idle" /\ ret' = "Success" /\ m_changed' = FALSE
  /\ before' = Absent
  /\ UNCHANGED <<bak, m_path, m_type, doc, lastRev, opening>>

WriteDone ==
  /\ pc = "wr_body"
  /\ disk' = [disk EXCEPT ![m_path] = Written("whole")]
  /\ SaveSucceeds

\* Part of the file is lost and the answer is Success all the same: the sum of
\* a torn last entry is not zero, the text formats look at no write, and nobody
\* looks at fclose, which flushes the last buffer.
WriteLost ==
  /\ pc = "wr_body"
  /\ \/ Faults \cap {"write", "flush"} # {}
     \/ "entry" \in Faults /\ m_type \in {PlainText, Xml}
  /\ SaveSucceeds
  /\ UNCHANGED disk

-----------------------------------------------------------------------------
\* PlainTextLizer::saveGroup ends each group when the item one past the last is
\* NULL; whatever else lies there is used as an item.
OverrunsList == pc = "wr_body" /\ m_type = PlainText

\* The process dies or is killed; a user kills one that hangs.
Crash == /\ pc # "down"
         /\ "crash" \in Faults \/ pc = "hung" \/ OverrunsList
         /\ Die
         /\ UNCHANGED <<disk, bak>>

Start == /\ pc = "down"
         /\ pc' = "none"
         /\ UNCHANGED <<disk, bak, safeVars, lastRev, opening, before>>
         /\ ret' = ""

\* The user, not the program, copies the backup over a torn file.
Restore(p) ==
  /\ pc \in {"down", "none"}
  /\ IsTorn(disk[p]) /\ bak[p].part = "whole"
  /\ disk' = [disk EXCEPT ![p] = bak[p]]
  /\ UNCHANGED <<bak, pc, safeVars, lastRev, opening, before>>
  /\ ret' = ""

\* What the program does by itself once a load or a save has begun.
LoadStep == LoadTry \/ LoadThrows
SaveStep == \/ BackupSkip \/ BackupOpen \/ BackupOpenFails \/ BackupCopy
            \/ WriteOpen \/ WriteOpenFails
            \/ WriteSome \/ WriteFails \/ WriteDone \/ WriteLost

User == \/ New \/ Edit \/ Close \/ Save \/ SaveAs \/ Start
        \/ \E p \in Paths : Restore(p) \/ \E t \in OpenTypes(p) : LoadBegin(p, t)

Next == User \/ LoadStep \/ SaveStep \/ Crash

Spec == Init /\ [][Next]_vars /\ WF_vars(LoadTry)

-----------------------------------------------------------------------------
\* What can be got back for a path: its file, else its backup.
Kept(p) == IF disk[p].part = "whole" THEN Stored(disk[p])
           ELSE IF bak[p].part = "whole" THEN Stored(bak[p])
           ELSE [rev |-> -1, intact |-> FALSE]

\* While a complete file is being saved over, that file, its backup or the
\* complete new file is on disk: a crash between any two steps of save leaves
\* one of them (the order makeBackup, fopen "wb", write of Safe::save).
OneGoodCopy ==
  pc \in Saving /\ before.part = "whole"
    => before \in {disk[m_path], bak[m_path]} \/ disk[m_path].part = "whole"

\* A safe that is not marked as changed can be closed without a question, so
\* what it holds must be on disk, in a file or in a backup, also after a save
\* that failed (m_path, m_type and m_changed in Safe::save).  It holds as long
\* as no save answers Success for a file it has lost part of (WriteLost).
CleanIsRecoverable ==
  pc \in Saving \cup {"idle"} /\ ~m_changed /\ doc.rev > 0
    => \E p \in Paths : Kept(p) = doc

\* A save that has written its file leaves the file it replaced, complete or
\* not, as the backup (Safe::makeBackup).
BackupIsPrevious ==
  [][pc = "wr_body" /\ pc' = "idle" /\ Exists(before)
       => bak'[m_path] = before]_vars

\* Save and load change what can be recovered only in the one step that
\* completes a save, and load gives what was saved (SafeStore).
KeptMap == [p \in Paths |-> Kept(p)]
Memory  == IF HasSafe THEN doc ELSE [rev |-> -2, intact |-> FALSE]
Store == INSTANCE SafeStore WITH kept <- KeptMap, memory <- Memory
StoreSpec == Store!Spec

\* The load of a complete file comes back with a result, whatever filter it is
\* opened with (the loop over getNextExt in Safe::load).
LoadReturns ==
  pc = "loading" /\ disk[opening.path].part = "whole"
    ~> pc \notin {"loading", "hung"}
=============================================================================
