-------------------------- MODULE SafeFile_proofs --------------------------
(***************************************************************************)
(* Proofs about SafeFile, for every set of names, extensions and revisions. *)
(***************************************************************************)
EXTENDS SafeFile, TLAPS

\* The scan of the registry stops at its first hit.
LEMMA FirstHit ==
  ASSUME NEW S, S \subseteq 1..4, S # {}
  PROVE  First(S) \in S
<1>1. \E i \in S : \A j \in S : i <= j
  <2>1. CASE 1 \in S BY <2>1
  <2>2. CASE 1 \notin S /\ 2 \in S BY <2>2
  <2>3. CASE 1 \notin S /\ 2 \notin S /\ 3 \in S BY <2>3
  <2>4. CASE 1 \notin S /\ 2 \notin S /\ 3 \notin S
    <3>1. \A j \in S : j = 4 BY <2>4
    <3>2. 4 \in S BY <3>1
    <3> QED BY <3>1, <3>2
  <2> QED BY <2>1, <2>2, <2>3, <2>4
<1> QED BY <1>1 DEF First

LEMMA RegistryFacts ==
  /\ DOMAIN Registry = 1..4
  /\ \A i \in 1..4 : Registry[i] \in Types
  /\ NULL \notin Types
BY DEF Registry, Types, NULL, PlainText, Blowfish, Blowfish2, Xml

\* A serializer that is found is one of the registry's.
LEMMA CreateSerializerType ==
  ASSUME NEW ext, NEW type
  PROVE  createSerializer(ext, type) \in Types \cup {NULL}
<1>1. createByExt(ext) \in Types \cup {NULL}
  <2> DEFINE hits == {i \in DOMAIN Registry : extension[Registry[i]] = ext}
  <2>1. hits # {} => First(hits) \in 1..4
    BY FirstHit, RegistryFacts
  <2> QED BY <2>1, RegistryFacts DEF createByExt
<1> QED BY <1>1 DEF createSerializer, createByName

LEMMA NextExtType ==
  ASSUME NEW s
  PROVE  getNextExt(s) \in Types \cup {NULL}
<1> DEFINE after == {i \in DOMAIN Registry :
                       \E j \in DOMAIN Registry : Registry[j] = s /\ i > j}
<1>1. after # {} => First(after) \in 1..4
  BY FirstHit, RegistryFacts
<1> QED BY <1>1, RegistryFacts DEF getNextExt

LEMMA CheckPasswordType ==
  ASSUME NEW s \in Types, NEW f
  PROVE  checkPassword(s, f) \in Errors
BY DEF checkPassword, Errors, Types, Xml, PlainText, Blowfish, Blowfish2

LEMMA Revisions ==
  /\ MaxRev \in Nat
  /\ 0 \in 0..MaxRev
  /\ 1 \in 0..MaxRev
  /\ \A r \in 0..MaxRev : r < MaxRev => r + 1 \in 0..MaxRev
BY MaxRevAssumption

LEMMA LoadErrorsType ==
  ASSUME NEW s \in Types, NEW f
  PROVE  loadErrors(s, f) \subseteq Errors \cup {"hang"}
BY CheckPasswordType
   DEF loadErrors, Errors, Types, Xml, PlainText, Blowfish, Blowfish2

LEMMA LoadedType ==
  ASSUME NEW s \in Types, NEW f \in Files
  PROVE  Loaded(s, f) \in Contents
<1>1. f.rev \in 0..MaxRev /\ f.intact \in BOOLEAN
  <2>1. CASE f = Absent
    BY <2>1, Revisions DEF Absent
  <2>2. CASE f # Absent
    BY <2>2 DEF Files
  <2> QED BY <2>1, <2>2
<1> QED BY <1>1 DEF Loaded, Contents

LEMMA WrittenType ==
  ASSUME TypeOK, m_type # "", NEW q \in Torn \cup {"whole"}
  PROVE  Written(q) \in Files
BY DEF TypeOK, Written, Files, Contents

\* No path of a safe is the empty path, no serializer the null pointer.
LEMMA NamesDiffer ==
  /\ NoPath \notin Paths
  /\ "" \notin Types
  /\ Absent \in Files
  /\ NotOpening \notin [path : Paths, ser : Types]
<1>1. NoPath \notin Paths
  BY StemsAssumption DEF NoPath, Paths
<1>2. "" \notin Types
  BY DEF Types, PlainText, Blowfish, Blowfish2, Xml
<1>3. Absent \in Files
  BY DEF Files
<1>4. NotOpening \notin [path : Paths, ser : Types]
  BY <1>1 DEF NotOpening
<1> QED BY <1>1, <1>2, <1>3, <1>4

-----------------------------------------------------------------------------
LEMMA TypeInit == Init => TypeOK
<1> SUFFICES ASSUME Init PROVE TypeOK
  OBVIOUS
<1>1. disk \in [Paths -> Files]
  <2>1. [fmt : Formats, rev : {1}, intact : {TRUE}, part : {"whole"}] \subseteq Files
    BY Revisions DEF Files, Formats
  <2> QED BY <2>1 DEF Init, Files
<1>2. bak \in [Paths -> Files]
  BY NamesDiffer DEF Init
<1>3. doc \in Contents /\ lastRev \in 0..MaxRev
  BY Revisions DEF Init, Contents
<1> QED BY <1>1, <1>2, <1>3, NamesDiffer DEF Init, TypeOK, Saving

LEMMA TypeLoadBegin ==
  ASSUME TypeOK, NEW p \in Paths, NEW t, LoadBegin(p, t)
  PROVE  TypeOK'
<1> DEFINE s == createSerializer(p[2], t)
           check == IF ~Exists(disk[p]) THEN "BadFile"
                    ELSE IF s = NULL THEN "BadFormat"
                    ELSE checkPassword(s, disk[p])
<1>1. s \in Types \cup {NULL}
  BY CreateSerializerType
<1>2. check \in Errors
  BY <1>1, CheckPasswordType DEF Errors
<1>3. check = "Success" => s \in Types
  BY <1>1, RegistryFacts
<1> HIDE DEF s, check
<1>4. CASE check = "Success"
  <2>1. opening' \in [path : Paths, ser : Types] /\ pc' = "loading" /\ ret' = ""
    <3> USE DEF s, check
    <3>1. opening' = [path |-> p, ser |-> s] /\ pc' = "loading" /\ ret' = ""
      BY <1>4 DEF LoadBegin
    <3>2. s \in Types
      BY <1>3, <1>4
    <3> QED BY <3>1, <3>2
  <2> QED BY <2>1, NamesDiffer DEF LoadBegin, TypeOK, safeVars, Saving
<1>5. CASE check # "Success"
  <2>1. pc' = pc /\ opening' = opening /\ ret' \in Errors
    BY <1>2, <1>5 DEF LoadBegin, s, check
  <2> QED BY <2>1 DEF LoadBegin, TypeOK, safeVars
<1> QED BY <1>4, <1>5

LEMMA TypeLoadTry ==
  ASSUME TypeOK, LoadTry
  PROVE  TypeOK'
<1> DEFINE p == opening.path
           s == opening.ser
<1>1. pc = "loading" /\ p \in Paths /\ s \in Types /\ disk[p] \in Files
  BY NamesDiffer DEF LoadTry, TypeOK
<1>2. PICK e \in loadErrors(s, disk[p]) :
           \/ /\ e = "Success"
              /\ pc' = "idle" /\ ret' = "Success"
              /\ m_path' = p /\ m_type' = s /\ m_changed' = FALSE
              /\ doc' = Loaded(s, disk[p])
              /\ opening' = NotOpening
           \/ /\ e = "BadFormat" /\ getNextExt(s) # NULL
              /\ opening' = [opening EXCEPT !.ser = getNextExt(s)]
              /\ UNCHANGED <<pc, ret, safeVars>>
           \/ /\ e = "BadFormat" => getNextExt(s) = NULL
              /\ e \in Errors \ {"Success"}
              /\ pc' = "none" /\ ret' = e
              /\ opening' = NotOpening
              /\ UNCHANGED safeVars
           \/ /\ e = "hang"
              /\ pc' = "hung"
              /\ UNCHANGED <<opening, ret, safeVars>>
  BY DEF LoadTry
<1>3. UNCHANGED <<disk, bak, lastRev, before>>
  BY DEF LoadTry
<1>4. CASE e = "Success"
  BY <1>1, <1>2, <1>3, <1>4, LoadedType DEF TypeOK, Errors, Saving
<1>5. CASE e = "BadFormat" /\ getNextExt(s) # NULL
  <2>1. opening' \in [path : Paths, ser : Types]
    BY <1>1, <1>2, <1>5, NextExtType, NamesDiffer DEF TypeOK
  <2>2. UNCHANGED <<pc, ret, safeVars>>
    BY <1>2, <1>5
  <2> QED BY <2>1, <2>2, <1>3, NamesDiffer DEF TypeOK, safeVars
<1>6. CASE (e = "BadFormat" => getNextExt(s) = NULL) /\ e \in Errors \ {"Success"}
  BY <1>2, <1>3, <1>6 DEF TypeOK, safeVars, Saving, Errors
<1>7. CASE e = "hang"
  BY <1>2, <1>3, <1>7 DEF TypeOK, safeVars, Saving, Errors
<1> QED BY <1>2, <1>4, <1>5, <1>6, <1>7

LEMMA TypeSaveBegin ==
  ASSUME TypeOK, NEW p, NEW t, SaveBegin(p, t)
  PROVE  TypeOK'
<1> DEFINE s == createSerializer(p[2], t)
<1>1. s \in Types \cup {NULL}
  BY CreateSerializerType
<1>2. CASE s = NULL
  BY <1>2 DEF SaveBegin, TypeOK, Errors, Saving
<1>3. CASE s # NULL
  <2>1. /\ m_path' \in Paths /\ m_type' \in Types
        /\ pc' = "bk_open" /\ ret' = "" /\ before' \in Files
    BY <1>1, <1>3 DEF SaveBegin, TypeOK
  <2> QED BY <2>1, NamesDiffer DEF SaveBegin, TypeOK, Saving
<1> QED BY <1>2, <1>3

LEMMA TypeSaveStep ==
  ASSUME TypeOK, SaveStep
  PROVE  TypeOK'
<1>1. CASE BackupSkip
  BY <1>1 DEF BackupSkip, TypeOK, safeVars, Saving
<1>2. CASE BackupOpen
  <2>1. disk[m_path] \in Files /\ disk[m_path] # Absent
    <3>1. disk[m_path] \in Files
      BY <1>2 DEF BackupOpen, TypeOK, Saving
    <3>2. disk[m_path].part # "absent" /\ Absent.part = "absent"
      BY <1>2 DEF BackupOpen, Exists, Absent
    <3> QED BY <3>1, <3>2
  <2>2. [disk[m_path] EXCEPT !.part = "none"] \in Files
    BY <2>1 DEF Files, Torn
  <2> QED BY <2>2, <1>2 DEF BackupOpen, TypeOK, safeVars, Saving
<1>3. CASE BackupOpenFails
  BY <1>3, NamesDiffer, Revisions
     DEF BackupOpenFails, Die, TypeOK, Saving, Contents
<1>4. CASE BackupCopy
  <2>1. bak' \in [Paths -> Files]
    BY <1>4 DEF BackupCopy, TypeOK, Saving
  <2> QED BY <2>1, <1>4 DEF BackupCopy, TypeOK, safeVars, Saving
<1>5. CASE WriteOpen
  <2>1. Written("none") \in Files
    BY <1>5, WrittenType DEF WriteOpen, TypeOK, Saving, Torn
  <2> QED BY <2>1, <1>5 DEF WriteOpen, TypeOK, safeVars, Saving
<1>6. CASE WriteOpenFails \/ WriteFails
  BY <1>6, NamesDiffer
     DEF WriteOpenFails, WriteFails, SaveFails, TypeOK, safeVars, Saving, Errors
<1>7. CASE WriteSome
  <2>1. \A q \in Torn : Written(q) \in Files
    BY <1>7, WrittenType DEF WriteSome, TypeOK, Saving
  <2>2. disk' \in [Paths -> Files]
    BY <2>1, <1>7 DEF WriteSome, TypeOK
  <2> QED BY <2>2, <1>7 DEF WriteSome, TypeOK, safeVars
<1>8. CASE WriteDone
  <2>1. Written("whole") \in Files
    BY <1>8, WrittenType DEF WriteDone, TypeOK, Saving
  <2> QED BY <2>1, <1>8, NamesDiffer
          DEF WriteDone, SaveSucceeds, TypeOK, Saving, Errors
<1>9. CASE WriteLost
  BY <1>9, NamesDiffer DEF WriteLost, SaveSucceeds, TypeOK, Saving, Errors
<1> QED BY <1>1, <1>2, <1>3, <1>4, <1>5, <1>6, <1>7, <1>8, <1>9 DEF SaveStep

LEMMA TypeUser ==
  ASSUME TypeOK, User
  PROVE  TypeOK'
<1>1. CASE New
  BY <1>1, Revisions DEF New, TypeOK, Contents, Saving
<1>2. CASE Edit
  <2>1. lastRev + 1 \in 0..MaxRev
    BY <1>2, Revisions DEF Edit, TypeOK
  <2>2. doc' \in Contents /\ lastRev' \in 0..MaxRev
    BY <2>1, <1>2 DEF Edit, TypeOK, Contents
  <2> QED BY <2>2, <1>2 DEF Edit, TypeOK
<1>3. CASE Close
  BY <1>3 DEF Close, TypeOK, safeVars, Saving
<1>4. CASE Save
  <2>1. CASE m_path # NoPath
    BY <2>1, <1>4, TypeSaveBegin DEF Save
  <2>2. CASE m_path = NoPath
    BY <2>2, <1>4 DEF Save, TypeOK, safeVars, Errors
  <2> QED BY <2>1, <2>2
<1>5. CASE SaveAs
  BY <1>5, TypeSaveBegin DEF SaveAs
<1>6. CASE Start
  BY <1>6 DEF Start, TypeOK, safeVars, Saving
<1>7. ASSUME NEW p \in Paths, Restore(p)
      PROVE  TypeOK'
  BY <1>7 DEF Restore, TypeOK, safeVars, Saving
<1>8. ASSUME NEW p \in Paths, NEW t \in OpenTypes(p), LoadBegin(p, t)
      PROVE  TypeOK'
  BY <1>8, TypeLoadBegin
<1> QED BY <1>1, <1>2, <1>3, <1>4, <1>5, <1>6, <1>7, <1>8 DEF User

LEMMA TypeNext == TypeOK /\ [Next]_vars => TypeOK'
<1> SUFFICES ASSUME TypeOK, [Next]_vars PROVE TypeOK'
  OBVIOUS
<1>1. CASE User BY <1>1, TypeUser
<1>2. CASE LoadTry BY <1>2, TypeLoadTry
<1>3. CASE LoadThrows
  BY <1>3 DEF LoadThrows, TypeOK, safeVars, Saving, Errors
<1>4. CASE SaveStep BY <1>4, TypeSaveStep
<1>5. CASE Crash
  BY <1>5, NamesDiffer, Revisions
     DEF Crash, Die, TypeOK, Contents, Saving
<1>6. CASE UNCHANGED vars
  BY <1>6 DEF vars, TypeOK
<1> QED BY <1>1, <1>2, <1>3, <1>4, <1>5, <1>6 DEF Next, LoadStep

\* Every variable keeps its type, and a save always has a path and a serializer
\* (TypeOK): whatever fails, and whatever the user picks.
THEOREM TypeCorrect == Spec => []TypeOK
BY TypeInit, TypeNext, PTL DEF Spec

-----------------------------------------------------------------------------
(***************************************************************************)
(* A complete copy survives a save.  While the backup is being made the    *)
(* file is still the one the save found; from then on the backup is.       *)
(***************************************************************************)
BackupsWork == Faults \cap {"bakread", "bakwrite"} = {}

BackupInv ==
  /\ pc \in {"bk_open", "bk_copy", "wr_open"} => disk[m_path] = before
  /\ pc = "bk_copy" => Exists(before)
  /\ pc \in {"wr_open", "wr_body"} /\ Exists(before) => bak[m_path] = before

LEMMA BackupSaveStep ==
  ASSUME BackupsWork, TypeOK, BackupInv, SaveStep
  PROVE  BackupInv'
<1>1. CASE BackupSkip
  BY <1>1 DEF BackupsWork, BackupInv, BackupSkip, safeVars
<1>2. CASE BackupOpen
  BY <1>2 DEF BackupInv, BackupOpen, safeVars
<1>3. CASE BackupOpenFails
  BY <1>3 DEF BackupInv, BackupOpenFails, Die
<1>4. CASE BackupCopy
  <2>1. bak'[m_path] = disk[m_path]
    BY <1>4 DEF BackupCopy, BackupsWork, TypeOK, Saving
  <2> QED BY <2>1, <1>4 DEF BackupInv, BackupCopy, safeVars
<1>5. CASE WriteOpen
  BY <1>5 DEF BackupInv, WriteOpen, safeVars
<1>6. CASE WriteSome
  BY <1>6 DEF BackupInv, WriteSome, safeVars
<1>7. CASE WriteOpenFails \/ WriteFails \/ WriteDone \/ WriteLost
  BY <1>7 DEF BackupInv, WriteOpenFails, WriteFails, WriteDone, WriteLost,
              SaveFails, SaveSucceeds
<1> QED BY <1>1, <1>2, <1>3, <1>4, <1>5, <1>6, <1>7 DEF SaveStep

LEMMA BackupSaveBegin ==
  ASSUME BackupInv, NEW p, NEW t, SaveBegin(p, t)
  PROVE  BackupInv'
<1> DEFINE s == createSerializer(p[2], t)
<1>1. CASE s = NULL
  BY <1>1 DEF SaveBegin, BackupInv
<1>2. CASE s # NULL
  BY <1>2 DEF SaveBegin, BackupInv
<1> QED BY <1>1, <1>2

LEMMA BackupNext ==
  ASSUME BackupsWork
  PROVE  TypeOK /\ BackupInv /\ [Next]_vars => BackupInv'
<1> SUFFICES ASSUME TypeOK, BackupInv, [Next]_vars PROVE BackupInv'
  OBVIOUS
<1>1. CASE SaveStep BY <1>1, BackupSaveStep
<1>2. CASE SaveAs BY <1>2, BackupSaveBegin DEF SaveAs
<1>3. CASE Save
  <2>1. CASE m_path # NoPath BY <2>1, <1>3, BackupSaveBegin DEF Save
  <2>2. CASE m_path = NoPath BY <2>2, <1>3 DEF Save, BackupInv, safeVars
  <2> QED BY <2>1, <2>2
<1>4. CASE New \/ Edit \/ Close \/ Start
  BY <1>4 DEF New, Edit, Close, Start, BackupInv
<1>5. ASSUME NEW p \in Paths, Restore(p)
      PROVE  BackupInv'
  BY <1>5 DEF Restore, BackupInv
<1>6. ASSUME NEW p \in Paths, NEW t \in OpenTypes(p), LoadBegin(p, t)
      PROVE  BackupInv'
  BY <1>6 DEF LoadBegin, BackupInv
<1>7. CASE LoadStep
  BY <1>7 DEF LoadStep, LoadTry, LoadThrows, BackupInv
<1>8. CASE Crash BY <1>8 DEF Crash, Die, BackupInv
<1>9. CASE UNCHANGED vars BY <1>9 DEF vars, BackupInv, Exists
<1> QED BY <1>1, <1>2, <1>3, <1>4, <1>5, <1>6, <1>7, <1>8, <1>9 DEF Next, User

\* When backups can be made, a crash at any step of any save leaves the complete
\* old file, its backup or the complete new file (OneGoodCopy), whatever else
\* fails.
THEOREM CopySurvives ==
  ASSUME BackupsWork
  PROVE  Spec => []OneGoodCopy
<1>1. Init => BackupInv
  BY DEF Init, BackupInv
<1>2. TypeOK /\ BackupInv => OneGoodCopy
  <2> SUFFICES ASSUME BackupInv, pc \in Saving, before.part = "whole"
               PROVE  before \in {disk[m_path], bak[m_path]}
    BY DEF OneGoodCopy
  <2> QED BY DEF BackupInv, Saving, Exists
<1> QED BY <1>1, <1>2, BackupNext, TypeCorrect, PTL DEF Spec

\* Under the same assumption the backup a finished save leaves is the file it
\* replaced, complete or not (BackupIsPrevious): nothing writes to the backup, and
\* the save does not change the path, once the file has been truncated.
THEOREM SaveLeavesBackup ==
  ASSUME BackupsWork
  PROVE  Spec => BackupIsPrevious
<1>1. Init => BackupInv
  BY DEF Init, BackupInv
<1>2. ASSUME BackupInv, [Next]_vars, pc = "wr_body", pc' = "idle", Exists(before)
      PROVE  bak'[m_path] = before
  <2>1. bak[m_path] = before
    BY <1>2 DEF BackupInv
  <2>2. CASE SaveStep
    BY <1>2, <2>1, <2>2
       DEF SaveStep, BackupSkip, BackupOpen, BackupOpenFails, BackupCopy, WriteOpen,
           WriteOpenFails, WriteSome, WriteDone, WriteFails, WriteLost, SaveFails, SaveSucceeds
  <2>3. CASE ~SaveStep
    BY <1>2, <2>3
       DEF Next, User, LoadStep, New, Edit, Close, Start, Restore, LoadBegin, LoadTry, LoadThrows,
           Save, SaveAs, SaveBegin, Crash, Die, vars
  <2> QED BY <2>2, <2>3
<1> QED BY <1>1, <1>2, BackupNext, TypeCorrect, PTL DEF Spec, BackupIsPrevious

-----------------------------------------------------------------------------
(***************************************************************************)
(* SafeFile implements SafeStore.  Besides BackupInv the argument needs    *)
(* that a save never begins on a torn file, and that load is only ever     *)
(* trying the file's own serializer, or the version 2 one on a version 1   *)
(* file, which answers BadFormat.                                          *)
(***************************************************************************)
CarefulUser == Faults \cap {"reuse", "wrongtype"} = {}

StoreInv ==
  /\ pc \in {"bk_open", "bk_copy", "wr_open"} => ~IsTorn(disk[m_path])
  /\ pc = "wr_body" => disk[m_path].part # "whole"
  /\ pc = "loading" =>
       LET f == disk[opening.path]
       IN  /\ f.part = "whole"
           /\ \/ opening.ser = f.fmt
              \/ opening.ser = Blowfish2 /\ f.fmt = Blowfish

LEMMA CheckPasswordNotBadFormat ==
  ASSUME NEW s, NEW f
  PROVE  checkPassword(s, f) # "BadFormat"
BY DEF checkPassword, Xml, PlainText

\* The extension of a path leads to the first serializer that has it.
LEMMA ByExt ==
  ASSUME NEW ext \in AllExts
  PROVE  createByExt(ext) = CASE ext = "txt" -> PlainText
                              [] ext = "xml" -> Xml
                              [] ext = "dat" -> Blowfish2
<1> DEFINE hits == {i \in DOMAIN Registry : extension[Registry[i]] = ext}
<1>1. /\ Registry[1] = PlainText /\ Registry[2] = Blowfish2
      /\ Registry[3] = Blowfish /\ Registry[4] = Xml
  BY DEF Registry
<1>2. /\ extension[PlainText] = "txt" /\ extension[Xml] = "xml"
      /\ extension[Blowfish] = "dat" /\ extension[Blowfish2] = "dat"
  BY DEF extension, Types, PlainText, Xml, Blowfish, Blowfish2
<1>3. CASE ext = "txt"
  <2>1. hits = {1}
    BY <1>1, <1>2, <1>3, RegistryFacts
  <2>2. First(hits) = 1
    BY <2>1, FirstHit
  <2> QED BY <2>1, <2>2, <1>1, <1>3 DEF createByExt
<1>4. CASE ext = "xml"
  <2>1. hits = {4}
    BY <1>1, <1>2, <1>4, RegistryFacts
  <2>2. First(hits) = 4
    BY <2>1, FirstHit
  <2> QED BY <2>1, <2>2, <1>1, <1>4 DEF createByExt
<1>5. CASE ext = "dat"
  <2>1. hits = {2, 3}
    BY <1>1, <1>2, <1>5, RegistryFacts
  <2>2. First(hits) = 2
    BY <2>1 DEF First
  <2> QED BY <2>1, <2>2, <1>1, <1>5 DEF createByExt
<1> QED BY <1>3, <1>4, <1>5 DEF AllExts

\* After BadFormat on a version 1 file comes the version 1 serializer.
LEMMA NextAfterBlowfish2 == getNextExt(Blowfish2) = Blowfish
<1> DEFINE after == {i \in DOMAIN Registry :
                       \E j \in DOMAIN Registry : Registry[j] = Blowfish2 /\ i > j}
<1>1. /\ Registry[1] = PlainText /\ Registry[2] = Blowfish2
      /\ Registry[3] = Blowfish /\ Registry[4] = Xml
  BY DEF Registry
<1>2. \A j \in 1..4 : Registry[j] = Blowfish2 <=> j = 2
  <2>1. \A j \in 1..4 : j = 1 \/ j = 2 \/ j = 3 \/ j = 4
    OBVIOUS
  <2>2. /\ PlainText # Blowfish2 /\ Blowfish # Blowfish2 /\ Xml # Blowfish2
    BY DEF PlainText, Xml, Blowfish, Blowfish2
  <2> QED BY <1>1, <2>1, <2>2
<1>3. after = {3, 4}
  BY <1>2, RegistryFacts
<1>4. First(after) = 3
  BY <1>3 DEF First
<1> QED BY <1>1, <1>3, <1>4 DEF getNextExt

LEMMA StoreLoadBegin ==
  ASSUME CarefulUser, TypeOK, StoreInv,
         NEW p \in Paths, NEW t \in OpenTypes(p), LoadBegin(p, t)
  PROVE  StoreInv'
<1> DEFINE s == createSerializer(p[2], t)
           f == disk[p]
<1>1. CASE pc' = "loading"
  <2>1. /\ pc = "none" /\ Usable(p) /\ Exists(f) /\ s # NULL
        /\ checkPassword(s, f) = "Success"
        /\ opening' = [path |-> p, ser |-> s] /\ disk' = disk
    BY <1>1 DEF LoadBegin
  <2>2. f \in Files /\ f # Absent /\ f.part = "whole" /\ f.fmt \in Types
    <3>1. f \in Files /\ f.part # "absent" /\ ~IsTorn(f)
      BY <2>1 DEF TypeOK, Exists, Usable, CarefulUser
    <3>2. f # Absent
      BY <3>1 DEF Absent
    <3> QED BY <3>1, <3>2 DEF Files, IsTorn
  <2>3. s = f.fmt \/ (s = Blowfish2 /\ f.fmt = Blowfish)
    <3>1. CASE t = f.fmt
      <4>1. s = f.fmt
        BY <3>1, <2>2, NamesDiffer DEF createSerializer, createByName
      <4> QED BY <4>1
    <3>2. CASE t # f.fmt
      <4>1. t = ""
        BY <3>2 DEF OpenTypes, CarefulUser
      <4>2. p[2] \in AllExts /\ p[2] # ""
        BY ExtsAssumption DEF Paths, AllExts
      <4>3. s = createByExt(p[2])
        BY <4>1, <4>2 DEF createSerializer
      <4>4. s \in {PlainText, Xml, Blowfish2}
        BY <4>2, <4>3, ByExt DEF AllExts
      <4> QED BY <4>4, <2>1, <2>2
              DEF checkPassword, Types, PlainText, Xml, Blowfish, Blowfish2
    <3> QED BY <3>1, <3>2
  <2> QED BY <1>1, <2>1, <2>2, <2>3 DEF StoreInv
<1>2. CASE pc' # "loading"
  <2>1. pc = "none" /\ pc' = pc
    BY <1>2 DEF LoadBegin
  <2> QED BY <2>1 DEF StoreInv
<1> QED BY <1>1, <1>2

\* What a careful load can do: answer Success with the whole file, pass on from
\* the version 2 to the version 1 serializer, or fail.
LEMMA CarefulLoadTry ==
  ASSUME TypeOK, StoreInv, LoadTry
  PROVE  LET f == disk[opening.path] IN
         \/ /\ pc' = "idle" /\ doc' = Stored(f)
            /\ f.part = "whole" /\ opening.path \in Paths
         \/ /\ pc' = "loading" /\ doc' = doc
            /\ opening' = [path |-> opening.path, ser |-> Blowfish]
            /\ f.fmt = Blowfish
         \/ /\ pc' \in {"none", "hung"} /\ doc' = doc
<1> DEFINE p == opening.path
           s == opening.ser
           f == disk[p]
<1>1. pc = "loading" /\ p \in Paths /\ s \in Types /\ f \in Files
  BY NamesDiffer DEF LoadTry, TypeOK
<1>2. f.part = "whole" /\ (s = f.fmt \/ (s = Blowfish2 /\ f.fmt = Blowfish))
  BY <1>1 DEF StoreInv
<1>3. PICK e \in loadErrors(s, f) :
           \/ /\ e = "Success"
              /\ pc' = "idle" /\ ret' = "Success"
              /\ m_path' = p /\ m_type' = s /\ m_changed' = FALSE
              /\ doc' = Loaded(s, f)
              /\ opening' = NotOpening
           \/ /\ e = "BadFormat" /\ getNextExt(s) # NULL
              /\ opening' = [opening EXCEPT !.ser = getNextExt(s)]
              /\ UNCHANGED <<pc, ret, safeVars>>
           \/ /\ e = "BadFormat" => getNextExt(s) = NULL
              /\ e \in Errors \ {"Success"}
              /\ pc' = "none" /\ ret' = e
              /\ opening' = NotOpening
              /\ UNCHANGED safeVars
           \/ /\ e = "hang"
              /\ pc' = "hung"
              /\ UNCHANGED <<opening, ret, safeVars>>
  BY DEF LoadTry
<1>4. e = "Success" => s = f.fmt
  BY <1>2, <1>3 DEF loadErrors, PlainText, Xml, Blowfish, Blowfish2
<1>5. e = "BadFormat" => s = Blowfish2 /\ f.fmt = Blowfish
  BY <1>1, <1>2, <1>3, CheckPasswordNotBadFormat
     DEF loadErrors, Types, PlainText, Xml, Blowfish, Blowfish2
<1>6. CASE e = "Success"
  <2>1. doc' = Loaded(s, f) /\ pc' = "idle"
    BY <1>3, <1>6
  <2>2. f.intact \in BOOLEAN
    <3>1. CASE f = Absent BY <3>1 DEF Absent
    <3>2. CASE f # Absent BY <1>1, <3>2 DEF Files
    <3> QED BY <3>1, <3>2
  <2>3. Loaded(s, f) = Stored(f)
    BY <1>2, <1>4, <1>6, <2>2 DEF Loaded, Stored
  <2> QED BY <2>1, <2>3, <1>1, <1>2
<1>7. CASE e = "BadFormat" /\ getNextExt(s) # NULL
  <2>1. pc' = pc /\ doc' = doc /\ opening' = [opening EXCEPT !.ser = getNextExt(s)]
    BY <1>3, <1>7 DEF safeVars
  <2>2. getNextExt(s) = Blowfish
    BY <1>5, <1>7, NextAfterBlowfish2
  <2>3. opening \in [path : Paths, ser : Types]
    BY <1>1, NamesDiffer DEF TypeOK
  <2> QED BY <2>1, <2>2, <2>3, <1>1, <1>5, <1>7
<1>8. CASE ~(e = "Success") /\ ~(e = "BadFormat" /\ getNextExt(s) # NULL)
  BY <1>3, <1>8 DEF safeVars
<1> QED BY <1>6, <1>7, <1>8

LEMMA StoreInvNext ==
  ASSUME BackupsWork, CarefulUser
  PROVE  TypeOK /\ StoreInv /\ [Next]_vars => StoreInv'
<1> SUFFICES ASSUME TypeOK, StoreInv, [Next]_vars PROVE StoreInv'
  OBVIOUS
<1>1. CASE BackupSkip \/ BackupOpen \/ BackupOpenFails \/ BackupCopy
  BY <1>1 DEF BackupSkip, BackupOpen, BackupOpenFails, BackupCopy, Die, StoreInv,
              IsTorn, safeVars
<1>2. CASE WriteOpen
  <2>1. m_path \in Paths /\ m_path' = m_path /\ pc' = "wr_body"
    BY <1>2 DEF WriteOpen, TypeOK, Saving, safeVars
  <2>2. disk'[m_path].part = "none"
    BY <1>2, <2>1 DEF WriteOpen, TypeOK, Written
  <2> QED BY <2>1, <2>2 DEF StoreInv
<1>3. CASE WriteSome
  <2>1. m_path \in Paths /\ m_path' = m_path /\ pc' = "wr_body"
    BY <1>3 DEF WriteSome, TypeOK, Saving, safeVars
  <2>2. disk'[m_path].part # "whole"
    <3>1. PICK q \in Torn : disk' = [disk EXCEPT ![m_path] = Written(q)]
      BY <1>3 DEF WriteSome
    <3>2. disk'[m_path].part = q
      BY <2>1, <3>1 DEF TypeOK, Written
    <3> QED BY <3>2 DEF Torn
  <2> QED BY <2>1, <2>2 DEF StoreInv
<1>4. CASE WriteOpenFails \/ WriteFails \/ WriteDone \/ WriteLost
  BY <1>4 DEF WriteOpenFails, WriteFails, WriteDone, WriteLost, SaveFails,
              SaveSucceeds, StoreInv
<1>5. ASSUME NEW p, NEW t, SaveBegin(p, t)
      PROVE  StoreInv'
  <2> DEFINE s == createSerializer(p[2], t)
  <2>1. CASE s = NULL BY <1>5, <2>1 DEF SaveBegin, StoreInv
  <2>2. CASE s # NULL
    <3>1. /\ m_path' = FullPath(p, s) /\ Usable(FullPath(p, s))
          /\ pc' = "bk_open" /\ disk' = disk
      BY <1>5, <2>2 DEF SaveBegin
    <3>2. ~IsTorn(disk'[m_path'])
      BY <3>1 DEF Usable, CarefulUser
    <3> QED BY <3>1, <3>2 DEF StoreInv, IsTorn
  <2> QED BY <2>1, <2>2
<1>6. CASE Save
  <2>1. CASE m_path # NoPath BY <2>1, <1>5, <1>6 DEF Save
  <2>2. CASE m_path = NoPath BY <2>2, <1>6 DEF Save, StoreInv, safeVars
  <2> QED BY <2>1, <2>2
<1>7. CASE SaveAs BY <1>5, <1>7 DEF SaveAs
<1>8. CASE New \/ Edit \/ Close \/ Start
  BY <1>8 DEF New, Edit, Close, Start, StoreInv
<1>9. ASSUME NEW p \in Paths, Restore(p)
      PROVE  StoreInv'
  BY <1>9 DEF Restore, StoreInv
<1>10. ASSUME NEW p \in Paths, NEW t \in OpenTypes(p), LoadBegin(p, t)
       PROVE  StoreInv'
  BY <1>10, StoreLoadBegin
<1>11. CASE LoadTry
  <2>1. disk' = disk
    BY <1>11 DEF LoadTry
  <2>2. disk[opening.path].part = "whole"
    BY <1>11 DEF StoreInv, LoadTry
  <2> QED BY <1>11, <2>1, <2>2, CarefulLoadTry DEF StoreInv
<1>12. CASE LoadThrows \/ Crash
  BY <1>12 DEF LoadThrows, Crash, Die, StoreInv
<1>13. CASE UNCHANGED vars
  BY <1>13 DEF vars, StoreInv, IsTorn
<1> QED BY <1>1, <1>2, <1>3, <1>4, <1>6, <1>7, <1>8, <1>9, <1>10, <1>11, <1>12, <1>13
        DEF Next, User, LoadStep, SaveStep

-----------------------------------------------------------------------------
LEMMA KeptUnchanged ==
  ASSUME UNCHANGED <<disk, bak>>
  PROVE  KeptMap' = KeptMap
BY DEF KeptMap, Kept

LEMMA FileRev ==
  ASSUME TypeOK, NEW p \in Paths
  PROVE  disk[p].rev \in 0..MaxRev
<1>1. CASE disk[p] = Absent BY <1>1, Revisions DEF Absent
<1>2. CASE disk[p] # Absent BY <1>2 DEF TypeOK, Files
<1> QED BY <1>1, <1>2

\* A doc in memory is never the abstract specification's NoDoc.
LEMMA DocIsContent ==
  ASSUME TypeOK
  PROVE  HasSafe => Memory = doc /\ Memory # [rev |-> -2, intact |-> FALSE]
<1>1. doc.rev # -2
  <2>1. doc.rev \in 0..MaxRev BY DEF TypeOK, Contents
  <2> QED BY <2>1, Revisions
<1> QED BY <1>1 DEF Memory

\* The steps of a save before its last one leave what is kept as it was.
LEMMA SaveStepKeeps ==
  ASSUME BackupsWork, CarefulUser, TypeOK, BackupInv, StoreInv,
         BackupSkip \/ BackupOpen \/ BackupCopy \/ WriteOpen \/ WriteSome
  PROVE  KeptMap' = KeptMap /\ Memory' = Memory
<1>1. m_path \in Paths
  BY DEF TypeOK, Saving, BackupSkip, BackupOpen, BackupCopy, WriteOpen, WriteSome
<1>2. Memory' = Memory
  BY DEF Memory, HasSafe, Saving, safeVars,
         BackupSkip, BackupOpen, BackupCopy, WriteOpen, WriteSome
<1>3. CASE BackupSkip
  BY <1>2, <1>3, KeptUnchanged DEF BackupSkip
<1>4. CASE BackupOpen \/ BackupCopy
  <2>1. disk' = disk /\ \A p \in Paths : p # m_path => bak'[p] = bak[p]
    BY <1>4 DEF BackupOpen, BackupCopy, TypeOK
  <2>2. disk[m_path].part = "whole"
    <3>1. disk[m_path] = before /\ ~IsTorn(disk[m_path])
      BY <1>4 DEF BackupOpen, BackupCopy, BackupInv, StoreInv
    <3>2. Exists(disk[m_path])
      BY <1>4, <3>1 DEF BackupOpen, BackupCopy, BackupInv
    <3>3. disk[m_path] \in Files /\ Absent.part = "absent"
      BY <1>1 DEF TypeOK, Absent
    <3> QED BY <3>1, <3>2, <3>3 DEF Files, IsTorn, Exists
  <2>3. \A p \in Paths : Kept(p)' = Kept(p)
    BY <2>1, <2>2 DEF Kept
  <2> QED BY <1>2, <2>3 DEF KeptMap
<1>5. CASE WriteOpen
  <2>1. \A p \in Paths : p # m_path => disk'[p] = disk[p]
    BY <1>5 DEF WriteOpen, TypeOK
  <2>2. bak' = bak /\ disk'[m_path].part = "none"
    BY <1>1, <1>5 DEF WriteOpen, TypeOK, Written
  <2>3. disk[m_path] = before /\ (Exists(before) => bak[m_path] = before)
    BY <1>5 DEF WriteOpen, BackupInv
  <2>4. before.part = "whole" => Exists(before)
    BY DEF Exists
  <2>5. \A p \in Paths : Kept(p)' = Kept(p)
    BY <2>1, <2>2, <2>3, <2>4 DEF Kept
  <2> QED BY <1>2, <2>5 DEF KeptMap
<1>6. CASE WriteSome
  <2>1. bak' = bak /\ \A p \in Paths : p # m_path => disk'[p] = disk[p]
    BY <1>6 DEF WriteSome, TypeOK
  <2>2. disk[m_path].part # "whole" /\ disk'[m_path].part # "whole"
    <3>1. PICK q \in Torn : disk' = [disk EXCEPT ![m_path] = Written(q)]
      BY <1>6 DEF WriteSome
    <3>2. disk'[m_path].part = q
      BY <1>1, <3>1 DEF TypeOK, Written
    <3> QED BY <1>6, <3>2 DEF Torn, WriteSome, StoreInv
  <2>3. \A p \in Paths : Kept(p)' = Kept(p)
    BY <2>1, <2>2 DEF Kept
  <2> QED BY <1>2, <2>3 DEF KeptMap
<1> QED BY <1>3, <1>4, <1>5, <1>6

LEMMA StoreInit == Init => Store!Init
<1> SUFFICES ASSUME Init PROVE Store!Init
  OBVIOUS
<1>1. Memory = [rev |-> -2, intact |-> FALSE]
  BY DEF Init, Memory, HasSafe, Saving
<1>2. \A p \in Paths : Kept(p) \in Contents \cup {[rev |-> -1, intact |-> FALSE]}
  <2> SUFFICES ASSUME NEW p \in Paths, Kept(p) # [rev |-> -1, intact |-> FALSE]
               PROVE  Kept(p) \in Contents
    OBVIOUS
  <2>1. bak[p].part # "whole"
    BY DEF Init, Absent
  <2>2. disk[p].part = "whole" /\ Kept(p) = Stored(disk[p])
    BY <2>1 DEF Kept
  <2>3. disk[p].rev = 1 /\ disk[p].intact = TRUE
    <3>1. disk[p] # Absent
      BY <2>2 DEF Absent
    <3> QED BY <3>1 DEF Init
  <2>4. Kept(p) = [rev |-> 1, intact |-> TRUE]
    BY <2>2, <2>3 DEF Stored
  <2> QED BY <2>4, Revisions DEF Contents
<1> QED BY <1>1, <1>2
        DEF Store!Init, Store!Contents, Store!Nothing, Store!NoDoc, Contents, KeptMap

LEMMA StoreStep ==
  ASSUME BackupsWork, CarefulUser,
         TypeOK, BackupInv, StoreInv, [Next]_vars
  PROVE  [Store!Next]_<<KeptMap, Memory>>
<1> USE DEF Store!NoDoc
<1>1. CASE BackupSkip \/ BackupOpen \/ BackupCopy \/ WriteOpen \/ WriteSome
  BY <1>1, SaveStepKeeps
<1>2. CASE WriteOpenFails \/ WriteFails \/ WriteLost
  <2>1. KeptMap' = KeptMap
    BY <1>2, KeptUnchanged
       DEF WriteOpenFails, WriteFails, WriteLost, SaveFails, SaveSucceeds
  <2>2. Memory' = Memory
    BY <1>2 DEF WriteOpenFails, WriteFails, WriteLost, SaveFails, SaveSucceeds,
                Memory, HasSafe, Saving, safeVars
  <2> QED BY <2>1, <2>2
<1>3. CASE WriteDone
  <2>1. m_path \in Paths /\ HasSafe
    BY <1>3 DEF WriteDone, TypeOK, Saving, HasSafe
  <2>2. bak' = bak /\ disk' = [disk EXCEPT ![m_path] = Written("whole")]
    BY <1>3 DEF WriteDone, SaveSucceeds
  <2>3. Memory' = Memory /\ Memory = doc
    BY <1>3 DEF WriteDone, SaveSucceeds, Memory, HasSafe, Saving
  <2>4. \A p \in Paths : Kept(p)' = IF p = m_path THEN doc ELSE Kept(p)
    <3>1. ASSUME NEW p \in Paths, p # m_path
          PROVE  Kept(p)' = Kept(p)
      BY <2>2, <3>1 DEF Kept, TypeOK
    <3>2. disk'[m_path] = Written("whole")
      BY <2>1, <2>2 DEF TypeOK
    <3>3. Stored(Written("whole")) = doc
      BY DEF Stored, Written, TypeOK, Contents
    <3>4. disk'[m_path].part = "whole" /\ Stored(disk'[m_path]) = doc
      BY <3>2, <3>3 DEF Written
    <3>5. ASSUME NEW p \in Paths, p = m_path
          PROVE  Kept(p)' = doc
      <4>1. m_path' = m_path
        BY <1>3 DEF WriteDone, SaveSucceeds
      <4>2. disk'[p].part = "whole" /\ Stored(disk'[p]) = doc
        BY <3>4, <3>5
      <4> QED BY <4>2 DEF Kept
    <3> QED BY <3>1, <3>5
  <2>5. KeptMap' = [KeptMap EXCEPT ![m_path] = Memory]
    BY <2>1, <2>3, <2>4 DEF KeptMap
  <2>6. Store!Put(m_path)
    BY <2>1, <2>3, <2>5, DocIsContent DEF Store!Put, KeptMap, Memory
  <2> QED BY <2>1, <2>6 DEF Store!Next
<1>4. CASE BackupOpenFails \/ Crash
  <2>1. KeptMap' = KeptMap
    BY <1>4, KeptUnchanged DEF BackupOpenFails, Crash
  <2>2. Memory' = [rev |-> -2, intact |-> FALSE]
    BY <1>4 DEF BackupOpenFails, Crash, Die, Memory, HasSafe, Saving
  <2> QED BY <2>1, <2>2 DEF Store!Next, Store!Drop, KeptMap, Memory
<1>5. ASSUME NEW p, NEW t, SaveBegin(p, t)
      PROVE  KeptMap' = KeptMap /\ Memory' = Memory
  <2>1. KeptMap' = KeptMap
    BY <1>5, KeptUnchanged DEF SaveBegin
  <2>2. pc = "idle" /\ pc' \in {"idle", "bk_open"} /\ doc' = doc
    BY <1>5 DEF SaveBegin
  <2> QED BY <2>1, <2>2 DEF Memory, HasSafe, Saving
<1>6. CASE Save
  <2>1. CASE m_path # NoPath BY <2>1, <1>5, <1>6 DEF Save
  <2>2. CASE m_path = NoPath
    BY <2>2, <1>6, KeptUnchanged DEF Save, safeVars, Memory, HasSafe
  <2> QED BY <2>1, <2>2
<1>7. CASE SaveAs BY <1>5, <1>7 DEF SaveAs
<1>8. CASE New
  <2>1. KeptMap' = KeptMap
    BY <1>8, KeptUnchanged DEF New
  <2>2. /\ Memory = [rev |-> -2, intact |-> FALSE]
        /\ Memory' = [rev |-> 0, intact |-> TRUE]
    BY <1>8 DEF New, Memory, HasSafe, Saving
  <2> QED BY <2>1, <2>2 DEF Store!Next, Store!Create, KeptMap, Memory
<1>9. CASE Edit
  <2>1. KeptMap' = KeptMap
    BY <1>9, KeptUnchanged DEF Edit
  <2>2. HasSafe /\ Memory = doc
    BY <1>9 DEF Edit, HasSafe, Memory
  <2>3. Memory' = [Memory EXCEPT !.rev = lastRev + 1]
    BY <1>9, <2>2 DEF Edit, HasSafe, Memory
  <2>4. lastRev + 1 \in 1..MaxRev
    <3>1. lastRev \in 0..MaxRev /\ lastRev < MaxRev
      BY <1>9 DEF Edit, TypeOK
    <3> QED BY <3>1, Revisions
  <2>5. Memory # [rev |-> -2, intact |-> FALSE]
    BY <2>2, DocIsContent
  <2> QED BY <2>1, <2>3, <2>4, <2>5 DEF Store!Next, Store!Edit, KeptMap, Memory
<1>10. CASE Close
  <2>1. KeptMap' = KeptMap
    BY <1>10, KeptUnchanged DEF Close
  <2>2. Memory' = [rev |-> -2, intact |-> FALSE]
    BY <1>10 DEF Close, Memory, HasSafe, Saving
  <2> QED BY <2>1, <2>2 DEF Store!Next, Store!Drop, KeptMap, Memory
<1>11. CASE Start
  BY <1>11, KeptUnchanged DEF Start, Memory, HasSafe, Saving
<1>12. ASSUME NEW p \in Paths, Restore(p)
       PROVE  [Store!Next]_<<KeptMap, Memory>>
  <2>1. Memory' = Memory
    BY <1>12 DEF Restore, Memory, HasSafe, safeVars, Saving
  <2>2. \A q \in Paths : q # p => disk'[q] = disk[q]
    BY <1>12 DEF Restore, TypeOK
  <2>3. disk'[p] = bak[p] /\ bak' = bak
    BY <1>12 DEF Restore, TypeOK
  <2>4. disk[p].part # "whole" /\ bak[p].part = "whole"
    BY <1>12 DEF Restore, IsTorn, Torn
  <2>5. \A q \in Paths : Kept(q)' = Kept(q)
    BY <2>2, <2>3, <2>4 DEF Kept
  <2> QED BY <2>1, <2>5 DEF KeptMap
<1>13. ASSUME NEW p \in Paths, NEW t, LoadBegin(p, t)
       PROVE  [Store!Next]_<<KeptMap, Memory>>
  BY <1>13, KeptUnchanged DEF LoadBegin, Memory, HasSafe, Saving
<1>14. CASE LoadTry
  <2>1. KeptMap' = KeptMap
    BY <1>14, KeptUnchanged DEF LoadTry
  <2>2. Memory = [rev |-> -2, intact |-> FALSE]
    BY <1>14 DEF LoadTry, Memory, HasSafe, Saving
  <2>3. CASE pc' = "idle"
    <3> DEFINE p == opening.path
    <3>1. doc' = Stored(disk[p]) /\ disk[p].part = "whole" /\ p \in Paths
      BY <1>14, <2>3, CarefulLoadTry
    <3>2. KeptMap[p] = doc'
      BY <3>1 DEF KeptMap, Kept
    <3>3. Memory' = doc'
      BY <2>3 DEF Memory, HasSafe
    <3>4. doc'.rev # -1
      BY <3>1, Revisions, FileRev DEF Stored
    <3>5. KeptMap[p] # [rev |-> -1, intact |-> FALSE]
      BY <3>2, <3>4
    <3>6. Store!Open(p)
      BY <2>1, <2>2, <3>2, <3>3, <3>5
         DEF Store!Open, Store!Nothing, KeptMap, Memory
    <3> QED BY <3>1, <3>6 DEF Store!Next
  <2>4. CASE pc' # "idle"
    <3>1. Memory' = [rev |-> -2, intact |-> FALSE]
      BY <1>14, <2>4, CarefulLoadTry DEF Memory, HasSafe, Saving
    <3> QED BY <2>1, <2>2, <3>1
  <2> QED BY <2>3, <2>4
<1>15. CASE LoadThrows
  BY <1>15, KeptUnchanged DEF LoadThrows, Memory, HasSafe, Saving
<1>16. CASE UNCHANGED vars
  BY <1>16, KeptUnchanged DEF vars, Memory, HasSafe
<1> QED BY <1>1, <1>2, <1>3, <1>4, <1>6, <1>7, <1>8, <1>9, <1>10, <1>11, <1>12,
           <1>13, <1>14, <1>15, <1>16 DEF Next, User, LoadStep, SaveStep

\* With backups that can be made and a user who restores a torn file before
\* using it and does not force a wrong format, Safe::load and Safe::save do what
\* SafeStore promises: saving is atomic, crashes and failed saves included, and
\* a load gives back what was saved.
THEOREM ImplementsStore ==
  ASSUME BackupsWork, CarefulUser
  PROVE  Spec => StoreSpec
<1>1. Init => BackupInv /\ StoreInv
  BY DEF Init, BackupInv, StoreInv
<1>2. TypeOK /\ BackupInv /\ StoreInv /\ [Next]_vars
        => [Store!Next]_<<KeptMap, Memory>>
  BY StoreStep
<1>3. Spec => Store!Init /\ [][Store!Next]_<<KeptMap, Memory>>
  BY <1>1, <1>2, StoreInit, TypeCorrect, BackupNext, StoreInvNext, PTL DEF Spec
<1> QED BY <1>3 DEF StoreSpec, Store!Spec

-----------------------------------------------------------------------------
(***************************************************************************)
(* CleanIsRecoverable holds only as long as no write is lost without a      *)
(* word: not within the last entry, not in the last buffer, and in the text *)
(* formats, which look at no write, none at all.  That needs the formats    *)
(* that are about: of the safe, of the files and of the serializer a load   *)
(* tries.                                                                  *)
(***************************************************************************)
NoSilentLoss ==
  /\ Faults \cap {"write", "flush"} = {}
  /\ "entry" \in Faults => Formats \cap {PlainText, Xml} = {}

FormatInv ==
  /\ m_type \in Formats \cup {""}
  /\ \A p \in Paths : disk[p].fmt \in Formats \cup {NULL}
  /\ \A p \in Paths : bak[p].fmt \in Formats \cup {NULL}
  /\ pc = "loading" => opening.ser \in Formats

\* A serializer picked by one of the extensions or formats in use has one of the
\* extensions in use (createSerializer).
LEMMA PickedFormat ==
  ASSUME NEW ext \in Exts \cup {""}, NEW t \in Formats \cup {"", AllFiles, NULL},
         createSerializer(ext, t) # NULL
  PROVE  createSerializer(ext, t) \in Formats
<1>1. CASE t # ""
  <2>1. t \in Types /\ createSerializer(ext, t) = t
    BY <1>1 DEF createSerializer, createByName
  <2>2. AllFiles \notin Types /\ NULL \notin Types
    BY DEF AllFiles, NULL, Types, PlainText, Blowfish, Blowfish2, Xml
  <2> QED BY <1>1, <2>1, <2>2
<1>2. CASE t = ""
  <2>1. ext # "" /\ createSerializer(ext, t) = createByExt(ext)
    BY <1>2 DEF createSerializer
  <2>2. ext \in AllExts /\ ext \in Exts
    BY <2>1, ExtsAssumption
  <2>3. createByExt(ext) \in Types /\ extension[createByExt(ext)] = ext
    BY <2>2, ByExt DEF AllExts, extension, Types, PlainText, Blowfish, Blowfish2, Xml
  <2> QED BY <2>1, <2>2, <2>3 DEF Formats
<1> QED BY <1>1, <1>2

LEMMA FormatInit == Init => FormatInv
<1> SUFFICES ASSUME Init PROVE FormatInv
  OBVIOUS
<1>1. \A p \in Paths : disk[p].fmt \in Formats \cup {NULL}
  <2> SUFFICES ASSUME NEW p \in Paths PROVE disk[p].fmt \in Formats \cup {NULL}
    OBVIOUS
  <2>1. CASE disk[p] = Absent BY <2>1 DEF Absent
  <2>2. CASE disk[p] # Absent BY <2>2 DEF Init
  <2> QED BY <2>1, <2>2
<1> QED BY <1>1 DEF Init, FormatInv, Absent

LEMMA FormatSaveBegin ==
  ASSUME FormatInv, NEW p, p[2] \in Exts \cup {""},
         NEW t \in Formats \cup {"", AllFiles}, SaveBegin(p, t)
  PROVE  FormatInv'
<1> DEFINE s == createSerializer(p[2], t)
<1>1. CASE s = NULL BY <1>1 DEF SaveBegin, FormatInv
<1>2. CASE s # NULL
  <2>1. s \in Formats BY <1>2, PickedFormat
  <2>2. m_type' = s /\ pc' = "bk_open" /\ disk' = disk /\ bak' = bak
    BY <1>2 DEF SaveBegin
  <2> QED BY <2>1, <2>2 DEF FormatInv
<1> QED BY <1>1, <1>2

\* What a save writes, in the file and in its backup, has a format in use.
LEMMA FormatSaveStep ==
  ASSUME TypeOK, FormatInv, SaveStep
  PROVE  FormatInv'
<1>1. m_path \in Paths /\ m_type \in Formats
  BY DEF TypeOK, Saving, FormatInv, SaveStep, BackupSkip, BackupOpen, BackupOpenFails, BackupCopy,
         WriteOpen, WriteOpenFails, WriteSome, WriteFails, WriteDone, WriteLost
<1>2. CASE BackupSkip \/ WriteOpenFails \/ WriteFails \/ WriteLost
  BY <1>2 DEF BackupSkip, WriteOpenFails, WriteFails, WriteLost, SaveFails, SaveSucceeds,
              safeVars, FormatInv
<1>3. CASE BackupOpenFails
  BY <1>3 DEF BackupOpenFails, Die, FormatInv
<1>4. CASE BackupOpen \/ BackupCopy
  <2>1. disk' = disk /\ m_type' = m_type /\ pc' # "loading"
    BY <1>4 DEF BackupOpen, BackupCopy, safeVars
  <2>2. ASSUME NEW q \in Paths PROVE bak'[q].fmt \in {bak[q].fmt, disk[m_path].fmt}
    <3>1. CASE bak' = [bak EXCEPT ![m_path] = [disk[m_path] EXCEPT !.part = "none"]]
      <4>1. disk[m_path] \in Files BY <1>1 DEF TypeOK
      <4>2. [disk[m_path] EXCEPT !.part = "none"].fmt = disk[m_path].fmt
        <5>1. CASE disk[m_path] = Absent BY <5>1 DEF Absent
        <5>2. CASE disk[m_path] # Absent BY <4>1, <5>2 DEF Files
        <5> QED BY <5>1, <5>2
      <4> QED BY <3>1, <4>2 DEF TypeOK
    <3>2. CASE bak' = [bak EXCEPT ![m_path] = disk[m_path]]
      BY <3>2 DEF TypeOK
    <3>3. CASE bak' = bak BY <3>3
    <3> QED BY <1>4, <3>1, <3>2, <3>3 DEF BackupOpen, BackupCopy
  <2> QED BY <1>1, <2>1, <2>2 DEF FormatInv
<1>5. CASE WriteOpen \/ WriteSome \/ WriteDone
  <2>1. bak' = bak /\ m_type' = m_type /\ pc' # "loading"
    BY <1>5 DEF WriteOpen, WriteSome, WriteDone, SaveSucceeds, safeVars
  <2>2. PICK q : disk' = [disk EXCEPT ![m_path] = Written(q)]
    BY <1>5 DEF WriteOpen, WriteSome, WriteDone
  <2>3. ASSUME NEW p \in Paths PROVE disk'[p].fmt \in {disk[p].fmt, m_type}
    BY <2>2 DEF TypeOK, Written
  <2> QED BY <1>1, <2>1, <2>3 DEF FormatInv
<1> QED BY <1>2, <1>3, <1>4, <1>5 DEF SaveStep

LEMMA FormatNext ==
  ASSUME CarefulUser
  PROVE  TypeOK /\ StoreInv /\ FormatInv /\ [Next]_vars => FormatInv'
<1> SUFFICES ASSUME TypeOK, StoreInv, FormatInv, [Next]_vars PROVE FormatInv'
  OBVIOUS
<1>1. CASE SaveStep BY <1>1, FormatSaveStep
<1>2. CASE Save
  <2>1. CASE m_path # NoPath
    <3>1. m_path[2] \in Exts BY <2>1 DEF TypeOK, Paths
    <3>2. SaveBegin(m_path, m_type) BY <1>2, <2>1 DEF Save
    <3> QED BY <3>1, <3>2, FormatSaveBegin DEF FormatInv
  <2>2. CASE m_path = NoPath BY <1>2, <2>2 DEF Save, safeVars, FormatInv
  <2> QED BY <2>1, <2>2
<1>3. CASE SaveAs
  <2>1. PICK n \in Stems, e \in Exts \cup {""}, t \in Formats \cup {"", AllFiles} :
          SaveBegin(<<n, e>>, t)
    BY <1>3 DEF SaveAs
  <2>2. <<n, e>>[2] \in Exts \cup {""} OBVIOUS
  <2> QED BY <2>1, <2>2, FormatSaveBegin
<1>4. CASE New \/ Edit \/ Close \/ Start
  BY <1>4 DEF New, Edit, Close, Start, safeVars, FormatInv
<1>5. ASSUME NEW p \in Paths, Restore(p) PROVE FormatInv'
  <2>1. bak' = bak /\ m_type' = m_type /\ pc' # "loading"
    BY <1>5 DEF Restore, safeVars
  <2>2. ASSUME NEW q \in Paths PROVE disk'[q].fmt \in {disk[q].fmt, bak[q].fmt}
    BY <1>5 DEF Restore, TypeOK
  <2> QED BY <2>1, <2>2 DEF FormatInv
<1>6. ASSUME NEW p \in Paths, NEW t \in OpenTypes(p), LoadBegin(p, t) PROVE FormatInv'
  <2>1. disk' = disk /\ bak' = bak /\ m_type' = m_type
    BY <1>6 DEF LoadBegin, safeVars
  <2>2. CASE pc' = "loading"
    <3>1. pc = "none" BY <1>6 DEF LoadBegin
    <3>2. createSerializer(p[2], t) # NULL /\ opening'.ser = createSerializer(p[2], t)
      <4> DEFINE s == createSerializer(p[2], t)
                 check == IF ~Exists(disk[p]) THEN "BadFile"
                          ELSE IF s = NULL THEN "BadFormat"
                          ELSE checkPassword(s, disk[p])
      <4>1. check = "Success"
        <5>1. IF check = "Success" THEN TRUE ELSE UNCHANGED pc
          BY <1>6 DEF LoadBegin
        <5> HIDE DEF check
        <5> QED BY <2>2, <3>1, <5>1
      <4>2. s # NULL BY <4>1
      <4>3. opening' = [path |-> p, ser |-> s] BY <1>6, <4>1 DEF LoadBegin
      <4> QED BY <4>2, <4>3
    <3>3. t \in Formats \cup {"", AllFiles, NULL}
      BY DEF OpenTypes, CarefulUser, FormatInv
    <3>4. p[2] \in Exts BY DEF Paths
    <3>5. opening'.ser \in Formats BY <3>2, <3>3, <3>4, PickedFormat
    <3> QED BY <2>1, <3>5 DEF FormatInv
  <2>3. CASE pc' # "loading" BY <2>1, <2>3 DEF FormatInv
  <2> QED BY <2>2, <2>3
<1>7. CASE LoadTry
  <2>1. disk' = disk /\ bak' = bak /\ m_type' \in {m_type, opening.ser}
    BY <1>7 DEF LoadTry, safeVars
  <2>2. opening.ser \in Formats /\ opening.path \in Paths
    BY <1>7, NamesDiffer DEF LoadTry, FormatInv, TypeOK
  <2>3. pc' = "loading" => opening'.ser = disk[opening.path].fmt /\ opening'.ser = Blowfish
    BY <1>7, CarefulLoadTry
  <2>4. Blowfish # NULL BY DEF Blowfish, NULL
  <2> QED BY <2>1, <2>2, <2>3, <2>4 DEF FormatInv
<1>8. CASE LoadThrows \/ Crash
  BY <1>8 DEF LoadThrows, Crash, Die, safeVars, FormatInv
<1>9. CASE UNCHANGED vars BY <1>9 DEF vars, FormatInv
<1> QED BY <1>1, <1>2, <1>3, <1>4, <1>5, <1>6, <1>7, <1>8, <1>9 DEF Next, User, LoadStep

\* While nothing that is kept changes, an unmarked safe stays recoverable.
LEMMA StillKept ==
  ASSUME CleanIsRecoverable, KeptMap' = KeptMap, UNCHANGED <<doc, m_changed>>, HasSafe
  PROVE  CleanIsRecoverable'
<1> SUFFICES ASSUME ~m_changed, doc.rev > 0
             PROVE  \E p \in Paths : Kept(p)' = doc
  BY DEF CleanIsRecoverable
<1>1. PICK p \in Paths : Kept(p) = doc
  BY DEF CleanIsRecoverable, HasSafe
<1>2. KeptMap'[p] = Kept(p)' /\ KeptMap[p] = Kept(p)
  BY DEF KeptMap
<1> QED BY <1>1, <1>2

LEMMA NoSafeIsClean ==
  ASSUME ~HasSafe'
  PROVE  CleanIsRecoverable'
BY DEF CleanIsRecoverable, HasSafe

LEMMA CleanNext ==
  ASSUME BackupsWork, CarefulUser, NoSilentLoss
  PROVE  TypeOK /\ BackupInv /\ StoreInv /\ FormatInv /\ CleanIsRecoverable /\ [Next]_vars
           => CleanIsRecoverable'
<1> SUFFICES ASSUME TypeOK, BackupInv, StoreInv, FormatInv, CleanIsRecoverable, [Next]_vars
             PROVE  CleanIsRecoverable'
  OBVIOUS
<1>1. CASE BackupSkip \/ BackupOpen \/ BackupCopy \/ WriteOpen \/ WriteSome
  <2>1. KeptMap' = KeptMap BY <1>1, SaveStepKeeps
  <2>2. HasSafe /\ UNCHANGED <<doc, m_changed>>
    BY <1>1 DEF BackupSkip, BackupOpen, BackupCopy, WriteOpen, WriteSome, HasSafe, Saving, safeVars
  <2> QED BY <2>1, <2>2, StillKept
<1>2. CASE WriteOpenFails \/ WriteFails
  <2>1. KeptMap' = KeptMap
    BY <1>2, KeptUnchanged DEF WriteOpenFails, WriteFails, SaveFails
  <2>2. HasSafe /\ UNCHANGED <<doc, m_changed>>
    BY <1>2 DEF WriteOpenFails, WriteFails, SaveFails, HasSafe, Saving, safeVars
  <2> QED BY <2>1, <2>2, StillKept
<1>3. CASE WriteDone
  <2>1. m_path \in Paths BY <1>3 DEF WriteDone, TypeOK, Saving
  <2>2. disk' = [disk EXCEPT ![m_path] = Written("whole")] /\ doc' = doc
    BY <1>3 DEF WriteDone, SaveSucceeds
  <2>3. disk'[m_path] = Written("whole") BY <2>1, <2>2 DEF TypeOK
  <2>4. Stored(Written("whole")) = doc BY DEF Stored, Written, TypeOK, Contents
  <2>5. disk'[m_path].part = "whole" BY <2>3 DEF Written
  <2>6. ASSUME NEW p \in Paths, p = m_path PROVE Kept(p)' = doc'
    BY <2>2, <2>3, <2>4, <2>5, <2>6 DEF Kept
  <2> QED BY <2>1, <2>6 DEF CleanIsRecoverable
<1>4. CASE WriteLost
  <2>1. m_type \in Formats
    BY <1>4 DEF WriteLost, FormatInv, TypeOK, Saving
  <2> QED BY <1>4, <2>1 DEF WriteLost, NoSilentLoss
<1>5. CASE BackupOpenFails \/ Crash \/ LoadThrows \/ Close \/ Start
  <2>1. ~HasSafe'
    BY <1>5 DEF BackupOpenFails, Crash, LoadThrows, Close, Start, Die, HasSafe, Saving
  <2> QED BY <2>1, NoSafeIsClean
<1>6. ASSUME NEW p, NEW t, SaveBegin(p, t) PROVE CleanIsRecoverable'
  <2>1. KeptMap' = KeptMap BY <1>6, KeptUnchanged DEF SaveBegin
  <2>2. HasSafe /\ UNCHANGED <<doc, m_changed>> BY <1>6 DEF SaveBegin, HasSafe
  <2> QED BY <2>1, <2>2, StillKept
<1>7. CASE Save
  <2>1. CASE m_path # NoPath BY <2>1, <1>6, <1>7 DEF Save
  <2>2. CASE m_path = NoPath
    <3>1. KeptMap' = KeptMap BY <1>7, <2>2, KeptUnchanged DEF Save
    <3>2. HasSafe /\ UNCHANGED <<doc, m_changed>> BY <1>7, <2>2 DEF Save, HasSafe, safeVars
    <3> QED BY <3>1, <3>2, StillKept
  <2> QED BY <2>1, <2>2
<1>8. CASE SaveAs BY <1>6, <1>8 DEF SaveAs
<1>9. CASE New
  <2>1. doc'.rev = 0 BY <1>9 DEF New
  <2> QED BY <2>1 DEF CleanIsRecoverable
<1>10. CASE Edit BY <1>10 DEF Edit, CleanIsRecoverable
<1>11. ASSUME NEW p \in Paths, Restore(p) PROVE CleanIsRecoverable'
  <2>1. ~HasSafe' BY <1>11 DEF Restore, HasSafe, Saving
  <2> QED BY <2>1, NoSafeIsClean
<1>12. ASSUME NEW p \in Paths, NEW t, LoadBegin(p, t) PROVE CleanIsRecoverable'
  <2>1. ~HasSafe' BY <1>12 DEF LoadBegin, HasSafe, Saving
  <2> QED BY <2>1, NoSafeIsClean
<1>13. CASE LoadTry
  <2>1. CASE pc' = "idle"
    <3> DEFINE p == opening.path
    <3>1. doc' = Stored(disk[p]) /\ disk[p].part = "whole" /\ p \in Paths
      BY <1>13, <2>1, CarefulLoadTry
    <3>2. disk' = disk BY <1>13 DEF LoadTry
    <3>3. ASSUME NEW q \in Paths, q = p PROVE Kept(q)' = doc'
      BY <3>1, <3>2, <3>3 DEF Kept
    <3> QED BY <3>1, <3>3 DEF CleanIsRecoverable
  <2>2. CASE pc' # "idle"
    <3>1. ~HasSafe' BY <1>13, <2>2, CarefulLoadTry DEF HasSafe, Saving
    <3> QED BY <3>1, NoSafeIsClean
  <2> QED BY <2>1, <2>2
<1>14. CASE UNCHANGED vars
  BY <1>14 DEF vars, CleanIsRecoverable, Kept, Saving
<1> QED BY <1>1, <1>2, <1>3, <1>4, <1>5, <1>7, <1>8, <1>9, <1>10, <1>11, <1>12, <1>13, <1>14
        DEF Next, User, LoadStep, SaveStep

\* Under the assumptions of ImplementsStore, and if no write is lost without a
\* word, a safe that is not marked as changed is in some file or in its backup,
\* whatever loads and saves failed or were cut short before (CleanIsRecoverable).
THEOREM CleanIsSafe ==
  ASSUME BackupsWork, CarefulUser, NoSilentLoss
  PROVE  Spec => []CleanIsRecoverable
<1>1. Init => BackupInv /\ StoreInv /\ CleanIsRecoverable
  BY DEF Init, BackupInv, StoreInv, CleanIsRecoverable, Saving
<1> QED BY <1>1, FormatInit, TypeCorrect, BackupNext, StoreInvNext, FormatNext, CleanNext,
           PTL DEF Spec
=============================================================================
