---------------------------- MODULE Serializers ----------------------------
(***************************************************************************)
(* The file formats: the registry of serializers in the order the static   *)
(* objects of safeserializer.cpp register themselves, the selection of a   *)
(* serializer by extension or by name, and what each serializer answers    *)
(* when it is pointed at a file.                                           *)
(*                                                                         *)
(* A file is abstracted to the format it was written in, the revision of   *)
(* the safe it holds, whether that revision is intact (no entry was lost   *)
(* by an earlier faulty read) and how much of it is on disk.               *)
(***************************************************************************)
EXTENDS Integers, Sequences

PlainText == "Plain UNENCRYPTED Text (*.txt)"
Blowfish2 == "Password Safe 2.0 (*.dat)"
Blowfish  == "Password Safe (*.dat)"
Xml       == "UNENCRYPTED XML (*.xml)"

Types    == {PlainText, Blowfish2, Blowfish, Xml}
AllExts  == {"txt", "dat", "xml"}
NULL     == "NULL"           \* a NULL SafeSerializer *
AllFiles == "All Files (*)"  \* the filter of the file dialog no serializer has

\* m_serializers, in registration order.
Registry == <<PlainText, Blowfish2, Blowfish, Xml>>

extension == [t \in Types |-> CASE t = PlainText -> "txt"
                                [] t = Xml       -> "xml"
                                [] OTHER         -> "dat"]

\* The first index of the registry that satisfies a test is the one returned.
First(S) == CHOOSE i \in S : \A j \in S : i <= j

createByExt(ext) ==
  LET hits == {i \in DOMAIN Registry : extension[Registry[i]] = ext}
  IN  IF hits = {} THEN NULL ELSE Registry[First(hits)]

createByName(name) == IF name \in Types THEN name ELSE NULL

\* The name takes precedence over the extension; "" is an empty QString.
createSerializer(ext, type) ==
  IF type # "" THEN createByName(type)
  ELSE IF ext = "" THEN NULL ELSE createByExt(ext)

\* The `if' of the scan ends in a stray semicolon: whatever serializer comes
\* next in the registry is returned.
getNextExt(s) ==
  LET after == {i \in DOMAIN Registry :
                  \E j \in DOMAIN Registry : Registry[j] = s /\ i > j}
  IN  IF after = {} THEN NULL ELSE Registry[First(after)]

-----------------------------------------------------------------------------
\* How much of a file is there.  "none": not even the pass-phrase check;
\* "header": the pass-phrase check but not the complete format header;
\* "mid": stops inside an entry; "cut": stops between two entries.
Torn  == {"none", "header", "mid", "cut"}
Parts == Torn \cup {"absent", "whole"}

Rank == [q \in Parts |-> CASE q = "absent" -> 0 [] q = "none" -> 1
                           [] q = "header" -> 2 [] q = "mid"  -> 3
                           [] q = "cut"    -> 4 [] q = "whole" -> 5]

Absent == [fmt |-> NULL, rev |-> 0, intact |-> FALSE, part |-> "absent"]

Errors == {"Failed", "Success", "BadFormat", "BadFile", "IOError", "UUIDError"}

\* checkPassword of each serializer, given the right pass-phrase.  The
\* Blowfish formats compare the 28 leading bytes, the text format its first
\* line; the XML parser refuses anything but a complete document.
checkPassword(s, f) ==
  CASE s = Xml       -> IF f.fmt = Xml /\ f.part = "whole"
                        THEN "Success" ELSE "BadFile"
    [] s = PlainText -> IF f.fmt = PlainText /\ f.part # "none"
                        THEN "Success" ELSE "Failed"
    [] OTHER         -> IF f.fmt \in {Blowfish, Blowfish2} /\ f.part # "none"
                        THEN "Success" ELSE "Failed"

\* Mutant of loadErrors: BlowfishLizer2::load does not look at the header.
loadErrors_NoHeader(s, f) ==
  IF s = Xml \/ s = PlainText THEN {checkPassword(s, f)} ELSE {"Success"}

\* load of each serializer: the set of outcomes, "hang" when the read never
\* ends (BlowfishLizer2::readEntry adds to num_read, so a file that stops
\* inside an entry never makes it zero and never yields an END field).
loadErrors(s, f) ==
  CASE s = Xml       -> {checkPassword(Xml, f)}
    [] s = PlainText -> IF checkPassword(PlainText, f) # "Success"
                        THEN {"Failed"}
                        ELSE IF f.part = "mid" THEN {"BadFile", "Success"}
                             ELSE {"Success"}
    [] s = Blowfish2 -> IF f.fmt # Blowfish2 \/ f.part \in {"none", "header"}
                        THEN {"BadFormat"}
                        ELSE IF f.part = "mid" THEN {"hang"} ELSE {"Success"}
    [] s = Blowfish  -> {"Success"}

\* What the safe holds once a serializer answered Success: everything only
\* when it read a complete file of its own format.
Loaded(s, f) ==
  [rev |-> f.rev, intact |-> f.intact /\ f.part = "whole" /\ f.fmt = s]
=============================================================================
