---------------------------- MODULE RecordFile ----------------------------
(***************************************************************************)
(* The records of the Blowfish files: what BlowfishLizer and BlowfishLizer2 *)
(* write with writeCBC and read back with readCBC, one record at a time.    *)
(* A save may meet a full disk or die; a load then reads whatever prefix of *)
(* the file is there.  The encryption is left out: a record whose body is   *)
(* incomplete decrypts to garbage.  checkPassword has said Success, so the  *)
(* 28 leading bytes are there.                                              *)
(*                                                                         *)
(* SafeFile abstracts a file to `part' and a load to loadErrors; here that  *)
(* abstraction is checked against the record-by-record code.                *)
(***************************************************************************)
EXTENDS Serializers

CONSTANTS
  Entries,     \* the entries a safe may hold, functions on Fields
  MaxEntries,  \* bound: entries in the safe
  FirstNul,    \* the raw values (UUID, times, policy) whose first byte is NUL
  InnerNul,    \* those with a NUL byte further on, in the bytes that are read:
               \* setTime_t takes 32 bits, so a time has four
  DiskFills    \* whether writes may fail

\* The types of the records, in the order writeEntry writes them.
TextFields == {"TITLE", "USER", "GROUP", "NOTES", "PASSWORD"}
RawFields  == {"UUID", "CTIME", "MTIME", "ATIME", "LTIME", "POLICY"}
Fields     == TextFields \cup RawFields

Empty   == ""
Garbage == "garbage"     \* bytes nobody wrote
Made    == "made"        \* what SafeEntry::init gives a raw field: a new UUID, now
NoTime  == "no time"     \* toTime_t() of the invalid date with a lifetime in it

\* The name and password of the format header; its notes are empty.
FormatHeader == [f \in {"TITLE", "PASSWORD", "NOTES"} |->
                   IF f = "NOTES" THEN Empty ELSE "pwsafe 2.0"]

\* A UUID is 16 bytes, a time 8 and a policy 4, whatever is in them.
ASSUME EntriesAssumption    == \A e \in Entries : /\ e \in [Fields -> STRING]
                                                 /\ \A f \in RawFields : e[f] # Empty
ASSUME MaxEntriesAssumption == MaxEntries \in Nat
ASSUME NulAssumption        == FirstNul \cap InnerNul = {}
\* Texts come from widgets and C strings.
ASSUME TextAssumption       == \A e \in Entries, f \in TextFields :
                                 e[f] \notin FirstNul \cup InnerNul
ASSUME DiskFillsAssumption  == DiskFills \in BOOLEAN

VARIABLES
  fmt,      \* the format the safe is saved in
  asked,    \* the serializer the filter of the open dialog picks
  entries,  \* the entries, in the order saveGroup reaches them
  pc,
  at,       \* the next record to write: its entry (0: format header), its place
  file,     \* the records fwrite has taken, each as [entry, place]
  stuck,    \* the disk is full: every further fwrite answers 0
  wrote,    \* num_written # 0 in the running writeEntry
  saved,    \* what save answered, "" if it never did
  size,     \* what is on disk: `n' whole records, and the length of one more
  ser,      \* the serializer load is trying
  pos,      \* the next record to read
  begun,    \* num_read # 0 in the running readEntry
  item,     \* the SafeEntry readEntry fills
  added     \* the items of the safe being loaded

vars == <<fmt, asked, entries, pc, at, file, stuck, wrote, saved, size, ser, pos,
          begun, item, added>>
writer == <<at, file, stuck, wrote, saved, size>>
reader == <<ser, pos, begun, item, added>>

-----------------------------------------------------------------------------
\* The records of an entry: version 1 writes three of type NAME; version 2 one
\* per field, the password only if there is one, and END.  The format header
\* is an entry in the version 1 style.
Places1 == <<"TITLE", "PASSWORD", "NOTES">>
Places2(e) ==
  <<"UUID", "TITLE", "USER", "GROUP", "NOTES">>
    \o (IF e["PASSWORD"] = Empty THEN <<>> ELSE <<"PASSWORD">>)
    \o <<"CTIME", "MTIME", "ATIME", "LTIME", "POLICY", "END">>

Places(i) == IF fmt = Blowfish \/ i = 0 THEN Places1 ELSE Places2(entries[i])

\* What is written: lifetime.setTime leaves the date invalid, and END carries
\* the policy once more.
Datum(e, f) == CASE f = "LTIME" -> NoTime
                 [] f = "END"   -> e["POLICY"]
                 [] OTHER       -> e[f]

\* A new SafeEntry.
Blank == [f \in Fields |-> IF f \in RawFields THEN Made ELSE Empty]
FirstEntry == IF fmt = Blowfish2 THEN 0 ELSE 1

\* What version 1 keeps of an entry (its user is part of the name record).
Kept1(e) == [f \in Fields |-> IF f \in {"TITLE", "PASSWORD", "NOTES"}
                              THEN e[f] ELSE Blank[f]]

TypeOK ==
  /\ {fmt, asked, ser} \subseteq {Blowfish, Blowfish2}
  /\ entries \in Seq(Entries) /\ Len(entries) <= MaxEntries
  /\ pc \in {"writing", "closed", "opened", "reading", "done"}
  /\ at.entry \in FirstEntry..Len(entries) + 1
  /\ \A p \in DOMAIN file : file[p].place \in DOMAIN Places(file[p].entry)
  /\ stuck \in BOOLEAN /\ wrote \in BOOLEAN /\ begun \in BOOLEAN
  /\ saved \in {"", "Success", "IOError"}
  /\ size.n \in 0..Len(file) /\ size.half \in BOOLEAN
  /\ pos \in 1..Len(file) + 3
  /\ item \in [Fields -> STRING] /\ added \in Seq([Fields -> STRING])

Init ==
  /\ fmt \in {Blowfish, Blowfish2} /\ asked \in {Blowfish, Blowfish2}
  /\ \E n \in 0..MaxEntries : entries \in [1..n -> Entries]
  /\ pc = "writing"
  /\ at = [entry |-> FirstEntry, place |-> 1]
  /\ file = <<>> /\ stuck = FALSE /\ wrote = FALSE /\ saved = ""
  /\ size = [n |-> 0, half |-> FALSE]
  /\ ser = asked
  /\ pos = 1 /\ begun = FALSE /\ item = Blank /\ added = <<>>

-----------------------------------------------------------------------------
Writing == pc = "writing" /\ at.entry <= Len(entries)

NextPlace == IF at.place = Len(Places(at.entry))
             THEN [entry |-> at.entry + 1, place |-> 1]
             ELSE [at EXCEPT !.place = @ + 1]

\* Mutant of EndOfEntry: num_written goes on counting from entry to entry.
EndOfEntry_CountsOn(some) ==
  /\ wrote' = some
  /\ IF at.place < Len(Places(at.entry)) \/ some THEN UNCHANGED <<pc, saved>>
     ELSE pc' = "closed" /\ saved' = "IOError"

\* The end of writeEntry: an entry of which nothing was written is an IOError,
\* and ends saveGroup; one written in part is not.
EndOfEntry(some) ==
  IF at.place < Len(Places(at.entry))
  THEN wrote' = some /\ UNCHANGED <<pc, saved>>
  ELSE /\ wrote' = FALSE
       /\ IF some THEN UNCHANGED <<pc, saved>>
          ELSE pc' = "closed" /\ saved' = "IOError"

\* One writeCBC whose fwrites are taken by the stream.
WriteRecord ==
  /\ Writing /\ ~stuck
  /\ file' = Append(file, at)
  /\ at' = NextPlace
  /\ EndOfEntry(TRUE)
  /\ UNCHANGED <<fmt, asked, entries, stuck, size, reader>>

\* One writeCBC after the disk has filled up.
SkipRecord ==
  /\ Writing /\ DiskFills
  /\ stuck' = TRUE
  /\ at' = NextPlace
  /\ EndOfEntry(wrote)
  /\ UNCHANGED <<fmt, asked, entries, file, size, reader>>

\* saveGroup is through: save answers Success.
SaveDone ==
  /\ pc = "writing" /\ at.entry > Len(entries)
  /\ pc' = "closed" /\ saved' = "Success"
  /\ UNCHANGED <<fmt, asked, entries, at, file, stuck, wrote, size, reader>>

\* fclose: all the stream has taken gets to the disk, or, when it is full, the
\* last of it does not.  The record at the end may be cut after its length.
Close ==
  /\ pc = "closed"
  /\ pc' = "opened"
  /\ \/ size' = [n |-> Len(file), half |-> FALSE]
     \/ /\ DiskFills
        /\ \E n \in 0..Len(file) - 1, half \in BOOLEAN :
             size' = [n |-> n, half |-> half]
  /\ UNCHANGED <<fmt, asked, entries, at, file, stuck, wrote, saved, reader>>

\* The process dies with part of the stream in its buffers.
Crash ==
  /\ pc = "writing"
  /\ pc' = "opened"
  /\ \/ size' = [n |-> Len(file), half |-> FALSE]
     \/ \E n \in 0..Len(file) - 1, half \in BOOLEAN :
          size' = [n |-> n, half |-> half]
  /\ UNCHANGED <<fmt, asked, entries, at, file, stuck, wrote, saved, reader>>

-----------------------------------------------------------------------------
\* readCBC at record p: 0 if its length is not there, garbage if its body is
\* not.  data.set() takes the bytes for a C string.
LengthThere(p) == p <= size.n \/ (p = size.n + 1 /\ size.half)

DataAt(p) ==
  LET r == file[p]
      f == Places(r.entry)[r.place]
  IN  IF p > size.n THEN {Garbage, Empty}
      ELSE LET d == IF r.entry = 0 THEN FormatHeader[f] ELSE Datum(entries[r.entry], f)
           IN  CASE d \in FirstNul -> {Empty}
                 [] d \in InnerNul -> {d, Garbage}
                 [] OTHER -> {d}

\* BlowfishLizer2::load: the format header decides whether to go on.
ReadHeader ==
  /\ pc = "opened" /\ ser = Blowfish2
  /\ \/ /\ fmt = Blowfish2 /\ size.n >= 1
        /\ pc' = "reading"
        /\ pos' = IF size.n >= 3 THEN 4 ELSE size.n + 2
        /\ UNCHANGED ser
     \/ /\ ~(fmt = Blowfish2 /\ size.n >= 1)   \* BadFormat: getNextExt
        /\ ser' = getNextExt(Blowfish2)
        /\ UNCHANGED <<pc, pos>>
  /\ UNCHANGED <<fmt, asked, entries, writer, begun, item, added>>

\* The start of BlowfishLizer::load, after BadFormat or because the user opened
\* the file as one of version 1, which it need not be.
ReadAs1 ==
  /\ pc = "opened" /\ ser = Blowfish
  /\ pc' = "reading"
  /\ UNCHANGED <<fmt, asked, entries, writer, reader>>

\* Mutant of WithField: an empty datum is stored too.
WithField_Unchecked(e, f, d) == [e EXCEPT ![f] = d]

\* readEntry leaves a field alone when its datum is empty.
WithField(e, f, d) == IF d = Empty THEN e ELSE [e EXCEPT ![f] = d]

\* Mutants of EntryRead: one SafeEntry serves for all entries; num_read is
\* not zero when the next entry begins.
EntryRead_KeepsItem ==
  /\ added' = Append(added, item)
  /\ begun' = FALSE
  /\ UNCHANGED item

EntryRead_KeepsCount ==
  /\ added' = Append(added, item)
  /\ item' = Blank
  /\ UNCHANGED begun

\* END: load adds the entry and makes the next one.  (readEntry replaces a nil
\* UUID, but SafeEntry::init has given the entry one and none is set to nil.)
EntryRead ==
  /\ added' = Append(added, item)
  /\ item' = Blank
  /\ begun' = FALSE

\* Mutant of AtEnd: the end of the file ends the entry.
AtEnd_EndsEntry ==
  /\ pc' = "done"
  /\ added' = IF begun THEN Append(added, item) ELSE added
  /\ UNCHANGED <<pos, begun, item>>

\* The end of the file.  num_read adds up: the loop goes on, with the last data
\* and type, unless the entry had not begun.
AtEnd ==
  /\ IF begun THEN UNCHANGED pc ELSE pc' = "done"
  /\ UNCHANGED <<pos, begun, item, added>>

\* One round of readEntry's loop.
ReadField ==
  /\ pc = "reading" /\ ser = Blowfish2
  /\ \/ ~LengthThere(pos) /\ AtEnd
     \/ /\ LengthThere(pos)
        /\ pos' = pos + 1
        /\ LET f == Places(file[pos].entry)[file[pos].place]
           IN  \/ f = "END" /\ EntryRead
               \/ /\ f # "END"
                  /\ \E d \in DataAt(pos) :
                       item' = WithField(item, f, d)
                  /\ begun' = TRUE
                  /\ UNCHANGED added
        /\ UNCHANGED pc
  /\ UNCHANGED <<fmt, asked, entries, writer, ser>>

\* BlowfishLizer::readEntry, and what load does with it: three records,
\* whatever is there of them, make an entry.
ReadEntry1 ==
  LET Field(k) == IF LengthThere(pos + k - 1) THEN DataAt(pos + k - 1) ELSE {Empty}
  IN  /\ pc = "reading" /\ ser = Blowfish
      /\ \/ /\ LengthThere(pos)
            /\ \E name \in Field(1), password \in Field(2), notes \in Field(3) :
                 added' = Append(added, [Blank EXCEPT !["TITLE"] = name,
                                           !["PASSWORD"] = password, !["NOTES"] = notes])
            /\ pos' = pos + 3
            /\ UNCHANGED pc
         \/ /\ ~LengthThere(pos)
            /\ pc' = "done"
            /\ UNCHANGED <<pos, added>>
      /\ UNCHANGED <<fmt, asked, entries, writer, ser, begun, item>>

Write == WriteRecord \/ SkipRecord \/ SaveDone \/ Close
Read  == ReadHeader \/ ReadAs1 \/ ReadField \/ ReadEntry1

Next == Write \/ Crash \/ Read

Spec == Init /\ [][Next]_vars /\ WF_vars(Write) /\ WF_vars(Read)

-----------------------------------------------------------------------------
\* What is on disk, seen as SafeFile sees it.
Complete == saved = "Success" /\ ~stuck /\ size.n = Len(file)

\* No entry is under way after record p.
Boundary(p) == file[p].entry = 0 \/ file[p].place = Len(Places(file[p].entry))

Part ==
  IF size.n = 0 THEN "header"
  ELSE IF Complete THEN "whole"
  ELSE IF Boundary(IF size.half THEN size.n + 1 ELSE size.n) THEN "cut" ELSE "mid"

OnDisk == [fmt |-> fmt, rev |-> 1, intact |-> TRUE, part |-> Part]

AtEof  == pc = "reading" /\ ser = Blowfish2 /\ begun /\ ~LengthThere(pos)
Exact(e) == IF fmt = Blowfish THEN Kept1(e) ELSE e
Texts(e) == [f \in TextFields |-> e[f]]

\* load has added every entry with its texts, and nothing else.
AllThere ==
  /\ Len(added) = Len(entries)
  /\ \A k \in DOMAIN entries : Texts(added[k]) = Texts(Exact(entries[k]))

\* What the abstraction SafeFile works with says of a load is what the
\* record-by-record code does: the outcomes, and that a complete file is intact
\* in memory exactly if it was read in its own format; a version 2 file read as
\* version 1 answers Success too, with other entries (Serializers!loadErrors
\* and Loaded against readEntry).
LoadsAsAbstracted ==
  /\ pc = "done" => /\ "Success" \in loadErrors(ser, OnDisk)
                    /\ Loaded(ser, OnDisk).intact => AllThere
                    /\ Part = "whole" /\ AllThere => Loaded(ser, OnDisk).intact
  /\ AtEof => "hang" \in loadErrors(Blowfish2, OnDisk)
  /\ ser # asked => "BadFormat" \in loadErrors(asked, OnDisk)

\* Wherever a file was cut, the entries load has added to the safe are the first
\* ones that were saved, each with all its texts and with none of another entry
\* or field (the local data, type and num_read of readEntry).  Only in version 1
\* the last of them may be short of a field or hold garbage.
AddedIsPrefix ==
  /\ ser = fmt => Len(added) <= Len(entries)
  /\ ser = Blowfish2 => \A k \in DOMAIN added : Texts(added[k]) = Texts(entries[k])
  /\ ser = Blowfish /\ fmt = Blowfish => \A k \in DOMAIN added :
       \/ added[k] = Kept1(entries[k])
       \/ /\ k = Len(added)
          /\ \A f \in Fields : added[k][f] \in {Kept1(entries[k])[f], Empty, Garbage}

\* writeEntry tells of a failed write only when nothing of the entry was written,
\* so a save may answer Success for a file that is cut short; but no entry
\* except the last is cut, and of that the stream has taken a part (saveGroup;
\* what fclose loses then nobody learns).
Taken(k, p) == \E n \in DOMAIN file : file[n] = [entry |-> k, place |-> p]

OnlyTheLastIsCut ==
  saved = "Success" => \A k \in DOMAIN entries :
    Taken(k, 1) /\ (k < Len(entries) => Taken(k, Len(Places(k))))

\* The raw fields pass through a C string: one without a NUL byte comes back,
\* and for one that begins with NUL the entry keeps what SafeEntry::init made,
\* not the value of the entry read before it (the lifetime excepted, which is
\* not even written).
RawFieldsKept ==
  ser = Blowfish2 => \A k \in DOMAIN added, f \in RawFields \ {"LTIME"} :
    /\ entries[k][f] \in FirstNul => added[k][f] = Made
    /\ entries[k][f] \notin FirstNul \cup InnerNul => added[k][f] = entries[k][f]

\* A complete file loads, with every entry that was saved, unless it is opened
\* as one of the other version.
WholeFileLoads ==
  pc = "opened" /\ Complete /\ asked \in {Blowfish2, fmt} ~>
    pc = "done" /\ Len(added) = Len(entries)

=============================================================================
