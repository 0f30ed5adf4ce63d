-------------------------- MODULE RecordFile_proofs --------------------------
(***************************************************************************)
(* Proofs about RecordFile: for any entries and any cut of the file, what   *)
(* a load adds is a prefix of what was saved, its raw fields come back, and  *)
(* the outcomes are those SafeFile reckons with.                            *)
(*                                                                         *)
(* The inductive invariant is Writer /\ Reader.  Writer says that the file  *)
(* holds the records writeEntry writes, in order and without a gap, so that *)
(* Spot(p) names the record at any position.  Reader says where in an entry *)
(* the reader is by its position alone, and what item and added hold then.  *)
(***************************************************************************)
EXTENDS RecordFile, SequenceTheorems, TLAPS

\* The places records are written for, the one after r, and the one of the p-th
\* record of the file as far as those before it say.
Spots == [entry : Nat, place : Nat \ {0}]

After(r) == IF r.place = Len(Places(r.entry)) THEN [entry |-> r.entry + 1, place |-> 1]
            ELSE [r EXCEPT !.place = @ + 1]

Spot(p) == IF p = 1 THEN [entry |-> FirstEntry, place |-> 1] ELSE After(file[p - 1])

\* There is something to write at r, or r is behind all there is.
ToWrite(r) == r.entry \in FirstEntry..Len(entries) /\ r.place \in 1..Len(Places(r.entry))
Behind(r)  == r = [entry |-> Len(entries) + 1, place |-> 1]

\* In version 1 the place follows from the position; in version 2 an entry has
\* more than three records.
InThrees(r, p) == /\ fmt = Blowfish => 3 * (r.entry - 1) + r.place = p
                  /\ fmt # Blowfish => 3 * r.entry + r.place <= p

WriterTypes ==
  /\ fmt \in {Blowfish, Blowfish2} /\ ser \in {Blowfish, Blowfish2}
  /\ asked \in {Blowfish, Blowfish2}
  /\ entries \in Seq(Entries) /\ Len(entries) <= MaxEntries
  /\ pc \in {"writing", "closed", "opened", "reading", "done"}
  /\ file \in Seq(Spots) /\ at \in Spots
  /\ stuck \in BOOLEAN /\ wrote \in BOOLEAN
  /\ saved \in {"", "Success", "IOError"}

\* The file is what writeEntry writes, in order and without a gap, up to the
\* record the disk was full at.
WrittenInOrder ==
  /\ \A p \in 1..Len(file) : file[p] = Spot(p) /\ ToWrite(file[p]) /\ InThrees(file[p], p)
  /\ ToWrite(at) \/ Behind(at)
  /\ ~stuck => at = Spot(Len(file) + 1) /\ InThrees(at, Len(file) + 1)
  /\ pc = "writing" => saved = ""
  /\ saved = "Success" => Behind(at)

SizeInv ==
  /\ size.n \in 0..Len(file) /\ size.half \in BOOLEAN
  /\ size.half => size.n < Len(file)

-----------------------------------------------------------------------------
\* What field f of the item, d, says of entry e.
Back(e, f, d) ==
  /\ f \in TextFields => d = e[f]
  /\ f \in RawFields \ {"LTIME"} =>
       /\ e[f] \in FirstNul => d = Made
       /\ e[f] \notin FirstNul \cup InnerNul => d = e[f]

\* The fields of the entry that come before r.
Before(r) == {Places(r.entry)[j] : j \in 1..r.place - 1}

\* item holds what was read of the entry up to r, and nothing else.
ItemHolds(r) ==
  r.entry <= Len(entries) =>
    \A f \in Fields : IF f \in Before(r) THEN Back(entries[r.entry], f, item[f])
                    ELSE item[f] = Blank[f]

\* The end of what can be read.
End == size.n + (IF size.half THEN 2 ELSE 1)

Values == STRING \cup {Empty, Garbage, Made, NoTime, "pwsafe 2.0"}

ReaderTypes ==
  /\ pos \in 1..Len(file) + 3 /\ begun \in BOOLEAN
  /\ item \in [Fields -> Values] /\ added \in Seq([Fields -> Values])

NotReading ==
  pc \notin {"reading", "done"} => pos = 1 /\ ~begun /\ item = Blank /\ added = <<>>

\* Which serializer reads, and why.
ReadBy ==
  /\ ser # asked => /\ ser = Blowfish /\ pc \in {"opened", "reading", "done"}
                    /\ fmt = Blowfish \/ size.n = 0
  /\ ser = Blowfish => ~begun
  /\ pc \in {"reading", "done"} /\ ser = Blowfish2 => fmt = Blowfish2 /\ size.n >= 1

Reads2 == pc \in {"reading", "done"} /\ ser = Blowfish2
Reads1 == ser = Blowfish /\ fmt = Blowfish

\* readEntry of version 2 is where its position says.
InStep ==
  Reads2 => IF size.n < 3
            THEN ~begun /\ added = <<>> /\ pos = size.n + 2
            ELSE /\ pos \in 4..End
                 /\ Spot(pos).entry = Len(added) + 1
                 /\ begun <=> Spot(pos).place > 1
                 /\ ~begun => item = Blank
                 /\ pos <= size.n + 1 => ItemHolds(Spot(pos))

AddedHolds ==
  Reads2 => \A k \in DOMAIN added, f \in Fields : Back(entries[k], f, added[k][f])

\* readEntry of version 1 takes three records at a time; only those at the end
\* of the file can be short.
InStep1 ==
  /\ ser = Blowfish => pos = 3 * Len(added) + 1
  /\ Reads1 =>
            /\ added # <<>> => LengthThere(pos - 3)
            /\ \A k \in DOMAIN added :
                 /\ 3 * k <= size.n => added[k] = Kept1(entries[k])
                 /\ \A f \in Fields : added[k][f] \in {Kept1(entries[k])[f], Empty, Garbage}

DoneIsAtEnd == pc = "done" => ~begun /\ ~LengthThere(pos)

-----------------------------------------------------------------------------
\* The types of the records, in the three parts Places2 puts together.
Names  == Fields \cup {"END"}
Texts5 == <<"UUID", "TITLE", "USER", "GROUP", "NOTES">>
Word   == <<"PASSWORD">>
Raws6  == <<"CTIME", "MTIME", "ATIME", "LTIME", "POLICY", "END">>

\* The records the password takes.
Words(e) == IF e["PASSWORD"] = Empty THEN 0 ELSE 1

LEMMA ThreeParts ==
  Texts5 \in Seq(Names) /\ Word \in Seq(Names) /\ Raws6 \in Seq(Names)
<1> USE DEF Names, Fields, TextFields, RawFields
<1>1. \A i \in 1..5 : Texts5[i] \in Names
  BY DEF Texts5
<1>2. \A i \in 1..6 : Raws6[i] \in Names
  BY DEF Raws6
<1>3. Texts5 \in Seq(Names)
  BY <1>1 DEF Texts5
<1>4. Raws6 \in Seq(Names)
  BY <1>2 DEF Raws6
<1>5. Word \in Seq(Names)
  BY DEF Word
<1> QED BY <1>3, <1>4, <1>5

LEMMA InParts ==
  /\ Texts5[1] = "UUID" /\ Texts5[2] = "TITLE" /\ Texts5[3] = "USER" /\ Texts5[4] = "GROUP"
  /\ Texts5[5] = "NOTES" /\ Word[1] = "PASSWORD"
  /\ Raws6[1] = "CTIME" /\ Raws6[2] = "MTIME" /\ Raws6[3] = "ATIME" /\ Raws6[4] = "LTIME"
  /\ Raws6[5] = "POLICY" /\ Raws6[6] = "END"
  /\ Len(Texts5) = 5 /\ Len(Word) = 1 /\ Len(Raws6) = 6
BY DEF Texts5, Word, Raws6

LEMMA TwoLists ==
  ASSUME NEW e
  PROVE  /\ Len(Places2(e)) = 11 + Words(e)
         /\ \A i \in 1..11 + Words(e) :
              Places2(e)[i] = IF i <= 5 THEN Texts5[i]
                              ELSE IF i <= 5 + Words(e) THEN "PASSWORD"
                              ELSE Raws6[i - (5 + Words(e))]
<1> DEFINE l == Len(Texts5)
           m == Len(Word)
           n == Len(Raws6)
<1>1. l = 5 /\ m = 1 /\ n = 6
  BY InParts
<1>2. CASE e["PASSWORD"] = Empty
  <2> DEFINE P == Texts5 \o Raws6
  <2>1. Places2(e) = P
    <3>1. Places2(e) = (Texts5 \o <<>>) \o Raws6
      BY <1>2 DEF Places2, Texts5, Raws6
    <3> QED BY <3>1, ThreeParts, ConcatEmptySeq
  <2>2. /\ Len(P) = l + n
        /\ \A i \in 1..l + n : P[i] = IF i <= l THEN Texts5[i] ELSE Raws6[i - l]
    BY ThreeParts, ConcatProperties
  <2>3. Words(e) = 0
    BY <1>2 DEF Words
  <2> HIDE DEF P, l, n
  <2>4. Len(P) = 11 /\ \A i \in 1..11 : P[i] = IF i <= 5 THEN Texts5[i] ELSE Raws6[i - 5]
    BY <2>2, <1>1
  <2> QED BY <2>1, <2>3, <2>4
<1>3. CASE e["PASSWORD"] # Empty
  <2> DEFINE S == Texts5 \o Word
             P == S \o Raws6
             k == Len(S)
  <2>1. Places2(e) = P
    BY <1>3 DEF Places2, Texts5, Word, Raws6
  <2>2. S \in Seq(Names)
    BY ThreeParts, ConcatProperties
  <2>3. k = l + m /\ \A i \in 1..l + m : S[i] = IF i <= l THEN Texts5[i] ELSE Word[i - l]
    BY ThreeParts, ConcatProperties
  <2> HIDE DEF S
  <2>4. Len(P) = k + n /\ \A i \in 1..k + n : P[i] = IF i <= k THEN S[i] ELSE Raws6[i - k]
    BY <2>2, ThreeParts, ConcatProperties
  <2> HIDE DEF P, k, l, m, n
  <2>5. k = 6 /\ \A i \in 1..6 : S[i] = IF i <= 5 THEN Texts5[i] ELSE "PASSWORD"
    BY <2>3, <1>1, InParts
  <2>6. Len(P) = 12 /\ \A i \in 1..12 : P[i] = IF i <= 6 THEN S[i] ELSE Raws6[i - 6]
    BY <2>4, <2>5, <1>1
  <2>7. Words(e) = 1
    BY <1>3 DEF Words
  <2>8. \A i \in 1..12 : P[i] = IF i <= 5 THEN Texts5[i] ELSE IF i <= 6 THEN "PASSWORD"
                                ELSE Raws6[i - 6]
    <3>1. \A i \in 1..12 : i <= 6 => P[i] = IF i <= 5 THEN Texts5[i] ELSE "PASSWORD"
      BY <2>5, <2>6
    <3>2. \A i \in 1..12 : i > 6 => P[i] = Raws6[i - 6]
      BY <2>6
    <3> QED BY <3>1, <3>2
  <2> QED BY <2>1, <2>6, <2>7, <2>8
<1> QED BY <1>2, <1>3

LEMMA Places2Facts ==
  ASSUME NEW e
  PROVE  LET P == Places2(e)
             N == Len(P)
         IN  /\ N \in Nat /\ N >= 3 /\ P[N] = "END"
             /\ \A j \in 1..N - 1 : P[j] \in Fields
             /\ \A f \in Fields : (\E j \in 1..N - 1 : P[j] = f)
                                    \/ (f = "PASSWORD" /\ e["PASSWORD"] = Empty)
             /\ \A i, j \in 1..N : P[i] = P[j] => i = j
<1> SUFFICES ASSUME NEW P, P = Places2(e), NEW b, b = Words(e)
             PROVE  /\ Len(P) = 11 + b /\ b \in {0, 1} /\ P[11 + b] = "END"
                    /\ \A j \in 1..10 + b : P[j] \in Fields
                    /\ \A f \in Fields : (\E j \in 1..10 + b : P[j] = f)
                                           \/ (f = "PASSWORD" /\ e["PASSWORD"] = Empty)
                    /\ \A i, j \in 1..11 + b : P[i] = P[j] => i = j
  OBVIOUS
<1>1. b \in {0, 1} /\ (b = 0 <=> e["PASSWORD"] = Empty)
  BY DEF Words
<1>2. Len(P) = 11 + b
  BY TwoLists
<1>3. \A i \in 1..11 + b : P[i] = IF i <= 5 THEN Texts5[i] ELSE IF i <= 5 + b THEN "PASSWORD"
                                 ELSE Raws6[i - (5 + b)]
  BY TwoLists
<1>4. /\ P[1] = "UUID" /\ P[2] = "TITLE" /\ P[3] = "USER" /\ P[4] = "GROUP" /\ P[5] = "NOTES"
  BY <1>1, <1>3, InParts
<1>5. CASE b = 0
  <2>1. /\ P[6] = "CTIME" /\ P[7] = "MTIME" /\ P[8] = "ATIME" /\ P[9] = "LTIME"
        /\ P[10] = "POLICY" /\ P[11] = "END"
    BY <1>3, <1>5, InParts
  <2>2. \A j \in 1..10 : P[j] \in Fields
    BY <1>4, <2>1 DEF Fields, TextFields, RawFields
  <2>3. \A f \in Fields : (\E j \in 1..10 : P[j] = f) \/ f = "PASSWORD"
    BY <1>4, <2>1 DEF Fields, TextFields, RawFields
  <2>4. \A i, j \in 1..11 : P[i] = P[j] => i = j
    BY <1>4, <2>1
  <2> QED BY <1>1, <1>2, <1>5, <2>1, <2>2, <2>3, <2>4
<1>6. CASE b = 1
  <2>1. /\ P[6] = "PASSWORD" /\ P[7] = "CTIME" /\ P[8] = "MTIME" /\ P[9] = "ATIME"
        /\ P[10] = "LTIME" /\ P[11] = "POLICY" /\ P[12] = "END"
    BY <1>3, <1>6, InParts
  <2>2. \A j \in 1..11 : P[j] \in Fields
    BY <1>4, <2>1 DEF Fields, TextFields, RawFields
  <2>3. \A f \in Fields : \E j \in 1..11 : P[j] = f
    BY <1>4, <2>1 DEF Fields, TextFields, RawFields
  <2>4. \A i, j \in 1..12 : P[i] = P[j] => i = j
    BY <1>4, <2>1
  <2>5. 11 + b = 12 /\ 10 + b = 11
    BY <1>6
  <2>6. (\A j \in 1..10 + b : P[j] \in Fields) /\ P[11 + b] = "END"
    BY <2>1, <2>2, <2>5
  <2>7. \A f \in Fields : \E j \in 1..10 + b : P[j] = f
    BY <2>3, <2>5
  <2>8. \A i, j \in 1..11 + b : P[i] = P[j] => i = j
    BY <2>4, <2>5
  <2> QED BY <1>1, <1>2, <2>6, <2>7, <2>8
<1> QED BY <1>1, <1>5, <1>6

LEMMA Places1Facts ==
  /\ Len(Places1) = 3 /\ Places1[1] = "TITLE" /\ Places1[2] = "PASSWORD" /\ Places1[3] = "NOTES"
BY DEF Places1

LEMMA TwoFormats == Blowfish # Blowfish2
BY DEF Blowfish, Blowfish2

LEMMA FirstFacts == FirstEntry \in {0, 1} /\ (fmt = Blowfish2 => FirstEntry = 0)
                    /\ (fmt # Blowfish2 => FirstEntry = 1)
BY DEF FirstEntry

LEMMA PlacesFacts ==
  ASSUME NEW i
  PROVE  /\ Len(Places(i)) \in Nat /\ Len(Places(i)) >= 3
         /\ fmt = Blowfish \/ i = 0 => Places(i) = Places1
         /\ fmt # Blowfish /\ i # 0 => Places(i) = Places2(entries[i])
<1>1. Len(Places1) \in Nat /\ Len(Places1) >= 3
  BY Places1Facts
<1>2. Len(Places2(entries[i])) \in Nat /\ Len(Places2(entries[i])) >= 3
  BY Places2Facts
<1> QED BY <1>1, <1>2 DEF Places

LEMMA AfterFacts ==
  ASSUME WriterTypes, NEW r \in Spots, ToWrite(r)
  PROVE  /\ After(r) \in Spots
         /\ ToWrite(After(r)) \/ Behind(After(r))
         /\ \A p \in Nat : InThrees(r, p) => InThrees(After(r), p + 1)
<1>1. Len(entries) \in Nat /\ FirstEntry \in {0, 1}
  BY FirstFacts, LenProperties DEF WriterTypes
<1>2. CASE r.place = Len(Places(r.entry))
  <2>1. After(r) = [entry |-> r.entry + 1, place |-> 1]
    BY <1>2 DEF After
  <2>2. (fmt = Blowfish => r.place = 3) /\ r.entry \in Nat /\ r.place \in Nat /\ r.place >= 3
    BY <1>2, PlacesFacts, Places1Facts DEF Spots
  <2>4. \A p \in Nat : InThrees(r, p) => InThrees(After(r), p + 1)
    BY <2>1, <2>2 DEF InThrees
  <2>3. r.entry + 1 \in FirstEntry..Len(entries) + 1
    BY <1>1 DEF ToWrite, Spots
  <2> QED BY <1>1, <2>1, <2>4, <2>3, PlacesFacts DEF Spots, ToWrite, Behind
<1>3. CASE r.place # Len(Places(r.entry))
  <2>1. After(r) = [entry |-> r.entry, place |-> r.place + 1]
    BY <1>3 DEF After, Spots
  <2> QED BY <1>1, <1>3, <2>1, PlacesFacts DEF Spots, ToWrite, Behind, InThrees
<1> QED BY <1>2, <1>3

LEMMA Carried ==
  ASSUME UNCHANGED <<fmt, asked, entries>>
  PROVE  \A r : /\ After(r)' = After(r) /\ ToWrite(r)' = ToWrite(r) /\ Behind(r)' = Behind(r)
                /\ \A p : InThrees(r, p)' = InThrees(r, p)
<1>1. \A i : Places(i)' = Places(i)
  BY DEF Places
<1> QED BY <1>1 DEF After, ToWrite, Behind, InThrees, FirstEntry

Writer == WriterTypes /\ WrittenInOrder /\ SizeInv

LEMMA SizeFacts ==
  ASSUME Writer
  PROVE  /\ size.n \in Nat /\ size.half \in BOOLEAN /\ Len(file) \in Nat /\ size.n <= Len(file)
         /\ (size.half => size.n < Len(file)) /\ file \in Seq(Spots)
<1>1. /\ size.n \in 0..Len(file) /\ size.half \in BOOLEAN /\ (size.half => size.n < Len(file))
      /\ file \in Seq(Spots)
  BY DEF Writer, WriterTypes, SizeInv
<1>2. Len(file) \in Nat
  BY <1>1, LenProperties
<1> QED BY <1>1, <1>2

LEMMA InitWriter == Init => Writer
<1> SUFFICES ASSUME Init PROVE Writer
  OBVIOUS
<1>1. PICK n \in 0..MaxEntries : entries \in [1..n -> Entries]
  BY DEF Init
<1>2. entries \in Seq(Entries) /\ Len(entries) = n /\ n <= MaxEntries
  BY <1>1, MaxEntriesAssumption
<1>3. at = [entry |-> FirstEntry, place |-> 1]
  BY DEF Init
<1>4. file \in Seq(Spots) /\ Len(file) = 0
  BY EmptySeq DEF Init
<1>5. /\ at.entry = FirstEntry /\ at.place = 1 /\ at \in Spots
      /\ at = [entry |-> at.entry, place |-> 1]
  BY <1>3, FirstFacts DEF Spots
<1>6. ToWrite(at) \/ Behind(at)
  <2>1. 1 \in 1..Len(Places(at.entry))
    BY PlacesFacts
  <2>2. at.entry \in FirstEntry..Len(entries) \/ at.entry = Len(entries) + 1
    BY <1>2, <1>5, FirstFacts
  <2> QED BY <1>5, <2>1, <2>2 DEF ToWrite, Behind
<1>7. InThrees(at, 1)
  <2>1. fmt \in {Blowfish, Blowfish2}
    BY DEF Init
  <2> QED BY <1>5, <2>1, FirstFacts, TwoFormats DEF InThrees
<1>8. WriterTypes
  <2>1. /\ fmt \in {Blowfish, Blowfish2} /\ asked \in {Blowfish, Blowfish2} /\ ser = asked
        /\ wrote = FALSE /\ stuck = FALSE
    BY DEF Init
  <2>2. pc = "writing" /\ saved = ""
    BY DEF Init
  <2>3. pc \in {"writing", "closed", "opened", "reading", "done"} /\ saved \in {"", "Success", "IOError"}
    BY <2>2
  <2> QED BY <1>2, <1>4, <1>5, <2>1, <2>3 DEF WriterTypes
<1>9. WrittenInOrder
  <2>1. \A p \in 1..Len(file) : FALSE
    BY <1>4
  <2>2. \A p : p = 1 => at = Spot(p) /\ InThrees(at, p)
    BY <1>3, <1>7 DEF Spot
  <2>3. saved = ""
    BY DEF Init
  <2>4. saved # "Success"
    BY <2>3
  <2>5. Len(file) + 1 = 1
    BY <1>4
  <2> QED BY <1>6, <2>1, <2>2, <2>3, <2>4, <2>5 DEF WrittenInOrder
<1>10. SizeInv
  <2>1. size.n = 0 /\ size.half = FALSE
    BY DEF Init
  <2>2. size.n \in 0..Len(file)
    BY <1>4, <2>1
  <2> QED BY <2>1, <2>2 DEF SizeInv
<1> QED BY <1>8, <1>9, <1>10 DEF Writer

LEMMA WriteKeepsWriter == Writer /\ WriteRecord => Writer'
<1> SUFFICES ASSUME Writer, WriteRecord, NEW n, n = Len(file) PROVE Writer'
  OBVIOUS
<1>1. /\ ~stuck /\ pc = "writing" /\ at.entry <= Len(entries) /\ file' = Append(file, at)
      /\ at' = After(at) /\ EndOfEntry(TRUE)
      /\ UNCHANGED <<fmt, asked, entries, stuck, size, ser, pos, begun, item, added>>
  BY DEF WriteRecord, Writing, NextPlace, After, reader
<1>2. WriterTypes /\ WrittenInOrder /\ SizeInv
  BY DEF Writer
<1>3. file \in Seq(Spots) /\ at \in Spots /\ n \in Nat /\ Len(entries) \in Nat
  BY <1>2, LenProperties DEF WriterTypes
<1>4. ToWrite(at) /\ at = Spot(n + 1) /\ InThrees(at, n + 1) /\ saved = ""
  <2>1. ToWrite(at) \/ Behind(at)
    BY <1>2 DEF WrittenInOrder
  <2>2. ~Behind(at)
    BY <1>1, <1>3 DEF Behind
  <2> QED BY <1>1, <1>2, <2>1, <2>2 DEF WrittenInOrder
<1>5. /\ file' \in Seq(Spots) /\ Len(file') = n + 1 /\ file'[n + 1] = at
      /\ \A p \in 1..n : file'[p] = file[p]
  BY <1>1, <1>3, AppendProperties
<1>6. at' \in Spots /\ (ToWrite(at') \/ Behind(at')) /\ InThrees(at', n + 2)
  <2>1. /\ After(at) \in Spots /\ (ToWrite(After(at)) \/ Behind(After(at)))
        /\ \A p \in Nat : InThrees(at, p) => InThrees(After(at), p + 1)
    BY <1>2, <1>3, <1>4, AfterFacts
  <2>2. n + 1 \in Nat /\ (n + 1) + 1 = n + 2
    BY <1>3
  <2> QED BY <1>1, <1>4, <2>1, <2>2
<1>7. FirstEntry' = FirstEntry
  BY <1>1 DEF FirstEntry
<1>8. ASSUME NEW p \in 1..n + 1 PROVE Spot(p)' = Spot(p)
  <2>1. p # 1 => p - 1 \in 1..n
    BY <1>3
  <2>2. p # 1 => file'[p - 1] = file[p - 1]
    BY <2>1, <1>5
  <2> QED BY <1>1, <2>2, <1>7, Carried DEF Spot
<1>9. Spot(n + 2)' = at'
  <2>1. n + 2 # 1 /\ (n + 2) - 1 = n + 1
    BY <1>3
  <2> QED BY <2>1, <1>1, <1>5, Carried DEF Spot
<1>10. pc' = pc /\ saved' = saved /\ wrote' \in BOOLEAN
  BY <1>1 DEF EndOfEntry
<1>11. WriterTypes'
  BY <1>1, <1>2, <1>5, <1>6, <1>10 DEF WriterTypes
<1>12. WrittenInOrder'
  <2>1. ASSUME NEW p \in 1..n + 1, NEW r, r = file'[p]
        PROVE  r = Spot(p)' /\ ToWrite(r)' /\ InThrees(r, p)'
    <3>1. r = Spot(p) /\ ToWrite(r) /\ InThrees(r, p)
      <4>1. CASE p = n + 1
        BY <2>1, <4>1, <1>4, <1>5
      <4>2. CASE p # n + 1
        <5>1. p \in 1..n
          BY <1>3, <4>2
        <5> QED BY <2>1, <5>1, <1>2, <1>5 DEF WrittenInOrder
      <4> QED BY <4>1, <4>2
    <3> QED BY <3>1, <1>1, <1>8, Carried
  <2>2. (ToWrite(at) \/ Behind(at))' /\ InThrees(at, n + 2)'
    BY <1>1, <1>6, Carried
  <2>3. Len(file') + 1 = n + 2
    BY <1>3, <1>5
  <2>4. saved' = "" /\ saved' # "Success"
    BY <1>4, <1>10
  <2>5. \A p \in 1..Len(file') : (file[p] = Spot(p) /\ ToWrite(file[p]) /\ InThrees(file[p], p))'
    BY <1>5, <2>1 DEF ToWrite, InThrees
  <2> QED BY <1>9, <2>2, <2>3, <2>4, <2>5 DEF WrittenInOrder
<1>13. SizeInv'
  BY <1>1, <1>2, <1>3, <1>5 DEF SizeInv
<1> QED BY <1>11, <1>12, <1>13 DEF Writer

\* The file is there in every other step as it was.
LEMMA SameFile ==
  ASSUME Writer, UNCHANGED <<fmt, asked, entries, file>>
  PROVE  /\ \A p : Spot(p)' = Spot(p)
         /\ \A p \in 1..Len(file) : file[p] = Spot(p)' /\ ToWrite(file[p])' /\ InThrees(file[p], p)'
<1>1. \A p : Spot(p)' = Spot(p)
  BY Carried DEF Spot, FirstEntry
<1> QED BY <1>1, Carried DEF Writer, WrittenInOrder

LEMMA SkipKeepsWriter == Writer /\ SkipRecord => Writer'
<1> SUFFICES ASSUME Writer, SkipRecord PROVE Writer'
  OBVIOUS
<1>1. /\ pc = "writing" /\ at.entry <= Len(entries) /\ stuck' = TRUE /\ at' = After(at)
      /\ EndOfEntry(wrote)
      /\ UNCHANGED <<fmt, asked, entries, file, size, ser, pos, begun, item, added>>
  BY DEF SkipRecord, Writing, NextPlace, After, reader
<1>2. WriterTypes /\ WrittenInOrder /\ SizeInv
  BY DEF Writer
<1>3. at \in Spots /\ ToWrite(at) /\ saved = ""
  <2>1. Len(entries) \in Nat /\ (ToWrite(at) \/ Behind(at))
    BY <1>2, LenProperties DEF WriterTypes, WrittenInOrder
  <2>2. ~Behind(at)
    BY <1>1, <2>1 DEF Behind
  <2> QED BY <1>1, <1>2, <2>1, <2>2 DEF WriterTypes, WrittenInOrder
<1>4. at' \in Spots /\ (ToWrite(at') \/ Behind(at'))
  BY <1>1, <1>2, <1>3, AfterFacts
<1>5. /\ wrote' \in BOOLEAN
      /\ (pc' = pc /\ saved' = saved) \/ (pc' = "closed" /\ saved' = "IOError")
  BY <1>1, <1>2 DEF EndOfEntry, WriterTypes
<1>6. WriterTypes'
  BY <1>1, <1>2, <1>4, <1>5 DEF WriterTypes
<1>7. WrittenInOrder'
  <2>1. (ToWrite(at) \/ Behind(at))'
    BY <1>1, <1>4, Carried
  <2>2. saved' # "Success" /\ (pc' = "writing" => saved' = "")
    BY <1>3, <1>5
  <2> QED BY <1>1, <2>1, <2>2, SameFile DEF WrittenInOrder
<1>8. SizeInv'
  BY <1>1, <1>2 DEF SizeInv
<1> QED BY <1>6, <1>7, <1>8 DEF Writer

LEMMA EndKeepsWriter == Writer /\ (SaveDone \/ Close \/ Crash) => Writer'
<1> SUFFICES ASSUME Writer, SaveDone \/ Close \/ Crash PROVE Writer'
  OBVIOUS
<1>1. UNCHANGED <<fmt, asked, entries, at, file, stuck, wrote, ser, pos, begun, item, added>>
  BY DEF SaveDone, Close, Crash, reader
<1>2. WriterTypes /\ WrittenInOrder /\ SizeInv
  BY DEF Writer
<1>3. ASSUME SaveDone PROVE Behind(at)
  <2>1. at.entry > Len(entries) /\ Len(entries) \in Nat
    BY <1>2, <1>3, LenProperties DEF SaveDone, WriterTypes
  <2>2. ~ToWrite(at)
    BY <2>1, FirstFacts DEF ToWrite
  <2> QED BY <1>2, <2>2 DEF WrittenInOrder
<1>4. /\ pc' \in {"closed", "opened"}
      /\ saved' = saved \/ (saved' = "Success" /\ SaveDone)
  BY DEF SaveDone, Close, Crash
<1>5. WriterTypes'
  <2>1. saved' \in {"", "Success", "IOError"}
    BY <1>2, <1>4 DEF WriterTypes
  <2> QED BY <1>1, <1>2, <1>4, <2>1 DEF WriterTypes
<1>6. WrittenInOrder'
  <2>1. saved' = "Success" => Behind(at)
    BY <1>2, <1>3, <1>4 DEF WrittenInOrder
  <2>2. /\ ToWrite(at) \/ Behind(at)
        /\ ~stuck => at = Spot(Len(file) + 1) /\ InThrees(at, Len(file) + 1)
    BY <1>2 DEF WrittenInOrder
  <2> QED BY <1>1, <1>4, <2>1, <2>2, SameFile, Carried DEF WrittenInOrder
<1>7. SizeInv'
  <2>1. CASE size' = size
    BY <1>1, <1>2, <2>1 DEF SizeInv
  <2>2. CASE size' = [n |-> Len(file), half |-> FALSE]
    <3>1. Len(file) \in Nat /\ size'.n = Len(file) /\ size'.half = FALSE
      BY <1>2, <2>2, LenProperties DEF WriterTypes
    <3>2. size'.n \in 0..Len(file)
      BY <3>1
    <3> QED BY <1>1, <3>1, <3>2 DEF SizeInv
  <2>3. ASSUME NEW n \in 0..Len(file) - 1, NEW half \in BOOLEAN, size' = [n |-> n, half |-> half]
        PROVE  SizeInv'
    <3>1. Len(file) \in Nat
      BY <1>2, LenProperties DEF WriterTypes
    <3>2. size'.n = n /\ size'.half = half
      BY <2>3
    <3> QED BY <1>1, <3>1, <3>2 DEF SizeInv
  <2> QED BY <2>1, <2>2, <2>3 DEF SaveDone, Close, Crash
<1> QED BY <1>5, <1>6, <1>7 DEF Writer

\* Reading leaves the file alone.
LEMMA ReadKeepsWriter ==
  ASSUME Writer, UNCHANGED <<fmt, asked, entries, at, file, stuck, wrote, saved, size>>,
         ser' \in {Blowfish, Blowfish2},
         pc' = pc \/ pc' \in {"reading", "done"}
  PROVE  Writer'
<1>1. WriterTypes /\ WrittenInOrder /\ SizeInv
  BY DEF Writer
<1>2. WriterTypes'
  BY <1>1 DEF WriterTypes
<1>3. WrittenInOrder'
  <2>1. /\ ToWrite(at) \/ Behind(at)
        /\ ~stuck => at = Spot(Len(file) + 1) /\ InThrees(at, Len(file) + 1)
        /\ (pc' = "writing" => saved' = "") /\ (saved' = "Success" => Behind(at))
    BY <1>1 DEF WrittenInOrder
  <2> QED BY <2>1, SameFile, Carried DEF WrittenInOrder
<1>4. SizeInv'
  BY <1>1 DEF SizeInv
<1> QED BY <1>2, <1>3, <1>4 DEF Writer
-----------------------------------------------------------------------------
Reader == /\ ReaderTypes /\ NotReading /\ ReadBy /\ InStep /\ AddedHolds /\ InStep1
          /\ DoneIsAtEnd

LEMMA BlankIsBlank ==
  /\ Blank \in [Fields -> Values]
  /\ \A f \in Fields : /\ f \in TextFields => Blank[f] = Empty
                       /\ f \in RawFields => Blank[f] = Made
BY DEF Blank, Values, Fields, TextFields, RawFields

\* Nothing has been read as long as the file is being written.
Unread ==
  /\ pc \notin {"reading", "done"}
  /\ pos = 1 /\ begun = FALSE /\ item = Blank /\ added = <<>>
  /\ ser = asked \/ (ser = Blowfish /\ pc = "opened" /\ (fmt = Blowfish \/ size.n = 0))

LEMMA NothingRead == Writer /\ Unread => Reader
<1> SUFFICES ASSUME Writer, Unread PROVE Reader
  OBVIOUS
<1> USE DEF Unread
<1>1. Len(file) \in Nat /\ Len(added) = 0
  BY LenProperties, EmptySeq DEF Writer, WriterTypes
<1>2. ReaderTypes
  <2>1. pos \in 1..Len(file) + 3
    BY <1>1
  <2>2. added \in Seq([Fields -> Values])
    BY EmptySeq
  <2> QED BY <2>1, <2>2, BlankIsBlank DEF ReaderTypes
<1>3. NotReading /\ DoneIsAtEnd
  BY DEF NotReading, DoneIsAtEnd
<1>4. ReadBy
  BY TwoFormats DEF ReadBy
<1>5. InStep /\ AddedHolds
  BY DEF InStep, AddedHolds, Reads2
<1>6. InStep1
  <2>1. pos = 3 * Len(added) + 1
    BY <1>1
  <2>2. \A k \in DOMAIN added : FALSE
    BY EmptySeq
  <2> QED BY <2>1, <2>2 DEF InStep1
<1> QED BY <1>2, <1>3, <1>4, <1>5, <1>6 DEF Reader

LEMMA InitReader == Init => Reader
<1> SUFFICES ASSUME Init PROVE Reader
  OBVIOUS
<1>1. pc = "writing" /\ pos = 1 /\ begun = FALSE /\ item = Blank /\ added = <<>> /\ ser = asked
  BY DEF Init
<1> QED BY <1>1, InitWriter, NothingRead DEF Unread

LEMMA WriteKeepsReader ==
  ASSUME Writer, Reader, Writer', WriteRecord \/ SkipRecord \/ SaveDone \/ Close \/ Crash
  PROVE  Reader'
<1>1. /\ pc \in {"writing", "closed"} /\ pc' \in {"writing", "closed", "opened"}
      /\ UNCHANGED <<fmt, asked, ser, pos, begun, item, added>>
  BY DEF WriteRecord, SkipRecord, SaveDone, Close, Crash, Writing, EndOfEntry, reader
<1>2. /\ ser = asked /\ pos = 1 /\ begun = FALSE /\ item = Blank /\ added = <<>>
  BY <1>1 DEF Reader, ReadBy, NotReading, ReaderTypes, Writer, WriterTypes
<1>3. Unread'
  BY <1>1, <1>2 DEF Unread, Blank
<1>4. (Writer /\ Unread => Reader)'
  BY NothingRead, PTL
<1> QED BY <1>3, <1>4
\* A length that is there is that of a record of the file.
LEMMA ThereIsRecord ==
  ASSUME Writer, Reader, LengthThere(pos)
  PROVE  /\ size.n \in Nat /\ Len(file) \in Nat /\ pos \in 1..Len(file) /\ pos <= size.n + 1
         /\ End \in Nat /\ pos < End /\ file[pos] \in Spots /\ file[pos] = Spot(pos) /\ ToWrite(file[pos])
         /\ InThrees(file[pos], pos)
<1>1. /\ size.n \in 0..Len(file) /\ size.half \in BOOLEAN /\ (size.half => size.n < Len(file))
      /\ Len(file) \in Nat /\ pos \in 1..Len(file) + 3 /\ file \in Seq(Spots)
  BY LenProperties DEF Writer, WriterTypes, SizeInv, Reader, ReaderTypes
<1>2. /\ size.n \in Nat /\ pos \in 1..Len(file) /\ pos <= size.n + 1 /\ pos < End
      /\ End \in Nat
  BY <1>1 DEF LengthThere, End
<1>3. file[pos] \in Spots
  BY <1>1, <1>2, ElementOfSeq
<1> QED BY <1>1, <1>2, <1>3 DEF Writer, WrittenInOrder

\* The format header of version 2 is three records.
LEMMA HeaderIsThree ==
  ASSUME Writer, fmt = Blowfish2
  PROVE  /\ \A p \in 1..3 : p <= Len(file) => file[p] = [entry |-> 0, place |-> p]
         /\ Len(file) >= 3 => Spot(4) = [entry |-> 1, place |-> 1]
<1>1. /\ \A p \in 1..Len(file) : file[p] = Spot(p)
      /\ Len(file) \in Nat /\ FirstEntry = 0 /\ Len(Places(0)) = 3
  BY LenProperties, FirstFacts, PlacesFacts, Places1Facts DEF Writer, WriterTypes, WrittenInOrder
<1>2. Len(file) >= 1 => file[1] = [entry |-> 0, place |-> 1]
  BY <1>1 DEF Spot
<1>3. After([entry |-> 0, place |-> 1]) = [entry |-> 0, place |-> 2]
  BY <1>1 DEF After
<1>4. After([entry |-> 0, place |-> 2]) = [entry |-> 0, place |-> 3]
  BY <1>1 DEF After
<1>5. After([entry |-> 0, place |-> 3]) = [entry |-> 1, place |-> 1]
  BY <1>1 DEF After
<1>6. Spot(2) = After(file[1]) /\ Spot(3) = After(file[2]) /\ Spot(4) = After(file[3])
  BY DEF Spot
<1>7. Len(file) >= 2 => file[2] = [entry |-> 0, place |-> 2]
  BY <1>1, <1>2, <1>3, <1>6
<1>8. Len(file) >= 3 => file[3] = [entry |-> 0, place |-> 3]
  BY <1>1, <1>4, <1>6, <1>7
<1>9. ASSUME NEW p \in 1..3, p <= Len(file) PROVE file[p] = [entry |-> 0, place |-> p]
  <2>1. p = 1 \/ p = 2 \/ p = 3
    OBVIOUS
  <2> QED BY <1>1, <1>2, <1>7, <1>8, <1>9, <2>1
<1> QED BY <1>5, <1>6, <1>8, <1>9

LEMMA NextFormat == getNextExt(Blowfish2) = Blowfish
<1> DEFINE S == {i \in DOMAIN Registry :
                   \E j \in DOMAIN Registry : Registry[j] = Blowfish2 /\ i > j}
<1>1. /\ DOMAIN Registry = 1..4 /\ Registry[1] = PlainText /\ Registry[2] = Blowfish2
      /\ Registry[3] = Blowfish /\ Registry[4] = Xml
  BY DEF Registry
<1>2. Blowfish2 # PlainText /\ Blowfish2 # Blowfish /\ Blowfish2 # Xml
  BY DEF PlainText, Blowfish2, Blowfish, Xml
<1>3. S = {3, 4}
  BY <1>1, <1>2
<1>4. First({3, 4}) = 3
  BY DEF First
<1> HIDE DEF S
<1>5. S # {} /\ First(S) = 3
  BY <1>3, <1>4
<1> QED BY <1>1, <1>5 DEF getNextExt, S

LEMMA HeaderKeepsReader ==
  ASSUME Writer, Reader, Writer', ReadHeader
  PROVE  Reader'
<1>1. /\ pc = "opened" /\ ser = Blowfish2
      /\ UNCHANGED <<fmt, asked, entries, at, file, stuck, wrote, saved, size, begun, item, added>>
  BY DEF ReadHeader, writer
<1>2. pos = 1 /\ begun = FALSE /\ item = Blank /\ added = <<>>
  BY <1>1 DEF Reader, NotReading, ReaderTypes
<1>3. /\ size.n \in Nat /\ size.n <= Len(file) /\ Len(file) \in Nat /\ size.half \in BOOLEAN
      /\ fmt \in {Blowfish, Blowfish2}
  <2>1. Len(file) \in Nat /\ fmt \in {Blowfish, Blowfish2}
    BY LenProperties DEF Writer, WriterTypes
  <2>2. size.n \in 0..Len(file) /\ size.half \in BOOLEAN
    BY DEF Writer, SizeInv
  <2> QED BY <2>1, <2>2
<1>4. CASE /\ fmt = Blowfish2 /\ size.n >= 1 /\ pc' = "reading" /\ ser' = ser
           /\ pos' = IF size.n >= 3 THEN 4 ELSE size.n + 2
  <2>1. ReaderTypes'
    <3>1. pos' \in 1..Len(file') + 3
      BY <1>1, <1>3, <1>4
    <3> QED BY <1>1, <3>1 DEF Reader, ReaderTypes
  <2>2. NotReading' /\ ReadBy' /\ DoneIsAtEnd'
    BY <1>1, <1>4, TwoFormats DEF Reader, NotReading, ReadBy, DoneIsAtEnd
  <2>3. InStep'
    <3>1. CASE size.n < 3
      BY <1>1, <1>2, <1>3, <1>4, <3>1 DEF InStep
    <3>2. CASE size.n >= 3
      <4>1. pos' = 4 /\ Spot(4) = [entry |-> 1, place |-> 1]
        BY <1>3, <1>4, <3>2, HeaderIsThree
      <4>2. \A p : Spot(p)' = Spot(p)
        BY <1>1, SameFile
      <4>3. (pos \in 4..End)'
        BY <1>1, <1>3, <3>2, <4>1 DEF End
      <4>4. ItemHolds([entry |-> 1, place |-> 1])'
        <5>1. \A f : f \notin Before([entry |-> 1, place |-> 1])'
          BY DEF Before
        <5> QED BY <1>1, <1>2, <5>1, BlankIsBlank DEF ItemHolds
      <4>5. Len(added') = 0
        BY <1>1, <1>2, EmptySeq
      <4>6. Spot(pos)' = [entry |-> 1, place |-> 1]
        BY <4>1, <4>2
      <4>7. Blank' = Blank
        BY DEF Blank
      <4> QED BY <1>1, <1>2, <1>3, <3>2, <4>3, <4>4, <4>5, <4>6, <4>7 DEF InStep
    <3> QED BY <1>3, <3>1, <3>2
  <2>4. AddedHolds'
    BY <1>1, <1>2, EmptySeq DEF AddedHolds
  <2>5. InStep1'
    BY <1>1, <1>4, TwoFormats DEF InStep1, Reads1
  <2> QED BY <2>1, <2>2, <2>3, <2>4, <2>5 DEF Reader
<1>5. CASE ~(fmt = Blowfish2 /\ size.n >= 1) /\ ser' = getNextExt(Blowfish2) /\ UNCHANGED <<pc, pos>>
  <2>1. ser' = Blowfish /\ (fmt = Blowfish \/ size.n = 0)
    BY <1>3, <1>5, NextFormat
  <2>2. Unread'
    BY <1>1, <1>2, <1>5, <2>1 DEF Unread, Blank
  <2>3. (Writer /\ Unread => Reader)'
    BY NothingRead, PTL
  <2> QED BY <2>2, <2>3
<1> QED BY <1>4, <1>5 DEF ReadHeader
LEMMA ReadAs1KeepsReader ==
  ASSUME Writer, Reader, Writer', ReadAs1
  PROVE  Reader'
<1>1. /\ pc = "opened" /\ ser = Blowfish /\ ser' = Blowfish /\ pc' = "reading"
      /\ UNCHANGED <<fmt, asked, entries, at, file, stuck, wrote, saved, size, pos, begun, item, added>>
  BY DEF ReadAs1, writer, reader
<1>2. pos = 1 /\ begun = FALSE /\ added = <<>>
  BY <1>1 DEF Reader, NotReading, ReaderTypes
<1>3. ReaderTypes' /\ NotReading' /\ DoneIsAtEnd'
  BY <1>1 DEF Reader, ReaderTypes, NotReading, DoneIsAtEnd
<1>4. ReadBy'
  BY <1>1, <1>2, TwoFormats DEF Reader, ReadBy
<1>5. InStep' /\ AddedHolds'
  BY <1>1, TwoFormats DEF InStep, AddedHolds, Reads2
<1>6. InStep1'
  <2>1. Len(added') = 0 /\ added' = <<>> /\ pos' = 1
    BY <1>1, <1>2, EmptySeq
  <2>2. \A k \in DOMAIN added' : FALSE
    BY <2>1
  <2>3. pos' = 3 * Len(added') + 1
    BY <2>1
  <2> QED BY <2>1, <2>2, <2>3 DEF InStep1
<1> QED BY <1>3, <1>4, <1>5, <1>6 DEF Reader

LEMMA SameData ==
  ASSUME UNCHANGED <<fmt, asked, entries, file, size>>
  PROVE  /\ \A p : LengthThere(p)' = LengthThere(p) /\ Spot(p)' = Spot(p)
         /\ \A r : Before(r)' = Before(r) /\ After(r)' = After(r) /\ ToWrite(r)' = ToWrite(r)
         /\ End' = End
<1>1. \A i : Places(i)' = Places(i)
  BY DEF Places
<1> QED BY <1>1, Carried DEF LengthThere, Spot, FirstEntry, Before, End

\* The record being read, and what readEntry has of its entry.
LEMMA FieldAt ==
  ASSUME Writer, Reader, pc = "reading", ser = Blowfish2, LengthThere(pos), NEW r, r = file[pos]
  PROVE  /\ fmt = Blowfish2 /\ size.n >= 3 /\ pos \in 4..End
         /\ r \in Spots /\ r.entry = Len(added) + 1 /\ r.entry \in 1..Len(entries)
         /\ r = Spot(pos) /\ After(r) = Spot(pos + 1)
         /\ Places(r.entry) = Places2(entries[r.entry])
         /\ r.place \in 1..Len(Places2(entries[r.entry]))
         /\ begun <=> r.place > 1
         /\ ~begun => item = Blank
         /\ ItemHolds(r) /\ AddedHolds
<1>1. /\ size.n \in Nat /\ pos \in 1..Len(file) /\ Len(file) \in Nat /\ pos <= size.n + 1
      /\ r \in Spots /\ r = Spot(pos) /\ ToWrite(r)
  BY ThereIsRecord
<1>2. fmt = Blowfish2 /\ size.n >= 1 /\ Reads2
  BY DEF Reader, ReadBy, Reads2
<1>3. size.n >= 3
  <2>1. size.n < 3 => pos = size.n + 2
    BY <1>2 DEF Reader, InStep
  <2> QED BY <1>1, <2>1
<1>4. /\ pos \in 4..End /\ Spot(pos).entry = Len(added) + 1 /\ (begun <=> Spot(pos).place > 1)
      /\ (~begun => item = Blank) /\ ItemHolds(Spot(pos))
  BY <1>1, <1>2, <1>3 DEF Reader, InStep
<1>5. Len(added) \in Nat /\ Len(entries) \in Nat
  BY LenProperties DEF Reader, ReaderTypes, Writer, WriterTypes
<1>6. r.entry = Len(added) + 1 /\ r.entry \in 1..Len(entries) /\ r.place \in 1..Len(Places(r.entry))
  BY <1>1, <1>4, <1>5, FirstFacts DEF ToWrite, Spots
<1>7. Places(r.entry) = Places2(entries[r.entry])
  BY <1>2, <1>6, PlacesFacts, TwoFormats
<1>8. After(r) = Spot(pos + 1)
  <2>1. pos + 1 # 1 /\ (pos + 1) - 1 = pos
    BY <1>1
  <2> QED BY <2>1 DEF Spot
<1> QED BY <1>1, <1>2, <1>3, <1>4, <1>6, <1>7, <1>8 DEF Reader

LEMMA ReadsUnchanged ==
  ASSUME Writer, Reader, pc = "reading", ser = Blowfish2, ~LengthThere(pos), AtEnd,
         UNCHANGED <<fmt, asked, entries, at, file, stuck, wrote, saved, size, ser>>
  PROVE  Reader'
<1>1. /\ UNCHANGED <<pos, begun, item, added>>
      /\ pc' = IF begun THEN pc ELSE "done"
  BY DEF AtEnd
<1>2. ReaderTypes' /\ NotReading' /\ ReadBy'
  BY <1>1, TwoFormats DEF Reader, ReaderTypes, NotReading, ReadBy
<1>3. DoneIsAtEnd'
  BY <1>1, SameData DEF Reader, DoneIsAtEnd
<1>4. (Reads2' <=> Reads2) /\ Reads1' = Reads1 /\ Reads2
  BY <1>1 DEF Reads2, Reads1
<1>5. InStep'
  <2>1. \A r : ItemHolds(r)' = ItemHolds(r)
    BY <1>1, SameData DEF ItemHolds, Back
  <2>2. Blank' = Blank /\ Spot(pos)' = Spot(pos) /\ ItemHolds(Spot(pos))' = ItemHolds(Spot(pos))
    BY <1>1, <2>1, SameData DEF Blank
  <2> QED BY <1>1, <1>4, <2>2, SameData DEF Reader, InStep
<1>6. AddedHolds' /\ InStep1'
  BY <1>1, <1>4, SameData, TwoFormats DEF Reader, AddedHolds, InStep1, Back, Reads2, Reads1
<1> QED BY <1>2, <1>3, <1>5, <1>6 DEF Reader
\* The bytes of a whole record are those of its field, or of a C string in them.
LEMMA DataBack ==
  ASSUME NEW p \in Nat, NEW e, NEW f \in Fields, size.n \in Nat, p <= size.n, e \in Entries,
         file[p].entry # 0, entries[file[p].entry] = e, Places(file[p].entry)[file[p].place] = f,
         NEW d \in DataAt(p)
  PROVE  /\ f \in TextFields => d = e[f]
         /\ f \in RawFields \ {"LTIME"} =>
              /\ e[f] \in FirstNul => d = Empty
              /\ e[f] \notin FirstNul \cup InnerNul => d = e[f] /\ d # Empty
<1>1. f # "END"
  BY DEF Fields, TextFields, RawFields
<1>2. DataAt(p) = CASE Datum(e, f) \in FirstNul -> {Empty}
                    [] Datum(e, f) \in InnerNul -> {Datum(e, f), Garbage}
                    [] OTHER -> {Datum(e, f)}
  BY DEF DataAt
<1>3. f # "LTIME" => Datum(e, f) = e[f]
  BY <1>1 DEF Datum
<1>4. f \in TextFields => f # "LTIME" /\ e[f] \notin FirstNul \cup InnerNul
  BY TextAssumption DEF TextFields
<1>5. ASSUME f # "LTIME"
      PROVE  /\ e[f] \in FirstNul => d = Empty
             /\ e[f] \notin FirstNul \cup InnerNul => d = e[f]
  <2>1. CASE e[f] \in FirstNul
    <3>1. DataAt(p) = {Empty}
      BY <1>2, <1>3, <1>5, <2>1, NulAssumption
    <3> QED BY <2>1, <3>1
  <2>2. CASE e[f] \notin FirstNul \cup InnerNul
    <3>1. DataAt(p) = {e[f]}
      BY <1>2, <1>3, <1>5, <2>2
    <3> QED BY <2>2, <3>1
  <2> QED BY <2>1, <2>2
<1>6. f \in RawFields => e[f] # Empty
  BY EntriesAssumption
<1> QED BY <1>4, <1>5, <1>6

LEMMA DataIsValue ==
  ASSUME Writer, NEW p \in 1..Len(file), NEW d \in DataAt(p)
  PROVE  d \in Values
<1> DEFINE i == file[p].entry
           f == Places(i)[file[p].place]
           v == IF i = 0 THEN FormatHeader[f] ELSE Datum(entries[i], f)
<1>1. /\ i \in Nat /\ i <= Len(entries) /\ file[p].place \in 1..Len(Places(i))
  <2>1. file[p] \in Spots /\ ToWrite(file[p]) /\ Len(entries) \in Nat
    BY ElementOfSeq, LenProperties DEF Writer, WriterTypes, WrittenInOrder
  <2> QED BY <2>1, FirstFacts DEF Spots, ToWrite
<1>2. CASE i = 0
  <2>1. Places(i) = Places1
    BY <1>2, PlacesFacts
  <2>2. f \in {"TITLE", "PASSWORD", "NOTES"}
    BY <1>1, <2>1, Places1Facts
  <2>3. FormatHeader[f] \in {Empty, "pwsafe 2.0"}
    <3> HIDE DEF f
    <3> QED BY <2>2 DEF FormatHeader
  <2> QED BY <1>2, <2>3 DEF DataAt, Values
<1>3. CASE i # 0
  <2> DEFINE e == entries[i]
  <2>1. e \in [Fields -> STRING]
    <3>1. entries \in Seq(Entries) /\ Len(entries) \in Nat
      BY LenProperties DEF Writer, WriterTypes
    <3> HIDE DEF i
    <3>2. i \in 1..Len(entries)
      BY <1>1, <1>3, <3>1
    <3>3. e \in Entries
      BY <3>1, <3>2, ElementOfSeq
    <3> QED BY <3>3, EntriesAssumption
  <2>2. f \in Fields \cup {"END"}
    <3>1. CASE Places(i) = Places1
      BY <1>1, <3>1, Places1Facts DEF Fields, TextFields
    <3>2. CASE Places(i) = Places2(e)
      <4> DEFINE N == Len(Places2(e))
      <4>1. N \in Nat /\ Places2(e)[N] = "END" /\ \A j \in 1..N - 1 : Places2(e)[j] \in Fields
        BY Places2Facts
      <4> HIDE DEF N
      <4>2. file[p].place = N \/ file[p].place \in 1..N - 1
        BY <1>1, <3>2, <4>1 DEF N
      <4> QED BY <3>2, <4>1, <4>2
    <3> QED BY <1>3, <3>1, <3>2, PlacesFacts
  <2>3. "POLICY" \in Fields
    BY DEF Fields, RawFields
  <2>4. Datum(e, f) \in Values
    <3> HIDE DEF e, f
    <3> QED BY <2>1, <2>2, <2>3 DEF Datum, Values
  <2>5. DataAt(p) \subseteq {Garbage, Empty, Datum(e, f)}
    <3>1. DataAt(p) = IF p > size.n THEN {Garbage, Empty}
                      ELSE CASE Datum(e, f) \in FirstNul -> {Empty}
                             [] Datum(e, f) \in InnerNul -> {Datum(e, f), Garbage}
                             [] OTHER -> {Datum(e, f)}
      BY <1>3 DEF DataAt
    <3> HIDE DEF e, f
    <3> QED BY <3>1
  <2> QED BY <2>4, <2>5 DEF Values
<1> QED BY <1>2, <1>3

\* One more field of the entry is read.
LEMMA FieldRead ==
  ASSUME Writer, Reader, pc = "reading", ser = Blowfish2, LengthThere(pos), pos' = pos + 1,
         UNCHANGED <<fmt, asked, entries, at, file, stuck, wrote, saved, size, pc, ser, added>>,
         NEW r, r = file[pos], NEW f, f = Places(r.entry)[r.place], f # "END",
         NEW d \in DataAt(pos), item' = WithField(item, f, d),
         begun' = TRUE
  PROVE  Reader'
<1> DEFINE e == entries[r.entry]
           N == Len(Places2(e))
<1>1. /\ fmt = Blowfish2 /\ size.n >= 3 /\ pos \in 4..End
      /\ r \in Spots /\ r.entry = Len(added) + 1 /\ r.entry \in 1..Len(entries)
      /\ r = Spot(pos) /\ After(r) = Spot(pos + 1)
      /\ Places(r.entry) = Places2(e) /\ r.place \in 1..N
      /\ ItemHolds(r) /\ AddedHolds
  BY FieldAt
<1>2. /\ N \in Nat /\ N >= 3 /\ Places2(e)[N] = "END"
      /\ \A j \in 1..N - 1 : Places2(e)[j] \in Fields
      /\ \A i, j \in 1..N : Places2(e)[i] = Places2(e)[j] => i = j
  BY Places2Facts
<1> HIDE DEF e, N
<1>3. r.place # N /\ r.place \in 1..N - 1 /\ f \in Fields
  <2>1. r.place # N
    BY <1>1, <1>2
  <2> QED BY <1>1, <1>2, <2>1
<1>4. /\ size.n \in Nat /\ Len(file) \in Nat /\ pos \in 1..Len(file) /\ pos <= size.n + 1
      /\ pos < End /\ End \in Nat
  BY ThereIsRecord
<1>5. After(r) = [entry |-> r.entry, place |-> r.place + 1]
  BY <1>1, <1>3 DEF After, Spots, N
<1>6. d \in Values
  BY <1>4, DataIsValue
<1>7. item \in [Fields -> Values] /\ item' \in [Fields -> Values]
  BY <1>3, <1>6 DEF Reader, ReaderTypes, WithField
<1>8. ReaderTypes'
  BY <1>4, <1>7 DEF Reader, ReaderTypes
<1>9. NotReading' /\ ReadBy' /\ DoneIsAtEnd'
  BY <1>1, TwoFormats DEF Reader, NotReading, ReadBy, DoneIsAtEnd
<1>10. AddedHolds' /\ InStep1'
  BY <1>1, TwoFormats DEF AddedHolds, InStep1, Back, Reads2, Reads1
<1>11. ASSUME pos + 1 <= size.n + 1 PROVE ItemHolds(After(r))'
  <2>1. pos <= size.n /\ e \in Entries
    <3>1. e \in Entries
      BY <1>1, ElementOfSeq DEF Writer, WriterTypes, e
    <3> QED BY <1>4, <1>11, <3>1
  <2>2. /\ f \in TextFields => d = e[f]
        /\ f \in RawFields \ {"LTIME"} =>
             /\ e[f] \in FirstNul => d = Empty
             /\ e[f] \notin FirstNul \cup InnerNul => d = e[f] /\ d # Empty
    <3>1. pos \in Nat /\ r.entry # 0
      BY <1>1, <1>4
    <3>2. /\ e \in Entries /\ entries[r.entry] = e /\ f \in Fields /\ size.n \in Nat /\ pos <= size.n
          /\ Places(r.entry)[r.place] = f
      BY <1>3, <1>4, <2>1 DEF e
    <3> QED BY <3>1, <3>2, DataBack
  <2>3. Before(After(r)) = Before(r) \cup {f} /\ f \notin Before(r)
    <3>1. Before(r) = {Places2(e)[j] : j \in 1..r.place - 1}
      BY <1>1 DEF Before
    <3>2. Before(After(r)) = {Places2(e)[j] : j \in 1..r.place}
      BY <1>1, <1>3, <1>5 DEF Before
    <3>3. f = Places2(e)[r.place] /\ r.place \in 1..N
      BY <1>1
    <3>4. f \notin Before(r)
      BY <1>2, <1>3, <3>1, <3>3
    <3>5. 1..r.place = (1..r.place - 1) \cup {r.place}
      BY <1>3
    <3> QED BY <3>1, <3>2, <3>3, <3>4, <3>5
  <2>4. \A g \in Fields : IF g \in Before(r) THEN Back(e, g, item[g]) ELSE item[g] = Blank[g]
    BY <1>1 DEF ItemHolds, e
  <2>5. \A g \in Fields \ {f} : item'[g] = item[g]
    BY <1>7 DEF WithField
  <2>6. item'[f] = IF d = Empty THEN Blank[f] ELSE d
    <3>1. item[f] = Blank[f]
      BY <1>3, <2>3, <2>4
    <3> QED BY <1>3, <1>7, <3>1 DEF WithField
  <2>10. Back(e, f, item'[f])
    BY <1>3, <2>2, <2>6, BlankIsBlank DEF Back
  <2>7. \A g \in Fields : IF g \in Before(After(r)) THEN Back(e, g, item'[g])
                          ELSE item'[g] = Blank[g]
    BY <2>3, <2>4, <2>5, <2>10
  <2>8. \A q : Before(q)' = Before(q) /\ After(q)' = After(q)
    BY SameData
  <2>9. After(r).entry = r.entry /\ entries' = entries
    BY <1>5
  <2>11. Blank' = Blank
    BY DEF Blank
  <2> QED BY <2>7, <2>8, <2>9, <2>11 DEF ItemHolds, Back, e
<1>12. InStep'
  <2>1. Spot(pos)' = After(r) /\ After(r)' = After(r) /\ End' = End
    BY <1>1, SameData
  <2>2. (pos \in 4..End)'
    BY <1>1, <1>4, <2>1
  <2>3. After(r).entry = Len(added) + 1 /\ After(r).place > 1
    BY <1>1, <1>3, <1>5
  <2>4. pos' <= size.n + 1 => ItemHolds(Spot(pos))'
    BY <1>11, <2>1
  <2> QED BY <1>1, <1>4, <2>1, <2>2, <2>3, <2>4 DEF InStep
<1> QED BY <1>8, <1>9, <1>10, <1>12 DEF Reader
\* The entry is complete and is added.
LEMMA EndRead ==
  ASSUME Writer, Reader, pc = "reading", ser = Blowfish2, LengthThere(pos), pos' = pos + 1,
         UNCHANGED <<fmt, asked, entries, at, file, stuck, wrote, saved, size, pc, ser>>,
         NEW r, r = file[pos], Places(r.entry)[r.place] = "END", EntryRead
  PROVE  Reader'
<1> DEFINE e == entries[r.entry]
           N == Len(Places2(e))
           w == item
           n == Len(added)
<1>1. /\ fmt = Blowfish2 /\ size.n >= 3 /\ pos \in 4..End
      /\ r \in Spots /\ r.entry = n + 1 /\ r.entry \in 1..Len(entries)
      /\ r = Spot(pos) /\ After(r) = Spot(pos + 1)
      /\ Places(r.entry) = Places2(e) /\ r.place \in 1..N
      /\ ItemHolds(r) /\ AddedHolds
  BY FieldAt
<1>2. /\ N \in Nat /\ N >= 3
      /\ \A j \in 1..N - 1 : Places2(e)[j] \in Fields
      /\ \A f \in Fields : (\E j \in 1..N - 1 : Places2(e)[j] = f)
                             \/ (f = "PASSWORD" /\ e["PASSWORD"] = Empty)
  BY Places2Facts
<1>3. /\ size.n \in Nat /\ Len(file) \in Nat /\ pos \in 1..Len(file) /\ pos < End /\ End \in Nat
  BY ThereIsRecord
<1>4. /\ added \in Seq([Fields -> Values]) /\ n \in Nat
      /\ item \in [Fields -> Values]
  BY LenProperties DEF Reader, ReaderTypes
<1>5. added' = Append(added, w) /\ item' = Blank /\ begun' = FALSE
  BY DEF EntryRead
<1> HIDE DEF e, N, w, n
<1>6. r.place = N
  <2>1. "END" \notin Fields
    BY DEF Fields, TextFields, RawFields
  <2>2. SUFFICES ASSUME r.place # N PROVE FALSE
    OBVIOUS
  <2>3. r.place \in 1..N - 1
    BY <1>1, <1>2, <2>2
  <2> QED BY <1>1, <1>2, <2>1, <2>3
<1>7. After(r) = [entry |-> r.entry + 1, place |-> 1]
  BY <1>1, <1>6 DEF After, N
<1>8. ASSUME NEW f \in Fields PROVE Back(e, f, item[f])
  <2>1. Before(r) = {Places2(e)[j] : j \in 1..N - 1}
    BY <1>1, <1>6 DEF Before
  <2>2. CASE f \in Before(r)
    BY <1>1, <2>2 DEF ItemHolds, e
  <2>3. CASE f \notin Before(r)
    <3>1. f = "PASSWORD" /\ e["PASSWORD"] = Empty /\ item[f] = Empty
      <4>1. f = "PASSWORD" /\ e["PASSWORD"] = Empty
        BY <1>2, <2>1, <2>3
      <4>2. item[f] = Blank[f]
        BY <1>1, <2>3 DEF ItemHolds
      <4> QED BY <4>1, <4>2, BlankIsBlank DEF TextFields
    <3>2. f \notin RawFields
      BY <3>1 DEF RawFields
    <3> QED BY <3>1, <3>2 DEF Back
  <2> QED BY <2>2, <2>3
<1>11. w \in [Fields -> Values] /\ \A f \in Fields : Back(e, f, w[f])
  BY <1>4, <1>8 DEF w
<1>12. /\ added' \in Seq([Fields -> Values]) /\ Len(added') = n + 1 /\ added'[n + 1] = w
       /\ DOMAIN added' = 1..n + 1 /\ DOMAIN added = 1..n
       /\ \A k \in 1..n : added'[k] = added[k]
  BY <1>4, <1>5, <1>11, AppendProperties, LenProperties DEF n
<1>13. Blank' = Blank
  BY DEF Blank
<1>14. ReaderTypes'
  <2>1. pos' \in 1..Len(file') + 3
    BY <1>3
  <2> QED BY <1>5, <1>12, <2>1, BlankIsBlank DEF ReaderTypes
<1>15. NotReading' /\ ReadBy' /\ DoneIsAtEnd'
  BY <1>1, TwoFormats DEF Reader, NotReading, ReadBy, DoneIsAtEnd
<1>16. AddedHolds'
  <2>1. ASSUME NEW k \in 1..n + 1
        PROVE  \A f \in Fields : Back(entries[k], f, added'[k][f])
    <3>1. CASE k = n + 1
      BY <3>1, <1>1, <1>11, <1>12 DEF e
    <3>2. CASE k # n + 1
      <4>1. k \in 1..n
        BY <1>4, <3>2
      <4> QED BY <4>1, <1>1, <1>12 DEF AddedHolds, Reads2
    <3> QED BY <3>1, <3>2
  <2> QED BY <1>12, <2>1 DEF AddedHolds, Back
<1>17. InStep1'
  BY <1>1, TwoFormats DEF InStep1, Reads1
<1>18. InStep'
  <2>1. Spot(pos)' = After(r) /\ End' = End
    BY <1>1, SameData
  <2>2. (pos \in 4..End)'
    BY <1>1, <1>3, <2>1
  <2>3. ItemHolds(After(r))'
    <3>1. Before(After(r)) = {}
      BY <1>7 DEF Before
    <3>2. \A q : Before(q)' = Before(q)
      BY SameData
    <3>3. Before(After(r))' = {}
      <4>1. After(r)' = After(r)
        BY SameData
      <4> QED BY <3>1, <3>2, <4>1
    <3> QED BY <3>3, <1>5, <1>13 DEF ItemHolds
  <2>4. After(r)' = After(r)
    BY SameData
  <2>5. ItemHolds(Spot(pos))'
    BY <2>1, <2>3, <2>4
  <2>6. Spot(pos)'.entry = Len(added') + 1 /\ Spot(pos)'.place = 1
    BY <1>1, <1>4, <1>7, <1>12, <2>1
  <2>7. (begun <=> Spot(pos).place > 1)' /\ item' = Blank'
    BY <1>5, <1>13, <2>6
  <2> QED BY <1>1, <1>3, <2>2, <2>5, <2>6, <2>7 DEF InStep
<1> QED BY <1>14, <1>15, <1>16, <1>17, <1>18 DEF Reader

LEMMA FieldKeepsReader ==
  ASSUME Writer, Reader, Writer', ReadField
  PROVE  Reader'
<1>1. /\ pc = "reading" /\ ser = Blowfish2
      /\ UNCHANGED <<fmt, asked, entries, at, file, stuck, wrote, saved, size, ser>>
  BY DEF ReadField, writer
<1>2. CASE ~LengthThere(pos) /\ AtEnd
  BY <1>1, <1>2, ReadsUnchanged
<1>3. ASSUME LengthThere(pos), NEW r, r = file[pos], NEW f, f = Places(r.entry)[r.place],
             pos' = pos + 1, UNCHANGED pc,
             \/ f = "END" /\ EntryRead
             \/ /\ f # "END"
                /\ \E d \in DataAt(pos) :
                     item' = WithField(item, f, d)
                /\ begun' = TRUE
                /\ UNCHANGED added
      PROVE  Reader'
  <2>1. CASE f = "END" /\ EntryRead
    BY <1>1, <1>3, <2>1, EndRead
  <2>2. CASE f # "END" /\ begun' = TRUE /\ UNCHANGED added
    BY <1>1, <1>3, <2>2, FieldRead
  <2> QED BY <1>3, <2>1, <2>2
<1> QED BY <1>2, <1>3 DEF ReadField
LEMMA Thirds ==
  \A a, n \in Nat, q, k \in 1..3 : 3 * (a - 1) + q = 3 * n + k => a = n + 1 /\ q = k
OBVIOUS

\* Version 1: what of the three records is there.
LEMMA ThreeRead ==
  ASSUME Writer, Reader, pc = "reading", ser = Blowfish, fmt = Blowfish, LengthThere(pos),
         NEW k \in 1..3
  PROVE  LET p == pos + k - 1
             f == Places1[k]
             e == entries[Len(added) + 1]
             Field == IF LengthThere(p) THEN DataAt(p) ELSE {Empty}
         IN  /\ Field \subseteq {Garbage, Empty, e[f]}
             /\ p <= size.n => Field = {e[f]}
<1> DEFINE p == pos + k - 1
           f == Places1[k]
           n == Len(added)
           e == entries[n + 1]
<1>1. /\ size.n \in Nat /\ Len(file) \in Nat /\ pos \in 1..Len(file)
      /\ pos = 3 * n + 1 /\ n \in Nat
  BY ThereIsRecord, LenProperties DEF Reader, ReaderTypes, InStep1, Reads1
<1>2. size.n <= Len(file) /\ size.half \in BOOLEAN /\ (size.half => size.n < Len(file))
  BY <1>1 DEF Writer, SizeInv
<1>3. f \in TextFields /\ f # "END" /\ f # "LTIME"
  BY Places1Facts DEF TextFields
<1> HIDE DEF f, n
<1>4. SUFFICES ASSUME LengthThere(p)
               PROVE  /\ DataAt(p) \subseteq {Garbage, Empty, e[f]}
                      /\ p <= size.n => DataAt(p) = {e[f]}
  <2>1. p <= size.n => LengthThere(p)
    BY DEF LengthThere
  <2> QED BY <2>1 DEF f, n
<1>5. p \in 1..Len(file) /\ p \in Nat
  BY <1>1, <1>2, <1>4 DEF LengthThere
<1>6. /\ file[p].place \in 1..3 /\ file[p].entry \in Nat /\ file[p].entry <= Len(entries)
      /\ 3 * (file[p].entry - 1) + file[p].place = p /\ Places(file[p].entry) = Places1
  <2>1. file[p] \in Spots /\ ToWrite(file[p]) /\ InThrees(file[p], p)
    BY <1>5, ElementOfSeq DEF Writer, WriterTypes, WrittenInOrder
  <2>2. Places(file[p].entry) = Places1
    BY PlacesFacts
  <2> QED BY <2>1, <2>2, Places1Facts, LenProperties DEF ToWrite, InThrees, Spots
<1>7. file[p].entry = n + 1 /\ file[p].place = k
  <2>1. 3 * (file[p].entry - 1) + file[p].place = 3 * n + k
    BY <1>1, <1>6
  <2>2. PICK a \in Nat, q \in 1..3 : a = file[p].entry /\ q = file[p].place
    BY <1>6
  <2>3. 3 * (a - 1) + q = 3 * n + k
    BY <2>1, <2>2
  <2>4. n \in Nat
    BY <1>1
  <2>5. a = n + 1 /\ q = k
    BY <2>3, <2>4, Thirds
  <2> QED BY <2>2, <2>5
<1>8. e \in Entries
  <2>1. entries \in Seq(Entries) /\ Len(entries) \in Nat
    BY LenProperties DEF Writer, WriterTypes
  <2>2. n + 1 \in 1..Len(entries)
    BY <1>1, <1>6, <1>7, <2>1
  <2> QED BY <2>1, <2>2, ElementOfSeq
<1>9. e[f] \notin FirstNul \cup InnerNul /\ Datum(e, f) = e[f]
  BY <1>3, <1>8, TextAssumption DEF Datum
<1>10. /\ Places(file[p].entry)[file[p].place] = f /\ entries[file[p].entry] = e
       /\ file[p].entry # 0
  BY <1>1, <1>6, <1>7 DEF f
<1>11. DataAt(p) = IF p > size.n THEN {Garbage, Empty} ELSE {e[f]}
  BY <1>3, <1>9, <1>10 DEF DataAt
<1> QED BY <1>1, <1>5, <1>11
LEMMA Entry1KeepsReader ==
  ASSUME Writer, Reader, Writer', ReadEntry1
  PROVE  Reader'
<1> DEFINE Field(k) == IF LengthThere(pos + k - 1) THEN DataAt(pos + k - 1) ELSE {Empty}
           n == Len(added)
           e == entries[n + 1]
           Added1(name, password, notes) ==
             [Blank EXCEPT !["TITLE"] = name, !["PASSWORD"] = password, !["NOTES"] = notes]
<1>1. /\ pc = "reading" /\ ser = Blowfish
      /\ UNCHANGED <<fmt, asked, entries, at, file, stuck, wrote, saved, size, ser, begun, item>>
  BY DEF ReadEntry1, writer
<1>2. /\ pos \in Nat /\ n \in Nat /\ added \in Seq([Fields -> Values]) /\ ~begun
      /\ DOMAIN added = 1..n
  BY <1>1, LenProperties DEF Reader, ReaderTypes, ReadBy
<1>3. InStep' /\ AddedHolds' /\ NotReading' /\ ReadBy'
  <2>1. pc' \in {"reading", "done"}
    BY <1>1 DEF ReadEntry1
  <2> QED BY <1>1, <1>2, <2>1, TwoFormats
         DEF Reader, InStep, AddedHolds, Reads2, NotReading, ReadBy
<1>4. CASE ~LengthThere(pos) /\ pc' = "done" /\ UNCHANGED <<pos, added>>
  <2>1. DoneIsAtEnd'
    BY <1>1, <1>2, <1>4, SameData DEF DoneIsAtEnd
  <2>2. ReaderTypes' /\ InStep1'
    BY <1>1, <1>4, SameData DEF Reader, ReaderTypes, InStep1, Reads1
  <2> QED BY <1>3, <2>1, <2>2 DEF Reader
<1>5. ASSUME LengthThere(pos), NEW name \in Field(1), NEW password \in Field(2), NEW notes \in Field(3),
             added' = Append(added, Added1(name, password, notes)), pos' = pos + 3, UNCHANGED pc
      PROVE  Reader'
  <2> DEFINE m == Added1(name, password, notes)
  <2>1. size.n \in Nat /\ Len(file) \in Nat /\ pos \in 1..Len(file) /\ pos <= size.n + 1
    BY <1>5, ThereIsRecord
  <2>2. Places1[1] = "TITLE" /\ Places1[2] = "PASSWORD" /\ Places1[3] = "NOTES"
    BY Places1Facts
  <2>3. "TITLE" \in Fields /\ "PASSWORD" \in Fields /\ "NOTES" \in Fields
    BY DEF Fields, TextFields
  <2>4. /\ m["TITLE"] = name /\ m["PASSWORD"] = password /\ m["NOTES"] = notes
        /\ \A f \in Fields \ {"TITLE", "PASSWORD", "NOTES"} : m[f] = Blank[f]
        /\ m = [f \in Fields |-> m[f]]
    BY <2>3 DEF Blank
  <2>5. ASSUME fmt = Blowfish
        PROVE  /\ name \in {Garbage, Empty, e["TITLE"]}
               /\ password \in {Garbage, Empty, e["PASSWORD"]}
               /\ notes \in {Garbage, Empty, e["NOTES"]}
               /\ pos + 2 <= size.n =>
                    name = e["TITLE"] /\ password = e["PASSWORD"] /\ notes = e["NOTES"]
    <3> DEFINE Of(k) == /\ Field(k) \subseteq {Garbage, Empty, e[Places1[k]]}
                        /\ pos + k - 1 <= size.n => Field(k) = {e[Places1[k]]}
    <3>1. \A k \in 1..3 : Of(k)
      BY <1>1, <1>5, <2>5, ThreeRead
    <3> HIDE DEF Field, e
    <3>2. Of(1) /\ Of(2) /\ Of(3)
      BY <3>1
    <3>3. pos + 2 <= size.n => /\ pos + 1 - 1 <= size.n /\ pos + 2 - 1 <= size.n
                               /\ pos + 3 - 1 <= size.n
      BY <1>2, <2>1
    <3>4. /\ name \in {Garbage, Empty, e["TITLE"]}
          /\ password \in {Garbage, Empty, e["PASSWORD"]}
          /\ notes \in {Garbage, Empty, e["NOTES"]}
      BY <1>5, <2>2, <3>2
    <3>5. ASSUME pos + 2 <= size.n
          PROVE  name = e["TITLE"] /\ password = e["PASSWORD"] /\ notes = e["NOTES"]
      BY <1>5, <2>2, <3>2, <3>3, <3>5
    <3> QED BY <3>4, <3>5
  <2>6. name \in Values /\ password \in Values /\ notes \in Values
    <3>1. ASSUME NEW k \in 1..3 PROVE Field(k) \subseteq Values
      <4>1. CASE LengthThere(pos + k - 1)
        <5>1. pos + k - 1 \in 1..Len(file)
          BY <2>1, <4>1, SizeFacts DEF LengthThere
        <5> QED BY <4>1, <5>1, DataIsValue
      <4>2. CASE ~LengthThere(pos + k - 1)
        BY <4>2 DEF Values
      <4> QED BY <4>1, <4>2
    <3> HIDE DEF Field
    <3>2. Field(1) \subseteq Values /\ Field(2) \subseteq Values /\ Field(3) \subseteq Values
      BY <3>1
    <3> QED BY <1>5, <3>2
  <2>7. m \in [Fields -> Values]
    <3>1. \A f \in Fields : m[f] \in Values
      BY <2>4, <2>6, BlankIsBlank
    <3> QED BY <2>4, <3>1
  <2> HIDE DEF m
  <2>8. /\ added' \in Seq([Fields -> Values]) /\ Len(added') = n + 1 /\ added'[n + 1] = m
        /\ DOMAIN added' = 1..n + 1 /\ \A k \in 1..n : added'[k] = added[k]
    BY <1>2, <1>5, <2>7, AppendProperties, LenProperties DEF m
  <2>9. ReaderTypes'
    <3>1. pos' \in 1..Len(file') + 3
      BY <1>1, <1>5, <2>1
    <3> QED BY <1>1, <2>8, <3>1 DEF Reader, ReaderTypes
  <2>10. DoneIsAtEnd'
    BY <1>1, <1>5 DEF DoneIsAtEnd
  <2>11. ASSUME fmt = Blowfish PROVE InStep1'
    <3>1. pos = 3 * n + 1 /\ InStep1
      BY <1>1, <2>11 DEF Reader, InStep1, Reads1
    <3>2. pos' = 3 * Len(added') + 1 /\ pos' - 3 = pos
      BY <1>2, <1>5, <2>8, <3>1
    <3>3. ASSUME NEW k \in 1..n + 1
          PROVE  /\ 3 * k <= size.n => added'[k] = Kept1(entries[k])
                 /\ \A f \in Fields : added'[k][f] \in {Kept1(entries[k])[f], Empty, Garbage}
      <4>1. CASE k = n + 1
        <5>1. entries[k] = e /\ added'[k] = m
          BY <2>8, <4>1
        <5>2. \A f \in Fields : Kept1(e)[f] = IF f \in {"TITLE", "PASSWORD", "NOTES"} THEN e[f] ELSE Blank[f]
          BY DEF Kept1
        <5> HIDE DEF e
        <5>3. \A f \in Fields : m[f] \in {Kept1(e)[f], Empty, Garbage}
          BY <2>3, <2>4, <2>5, <2>11, <5>2
        <5>4. ASSUME 3 * k <= size.n PROVE m = Kept1(e)
          <6>1. pos + 2 <= size.n
            BY <1>2, <2>1, <3>1, <4>1, <5>4
          <6>2. \A f \in Fields : m[f] = Kept1(e)[f]
            BY <2>3, <2>4, <2>5, <2>11, <5>2, <6>1
          <6> QED BY <2>4, <6>2 DEF Kept1
        <5> QED BY <5>1, <5>3, <5>4
      <4>2. CASE k # n + 1
        <5>1. k \in 1..n
          BY <1>2, <4>2
        <5> QED BY <1>1, <1>2, <2>8, <2>11, <3>1, <5>1 DEF InStep1, Reads1
      <4> QED BY <4>1, <4>2
    <3>4. (added # <<>> => LengthThere(pos - 3))'
      BY <1>1, <1>5, <3>2, SameData
    <3>5. \A x : Kept1(x)' = Kept1(x)
      BY DEF Kept1, Blank
    <3>6. (\A k \in DOMAIN added :
             /\ 3 * k <= size.n => added[k] = Kept1(entries[k])
             /\ \A f \in Fields : added[k][f] \in {Kept1(entries[k])[f], Empty, Garbage})'
      BY <1>1, <2>8, <3>3, <3>5
    <3> QED BY <3>2, <3>4, <3>6 DEF InStep1
  <2>12. fmt # Blowfish => InStep1'
    <3>1. pos = 3 * n + 1
      BY <1>1 DEF Reader, InStep1
    <3>2. pos' = 3 * Len(added') + 1
      BY <1>2, <1>5, <2>8, <3>1
    <3> QED BY <1>1, <3>2 DEF InStep1, Reads1
  <2> QED BY <1>3, <2>9, <2>10, <2>11, <2>12 DEF Reader
<1> QED BY <1>4, <1>5 DEF ReadEntry1
-----------------------------------------------------------------------------
LEMMA WriterNext == Writer /\ [Next]_vars => Writer'
<1> SUFFICES ASSUME Writer, [Next]_vars PROVE Writer'
  OBVIOUS
<1>1. CASE Read
  <2>1. UNCHANGED <<fmt, asked, entries, at, file, stuck, wrote, saved, size>>
    BY <1>1 DEF Read, ReadHeader, ReadAs1, ReadField, ReadEntry1, writer
  <2>2. ser' \in {Blowfish, Blowfish2}
    BY <1>1, NextFormat
       DEF Writer, WriterTypes, Read, ReadHeader, ReadAs1, ReadField, ReadEntry1, reader
  <2>3. pc' = pc \/ pc' \in {"reading", "done"}
    BY <1>1 DEF Read, ReadHeader, ReadAs1, ReadField, ReadEntry1, AtEnd
  <2> QED BY <2>1, <2>2, <2>3, ReadKeepsWriter
<1>2. CASE UNCHANGED vars
  <2>1. UNCHANGED <<fmt, asked, entries, at, file, stuck, wrote, saved, size, ser, pc>>
    BY <1>2 DEF vars
  <2>2. ser' \in {Blowfish, Blowfish2}
    BY <2>1 DEF Writer, WriterTypes
  <2> QED BY <2>1, <2>2, ReadKeepsWriter
<1> QED BY <1>1, <1>2, WriteKeepsWriter, SkipKeepsWriter, EndKeepsWriter DEF Next, Write

LEMMA ReaderNext == Writer /\ Reader /\ [Next]_vars => Reader'
<1> SUFFICES ASSUME Writer, Reader, [Next]_vars PROVE Reader'
  OBVIOUS
<1>1. Writer'
  BY WriterNext
<1>2. CASE Write \/ Crash
  BY <1>1, <1>2, WriteKeepsReader DEF Write
<1>3. CASE Read
  BY <1>1, <1>3, HeaderKeepsReader, ReadAs1KeepsReader, FieldKeepsReader, Entry1KeepsReader DEF Read
<1>4. CASE UNCHANGED vars
  <2>1. UNCHANGED <<fmt, asked, entries, file, size, ser, pc, pos, begun, item, added>>
    BY <1>4 DEF vars
  <2>2. ReaderTypes' /\ NotReading' /\ ReadBy' /\ DoneIsAtEnd'
    BY <2>1, SameData DEF Reader, ReaderTypes, NotReading, ReadBy, DoneIsAtEnd, Blank
  <2>3. Reads2' = Reads2 /\ Reads1' = Reads1
    BY <2>1 DEF Reads2, Reads1
  <2>4. InStep'
    <3>1. \A r : ItemHolds(r)' = ItemHolds(r)
      BY <2>1, SameData DEF ItemHolds, Back
    <3>2. Blank' = Blank /\ Spot(pos)' = Spot(pos) /\ ItemHolds(Spot(pos))' = ItemHolds(Spot(pos))
      BY <2>1, <3>1, SameData DEF Blank
    <3> QED BY <2>1, <2>3, <3>2, SameData DEF Reader, InStep
  <2>5. AddedHolds' /\ InStep1'
    BY <2>1, <2>3, SameData DEF Reader, AddedHolds, InStep1, Back
  <2> QED BY <2>2, <2>4, <2>5 DEF Reader
<1> QED BY <1>2, <1>3, <1>4 DEF Next

LEMMA RecordsAlways == Spec => [](Writer /\ Reader)
BY InitWriter, InitReader, WriterNext, ReaderNext, PTL DEF Spec

-----------------------------------------------------------------------------
\* What load has added.
LEMMA AddedFacts ==
  ASSUME Writer, Reader
  PROVE  /\ Len(added) \in Nat /\ DOMAIN added = 1..Len(added) /\ Len(entries) \in Nat
         /\ DOMAIN entries = 1..Len(entries) /\ size.n \in Nat /\ Len(file) \in Nat
         /\ ser = Blowfish2 /\ added # <<>> => Reads2 /\ fmt = Blowfish2 /\ size.n >= 3
         /\ ser = fmt => Len(added) <= Len(entries)
<1>1. /\ Len(added) \in Nat /\ DOMAIN added = 1..Len(added) /\ Len(entries) \in Nat
      /\ DOMAIN entries = 1..Len(entries) /\ Len(file) \in Nat
      /\ added \in Seq([Fields -> Values]) /\ file \in Seq(Spots)
  BY LenProperties DEF Writer, WriterTypes, Reader, ReaderTypes
<1>2. size.n \in Nat /\ size.n <= Len(file) /\ size.half \in BOOLEAN /\ (size.half => size.n < Len(file))
  BY <1>1 DEF Writer, SizeInv
<1>3. ASSUME ser = Blowfish2, added # <<>> PROVE Reads2 /\ fmt = Blowfish2 /\ size.n >= 3
  <2>1. Reads2
    BY <1>3 DEF Reader, NotReading, Reads2
  <2> QED BY <1>2, <1>3, <2>1 DEF Reader, ReadBy, InStep, Reads2
<1>4. ASSUME ser = fmt, added # <<>> PROVE Len(added) <= Len(entries)
  <2>1. CASE ser = Blowfish2
    <3>1. Reads2 /\ size.n >= 3
      BY <1>3, <1>4, <2>1
    <3>2. pos \in 4..End /\ Spot(pos).entry = Len(added) + 1
      BY <1>2, <3>1 DEF Reader, InStep
    <3>3. pos - 1 \in 1..Len(file) /\ pos # 1
      BY <1>1, <1>2, <3>2 DEF End
    <3> DEFINE r == file[pos - 1]
    <3>4. r \in Spots /\ ToWrite(r) /\ Spot(pos) = After(r)
      BY <1>1, <3>3, ElementOfSeq DEF Spot, Writer, WrittenInOrder
    <3>5. ToWrite(After(r)) \/ Behind(After(r))
      BY <3>4, AfterFacts DEF Writer
    <3>6. After(r).entry <= Len(entries) + 1
      BY <1>1, <3>5, FirstFacts DEF ToWrite, Behind
    <3> QED BY <1>1, <3>2, <3>4, <3>6
  <2>2. CASE ser = Blowfish
    <3> DEFINE p == 3 * Len(added) - 2
    <3>1. LengthThere(p) /\ Len(added) >= 1
      <4>1. pos = 3 * Len(added) + 1 /\ LengthThere(pos - 3)
        BY <1>4, <2>2 DEF Reader, InStep1, Reads1
      <4>2. pos - 3 = p
        BY <1>1, <4>1
      <4>3. Len(added) # 0
        BY <1>1, <1>4, EmptySeq
      <4> QED BY <1>1, <4>1, <4>2, <4>3
    <3>2. p \in 1..Len(file)
      BY <1>1, <1>2, <3>1 DEF LengthThere
    <3>3. file[p] \in Spots /\ ToWrite(file[p]) /\ InThrees(file[p], p) /\ Places(file[p].entry) = Places1
      BY <1>1, <1>4, <2>2, <3>2, ElementOfSeq, PlacesFacts DEF Writer, WrittenInOrder
    <3>4. /\ file[p].entry \in Nat /\ file[p].entry <= Len(entries) /\ file[p].place \in 1..3
          /\ 3 * (file[p].entry - 1) + file[p].place = 3 * (Len(added) - 1) + 1
      BY <1>1, <1>4, <2>2, <3>3, Places1Facts DEF Spots, ToWrite, InThrees
    <3>5. Len(added) \in Nat /\ Len(added) >= 1
      BY <1>1, <3>1
    <3>6. Len(added) - 1 \in Nat
      BY <3>5
    <3>7. PICK m \in Nat : m = Len(added) - 1
      BY <3>6
    <3>8. file[p].entry = m + 1
      BY <3>4, <3>7, Thirds, SMTT(30)
    <3> QED BY <1>1, <3>4, <3>7, <3>8
  <2> QED BY <2>1, <2>2 DEF Writer, WriterTypes
<1>5. added = <<>> => Len(added) = 0
  BY EmptySeq
<1> QED BY <1>1, <1>2, <1>3, <1>4, <1>5

\* AddedIsPrefix, for any entries and however the file was cut: what load has
\* added are the first entries that were saved, with their own texts
\* (BlowfishLizer2::readEntry, BlowfishLizer::readEntry).
THEOREM PrefixIsLoaded == Spec => []AddedIsPrefix
<1>1. ASSUME Writer, Reader PROVE AddedIsPrefix
  <2>1. ser = fmt => Len(added) <= Len(entries)
    BY <1>1, AddedFacts
  <2>2. ASSUME ser = Blowfish2, NEW k \in DOMAIN added PROVE Texts(added[k]) = Texts(entries[k])
    <3>1. Reads2
      BY <1>1, <2>2, AddedFacts, EmptySeq
    <3>2. \A f \in TextFields : added[k][f] = entries[k][f]
      BY <1>1, <2>2, <3>1 DEF Reader, AddedHolds, Back, Fields
    <3> QED BY <3>2 DEF Texts
  <2>3. ASSUME ser = Blowfish, fmt = Blowfish, NEW k \in DOMAIN added
        PROVE  \/ added[k] = Kept1(entries[k])
               \/ /\ k = Len(added)
                  /\ \A f \in Fields : added[k][f] \in {Kept1(entries[k])[f], Empty, Garbage}
    <3>1. /\ k \in 1..Len(added) /\ Len(added) \in Nat /\ size.n \in Nat
      BY <1>1, <2>3, AddedFacts
    <3>2. InStep1 /\ Reads1 /\ added # <<>>
      BY <1>1, <2>3, <3>1, EmptySeq DEF Reader, Reads1
    <3>3. CASE k = Len(added)
      BY <2>3, <3>2, <3>3 DEF InStep1
    <3>4. CASE k # Len(added)
      <4>1. pos = 3 * Len(added) + 1 /\ LengthThere(pos - 3)
        BY <2>3, <3>2 DEF InStep1
      <4>2. 3 * k <= size.n
        BY <3>1, <3>4, <4>1 DEF LengthThere
      <4> QED BY <2>3, <3>2, <4>2 DEF InStep1
    <3> QED BY <3>3, <3>4
  <2> QED BY <2>1, <2>2, <2>3 DEF AddedIsPrefix
<1> QED BY <1>1, RecordsAlways, PTL

-----------------------------------------------------------------------------
(* What a failed write can cost.  While a safe is written, wrote says that the *)
(* entry under way has begun; and of the entries before it only the last can   *)
(* be cut, and only when nothing is written any more.                        *)

AllTaken(k) == Taken(k, 1) /\ Taken(k, Len(Places(k)))

Written ==
  /\ at.place = 1 => ~wrote
  /\ ~stuck /\ at.place # 1 => wrote
  /\ wrote => Taken(at.entry, 1)
  /\ \A k \in FirstEntry..at.entry - 1 :
       Taken(k, 1) /\ (~stuck \/ wrote \/ k < at.entry - 1 => AllTaken(k))

CutInv == (pc = "writing" => Written) /\ OnlyTheLastIsCut

LEMMA InitCutInv == Init => CutInv
<1> SUFFICES ASSUME Init PROVE CutInv
  OBVIOUS
<1>1. /\ wrote = FALSE /\ at.place = 1 /\ at.entry = FirstEntry /\ FirstEntry \in {0, 1}
  BY FirstFacts DEF Init
<1>2. \A k \in FirstEntry..at.entry - 1 : FALSE
  BY <1>1
<1>3. Written
  BY <1>1, <1>2 DEF Written
<1>4. saved = ""
  BY DEF Init
<1>5. saved # "Success"
  BY <1>4
<1> QED BY <1>3, <1>5 DEF CutInv, OnlyTheLastIsCut

\* What the stream has taken it keeps.
LEMMA TakenStays ==
  ASSUME Writer, UNCHANGED <<fmt, entries>>, file' = file \/ file' = Append(file, at)
  PROVE  /\ \A k, p : Taken(k, p) => Taken(k, p)'
         /\ \A k : Places(k)' = Places(k)
         /\ \A k : AllTaken(k) => AllTaken(k)'
         /\ FirstEntry' = FirstEntry
<1>1. file \in Seq(Spots) /\ at \in Spots
  BY DEF Writer, WriterTypes
<1>2. ASSUME NEW n \in DOMAIN file PROVE n \in DOMAIN file' /\ file'[n] = file[n]
  <2>1. CASE file' = file
    BY <2>1
  <2>2. CASE file' = Append(file, at)
    <3>1. /\ DOMAIN file = 1..Len(file) /\ file' \in Seq(Spots) /\ Len(file') = Len(file) + 1
          /\ \A i \in 1..Len(file) : file'[i] = file[i]
      BY <1>1, <2>2, AppendProperties, LenProperties
    <3>2. DOMAIN file' = 1..Len(file) + 1 /\ Len(file) \in Nat
      BY <1>1, <3>1, LenProperties
    <3> QED BY <3>1, <3>2
  <2> QED BY <2>1, <2>2
<1>3. ASSUME NEW k, NEW p, Taken(k, p) PROVE Taken(k, p)'
  <2>1. PICK n \in DOMAIN file : file[n] = [entry |-> k, place |-> p]
    BY <1>3 DEF Taken
  <2>2. n \in DOMAIN file' /\ file'[n] = [entry |-> k, place |-> p]
    BY <1>2, <2>1
  <2> QED BY <2>2 DEF Taken
<1>4. \A k : Places(k)' = Places(k)
  BY DEF Places
<1>5. ASSUME NEW k, AllTaken(k) PROVE AllTaken(k)'
  <2> DEFINE p == Len(Places(k))
  <2>1. Taken(k, 1) /\ Taken(k, p)
    BY <1>5 DEF AllTaken
  <2>2. PICK q : q = p
    OBVIOUS
  <2>3. Taken(k, 1)' /\ Taken(k, q)'
    BY <1>3, <2>1, <2>2
  <2>4. Len(Places(k))' = q
    BY <1>4, <2>2
  <2> QED BY <2>3, <2>4 DEF AllTaken
<1>6. FirstEntry' = FirstEntry
  BY DEF FirstEntry
<1> QED BY <1>3, <1>4, <1>5, <1>6

\* What is known of the place that is written next.
LEMMA NowWriting ==
  ASSUME Writer, Writing
  PROVE  /\ at = [entry |-> at.entry, place |-> at.place] /\ at.entry \in Nat /\ at.place \in Nat \ {0}
         /\ wrote \in BOOLEAN
         /\ Len(Places(at.entry)) \in Nat /\ at.place <= Len(Places(at.entry))
         /\ saved # "Success"
<1>1. at \in Spots /\ entries \in Seq(Entries) /\ wrote \in BOOLEAN
  BY DEF Writer, WriterTypes
<1>2. (ToWrite(at) \/ Behind(at)) /\ saved = ""
  BY DEF Writer, WrittenInOrder, Writing
<1>3. Len(entries) \in Nat /\ at.entry <= Len(entries)
  BY <1>1, LenProperties DEF Writing
<1>4. ToWrite(at) \/ Behind(at)
  BY <1>2
<1>5. ToWrite(at)
  BY <1>3, <1>4 DEF Behind
<1>6. saved # "Success"
  BY <1>2
<1> QED BY <1>1, <1>5, <1>6, PlacesFacts DEF ToWrite, Spots

\* The next place is in the same entry, or begins the next.
LEMMA NextIs ==
  ASSUME Writer, Writing, at' = NextPlace, NEW some \in BOOLEAN, EndOfEntry(some)
  PROVE  \/ /\ at'.entry = at.entry /\ at'.place # 1 /\ wrote' = some
            /\ at.place < Len(Places(at.entry)) /\ UNCHANGED <<pc, saved>>
         \/ /\ at'.entry = at.entry + 1 /\ at'.place = 1 /\ wrote' = FALSE
            /\ at.place = Len(Places(at.entry))
            /\ (some /\ UNCHANGED <<pc, saved>>) \/ (~some /\ pc' # "writing" /\ saved' # "Success")
<1>1. /\ at = [entry |-> at.entry, place |-> at.place] /\ at.entry \in Nat /\ at.place \in Nat \ {0}
      /\ Len(Places(at.entry)) \in Nat /\ at.place <= Len(Places(at.entry))
  BY NowWriting
<1>2. CASE at.place < Len(Places(at.entry))
  <2>1. at'.entry = at.entry /\ at'.place = at.place + 1
    BY <1>1, <1>2 DEF NextPlace
  <2>2. wrote' = some /\ UNCHANGED <<pc, saved>>
    BY <1>2 DEF EndOfEntry
  <2> QED BY <1>1, <1>2, <2>1, <2>2
<1>3. CASE ~(at.place < Len(Places(at.entry)))
  <2>1. at.place = Len(Places(at.entry))
    BY <1>1, <1>3
  <2>2. at'.entry = at.entry + 1 /\ at'.place = 1
    BY <2>1 DEF NextPlace
  <2>3. wrote' = FALSE /\ IF some THEN UNCHANGED <<pc, saved>> ELSE pc' = "closed" /\ saved' = "IOError"
    BY <1>3 DEF EndOfEntry
  <2>4. (some /\ UNCHANGED <<pc, saved>>) \/ (~some /\ pc' # "writing" /\ saved' # "Success")
    <3>1. CASE some
      BY <2>3, <3>1
    <3>2. CASE ~some
      <4>1. pc' = "closed" /\ saved' = "IOError"
        BY <2>3, <3>2
      <4> QED BY <3>2, <4>1
    <3> QED BY <3>1, <3>2
  <2> QED BY <2>1, <2>2, <2>3, <2>4
<1> QED BY <1>2, <1>3

LEMMA WriteKeepsCut == Writer /\ CutInv /\ WriteRecord => CutInv'
<1> SUFFICES ASSUME Writer, CutInv, WriteRecord, NEW e, e = at.entry, NEW q, q = at.place
             PROVE  CutInv'
  OBVIOUS
<1>1. /\ ~stuck /\ pc = "writing" /\ file' = Append(file, at) /\ at' = NextPlace /\ EndOfEntry(TRUE)
      /\ UNCHANGED <<fmt, entries>> /\ stuck' = stuck /\ Writing
  BY DEF WriteRecord, Writing
<1>2. /\ at = [entry |-> at.entry, place |-> at.place] /\ at.entry \in Nat /\ at.place \in Nat \ {0}
      /\ saved # "Success"
  BY <1>1, NowWriting
<1>3. /\ \A k, p : Taken(k, p) => Taken(k, p)'
      /\ \A k : Places(k)' = Places(k)
      /\ \A k : AllTaken(k) => AllTaken(k)'
      /\ FirstEntry' = FirstEntry
  BY <1>1, TakenStays
<1>4. Taken(e, q)'
  <2>1. file \in Seq(Spots) /\ at \in Spots
    BY DEF Writer, WriterTypes
  <2>2. Len(file) + 1 \in DOMAIN file' /\ file'[Len(file) + 1] = at
    <3>1. Len(file) \in Nat
      BY <2>1, LenProperties
    <3>2. /\ file' \in Seq(Spots) /\ Len(file') = Len(file) + 1 /\ file'[Len(file) + 1] = at
      BY <1>1, <2>1, AppendProperties
    <3>3. DOMAIN file' = 1..Len(file) + 1
      BY <3>2, LenProperties
    <3> QED BY <3>1, <3>2, <3>3
  <2>3. file'[Len(file) + 1] = [entry |-> e, place |-> q]
    BY <1>2, <2>2
  <2> QED BY <2>2, <2>3 DEF Taken
<1>5. Taken(e, 1)'
  <2>1. CASE at.place = 1
    BY <1>4, <2>1
  <2>2. CASE at.place # 1
    <3>1. Taken(e, 1)
      BY <1>1, <2>2 DEF CutInv, Written
    <3> QED BY <1>3, <3>1
  <2> QED BY <2>1, <2>2
<1>6. ASSUME NEW k \in FirstEntry..at.entry - 1 PROVE Taken(k, 1)' /\ AllTaken(k)'
  <2>1. Taken(k, 1) /\ AllTaken(k)
    BY <1>1 DEF CutInv, Written
  <2> QED BY <1>3, <2>1
<1>7. /\ TRUE \in BOOLEAN
      /\ \/ at'.entry = at.entry /\ at'.place # 1 /\ wrote' = TRUE
         \/ /\ at'.entry = at.entry + 1 /\ at'.place = 1 /\ wrote' = FALSE
            /\ at.place = Len(Places(at.entry))
      /\ saved' # "Success"
  BY <1>1, <1>2, NextIs
<1>8. CASE at'.entry = at.entry /\ at'.place # 1 /\ wrote' = TRUE
  <2>1. \A k \in FirstEntry'..at'.entry - 1 : Taken(k, 1)' /\ AllTaken(k)'
    BY <1>3, <1>6, <1>8
  <2>2. Taken(at.entry, 1)'
    BY <1>5, <1>8 DEF Taken
  <2>3. Written'
    BY <1>8, <2>1, <2>2 DEF Written
  <2> QED BY <1>7, <2>3 DEF CutInv, OnlyTheLastIsCut
<1>9. CASE /\ at'.entry = at.entry + 1 /\ at'.place = 1 /\ wrote' = FALSE
           /\ at.place = Len(Places(at.entry))
  <2>1. AllTaken(e)'
    BY <1>3, <1>4, <1>5, <1>9 DEF AllTaken
  <2>2. ASSUME NEW k \in FirstEntry'..at'.entry - 1 PROVE Taken(k, 1)' /\ AllTaken(k)'
    <3>1. CASE k = e
      BY <1>5, <2>1, <3>1
    <3>2. CASE k # e
      <4>1. k \in FirstEntry..at.entry - 1
        BY <1>2, <1>3, <1>9, <2>2, <3>2, FirstFacts
      <4> QED BY <1>6, <4>1
    <3> QED BY <3>1, <3>2
  <2>3. Written'
    BY <1>9, <2>2 DEF Written
  <2> QED BY <1>7, <2>3 DEF CutInv, OnlyTheLastIsCut
<1> QED BY <1>7, <1>8, <1>9

LEMMA SkipKeepsCut == Writer /\ CutInv /\ SkipRecord => CutInv'
<1> SUFFICES ASSUME Writer, CutInv, SkipRecord, NEW e, e = at.entry PROVE CutInv'
  OBVIOUS
<1>1. /\ pc = "writing" /\ at' = NextPlace /\ EndOfEntry(wrote) /\ stuck' = TRUE
      /\ UNCHANGED <<fmt, entries>> /\ file' = file /\ Writing
  BY DEF SkipRecord, Writing
<1>2. at.entry \in Nat /\ wrote \in BOOLEAN /\ saved # "Success"
  BY <1>1, NowWriting
<1>3. /\ \A k, p : Taken(k, p) => Taken(k, p)'
      /\ \A k : Places(k)' = Places(k)
      /\ \A k : AllTaken(k) => AllTaken(k)'
      /\ FirstEntry' = FirstEntry
  BY <1>1, TakenStays
<1>4. ASSUME NEW k \in FirstEntry..at.entry - 1
      PROVE  Taken(k, 1)' /\ (wrote \/ k < at.entry - 1 => AllTaken(k)')
  <2>1. Taken(k, 1) /\ (wrote \/ k < at.entry - 1 => AllTaken(k))
    BY <1>1 DEF CutInv, Written
  <2> QED BY <1>3, <2>1
<1>5. wrote => Taken(e, 1)'
  <2>1. wrote => Taken(e, 1)
    BY <1>1 DEF CutInv, Written
  <2> QED BY <1>3, <2>1
<1>6. \/ /\ at'.entry = at.entry /\ at'.place # 1 /\ wrote' = wrote /\ saved' # "Success"
      \/ /\ at'.entry = at.entry + 1 /\ at'.place = 1 /\ wrote' = FALSE /\ wrote /\ saved' # "Success"
      \/ pc' # "writing" /\ saved' # "Success"
  BY <1>1, <1>2, NextIs
<1>7. CASE at'.entry = at.entry /\ at'.place # 1 /\ wrote' = wrote /\ saved' # "Success"
  <2>1. \A k \in FirstEntry'..at'.entry - 1 :
          Taken(k, 1)' /\ (wrote' \/ k < at'.entry - 1 => AllTaken(k)')
    BY <1>3, <1>4, <1>7
  <2>2. wrote' => Taken(at.entry, 1)'
    BY <1>5, <1>7 DEF Taken
  <2>3. Written'
    BY <1>1, <1>7, <2>1, <2>2 DEF Written
  <2> QED BY <1>7, <2>3 DEF CutInv, OnlyTheLastIsCut
<1>8. CASE at'.entry = at.entry + 1 /\ at'.place = 1 /\ wrote' = FALSE /\ wrote /\ saved' # "Success"
  <2>1. ASSUME NEW k \in FirstEntry'..at'.entry - 1
        PROVE  Taken(k, 1)' /\ (k < at'.entry - 1 => AllTaken(k)')
    <3>1. CASE k = e
      BY <1>2, <1>5, <1>8, <3>1
    <3>2. CASE k # e
      <4>1. k \in FirstEntry..at.entry - 1
        BY <1>2, <1>3, <1>8, <2>1, <3>2, FirstFacts
      <4> QED BY <1>4, <1>8, <4>1
    <3> QED BY <3>1, <3>2
  <2>2. Written'
    BY <1>1, <1>8, <2>1 DEF Written
  <2> QED BY <1>8, <2>2 DEF CutInv, OnlyTheLastIsCut
<1>9. CASE pc' # "writing" /\ saved' # "Success"
  BY <1>9 DEF CutInv, OnlyTheLastIsCut
<1> QED BY <1>6, <1>7, <1>8, <1>9

LEMMA OthersKeepCut ==
  ASSUME Writer, CutInv,
         UNCHANGED <<fmt, entries, at, file, stuck, wrote>>,
         pc' = "writing" => pc = "writing",
         saved' = saved \/ SaveDone
  PROVE  CutInv'
<1>1. Written' = Written
  BY DEF Written, AllTaken, Taken, Places, FirstEntry
<1>2. CASE saved' = saved
  <2>1. OnlyTheLastIsCut' = OnlyTheLastIsCut
    BY <1>2 DEF OnlyTheLastIsCut, Taken, Places
  <2> QED BY <1>1, <2>1 DEF CutInv
<1>3. CASE SaveDone
  <2>1. ASSUME NEW k \in DOMAIN entries
        PROVE  Taken(k, 1) /\ (k < Len(entries) => Taken(k, Len(Places(k))))
    <3>1. entries \in Seq(Entries) /\ at \in Spots
      BY DEF Writer, WriterTypes
    <3>2. /\ pc = "writing" /\ at.entry > Len(entries) /\ Len(entries) \in Nat /\ at.entry \in Nat
          /\ DOMAIN entries = 1..Len(entries)
      BY <1>3, <3>1, LenProperties DEF SaveDone, Spots
    <3>3. k \in FirstEntry..at.entry - 1 /\ (k < Len(entries) => k < at.entry - 1)
      BY <3>2, FirstFacts
    <3> QED BY <3>2, <3>3 DEF CutInv, Written, AllTaken
  <2>2. \A k \in DOMAIN entries' :
          Taken(k, 1)' /\ (k < Len(entries') => Taken(k, Len(Places(k)))')
    BY <2>1 DEF Taken, Places
  <2> QED BY <1>1, <2>2 DEF CutInv, OnlyTheLastIsCut
<1> QED BY <1>2, <1>3

\* OnlyTheLastIsCut, for any entries and wherever the disk fills up: the sum that
\* writeEntry answers is zero for the first entry that finds the disk full at
\* its beginning, and saveGroup goes no further.
THEOREM CutIsTheLast == Spec => []OnlyTheLastIsCut
<1>1. ASSUME Writer, CutInv, [Next]_vars PROVE CutInv'
  <2>1. CASE SaveDone \/ Close \/ Crash
    <3>1. /\ UNCHANGED <<fmt, entries, at, file, stuck, wrote>> /\ pc' # "writing"
          /\ saved' = saved \/ SaveDone
      BY <2>1 DEF SaveDone, Close, Crash
    <3> QED BY <1>1, <3>1, OthersKeepCut
  <2>2. CASE Read
    <3>1. /\ UNCHANGED <<fmt, entries, at, file, stuck, wrote, saved>>
          /\ pc' = "writing" => pc = "writing"
      BY <2>2 DEF Read, ReadHeader, ReadAs1, ReadField, ReadEntry1, AtEnd, writer
    <3> QED BY <1>1, <3>1, OthersKeepCut
  <2>3. CASE UNCHANGED vars
    BY <1>1, <2>3, OthersKeepCut DEF vars
  <2> QED BY <1>1, <2>1, <2>2, <2>3, WriteKeepsCut, SkipKeepsCut DEF Next, Write
<1>2. CutInv => OnlyTheLastIsCut
  BY DEF CutInv
<1> QED BY <1>1, <1>2, InitCutInv, InitWriter, WriterNext, PTL DEF Spec

\* RawFieldsKept: a raw field without a NUL byte comes back through the C
\* string, and one that begins with NUL is what SafeEntry::init made.
THEOREM RawFieldsComeBack == Spec => []RawFieldsKept
<1>1. ASSUME Writer, Reader PROVE RawFieldsKept
  <2>1. ASSUME ser = Blowfish2, NEW k \in DOMAIN added, NEW f \in RawFields \ {"LTIME"}
        PROVE  /\ entries[k][f] \in FirstNul => added[k][f] = Made
               /\ entries[k][f] \notin FirstNul \cup InnerNul => added[k][f] = entries[k][f]
    <3>1. Reads2
      BY <1>1, <2>1, AddedFacts, EmptySeq
    <3>2. f \in Fields
      BY <2>1 DEF Fields
    <3>3. Back(entries[k], f, added[k][f])
      BY <1>1, <2>1, <3>1, <3>2 DEF Reader, AddedHolds
    <3>4. f \in RawFields \ {"LTIME"}
      BY <2>1
    <3> QED BY <3>3, <3>4 DEF Back
  <2> QED BY <2>1 DEF RawFieldsKept
<1> QED BY <1>1, RecordsAlways, PTL

-----------------------------------------------------------------------------
\* What SafeFile is told of the file, and what it makes of it.
LEMMA SeenAs ==
  /\ Part \in {"header", "whole", "cut", "mid"}
  /\ Part = "header" <=> size.n = 0
  /\ Part = "whole" => Complete
  /\ Part = "mid" <=> size.n # 0 /\ ~Complete
                        /\ ~Boundary(IF size.half THEN size.n + 1 ELSE size.n)
BY DEF Part

LEMMA Abstracted ==
  /\ loadErrors(Blowfish, OnDisk) = {"Success"}
  /\ loadErrors(Blowfish2, OnDisk) = IF fmt # Blowfish2 \/ Part = "header" THEN {"BadFormat"}
                                     ELSE IF Part = "mid" THEN {"hang"} ELSE {"Success"}
  /\ \A s : Loaded(s, OnDisk).intact <=> Part = "whole" /\ fmt = s
<1>1. OnDisk.fmt = fmt /\ OnDisk.intact = TRUE /\ OnDisk.part = Part
  BY DEF OnDisk
<1>2. Part # "none"
  BY SeenAs
<1>3. Blowfish # Xml /\ Blowfish # PlainText /\ Blowfish2 # Xml /\ Blowfish2 # PlainText
  BY DEF PlainText, Blowfish2, Blowfish, Xml
<1>4. loadErrors(Blowfish, OnDisk) = {"Success"}
  BY <1>3, TwoFormats DEF loadErrors
<1>5. loadErrors(Blowfish2, OnDisk) = IF fmt # Blowfish2 \/ Part = "header" THEN {"BadFormat"}
                                      ELSE IF Part = "mid" THEN {"hang"} ELSE {"Success"}
  BY <1>1, <1>2, <1>3, TwoFormats DEF loadErrors
<1>6. \A s : Loaded(s, OnDisk).intact <=> Part = "whole" /\ fmt = s
  BY <1>1 DEF Loaded
<1> QED BY <1>4, <1>5, <1>6

\* The record the file ends in, once the reader has come to the end of it.
LEMMA AtTheEnd ==
  ASSUME Writer, Reader, Reads2, size.n >= 3, ~LengthThere(pos), NEW r, r = file[pos - 1]
  PROVE  /\ pos - 1 = IF size.half THEN size.n + 1 ELSE size.n
         /\ r \in Spots /\ After(r) = Spot(pos)
         /\ Boundary(pos - 1) <=> r.entry = 0 \/ r.place = Len(Places(r.entry))
<1>1. /\ size.n \in Nat /\ size.half \in BOOLEAN /\ Len(file) \in Nat /\ size.n <= Len(file)
      /\ (size.half => size.n < Len(file)) /\ file \in Seq(Spots)
  BY SizeFacts
<1>2. pos \in 4..End
  BY <1>1 DEF Reader, InStep
<1>3. /\ pos - 1 = IF size.half THEN size.n + 1 ELSE size.n
      /\ pos - 1 \in 1..Len(file) /\ pos # 1
  BY <1>1, <1>2 DEF End, LengthThere
<1> QED BY <1>1, <1>3, ElementOfSeq DEF Spot, Boundary

\* A complete file is read to its end: what save was at when it was through.
LEMMA BehindAll ==
  ASSUME Writer, Complete
  PROVE  /\ size.n = Len(file) /\ size.half = FALSE /\ Len(file) \in Nat /\ Len(entries) \in Nat
         /\ Spot(Len(file) + 1) = [entry |-> Len(entries) + 1, place |-> 1]
         /\ fmt = Blowfish => Len(file) = 3 * Len(entries)
         /\ fmt # Blowfish => 3 * Len(entries) + 3 <= Len(file)
<1>1. Len(file) \in Nat /\ Len(entries) \in Nat
  BY LenProperties DEF Writer, WriterTypes
<1>2. size.n = Len(file) /\ size.half = FALSE
  BY <1>1 DEF Writer, SizeInv, Complete
<1>3. /\ at = Spot(Len(file) + 1) /\ at = [entry |-> Len(entries) + 1, place |-> 1]
      /\ InThrees(at, Len(file) + 1)
  BY DEF Writer, WrittenInOrder, Behind, Complete
<1>4. /\ fmt = Blowfish => Len(file) = 3 * Len(entries)
      /\ fmt # Blowfish => 3 * Len(entries) + 3 <= Len(file)
  BY <1>1, <1>3 DEF InThrees
<1> QED BY <1>1, <1>2, <1>3, <1>4

\* Version 2: a load that is through found the end of the file between two
\* entries.
LEMMA DoneBetween ==
  ASSUME Writer, Reader, pc = "done", ser = Blowfish2
  PROVE  /\ fmt = Blowfish2 /\ size.n >= 1
         /\ Boundary(IF size.half THEN size.n + 1 ELSE size.n)
<1>1. /\ size.n \in Nat /\ size.half \in BOOLEAN /\ Len(file) \in Nat /\ size.n <= Len(file)
      /\ (size.half => size.n < Len(file))
  BY SizeFacts
<1>2. Reads2 /\ fmt = Blowfish2 /\ size.n >= 1 /\ ~begun /\ ~LengthThere(pos)
  BY DEF Reads2, Reader, ReadBy, DoneIsAtEnd
<1>3. CASE size.n < 3
  <2> DEFINE x == IF size.half THEN size.n + 1 ELSE size.n
  <2>1. x \in 1..3 /\ x <= Len(file)
    BY <1>1, <1>2, <1>3
  <2>2. file[x] = [entry |-> 0, place |-> x]
    BY <1>2, <2>1, HeaderIsThree
  <2>3. Boundary(x)
    BY <2>2 DEF Boundary
  <2> QED BY <1>2, <2>3
<1>4. CASE size.n >= 3
  <2> DEFINE r == file[pos - 1]
  <2>1. ~(Spot(pos).place > 1)
    BY <1>1, <1>2, <1>4 DEF Reader, InStep
  <2>2. r \in Spots /\ After(r) = Spot(pos)
    BY <1>2, <1>4, AtTheEnd
  <2>3. r.place = Len(Places(r.entry))
    BY <2>1, <2>2 DEF After, Spots
  <2> QED BY <1>2, <1>4, <2>3, AtTheEnd
<1> QED BY <1>1, <1>3, <1>4

\* A load that is through with a complete file has added every entry.
LEMMA WholeIsRead ==
  ASSUME Writer, Reader, pc = "done", Complete, size.n # 0, fmt = ser
  PROVE  /\ Len(added) = Len(entries)
         /\ \A k \in DOMAIN entries : Texts(added[k]) = Texts(Exact(entries[k]))
<1>1. /\ size.n = Len(file) /\ size.half = FALSE /\ Len(file) \in Nat /\ Len(entries) \in Nat
      /\ Spot(Len(file) + 1) = [entry |-> Len(entries) + 1, place |-> 1] /\ size.n \in Nat
  BY BehindAll, SizeFacts
<1>2. /\ Len(added) \in Nat /\ DOMAIN added = 1..Len(added) /\ DOMAIN entries = 1..Len(entries)
      /\ Len(added) <= Len(entries)
  BY AddedFacts
<1>3. ~LengthThere(pos)
  BY DEF Reader, DoneIsAtEnd
<1>4. CASE ser = Blowfish2
  <2>1. Reads2 /\ fmt = Blowfish2
    BY <1>4 DEF Reads2
  <2>2. ~(size.n < 3)
    <3> SUFFICES ASSUME size.n < 3 PROVE FALSE
      OBVIOUS
    <3>1. size.n \in Nat
      BY <1>1
    <3>2. size.n \in {1, 2}
      BY <3>1
    <3>3. file[size.n] = [entry |-> 0, place |-> size.n]
      BY <1>1, <2>1, <3>2, HeaderIsThree
    <3>4. Spot(size.n + 1) = After(file[size.n])
      BY <3>2 DEF Spot
    <3>5. Len(Places(0)) = 3
      BY PlacesFacts, Places1Facts
    <3>6. After(file[size.n]).entry = 0
      BY <3>2, <3>3, <3>5 DEF After
    <3> QED BY <1>1, <3>4, <3>6
  <2>3. pos = Len(file) + 1 /\ Spot(pos).entry = Len(added) + 1
    <3>1. Spot(pos).entry = Len(added) + 1 /\ pos \in 4..End
      BY <2>1, <2>2 DEF Reader, InStep
    <3>2. pos - 1 = size.n
      BY <1>1, <1>3, <2>1, <2>2, AtTheEnd
    <3> QED BY <1>1, <3>1, <3>2 DEF End
  <2>4. Spot(pos) = [entry |-> Len(entries) + 1, place |-> 1]
    BY <1>1, <2>3
  <2>5. Len(added) + 1 = Len(entries) + 1
    BY <2>3, <2>4
  <2>6. Len(added) \in Nat /\ Len(entries) \in Nat
    BY <1>1, <1>2
  <2>7. Len(added) = Len(entries)
    BY <2>5, <2>6
  <2>8. ASSUME NEW k \in DOMAIN entries PROVE Texts(added[k]) = Texts(Exact(entries[k]))
    <3>1. \A f \in TextFields : added[k][f] = entries[k][f]
      BY <1>2, <2>1, <2>7 DEF Reader, AddedHolds, Back, Fields
    <3> QED BY <2>1, <3>1, TwoFormats DEF Texts, Exact
  <2> QED BY <2>7, <2>8
<1>5. CASE ser = Blowfish
  <2>1. Reads1 /\ Len(file) = 3 * Len(entries)
    BY <1>5, BehindAll DEF Reads1
  <2>2. pos = 3 * Len(added) + 1
    BY <1>5 DEF Reader, InStep1
  <2>3. ~(pos <= size.n)
    BY <1>3 DEF LengthThere
  <2>4. ~(3 * Len(added) + 1 <= 3 * Len(entries))
    BY <1>1, <2>1, <2>2, <2>3
  <2>5. Len(added) \in Nat /\ Len(entries) \in Nat /\ Len(added) <= Len(entries)
    BY <1>1, <1>2
  <2>6. Len(added) = Len(entries)
    BY <2>4, <2>5
  <2>7. ASSUME NEW k \in DOMAIN entries PROVE Texts(added[k]) = Texts(Exact(entries[k]))
    <3>1. k \in DOMAIN added /\ 3 * k <= size.n
      BY <1>1, <1>2, <2>1, <2>6
    <3>2. added[k] = Kept1(entries[k])
      BY <2>1, <3>1 DEF Reader, InStep1
    <3> QED BY <1>5, <3>2 DEF Exact
  <2> QED BY <2>6, <2>7
<1> QED BY <1>4, <1>5 DEF Writer, WriterTypes

\* Version 2: the loop of readEntry that never ends is met only in a file that
\* stops inside an entry.
LEMMA HangsInside ==
  ASSUME Writer, Reader, AtEof
  PROVE  /\ fmt = Blowfish2 /\ size.n # 0 /\ ~Complete
         /\ ~Boundary(IF size.half THEN size.n + 1 ELSE size.n)
<1>1. /\ Reads2 /\ fmt = Blowfish2 /\ size.n >= 1 /\ begun /\ ~LengthThere(pos)
      /\ size.n \in Nat /\ Len(added) \in Nat
  BY AddedFacts DEF AtEof, Reads2, Reader, ReadBy
<1>2. size.n >= 3 /\ Spot(pos).place > 1 /\ Spot(pos).entry = Len(added) + 1
  BY <1>1 DEF Reader, InStep
<1> DEFINE r == file[pos - 1]
<1>3. /\ pos - 1 = IF size.half THEN size.n + 1 ELSE size.n
      /\ r \in Spots /\ After(r) = Spot(pos)
  BY <1>1, <1>2, AtTheEnd
<1>4. r.place # Len(Places(r.entry)) /\ r.entry # 0
  BY <1>1, <1>2, <1>3 DEF After, Spots
<1>5. ~Boundary(pos - 1)
  BY <1>1, <1>2, <1>4, AtTheEnd
<1>6. ~Complete
  <2> SUFFICES ASSUME Complete PROVE FALSE
    OBVIOUS
  <2>1. /\ size.half = FALSE /\ size.n = Len(file)
        /\ Spot(Len(file) + 1) = [entry |-> Len(entries) + 1, place |-> 1]
    BY BehindAll
  <2>2. size.half = FALSE /\ size.n = Len(file) /\ Spot(Len(file) + 1).place = 1
    BY <2>1
  <2>3. pos = Len(file) + 1
    BY <1>3, <2>2 DEF Reader, ReaderTypes
  <2> QED BY <1>2, <2>2, <2>3
<1> QED BY <1>1, <1>3, <1>5, <1>6

\* A complete version 2 file that was read as version 1 has more items than it
\* has entries.
LEMMA OtherIsMore ==
  ASSUME Writer, Reader, pc = "done", Complete, ser # fmt
  PROVE  Len(added) # Len(entries)
<1>1. fmt # Blowfish /\ ser = Blowfish
  <2>1. fmt \in {Blowfish, Blowfish2} /\ ser \in {Blowfish, Blowfish2}
    BY DEF Writer, WriterTypes
  <2>2. ser = Blowfish2 => fmt = Blowfish2
    BY DEF Reader, ReadBy
  <2> QED BY <2>1, <2>2
<1>2. /\ size.n = Len(file) /\ Len(file) \in Nat /\ Len(entries) \in Nat
      /\ 3 * Len(entries) + 3 <= Len(file)
  BY <1>1, BehindAll
<1>3. pos = 3 * Len(added) + 1 /\ ~(pos <= size.n) /\ Len(added) \in Nat
  BY <1>1, AddedFacts DEF Reader, InStep1, DoneIsAtEnd, LengthThere
<1> QED BY <1>2, <1>3

\* LoadsAsAbstracted: the outcomes and the intactness SafeFile reckons with
\* (loadErrors, Loaded) are those of the loops that read record by record, for
\* every cut of every file and both serializers.
THEOREM AbstractionIsRight == Spec => []LoadsAsAbstracted
<1>1. ASSUME Writer, Reader PROVE LoadsAsAbstracted
  <2>1. ASSUME pc = "done" PROVE "Success" \in loadErrors(ser, OnDisk)
    <3>1. CASE ser = Blowfish2
      <4>1. fmt = Blowfish2 /\ Part # "header" /\ Part # "mid"
        BY <1>1, <2>1, <3>1, DoneBetween, SeenAs
      <4> QED BY <3>1, <4>1, Abstracted
    <3>2. CASE ser = Blowfish
      BY <3>2, Abstracted
    <3> QED BY <1>1, <3>1, <3>2 DEF Writer, WriterTypes
  <2>2. ASSUME pc = "done", Loaded(ser, OnDisk).intact PROVE AllThere
    <3>1. Part = "whole" /\ fmt = ser
      BY <2>2, Abstracted
    <3>2. Complete /\ size.n # 0
      BY <3>1, SeenAs
    <3> QED BY <1>1, <2>2, <3>1, <3>2, WholeIsRead DEF AllThere
  <2>3. ASSUME pc = "done", Part = "whole", AllThere PROVE Loaded(ser, OnDisk).intact
    <3>1. Complete
      BY <2>3, SeenAs
    <3>2. ser = fmt
      BY <1>1, <2>3, <3>1, OtherIsMore DEF AllThere
    <3> QED BY <2>3, <3>2, Abstracted
  <2>4. ASSUME AtEof PROVE "hang" \in loadErrors(Blowfish2, OnDisk)
    <3>1. fmt = Blowfish2 /\ Part = "mid" /\ Part # "header"
      BY <1>1, <2>4, HangsInside, SeenAs
    <3> QED BY <3>1, Abstracted
  <2>5. ASSUME ser # asked PROVE "BadFormat" \in loadErrors(asked, OnDisk)
    <3>1. asked = Blowfish2 /\ (fmt # Blowfish2 \/ Part = "header")
      BY <1>1, <2>5, TwoFormats, SeenAs DEF Reader, ReadBy, Writer, WriterTypes
    <3> QED BY <3>1, Abstracted
  <2> QED BY <2>1, <2>2, <2>3, <2>4, <2>5 DEF LoadsAsAbstracted
<1> QED BY <1>1, RecordsAlways, PTL
==============================================================================
