------------------------------- MODULE Secret -------------------------------
(***************************************************************************)
(* A pass-phrase and the passwords of a safe from the dialog to the file   *)
(* and back: EncryptedString keeps them encrypted in memory, GenRandhash   *)
(* and makeBlowfish turn the pass-phrase into a check value and a key,     *)
(* writeCBC and readCBC put records into the file.  A pointer that may be  *)
(* NULL is a set of at most one string.                                    *)
(***************************************************************************)
EXTENDS Cbc, Digest, Integers

CONSTANTS
  Obj,            \* EncryptedString objects
  Texts,          \* what may be typed: sequences of bytes other than 0
  Fields,         \* what records hold
  Seeds, Ivs,     \* blocks initCBC and save may draw
  Stuffs, Salts,  \* what save may draw for randstuff and the salt
  AlgorKey,       \* the 32 bytes EncryptedString::algor is keyed with
  HashBytes(_),   \* the twenty bytes of a digest
  Stirs,          \* how often GenRandhash encrypts: 1000 in the code
  MaxRecords      \* bound on the records of a file

\* Bytes are the numbers below the radix, the length of a field fits into a signed
\* word of four of them, and what save draws are blocks and bytes.
TwoTo32 == Radix * (Radix * (Radix * Radix))

ASSUME SecretAssumption ==
  /\ Byte = 0..(Radix - 1)
  /\ Texts \subseteq Seq(Byte) /\ <<>> \in Texts
  /\ Fields \subseteq Seq(Byte) /\ \A data \in Fields : 2 * Len(data) < TwoTo32
  /\ Seeds \subseteq Block /\ Ivs \subseteq Block /\ Stuffs \subseteq Block
  /\ Salts \subseteq Seq(Byte)
  /\ AlgorKey \in Seq(Byte) /\ AlgorKey # <<>>
  /\ Stirs \in Nat /\ MaxRecords \in Nat /\ MaxRecords <= Radix

\* A digest comes to twenty bytes.
ASSUME DigestAssumption ==
  \A data \in Texts :
    /\ \A stuff \in Stuffs :
         HashBytes(DigestOf("constants", stuff \o <<0, 0>> \o data)) \in [1..20 -> Byte]
    /\ \A salt \in Salts : HashBytes(DigestOf("constants", data \o salt)) \in [1..20 -> Byte]

VARIABLES
  obj,      \* the objects
  text,     \* the text each was last given; "" and NULL read back the same
  header,   \* randstuff, randhash and salt of the file
  saved,    \* the text and the records the file was saved with
  toWrite,  \* blocks of a record that writeCBC has still to write
  phase,    \* "edit", "save" or "closed"
  opened    \* the object the file was checked with and the answer

vars == <<cbcVars, obj, text, header, saved, toWrite, phase, opened>>

-----------------------------------------------------------------------------
(* EncryptedString: m_data is NULL when data is empty.                     *)

TheText(str) == IF str = {} THEN <<>> ELSE CHOOSE s \in str : TRUE

\* Both writers fill the last block up with zeros; nothing is one block too.
BlocksOf(data) ==
  LET filled == data \o Zeros(8)
  IN  [n \in 1..(IF data = <<>> THEN 1 ELSE (Len(data) + 7) \div 8) |->
         SubSeq(filled, 8 * n - 7, 8 * n)]

BytesOf(blocks, n) == [i \in 1..n |-> blocks[((i - 1) \div 8) + 1][((i - 1) % 8) + 1]]

algor == bf_setkey(AlgorKey)

Sealed(cbc, blocks) ==
  LET out[n \in 1..Len(blocks)] ==
        encrypt(algor, XorBlock(blocks[n], IF n = 1 THEN cbc ELSE out[n - 1]))
  IN  out

Unsealed(cbc, data) ==
  [n \in DOMAIN data |-> XorBlock(decrypt(algor, data[n]), IF n = 1 THEN cbc ELSE data[n - 1])]

\* The hash is left as the memory was.
Constructed(seed) == [cbc |-> seed, data |-> <<>>, length |-> 0, hash |-> Wiped]

get(es) ==
  IF es.data # <<>> /\ es.length > 0
  THEN {BytesOf(Unsealed(es.cbc, es.data), es.length)} ELSE {}

Emptied(es) == [cbc |-> es.cbc, data |-> <<>>, length |-> 0, hash |-> es.hash]

trashAndDelete(es) == IF es.data = <<>> THEN es ELSE Emptied(es)

Hashed(es) ==
  [cbc |-> es.cbc, data |-> es.data, length |-> es.length,
   hash |-> sha1_final(sha1_write(sha1_init, TheText(get(es))))]

Filling(es, t) ==
  [cbc |-> es.cbc, data |-> Sealed(es.cbc, BlocksOf(t)), length |-> Len(t), hash |-> es.hash]

\* A set that leaves the hash of the last text.
set_StaleHash(es, str) ==
  IF str = {} THEN trashAndDelete(es) ELSE Filling(es, TheText(str))

set(es, str) ==
  IF str = {} THEN trashAndDelete(es) ELSE Hashed(Filling(es, TheText(str)))

CopyOf(es) == IF es.length = 0 THEN Emptied(es) ELSE es

Equal(a, b) == IF a.length = 0 \/ b.length = 0 THEN a.length = b.length ELSE a.hash = b.hash

-----------------------------------------------------------------------------
(* Check value and key.                                                    *)

digest(h) == With(h, HashBytes)

\* The first block is encrypted over and over, the two bytes behind it stay.
Stirred(k, stuff, Cipher(_, _)) ==
  LET after[n \in 0..Stirs] ==
        IF n = 0 THEN SubSeq(stuff, 1, 8) ELSE With(after[n - 1], LAMBDA x : Cipher(k, x))
  IN  after[Stirs] \o SubSeq(stuff, 9, 10)

\* The second digest goes on in the context that the first has wiped.
GenRandhash(str, stuff) ==
  LET context == SHA1Update(SHA1Init, stuff)
      Of(data) ==
        LET tempSalt == digest(SHA1Final(SHA1Update(context, data)))
            tempbuf  == Stirred(InitializeBlowfish(tempSalt), stuff, PwsEncrypt)
        IN  [hash |-> SHA1Final(SHA1Update(AfterFinal, tempbuf)),
             left |-> IF str = {} THEN {} ELSE {Overwritten(context, data)}]
  IN  With(TheText(str), Of)

makeBlowfish(str, salt) ==
  bf_setkey(digest(sha1_final(sha1_write(sha1_write(sha1_init, TheText(str)), salt))))

\* One decrypted string for both.
KeyPhrase_Shared(str, left) == left

\* GenRandhash is given a copy: the string that makes the key is decrypted
\* anew, it is not the memory that SHA1Transform has written over.
KeyPhrase(str, left) == str

Stuff(h) == h.stuff \o <<0, 0>>

\* Safe::checkPassword by way of BlowfishLizer::checkPassword.
checkPassword(es) == GenRandhash(get(es), Stuff(header)).hash = header.hash

-----------------------------------------------------------------------------
(* Records: a block of length and type, then the data in whole blocks.     *)

LengthBlock(n, type) ==
  LET n1 == n \div Radix
      n2 == n1 \div Radix
  IN  <<n % Radix, n1 % Radix, n2 % Radix, (n2 \div Radix) % Radix, type, 0, 0, 0>>

getInt32(b) ==
  LET n == b[1] + Radix * (b[2] + Radix * (b[3] + Radix * b[4]))
  IN  IF 2 * n >= TwoTo32 THEN n - TwoTo32 ELSE n

writeCBC(data, type) == <<LengthBlock(Len(data), type)>> \o BlocksOf(data)

\* data.set((const char *)buffer) stops at the first 0.
Cut(data) == IF \E n \in DOMAIN data : data[n] = 0
             THEN SubSeq(data, 1, SelectInSeq(data, LAMBDA b : b = 0) - 1) ELSE data

\* One more block for readCBC, which wants to know how many are to come.  A
\* record of negative length ends the reading.
ReadOn(r, b) ==
  IF r.length < 0 THEN r
  ELSE IF r.want = 0
  THEN LET n == getInt32(b)
       IN  [want |-> IF n = 0 THEN 1 ELSE (n + 7) \div 8, length |-> n, type |-> b[5],
            blocks |-> <<>>, records |-> r.records]
  ELSE LET blocks == Append(r.blocks, b)
           record == [type |-> r.type, data |-> Cut(BytesOf(blocks, r.length))]
       IN  [want |-> r.want - 1, length |-> r.length, type |-> r.type, blocks |-> blocks,
            records |-> IF r.want = 1 THEN Append(r.records, record) ELSE r.records]

AtStart == [want |-> 0, length |-> 0, type |-> 0, blocks |-> <<>>, records |-> <<>>]

Records(blocks) ==
  LET read[n \in 0..Len(blocks)] ==
        IF n = 0 THEN AtStart ELSE With(read[n - 1], LAMBDA r : ReadOn(r, blocks[n]))
  IN  read[Len(blocks)].records

\* Of the texts that may be typed no two have one check value, whatever is drawn:
\* more than that nobody will find two, SHA-1 and Blowfish do not promise.
ASSUME CollisionAssumption ==
  \A stuff \in Stuffs : \A t, u \in Texts :
    GenRandhash({t}, stuff \o <<0, 0>>).hash = GenRandhash({u}, stuff \o <<0, 0>>).hash => t = u

-----------------------------------------------------------------------------
NoFile == [stuff |-> <<>>, hash |-> Fresh, salt |-> <<>>]

NotOpened == [by |-> {}, ok |-> FALSE]

Init ==
  /\ \E seed \in Seeds : obj = [o \in Obj |-> Constructed(seed)]
  /\ text = [o \in Obj |-> <<>>]
  /\ \E ip \in Ivs : CbcInit(algor, ip)
  /\ header = NoFile /\ saved = [text |-> <<>>, records |-> <<>>]
  /\ toWrite = <<>> /\ phase = "edit" /\ opened = NotOpened

Edit(o, es, t) ==
  /\ phase = "edit"
  /\ obj' = [obj EXCEPT ![o] = es]
  /\ text' = [text EXCEPT ![o] = t]
  /\ UNCHANGED <<cbcVars, header, saved, toWrite, phase, opened>>

Construct(o) == \E seed \in Seeds : Edit(o, Constructed(seed), <<>>)

SetText(o) == \E t \in Texts : Edit(o, set(obj[o], {t}), t)

SetFrom(o) == \E p \in Obj : Edit(o, set(obj[o], get(obj[p])), text[p])

CopyConstruct(o) == \E p \in Obj \ {o} : Edit(o, CopyOf(obj[p]), text[p])

Clear(o) == Edit(o, trashAndDelete(obj[o]), <<>>)

\* save: header, check value and key.  getPassPhrase gives a new object that
\* was set to the pass-phrase of the safe.
Save(o) ==
  /\ phase = "edit"
  /\ \E stuff \in Stuffs, salt \in Salts, ip \in Ivs, seed \in Seeds :
       LET passphrase == get(set(Constructed(seed), get(obj[o])))
           made       == GenRandhash(passphrase, stuff \o <<0, 0>>)
       IN  /\ header' = [stuff |-> stuff, hash |-> made.hash, salt |-> salt]
           /\ StartWrite(makeBlowfish(KeyPhrase(passphrase, made.left), salt), ip)
  /\ saved' = [text |-> text[o], records |-> <<>>]
  /\ phase' = "save"
  /\ UNCHANGED <<obj, text, toWrite, opened>>

NextRecord ==
  /\ phase = "save" /\ toWrite = <<>> /\ Len(saved.records) < MaxRecords
  /\ \E data \in Fields :
       LET type == Len(saved.records)
       IN  /\ toWrite' = writeCBC(data, type)
           /\ saved' = [text |-> saved.text,
                        records |-> Append(saved.records, [type |-> type, data |-> data])]
  /\ UNCHANGED <<cbcVars, obj, text, header, phase, opened>>

WriteNext ==
  /\ phase = "save" /\ toWrite # <<>>
  /\ WriteBlock(Head(toWrite))
  /\ toWrite' = Tail(toWrite)
  /\ UNCHANGED <<obj, text, header, saved, phase, opened>>

Close ==
  /\ phase = "save" /\ toWrite = <<>>
  /\ phase' = "closed"
  /\ UNCHANGED <<cbcVars, obj, text, header, saved, toWrite, opened>>

\* The pass-phrase is checked, and the file is read if it is right.
Open(o) ==
  /\ phase = "closed" /\ opened = NotOpened
  /\ opened' = [by |-> {o}, ok |-> checkPassword(obj[o])]
  /\ IF opened'.ok THEN StartRead(makeBlowfish(get(obj[o]), header.salt)) ELSE UNCHANGED cbcVars
  /\ UNCHANGED <<obj, text, header, saved, toWrite, phase>>

ReadNext ==
  /\ phase = "closed" /\ opened.ok
  /\ ReadBlock
  /\ UNCHANGED <<obj, text, header, saved, toWrite, phase, opened>>

Next ==
  \/ \E o \in Obj : Construct(o) \/ SetText(o) \/ SetFrom(o) \/ CopyConstruct(o) \/ Clear(o)
  \/ \E o \in Obj : Save(o) \/ Open(o)
  \/ NextRecord \/ WriteNext \/ Close \/ ReadNext

Spec == Init /\ [][Next]_vars

-----------------------------------------------------------------------------
\* An EncryptedString gives back the text it was last given, by whatever
\* sequence of sets, copies and clears, and two compare equal if and only if
\* they hold the same text, whatever each held before.
HoldsItsText ==
  \A o, p \in Obj : /\ get(obj[o]) = IF text[o] = <<>> THEN {} ELSE {text[o]}
                    /\ Equal(obj[o], obj[p]) <=> text[o] = text[p]

\* A saved file is opened by the pass-phrase it was saved under and by no other,
\* and gives back every record, up to its first 0 (checkPassword, load, save).
OpensAgain ==
  opened # NotOpened =>
    /\ opened.ok <=> \A o \in opened.by : text[o] = saved.text
    /\ opened.ok /\ Len(got) = Len(file) =>
         Records(got) = [n \in DOMAIN saved.records |->
                           [type |-> saved.records[n].type, data |-> Cut(saved.records[n].data)]]

\* Key and check value are those of the Password Safe format, SHA-1 taken of the
\* whole text, however long it is and however the two implementations cut it,
\* and whichever of the two Blowfish classes stirs.
FormatKept ==
  phase = "save" /\ saved.records = <<>> =>
    LET key == digest(DigestOf("constants", Stuff(header) \o saved.text))
    IN  /\ wkey = InitializeBlowfish(digest(DigestOf("constants", saved.text \o header.salt)))
        /\ header.hash = DigestOf("zeros", Stirred(bf_setkey(key), Stuff(header), encrypt))
=============================================================================
